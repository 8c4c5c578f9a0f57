------------------------------- MODULE Codec --------------------------------
(***************************************************************************)
(* A message on its way: marshalled by its sender, perhaps cut short,      *)
(* joined with another one or extended with fields this version does not   *)
(* know, and read back by the loop of its Unmarshal, one field a step.     *)
(* The messages inside it are read within the step of their field.        *)
(***************************************************************************)
EXTENDS QueryCodec, GenesisCodec

CONSTANTS
    Kinds,       \* the message types that are sent
    AnyKinds,    \* those that arbitrary strings are read as
    Long,        \* a byte string whose length takes a varint of two bytes
    Alphabet,    \* the bytes of the arbitrary strings
    MaxBytes     \* bound: their length

VARIABLES
    kind,      \* the type of the message
    sent,      \* the message its sender marshalled
    edit,      \* what became of the bytes on the way
    bytes,     \* the bytes that arrived
    at,        \* the offset of the reader
    got,       \* the message read so far
    turns,     \* the turns of the loop so far
    status     \* "reading", "done" or an error

vars == <<kind, sent, edit, bytes, at, got, turns, status>>

(* The types that the generated files register. *)
MessageTypes ==
    {"MsgRegister", "MsgRegisterResponse", "MsgDeposit", "MsgDepositResponse",
     "OutputNote", "MsgTransact", "MsgTransactResponse", "MsgUpdateParams",
     "MsgUpdateParamsResponse", "MsgSetVerificationKey",
     "MsgSetVerificationKeyResponse", "Params", "GenesisState", "TreeState",
     "AuditorDataEntry", "VerificationKeyEntry", "Module", "QueryRootRequest",
     "QueryRootResponse", "QueryNullifierStatusRequest",
     "QueryNullifierStatusResponse", "QueryTreeInfoRequest",
     "QueryTreeInfoResponse", "QueryParamsRequest", "QueryParamsResponse",
     "QueryRegistrationRootRequest", "QueryRegistrationRootResponse",
     "QueryAuditorKeyRequest", "QueryAuditorKeyResponse",
     "QuerySupportedDenomsRequest", "QuerySupportedDenomsResponse"}

(* The table, the entries and the size of a message by its type. *)
TableOf(kind_) ==
    CASE kind_ = "Params"                        -> Params
      [] kind_ = "OutputNote"                    -> OutputNote
      [] kind_ = "MsgRegister"                   -> MsgRegister
      [] kind_ = "MsgRegisterResponse"           -> MsgRegisterResponse
      [] kind_ = "MsgDeposit"                    -> MsgDeposit
      [] kind_ = "MsgDepositResponse"            -> MsgDepositResponse
      [] kind_ = "MsgTransact"                   -> MsgTransact
      [] kind_ = "MsgTransactResponse"           -> MsgTransactResponse
      [] kind_ = "MsgUpdateParams"               -> MsgUpdateParams
      [] kind_ = "MsgUpdateParamsResponse"       -> MsgUpdateParamsResponse
      [] kind_ = "MsgSetVerificationKey"         -> MsgSetVerificationKey
      [] kind_ = "MsgSetVerificationKeyResponse" -> MsgSetVerificationKeyResponse
      [] kind_ = "QueryRootRequest"              -> QueryRootRequest
      [] kind_ = "QueryRootResponse"             -> QueryRootResponse
      [] kind_ = "QueryNullifierStatusRequest"   -> QueryNullifierStatusRequest
      [] kind_ = "QueryNullifierStatusResponse"  -> QueryNullifierStatusResponse
      [] kind_ = "QueryTreeInfoRequest"          -> QueryTreeInfoRequest
      [] kind_ = "QueryTreeInfoResponse"         -> QueryTreeInfoResponse
      [] kind_ = "QueryParamsRequest"            -> QueryParamsRequest
      [] kind_ = "QueryParamsResponse"           -> QueryParamsResponse
      [] kind_ = "QueryRegistrationRootRequest"  -> QueryRegistrationRootRequest
      [] kind_ = "QueryRegistrationRootResponse" -> QueryRegistrationRootResponse
      [] kind_ = "QueryAuditorKeyRequest"        -> QueryAuditorKeyRequest
      [] kind_ = "QueryAuditorKeyResponse"       -> QueryAuditorKeyResponse
      [] kind_ = "QuerySupportedDenomsRequest"   -> QuerySupportedDenomsRequest
      [] kind_ = "QuerySupportedDenomsResponse"  -> QuerySupportedDenomsResponse
      [] kind_ = "VerificationKeyEntry"          -> VerificationKeyEntry
      [] kind_ = "AuditorDataEntry"              -> AuditorDataEntry
      [] kind_ = "TreeState"                     -> TreeState
      [] kind_ = "GenesisState"                  -> GenesisState
      [] kind_ = "Module"                        -> Module

EntriesOf(kind_, m) ==
    CASE kind_ = "Params"                        -> ParamsEntries(m)
      [] kind_ = "OutputNote"                    -> OutputNoteEntries(m)
      [] kind_ = "MsgRegister"                   -> MsgRegisterEntries(m)
      [] kind_ = "MsgRegisterResponse"           -> MsgRegisterResponseEntries(m)
      [] kind_ = "MsgDeposit"                    -> MsgDepositEntries(m)
      [] kind_ = "MsgDepositResponse"            -> MsgDepositResponseEntries(m)
      [] kind_ = "MsgTransact"                   -> MsgTransactEntries(m)
      [] kind_ = "MsgTransactResponse"           -> MsgTransactResponseEntries(m)
      [] kind_ = "MsgUpdateParams"               -> MsgUpdateParamsEntries(m)
      [] kind_ = "MsgSetVerificationKey"         -> MsgSetVerificationKeyEntries(m)
      [] kind_ = "QueryRootResponse"             -> QueryRootResponseEntries(m)
      [] kind_ = "QueryNullifierStatusRequest"   -> QueryNullifierStatusRequestEntries(m)
      [] kind_ = "QueryNullifierStatusResponse"  -> QueryNullifierStatusResponseEntries(m)
      [] kind_ = "QueryTreeInfoResponse"         -> QueryTreeInfoResponseEntries(m)
      [] kind_ = "QueryParamsResponse"           -> QueryParamsResponseEntries(m)
      [] kind_ = "QueryRegistrationRootResponse" -> QueryRegistrationRootResponseEntries(m)
      [] kind_ = "QueryAuditorKeyResponse"       -> QueryAuditorKeyResponseEntries(m)
      [] kind_ = "QuerySupportedDenomsResponse"  -> QuerySupportedDenomsResponseEntries(m)
      [] kind_ = "VerificationKeyEntry"          -> VerificationKeyEntryEntries(m)
      [] kind_ = "AuditorDataEntry"              -> AuditorDataEntryEntries(m)
      [] kind_ = "TreeState"                     -> TreeStateEntries(m)
      [] kind_ = "GenesisState"                  -> GenesisStateEntries(m)
      [] kind_ = "Module"                        -> ModuleEntries(m)
      [] OTHER -> <<>>

SizeOf(kind_, m) ==
    CASE kind_ = "Params"                        -> ParamsSize(m)
      [] kind_ = "OutputNote"                    -> OutputNoteSize(m)
      [] kind_ = "MsgRegister"                   -> MsgRegisterSize(m)
      [] kind_ = "MsgRegisterResponse"           -> MsgRegisterResponseSize(m)
      [] kind_ = "MsgDeposit"                    -> MsgDepositSize(m)
      [] kind_ = "MsgDepositResponse"            -> MsgDepositResponseSize(m)
      [] kind_ = "MsgTransact"                   -> MsgTransactSize(m)
      [] kind_ = "MsgTransactResponse"           -> MsgTransactResponseSize(m)
      [] kind_ = "MsgUpdateParams"               -> MsgUpdateParamsSize(m)
      [] kind_ = "MsgSetVerificationKey"         -> MsgSetVerificationKeySize(m)
      [] kind_ = "QueryRootResponse"             -> QueryRootResponseSize(m)
      [] kind_ = "QueryNullifierStatusRequest"   -> QueryNullifierStatusRequestSize(m)
      [] kind_ = "QueryNullifierStatusResponse"  -> QueryNullifierStatusResponseSize(m)
      [] kind_ = "QueryTreeInfoResponse"         -> QueryTreeInfoResponseSize(m)
      [] kind_ = "QueryParamsResponse"           -> QueryParamsResponseSize(m)
      [] kind_ = "QueryRegistrationRootResponse" -> QueryRegistrationRootResponseSize(m)
      [] kind_ = "QueryAuditorKeyResponse"       -> QueryAuditorKeyResponseSize(m)
      [] kind_ = "QuerySupportedDenomsResponse"  -> QuerySupportedDenomsResponseSize(m)
      [] kind_ = "VerificationKeyEntry"          -> VerificationKeyEntrySize(m)
      [] kind_ = "AuditorDataEntry"              -> AuditorDataEntrySize(m)
      [] kind_ = "TreeState"                     -> TreeStateSize(m)
      [] kind_ = "GenesisState"                  -> GenesisStateSize(m)
      [] kind_ = "Module"                        -> ModuleSize(m)
      [] OTHER -> 0

-----------------------------------------------------------------------------
(***************************************************************************)
(* The messages sent: empty, full, or with one field set.                  *)
(***************************************************************************)

TypicalPlain(field) ==
    CASE field.type = "bytes"     -> <<7>>
      [] field.type = "bytesList" -> <<<<>>, <<200, 0>>>>
      [] field.type = "bool"      -> TRUE
      [] field.type = "packed"    -> <<1, 300>>
      [] OTHER                    -> 1

FullPlain(table) == [name \in Names(table) |-> TypicalPlain(FieldNamed(table, name))]

Typical(field) ==
    CASE field.type = "pointer"     -> <<FullPlain(field.table)>>
      [] field.type = "messageList" -> <<EmptyMessage(field.table), FullPlain(field.table)>>
      [] OTHER                      -> TypicalPlain(field)

Full(table) == [name \in Names(table) |-> Typical(FieldNamed(table, name))]

Unusual(field) ==
    CASE field.type = "bytes"   -> {Long}
      [] field.type = "uint64"  -> {128, TwoTo[WordBits] - 1}
      [] field.type = "uint32"  -> {128, TwoTo[HalfBits] - 1}
      [] field.type = "packed"  -> {<<0>>}
      [] field.type = "pointer" -> {<<EmptyMessage(field.table)>>}
      [] OTHER                  -> {}

Samples(table) ==
    {EmptyMessage(table), Full(table)} \cup
    UNION {{[EmptyMessage(table) EXCEPT ![table[i].name] = value] :
               value \in {Typical(table[i])} \cup Unusual(table[i])} : i \in DOMAIN table}

(* What is sent are messages of those types.  Their bytes can be counted   *)
(* by an int, as those of every slice are, also when two messages are      *)
(* joined or one is extended by at most nine bytes.                        *)
ASSUME KindsAssumption == Kinds \subseteq MessageTypes /\ AnyKinds \subseteq MessageTypes

ASSUME BytesAssumption ==
    Long \in Seq(0..255) /\ Alphabet \subseteq 0..255 /\ MaxBytes \in Nat

ASSUME LengthAssumption ==
    \A k \in Kinds : \A m \in Samples(TableOf(k)) :
        2 * Len(FlattenSeq(EntriesOf(k, m))) + 9 < TwoTo[WordBits - 1]

-----------------------------------------------------------------------------
(***************************************************************************)
(* What may happen to the bytes.                                           *)
(***************************************************************************)

(* Entries of a field number no table has: a varint, eight bytes, a byte    *)
(* string, four bytes, and a group with a group inside.                     *)
UnknownEntries ==
    {<<120, 172, 2>>, <<121, 1, 2, 3, 4, 5, 6, 7, 8>>, <<122, 2, 10, 200>>,
     <<125, 1, 2, 3, 4>>, <<123, 8, 5, 19, 10, 1, 0, 20, 124>>}

(* The offsets between two entries of a message. *)
Boundaries(entries) == {Len(FlattenSeq(SubSeq(entries, 1, n))) : n \in 0..Len(entries)}

Edited(k, message) ==
    LET entries == EntriesOf(k, message)
        whole   == Marshal(entries, SizeOf(k, message)).value
    IN  {[edit |-> [how |-> "whole"], bytes |-> whole]}
        \cup {[edit |-> [how |-> "cut", length |-> n], bytes |-> SubSeq(whole, 1, n)] :
                 n \in 0..(Len(whole) - 1)}
        \cup {[edit  |-> [how |-> "joined", other |-> other],
               bytes |-> whole \o Marshal(EntriesOf(k, other), SizeOf(k, other)).value] :
                 other \in Samples(TableOf(k))}
        \cup {[edit  |-> [how |-> "extended"],
               bytes |-> SubSeq(whole, 1, n) \o entry \o SubSeq(whole, n + 1, Len(whole))] :
                 n \in Boundaries(entries), entry \in UnknownEntries}

-----------------------------------------------------------------------------

(* A message of some type was sent, and something may have happened to it. *)
SentInit ==
    /\ kind \in Kinds
    /\ sent \in Samples(TableOf(kind))
    /\ \E delivery \in Edited(kind, sent) :
          edit = delivery.edit /\ bytes = delivery.bytes

(* Any string of bytes at all, where a message of some type is expected. *)
AnyInit ==
    /\ kind \in AnyKinds
    /\ sent = EmptyMessage(TableOf(kind))
    /\ edit = [how |-> "any"]
    /\ bytes \in UNION {[1..n -> Alphabet] : n \in 0..MaxBytes}

Init ==
    /\ SentInit \/ AnyInit
    /\ at = 0
    /\ turns = 0
    /\ got = EmptyMessage(TableOf(kind))
    /\ status = "reading"

ReadNext ==
    LET turn == ReadField(TableOf(kind), bytes, at, got)
    IN  /\ status = "reading"
        /\ at < Len(bytes)
        /\ IF turn.ok
           THEN at' = turn.next /\ got' = turn.value /\ UNCHANGED status
           ELSE status' = turn.error /\ UNCHANGED <<at, got>>
        /\ turns' = turns + 1
        /\ UNCHANGED <<kind, sent, edit, bytes>>

Finish ==
    /\ status = "reading"
    /\ at >= Len(bytes)
    /\ status' = IF at > Len(bytes) THEN "eof" ELSE "done"
    /\ UNCHANGED <<kind, sent, edit, bytes, at, got, turns>>

Next == ReadNext \/ Finish

Spec == Init /\ [][Next]_vars

-----------------------------------------------------------------------------
(***************************************************************************)
(* Properties.                                                             *)
(***************************************************************************)

(* A message that arrives whole is read back as it was sent: Size, Marshal  *)
(* and Unmarshal agree on every field of every type, at the lengths where   *)
(* a varint grows and at the ends of the integer ranges.                    *)
WholeIsRestored ==
    edit.how = "whole" => status \in {"reading", "done"} /\ (status = "done" => got = sent)

(* A string that was cut is refused, unless the cut fell between two        *)
(* entries: no Unmarshal takes half a field for a whole one.                *)
CutIsNoticed ==
    edit.how = "cut" /\ status = "done"
        => edit.length \in Boundaries(EntriesOf(kind, sent))

(* Two messages of one type, the second one written over the first. *)
MergedPlain(field, a, b) ==
    IF field.type \in {"bytesList", "packed"} THEN a \o b
    ELSE IF b = Unset(field.type) THEN a ELSE b

MergedInner(table, a, b) ==
    [name \in Names(table) |-> MergedPlain(FieldNamed(table, name), a[name], b[name])]

MergedField(field, a, b) ==
    CASE field.type = "messageList" -> a \o b
      [] field.type = "pointer" /\ a # <<>> /\ b # <<>> ->
            <<MergedInner(field.table, a[1], b[1])>>
      [] OTHER -> MergedPlain(field, a, b)

Merged(table, a, b) ==
    [name \in Names(table) |-> MergedField(FieldNamed(table, name), a[name], b[name])]

(* Two messages in one string are read as the one that protobuf defines:    *)
(* later values win, lists are joined and embedded messages merged.         *)
JoinedIsMerged ==
    edit.how = "joined"
        => /\ status \in {"reading", "done"}
           /\ status = "done" => got = Merged(TableOf(kind), sent, edit.other)

(* Fields of a later version, wherever they stand, leave no trace and do no *)
(* harm: skip steps over each wire type and over groups in groups.          *)
UnknownIsSkipped ==
    edit.how = "extended"
        => status \in {"reading", "done"} /\ (status = "done" => got = sent)

(* Whatever was accepted can be marshalled again, and reads the same. *)
AcceptedIsStable ==
    status = "done" =>
        LET again == Marshal(EntriesOf(kind, got), SizeOf(kind, got))
        IN  again.ok /\ LET table == TableOf(kind)
                        IN  Unmarshal(table, again.value, EmptyMessage(table)) = Read(got, Len(again.value))

(* Every turn of the loop takes a byte or ends it, and no turn leaves the  *)
(* string: no length, however large or negative, moves the reader back,    *)
(* keeps it in place or lets it run past the end.                          *)
TurnsTakeBytes == status = "reading" => turns <= at /\ at <= Len(bytes)
=============================================================================
