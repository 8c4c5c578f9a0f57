----------------------------- MODULE QueryCodec -----------------------------
(***************************************************************************)
(* The encoding of the queries and their answers (types/query.pb.go), laid *)
(* out as in TxCodec.  A request without fields writes nothing, and its    *)
(* decoder steps over whatever it finds.                                   *)
(***************************************************************************)
EXTENDS TxCodec

QueryRootRequest == <<>>

QueryRootResponse ==
    <<BytesField(1, "root")>>

QueryRootResponseEntries(m) ==
    PutBytes(1, m.root)

QueryRootResponseSize(m) ==
    SizeBytes(m.root)

QueryNullifierStatusRequest ==
    <<BytesField(1, "nullifier")>>

QueryNullifierStatusRequestEntries(m) ==
    PutBytes(1, m.nullifier)

QueryNullifierStatusRequestSize(m) ==
    SizeBytes(m.nullifier)

QueryNullifierStatusResponse ==
    <<BoolField(1, "spent")>>

QueryNullifierStatusResponseEntries(m) ==
    PutBool(1, m.spent)

QueryNullifierStatusResponseSize(m) ==
    SizeBool(m.spent)

QueryTreeInfoRequest == <<>>

QueryTreeInfoResponse ==
    <<Uint64Field(1, "next_index"), BytesField(2, "root"), Uint32Field(3, "depth"),
      Uint64Field(4, "active_tree_id"), Uint64Field(5, "tree_count")>>

QueryTreeInfoResponseEntries(m) ==
    PutUint(1, m.next_index) \o PutBytes(2, m.root) \o PutUint(3, m.depth)
        \o PutUint(4, m.active_tree_id) \o PutUint(5, m.tree_count)

QueryTreeInfoResponseSize(m) ==
    SizeUint(m.next_index) + SizeBytes(m.root) + SizeUint(m.depth)
        + SizeUint(m.active_tree_id) + SizeUint(m.tree_count)

QueryParamsRequest == <<>>

QueryParamsResponse ==
    <<PointerField(1, "params", Params)>>

QueryParamsResponseEntries(m) ==
    PutMessages(1, Each(m.params, ParamsEntries))

QueryParamsResponseSize(m) ==
    SizeMessages(Each(m.params, ParamsSize))

QueryRegistrationRootRequest == <<>>

QueryRegistrationRootResponse ==
    <<BytesField(1, "root")>>

QueryRegistrationRootResponseEntries(m) ==
    PutBytes(1, m.root)

QueryRegistrationRootResponseSize(m) ==
    SizeBytes(m.root)

QueryAuditorKeyRequest == <<>>

QueryAuditorKeyResponse ==
    <<BytesField(1, "auditor_pub_key")>>

QueryAuditorKeyResponseEntries(m) ==
    PutBytes(1, m.auditor_pub_key)

QueryAuditorKeyResponseSize(m) ==
    SizeBytes(m.auditor_pub_key)

QuerySupportedDenomsRequest == <<>>

QuerySupportedDenomsResponse ==
    <<BytesListField(1, "denoms")>>

QuerySupportedDenomsResponseEntries(m) ==
    PutEach(1, m.denoms)

QuerySupportedDenomsResponseSize(m) ==
    SizeEach(m.denoms)

=============================================================================
