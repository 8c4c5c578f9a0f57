---------------------------- MODULE GenesisCodec ----------------------------
(***************************************************************************)
(* The encoding of the genesis state (types/genesis.pb.go) and of the      *)
(* module's configuration (types/module.pb.go), laid out as in TxCodec.    *)
(***************************************************************************)
EXTENDS TxCodec

VerificationKeyEntry ==
    <<BytesField(1, "circuit_name"), BytesField(2, "vk_data")>>

VerificationKeyEntryEntries(m) ==
    PutBytes(1, m.circuit_name) \o PutBytes(2, m.vk_data)

VerificationKeyEntrySize(m) ==
    SizeBytes(m.circuit_name) + SizeBytes(m.vk_data)

AuditorDataEntry ==
    <<BytesField(1, "tx_hash"), BytesField(2, "data")>>

AuditorDataEntryEntries(m) ==
    PutBytes(1, m.tx_hash) \o PutBytes(2, m.data)

AuditorDataEntrySize(m) ==
    SizeBytes(m.tx_hash) + SizeBytes(m.data)

TreeState ==
    <<Uint64Field(1, "tree_id"), BytesListField(2, "commitments"),
      BytesListField(3, "frontier"), Uint64Field(4, "next_index"),
      BytesField(5, "merkle_root"), BytesListField(6, "root_history")>>

TreeStateEntries(m) ==
    PutUint(1, m.tree_id) \o PutEach(2, m.commitments) \o PutEach(3, m.frontier)
        \o PutUint(4, m.next_index) \o PutBytes(5, m.merkle_root)
        \o PutEach(6, m.root_history)

TreeStateSize(m) ==
    SizeUint(m.tree_id) + SizeEach(m.commitments) + SizeEach(m.frontier)
        + SizeUint(m.next_index) + SizeBytes(m.merkle_root)
        + SizeEach(m.root_history)

GenesisState ==
    <<PointerField(1, "params", Params), MessageListField(2, "trees", TreeState),
      Uint64Field(3, "active_tree_id"), Uint64Field(4, "tree_count"),
      BytesListField(5, "reg_commitments"), BytesListField(6, "reg_frontier"),
      Uint64Field(7, "reg_next_index"), BytesField(8, "reg_merkle_root"),
      BytesListField(9, "nullifiers"),
      MessageListField(10, "auditor_data", AuditorDataEntry),
      BytesListField(11, "commitments_used"),
      MessageListField(12, "verification_keys", VerificationKeyEntry)>>

GenesisStateEntries(m) ==
    PutMessages(1, Each(m.params, ParamsEntries))
        \o PutMessages(2, Each(m.trees, TreeStateEntries)) \o PutUint(3, m.active_tree_id)
        \o PutUint(4, m.tree_count) \o PutEach(5, m.reg_commitments)
        \o PutEach(6, m.reg_frontier) \o PutUint(7, m.reg_next_index)
        \o PutBytes(8, m.reg_merkle_root) \o PutEach(9, m.nullifiers)
        \o PutMessages(10, Each(m.auditor_data, AuditorDataEntryEntries))
        \o PutEach(11, m.commitments_used)
        \o PutMessages(12, Each(m.verification_keys, VerificationKeyEntryEntries))

GenesisStateSize(m) ==
    SizeMessages(Each(m.params, ParamsSize)) + SizeMessages(Each(m.trees, TreeStateSize))
        + SizeUint(m.active_tree_id) + SizeUint(m.tree_count)
        + SizeEach(m.reg_commitments) + SizeEach(m.reg_frontier)
        + SizeUint(m.reg_next_index) + SizeBytes(m.reg_merkle_root)
        + SizeEach(m.nullifiers)
        + SizeMessages(Each(m.auditor_data, AuditorDataEntrySize))
        + SizeEach(m.commitments_used)
        + SizeMessages(Each(m.verification_keys, VerificationKeyEntrySize))

Module ==
    <<BytesField(1, "authority")>>

ModuleEntries(m) ==
    PutBytes(1, m.authority)

ModuleSize(m) ==
    SizeBytes(m.authority)

=============================================================================
