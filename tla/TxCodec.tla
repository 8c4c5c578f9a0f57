------------------------------ MODULE TxCodec -------------------------------
(***************************************************************************)
(* The encoding of the transactions' messages (types/tx.pb.go) and of the  *)
(* parameters (types/types.pb.go).  A message has up to three definitions: *)
(* its table, by which Unmarshal reads it; the entries that                *)
(* MarshalToSizedBuffer writes, in the order they end up in; and its Size. *)
(* Strings are bytes.                                                      *)
(***************************************************************************)
EXTENDS WireFormat

Params ==
    <<Uint32Field(1, "tree_depth"), Uint32Field(2, "reg_tree_depth"),
      BytesField(3, "auditor_pub_key"), BytesListField(4, "supported_denoms"),
      BytesField(5, "chain_binding")>>

ParamsEntries(m) ==
    PutUint(1, m.tree_depth) \o PutUint(2, m.reg_tree_depth)
        \o PutBytes(3, m.auditor_pub_key) \o PutEach(4, m.supported_denoms)
        \o PutBytes(5, m.chain_binding)

ParamsSize(m) ==
    SizeUint(m.tree_depth) + SizeUint(m.reg_tree_depth)
        + SizeBytes(m.auditor_pub_key) + SizeEach(m.supported_denoms)
        + SizeBytes(m.chain_binding)

OutputNote ==
    <<BytesField(1, "note_hash"), BytesField(2, "ephemeral_x"),
      BytesField(3, "ephemeral_y"), BytesField(4, "enc_amount"),
      BytesField(5, "enc_salt"), BytesField(6, "auditor_enc"),
      BytesField(7, "auditor_auth_key_x"), BytesField(8, "auditor_auth_key_y"),
      BytesField(9, "auditor_enc_recipient")>>

OutputNoteEntries(m) ==
    PutBytes(1, m.note_hash) \o PutBytes(2, m.ephemeral_x)
        \o PutBytes(3, m.ephemeral_y) \o PutBytes(4, m.enc_amount)
        \o PutBytes(5, m.enc_salt) \o PutBytes(6, m.auditor_enc)
        \o PutBytes(7, m.auditor_auth_key_x) \o PutBytes(8, m.auditor_auth_key_y)
        \o PutBytes(9, m.auditor_enc_recipient)

OutputNoteSize(m) ==
    SizeBytes(m.note_hash) + SizeBytes(m.ephemeral_x) + SizeBytes(m.ephemeral_y)
        + SizeBytes(m.enc_amount) + SizeBytes(m.enc_salt) + SizeBytes(m.auditor_enc)
        + SizeBytes(m.auditor_auth_key_x) + SizeBytes(m.auditor_auth_key_y)
        + SizeBytes(m.auditor_enc_recipient)

MsgRegister ==
    <<BytesField(1, "sender"), BytesField(2, "identity_commitment"),
      BytesField(3, "proof"), BytesField(4, "public_inputs"),
      BytesField(5, "auditor_encrypted_data")>>

MsgRegisterEntries(m) ==
    PutBytes(1, m.sender) \o PutBytes(2, m.identity_commitment)
        \o PutBytes(3, m.proof) \o PutBytes(4, m.public_inputs)
        \o PutBytes(5, m.auditor_encrypted_data)

MsgRegisterSize(m) ==
    SizeBytes(m.sender) + SizeBytes(m.identity_commitment) + SizeBytes(m.proof)
        + SizeBytes(m.public_inputs) + SizeBytes(m.auditor_encrypted_data)

MsgRegisterResponse ==
    <<Uint64Field(1, "leaf_index"), BytesField(2, "merkle_root")>>

MsgRegisterResponseEntries(m) ==
    PutUint(1, m.leaf_index) \o PutBytes(2, m.merkle_root)

MsgRegisterResponseSize(m) ==
    SizeUint(m.leaf_index) + SizeBytes(m.merkle_root)

MsgDeposit ==
    <<BytesField(1, "sender"), BytesField(2, "denom"), BytesField(3, "amount"),
      BytesField(4, "note_commitment"), BytesField(5, "proof"),
      BytesField(6, "public_inputs"), BytesField(7, "auditor_encrypted_data")>>

MsgDepositEntries(m) ==
    PutBytes(1, m.sender) \o PutBytes(2, m.denom) \o PutBytes(3, m.amount)
        \o PutBytes(4, m.note_commitment) \o PutBytes(5, m.proof)
        \o PutBytes(6, m.public_inputs) \o PutBytes(7, m.auditor_encrypted_data)

MsgDepositSize(m) ==
    SizeBytes(m.sender) + SizeBytes(m.denom) + SizeBytes(m.amount)
        + SizeBytes(m.note_commitment) + SizeBytes(m.proof)
        + SizeBytes(m.public_inputs) + SizeBytes(m.auditor_encrypted_data)

MsgDepositResponse ==
    <<Uint64Field(1, "leaf_index"), BytesField(2, "merkle_root")>>

MsgDepositResponseEntries(m) ==
    PutUint(1, m.leaf_index) \o PutBytes(2, m.merkle_root)

MsgDepositResponseSize(m) ==
    SizeUint(m.leaf_index) + SizeBytes(m.merkle_root)

MsgTransact ==
    <<BytesField(1, "sender"), BytesListField(2, "nullifiers"),
      BytesListField(3, "merkle_roots"),
      MessageListField(4, "outputs", OutputNote), BytesField(5, "withdraw_amount"),
      BytesField(6, "withdraw_address"), BytesField(7, "denom"),
      BytesField(8, "registration_root"), BytesField(9, "relayer_fee"),
      BytesField(10, "proof")>>

MsgTransactEntries(m) ==
    PutBytes(1, m.sender) \o PutEach(2, m.nullifiers) \o PutEach(3, m.merkle_roots)
        \o PutMessages(4, Each(m.outputs, OutputNoteEntries))
        \o PutBytes(5, m.withdraw_amount) \o PutBytes(6, m.withdraw_address)
        \o PutBytes(7, m.denom) \o PutBytes(8, m.registration_root)
        \o PutBytes(9, m.relayer_fee) \o PutBytes(10, m.proof)

MsgTransactSize(m) ==
    SizeBytes(m.sender) + SizeEach(m.nullifiers) + SizeEach(m.merkle_roots)
        + SizeMessages(Each(m.outputs, OutputNoteSize)) + SizeBytes(m.withdraw_amount)
        + SizeBytes(m.withdraw_address) + SizeBytes(m.denom)
        + SizeBytes(m.registration_root) + SizeBytes(m.relayer_fee)
        + SizeBytes(m.proof)

MsgTransactResponse ==
    <<PackedField(1, "leaf_indices"), BytesField(2, "merkle_root")>>

MsgTransactResponseEntries(m) ==
    PutPacked(1, m.leaf_indices) \o PutBytes(2, m.merkle_root)

MsgTransactResponseSize(m) ==
    SizePacked(m.leaf_indices) + SizeBytes(m.merkle_root)

MsgUpdateParams ==
    <<BytesField(1, "authority"), PointerField(2, "params", Params)>>

MsgUpdateParamsEntries(m) ==
    PutBytes(1, m.authority) \o PutMessages(2, Each(m.params, ParamsEntries))

MsgUpdateParamsSize(m) ==
    SizeBytes(m.authority) + SizeMessages(Each(m.params, ParamsSize))

MsgUpdateParamsResponse == <<>>

MsgSetVerificationKey ==
    <<BytesField(1, "authority"), BytesField(2, "circuit_name"),
      BytesField(3, "vk_data")>>

MsgSetVerificationKeyEntries(m) ==
    PutBytes(1, m.authority) \o PutBytes(2, m.circuit_name)
        \o PutBytes(3, m.vk_data)

MsgSetVerificationKeySize(m) ==
    SizeBytes(m.authority) + SizeBytes(m.circuit_name) + SizeBytes(m.vk_data)

MsgSetVerificationKeyResponse == <<>>

=============================================================================
