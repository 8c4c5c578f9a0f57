------------------------------- MODULE WirePool -------------------------------
(***************************************************************************)
(* The message server again, one level down: NixPool's messages carry      *)
(* field elements and amounts, these carry the bytes and decimal texts a   *)
(* client sends, in any encoding.  ValidateBasic (types/msgs.go) refuses   *)
(* most of them before a handler runs, but only where something calls it;  *)
(* validateFirst says whether the chain does.                              *)
(*                                                                         *)
(* The other variables are NixPool's.  Leaves hold the bytes the store     *)
(* holds, and `used` and `spent` hold store keys.  Senders, recipients,    *)
(* proofs and auditor data are well-formed in every message.  Governance   *)
(* sends no field elements; its messages are NixPool's and the parameters  *)
(* are fixed here.                                                         *)
(***************************************************************************)
EXTENDS NixPool, FieldEncoding

CONSTANT MaxOddFields    \* bound: the fields of one transact not in canonical form

ASSUME MaxOddFieldsAssumption == MaxOddFields \in Nat

(* A nullifier is a Poseidon2 hash of a secret: none is 0, the nullifier of *)
(* a dummy input.                                                           *)
ASSUME NullifierAssumption == \A note \in Commitment : NullifierOf(note) # Zero

VARIABLE validateFirst   \* whether ValidateBasic runs before each handler

wireVars == <<vars, validateFirst>>

WireInit == Init /\ validateFirst \in BOOLEAN

-----------------------------------------------------------------------------
(***************************************************************************)
(* Amounts: what math.NewIntFromString makes of a text.  "" and "0" are    *)
(* the texts that mean nothing is paid.                                    *)
(***************************************************************************)

NothingPaid == {[text |-> "", value |-> 0], [text |-> "0", value |-> 0]}
Number(v)   == [text |-> "digits", value |-> v]
Junk        == [text |-> "junk", value |-> 0]

(* math.NewIntFromString does not read "", nor junk. *)
IsNumber(amount) == amount.text \in {"0", "digits"}

(* validateAmount, for the fields that may be left out. *)
ValidAmount(amount) ==
    amount \in NothingPaid \/ (IsNumber(amount) /\ amount.value \in 0..MaxAmount)

(* What the handler pays out: a positive number or nothing at all. *)
Payable(amount) == amount \in NothingPaid \/ (IsNumber(amount) /\ amount.value > 0)

ChunkOK(b) == ValidFieldBytes(b)   \* one public input, in ParsePublicInputs

-----------------------------------------------------------------------------
(***************************************************************************)
(* Inserting bytes: the tree hashes the element, the store keeps the bytes *)
(* under the leaf and the canonical form as the used marker.               *)
(***************************************************************************)

CanInsertNoteBytes(f, b) == CommitmentUsedKey(b) \notin f.used

InsertNoteBytes(f, b, depth) ==
    LET roomy    == ForestWithRoom(f, depth)
        tree     == roomy.activeTreeId
        inserted == InsertLeafIntoTree(roomy, tree, Element(b), depth)
    IN  [inserted EXCEPT
            !.leaf = Put(roomy.leaf, <<tree, TreeNextIndex(roomy, tree)>>, b),
            !.used = @ \cup {CommitmentUsedKey(b)}]

(* A variant for the runs to refute: the used markers are not read. *)
CanInsertRegCommitmentBytesAgain(r, b) == r.nextIndex < Width[RegTreeDepth]

CanInsertRegCommitmentBytes(r, b) ==
    /\ RegCommitmentUsedKey(b) \notin r.used
    /\ r.nextIndex < Width[RegTreeDepth]

InsertRegCommitmentBytes(r, b) ==
    [InsertRegCommitment(r, Element(b)) EXCEPT
        !.leaf = Put(r.leaf, r.nextIndex, b),
        !.used = r.used \cup {RegCommitmentUsedKey(b)}]

-----------------------------------------------------------------------------
(* The public input's canonical bytes are compared with the message's. *)
SameBytes(chunk, commitment) == FieldBytes(Element(chunk)) = commitment

(* MsgRegister.ValidateBasic *)
ValidRegister(commitment) == ValidFieldBytes(commitment)

(* `chunk` is the commitment as the public inputs carry it. *)
WireRegister(commitment, chunk, chainId, key, hasData) ==
    /\ validateFirst => ValidRegister(commitment)
    /\ EnforceAuditor(hasData)
    /\ ChunkOK(chunk)
    /\ SameBytes(chunk, commitment)
    /\ VerifyRegisterPublicInputs(chainId, key)
    /\ HasVK("registration")
    /\ CanInsertRegCommitmentBytes(registration, commitment)
    /\ registration' = InsertRegCommitmentBytes(registration, commitment)
    /\ StoreAuditorData(Element(commitment), hasData)
    /\ UNCHANGED <<forest, params, vks, spent, escrow, wallet>>

(* MsgDeposit.ValidateBasic *)
ValidDeposit(commitment, amount) ==
    IsNumber(amount) /\ amount.value > 0 /\ ValidFieldBytes(commitment)

(* A note of value 0 does not exist, and sdk.NewCoin panics below 0. *)
WireDeposit(commitment, chunk, amount, denom, key, hasData) ==
    /\ validateFirst => ValidDeposit(commitment, amount)
    /\ EnforceAuditor(hasData)
    /\ ChunkOK(chunk)
    /\ IsNumber(amount)
    /\ ChainBindingSet
    /\ SameBytes(chunk, commitment)
    /\ Element(chunk) \in Commitment
    /\ VerifyDepositPublicInputs(Element(chunk), amount.value, denom, key)
    /\ HasVK("deposit")
    /\ CheckDenom(denom)
    /\ amount.value > 0
    /\ wallet[denom] >= amount.value
    /\ CanInsertNoteBytes(forest, commitment)
    /\ wallet' = [wallet EXCEPT ![denom] = @ - amount.value]
    /\ escrow' = [escrow EXCEPT ![denom] = @ + amount.value]
    /\ forest' = InsertNoteBytes(forest, commitment, params.treeDepth)
    /\ StoreAuditorData(Element(commitment), hasData)
    /\ UNCHANGED <<registration, params, vks, spent>>

-----------------------------------------------------------------------------
(***************************************************************************)
(* Transact.  A message is the record of its bytes, and of the notes the   *)
(* prover knows: [inputs, nullifiers, roots, outputs, regRoot, denom,      *)
(* withdraw, fee].                                                         *)
(***************************************************************************)

(* MsgTransact.ValidateBasic *)
ValidTransact(msg) ==
    /\ \A i \in 1..2 : /\ ValidFieldBytes(msg.nullifiers[i])
                       /\ ValidFieldBytes(msg.roots[i])
                       /\ ValidFieldBytes(msg.outputs[i])
    /\ ValidFieldBytes(msg.regRoot)
    /\ ValidAmount(msg.withdraw) /\ ValidAmount(msg.fee)

(* Only the 32 zero bytes themselves are a dummy to the handler. *)
IsZeroBytes(b) == b = FieldBytes(Zero)

(* A variant for the runs to refute: the bytes themselves are looked up. *)
IsNullifierSpentRaw(keys, b) == b \in keys

IsNullifierSpent(keys, b) == NullifierKey(b) \in keys

(* IsValidRootAnyTree: the empty root by its bytes, the others by their key. *)
ValidRoot(b) ==
    \/ b = FieldBytes(EmptyRoot)
    \/ IsValidRootAnyTree(forest, Element(RootIndexKey(b)))

(* The nullifier keys the loop marks for the first n inputs. *)
Marked(msg, n) ==
    {NullifierKey(msg.nullifiers[i]) : i \in {j \in 1..n : ~IsZeroBytes(msg.nullifiers[j])}}

WireInputsAccepted(msg) ==
    \A i \in 1..2 :
        IsZeroBytes(msg.nullifiers[i])
            \/ /\ ~IsNullifierSpent(spent \cup Marked(msg, i - 1), msg.nullifiers[i])
               /\ ValidRoot(msg.roots[i])

ElementsOf(bytes) == [i \in DOMAIN bytes |-> Element(bytes[i])]

(* AssembleTransactPublicInputs: everything becomes a field element. *)
Assembled(msg) ==
    [inputs |-> msg.inputs, roots |-> ElementsOf(msg.roots),
     outputs |-> ElementsOf(msg.outputs), regRoot |-> Element(msg.regRoot),
     denom |-> msg.denom, withdraw |-> FieldElement(msg.withdraw.value),
     fee |-> FieldElement(msg.fee.value)]

(* The circuit computes the nullifiers of its input notes. *)
NullifierElement(note) == IF note = Zero THEN Zero ELSE NullifierOf(note)

WireTransactProven(msg) ==
    /\ {msg.withdraw.text, msg.fee.text} \cap {"junk"} = {}
    /\ \A i \in 1..2 : Element(msg.nullifiers[i]) = NullifierElement(msg.inputs[i])
    /\ TransactProven(Assembled(msg))

InsertOutputBytes(f, b) ==
    IF IsZeroBytes(b) THEN f ELSE InsertNoteBytes(f, b, params.treeDepth)

CanInsertOutputBytes(f, b) == ~IsZeroBytes(b) => CanInsertNoteBytes(f, b)

WireOutputsAccepted(msg) ==
    /\ CanInsertOutputBytes(forest, msg.outputs[1])
    /\ CanInsertOutputBytes(InsertOutputBytes(forest, msg.outputs[1]), msg.outputs[2])

Paid(amount) == IF amount \in NothingPaid THEN 0 ELSE amount.value

WirePayout(msg) ==
    [withdraw |-> Paid(msg.withdraw), fee |-> Paid(msg.fee), denom |-> msg.denom]

WireTransact(msg) ==
    /\ validateFirst => ValidTransact(msg)
    /\ msg.regRoot = FieldBytes(GetRegMerkleRoot(registration))
    /\ WireInputsAccepted(msg)
    /\ WireTransactProven(msg)
    /\ WireOutputsAccepted(msg)
    /\ Payable(msg.withdraw) /\ Payable(msg.fee)
    /\ PayoutAccepted(WirePayout(msg))
    /\ spent' = spent \cup Marked(msg, 2)
    /\ forest' = InsertOutputBytes(InsertOutputBytes(forest, msg.outputs[1]), msg.outputs[2])
    /\ escrow' = [escrow EXCEPT ![msg.denom] = @ - Payout(WirePayout(msg))]
    /\ wallet' = [wallet EXCEPT ![msg.denom] = @ + Payout(WirePayout(msg))]
    /\ UNCHANGED <<registration, params, vks, auditorData, txHash>>

-----------------------------------------------------------------------------
(* The texts a client may write for an amount: in range, or a whole field *)
(* modulus above or below it.                                             *)
AmountTexts(v) ==
    {Number(v), Number(v + FieldModulus), Number(v - FieldModulus), Junk}
        \cup (IF v = 0 THEN NothingPaid ELSE {})

Written(v) == IF v = 0 THEN [text |-> "0", value |-> 0] ELSE Number(v)

(* How a message may be written: the forms of its seven byte fields, at  *)
(* most MaxOddFields of them not canonical, or one amount in other words. *)
OddForms ==
    {form \in [1..7 -> Forms] :
        Cardinality({i \in 1..7 : form[i] # CanonicalForm}) <= MaxOddFields}

Writings(withdraw, fee) ==
    (OddForms \X {<<Written(withdraw), Written(fee)>>})
        \cup ({[i \in 1..7 |-> CanonicalForm]} \X
              ({<<text, Written(fee)>> : text \in AmountTexts(withdraw)}
                  \cup {<<Written(withdraw), text>> : text \in AmountTexts(fee)}))

(* A message that a proof exists for, however it is written: a false *)
(* statement is refused in any writing.                              *)
SendWritten(msg) ==
    /\ TransactStatement(msg)
    /\ \E writing \in Writings(msg.withdraw, msg.fee) :
        LET form    == writing[1]
            amounts == writing[2]
        IN  WireTransact(
              [inputs     |-> msg.inputs,
               nullifiers |-> [i \in 1..2 |-> Encoded(NullifierElement(msg.inputs[i]), form[i])],
               roots      |-> [i \in 1..2 |-> Encoded(msg.roots[i], form[2 + i])],
               outputs    |-> [i \in 1..2 |-> Encoded(msg.outputs[i], form[4 + i])],
               regRoot    |-> Encoded(msg.regRoot, form[7]),
               denom      |-> msg.denom,
               withdraw   |-> amounts[1], fee |-> amounts[2]])

WireTransactAny ==
    \E denom \in Denom :
    \E inputs \in Pairs(denom) :
    \E root1 \in RootsFor(inputs[1]), root2 \in RootsFor(inputs[2]) :
    \E outputs \in Pairs(denom), regRoot \in CandidateRegRoots :
    LET surplus == ValueOf(inputs) - ValueOf(outputs)
    IN  \E fee \in 0..surplus :
            SendWritten([inputs |-> inputs, roots |-> <<root1, root2>>,
                         outputs |-> outputs, regRoot |-> regRoot, denom |-> denom,
                         withdraw |-> surplus - fee, fee |-> fee])

(* All messages share one transaction: what that means for the auditor's *)
(* data is NixPool's matter.                                             *)
WireStep ==
    \/ \E identity \in Identity :
       \E commitment, chunk \in Encodings(identity) :
       \E chainId \in ChainIds, key \in Keys, data \in AttachData :
          WireRegister(commitment, chunk, chainId, key, data)
    \/ \E note \in Commitment, denom \in Denom :
       \E commitment, chunk \in Encodings(note) :
       \E amount \in UNION {AmountTexts(v) : v \in 1..Supply[denom]} :
       \E key \in Keys, data \in AttachData :
          WireDeposit(commitment, chunk, amount, denom, key, data)
    \/ WireTransactAny

WireNext == WireStep /\ UNCHANGED validateFirst

WireSpec == WireInit /\ [][WireNext]_wireVars

-----------------------------------------------------------------------------
(***************************************************************************)
(* Properties.                                                             *)
(***************************************************************************)

(* The same state with elements for bytes and keys. *)
Elements(bytes) == {Element(b) : b \in bytes}

ElementForest ==
    [forest EXCEPT !.leaf = ElementsOf(@), !.used = Elements(@)]

ElementRegistration ==
    [registration EXCEPT !.leaf = ElementsOf(@), !.used = Elements(@)]

(* No field element is in two leaves, of the forest or of the registration *)
(* tree, under whatever encodings it was sent and whether ValidateBasic ran *)
(* or not (CommitmentUsedKey, RegCommitmentUsedKey).                        *)
ElementsAreUnique ==
    /\ \A k1, k2 \in DOMAIN forest.leaf :
          Element(forest.leaf[k1]) = Element(forest.leaf[k2]) => k1 = k2
    /\ \A i, j \in DOMAIN registration.leaf :
          Element(registration.leaf[i]) = Element(registration.leaf[j]) => i = j

ElementNotes == {Element(forest.leaf[key]) : key \in DOMAIN forest.leaf} \cap Commitment

LedgerByElement == INSTANCE PoolLedger WITH
    Note    <- Commitment,
    Value   <- NoteValue,
    DenomOf <- NoteDenom,
    unspent <- {note \in ElementNotes : NullifierOf(note) \notin Elements(spent)},
    gone    <- {note \in Commitment : NullifierOf(note) \in Elements(spent)},
    held    <- escrow

(* Whatever bytes and texts the messages carry, and with no ValidateBasic   *)
(* in front of the handlers, value moves as the ledger allows: no encoding  *)
(* spends a note again, and no amount is paid that was not proved (Transact,*)
(* NullifierKey; "For the nullifier set that mismatch is a double-spend",   *)
(* types/keys.go:171).                                                      *)
WireImplementsLedger == LedgerByElement!Spec

PoolOfElements == INSTANCE NixPool WITH
    forest       <- ElementForest,
    registration <- ElementRegistration,
    spent        <- Elements(spent)

(* Where ValidateBasic runs first, bytes and texts add nothing to NixPool:  *)
(* each handler step is a step of the message server over field elements.   *)
WireImplementsPool ==
    [][validateFirst => [PoolOfElements!Next]_PoolOfElements!vars]_wireVars

(* Behind ValidateBasic the element 0 has one encoding, the one the handler *)
(* skips: it is no leaf and its nullifier is never marked (isZeroBytes,      *)
(* validateFieldBytes).                                                     *)
ZeroStaysFree ==
    validateFirst =>
        /\ \A key \in DOMAIN forest.leaf : Element(forest.leaf[key]) # Zero
        /\ Zero \notin Elements(spent)
=============================================================================
