------------------------------- MODULE NixPool -------------------------------
(***************************************************************************)
(* The message server of keeper/msg_server.go over the whole module store: *)
(* the note forest, the registration tree, nullifiers, parameters,         *)
(* verification keys, auditor data, and the coins the module account and   *)
(* the users hold in x/bank.                                               *)
(*                                                                         *)
(* A message is one atomic step.  One that fails aborts its transaction    *)
(* and is no step; a transaction of several messages is a run of steps     *)
(* with no BeginTx between them (an aborted one leaves the state from      *)
(* before its first message, which is a reachable state too).              *)
(*                                                                         *)
(* Users are not told apart: `wallet` is what all accounts outside the     *)
(* pool hold.  The nullifier of a message is that of its witness note.     *)
(***************************************************************************)
EXTENDS Circuits

CONSTANTS
    Unset,           \* a parameter or a key that is not set
    Supply,          \* denomination -> the coins there are
    FieldModulus,    \* the order of the scalar field
    MaxAmount,       \* 2^64 - 1, the range of amounts the circuit proves
    Keys,            \* the auditor keys
    ChainIds,        \* the chain bindings
    ParamChoices,    \* what governance may propose, valid or not
    GenesisParams,   \* the parameters of the genesis file
    GenesisVKs,      \* the circuits whose verification keys it holds
    AttachData       \* whether clients attach auditor data: a set of Booleans

Circuit == {"deposit", "transact", "registration"}   \* validCircuitNames

MaxTreeDepth == 40

(* Params.Validate; keys and bindings of a wrong length are no values here. *)
ValidParams(p) == {p.treeDepth, p.regTreeDepth} \subseteq 1..MaxTreeDepth

ParamsType ==
    [treeDepth : Nat, regTreeDepth : Nat, auditorPubKey : Keys \cup {Unset},
     supportedDenoms : SUBSET Denom, chainBinding : ChainIds \cup {Unset}]

ASSUME GenesisAssumption ==
    /\ ParamChoices \cup {GenesisParams} \subseteq ParamsType
    /\ ValidParams(GenesisParams)
    /\ GenesisVKs \subseteq Circuit
    /\ AttachData \subseteq BOOLEAN

(* A transaction's hash is known by the first item it stores data for, a    *)
(* note or an identity, which are hashes of different things (circuits).    *)
ASSUME ItemAssumption == Commitment \cap Identity = {}

(* No supply reaches the field modulus (types/msgs.go:117). *)
ASSUME SupplyAssumption ==
    /\ Supply \in [Denom -> Nat]
    /\ FieldModulus \in Nat
    /\ MaxAmount \in 0..(FieldModulus - 1)
    /\ \A d \in Denom : Supply[d] < FieldModulus

(* The circuits range-check every amount (types/msgs.go:103). *)
ASSUME RangeAssumption == \A note \in Commitment : NoteValue[note] <= MaxAmount

VARIABLES
    forest,          \* see ForestStore
    registration,    \* see RegistrationTree
    params,          \* the stored parameters
    vks,             \* the circuits with a verification key
    spent,           \* the spent nullifiers
    escrow,          \* what the module account holds, by denomination
    wallet,          \* what everybody else holds
    auditorData,     \* transaction hash -> what the stored data is about
    txHash           \* the key of the current transaction, Unset while unused

chainVars == <<forest, registration, params, vks, spent, escrow, wallet>>
vars == <<forest, registration, params, vks, spent, escrow, wallet, auditorData, txHash>>

-----------------------------------------------------------------------------

Init ==
    /\ forest = EmptyForest
    /\ registration = EmptyRegistration
    /\ params = GenesisParams
    /\ vks = GenesisVKs
    /\ spent = {}
    /\ escrow = [d \in Denom |-> 0]
    /\ wallet = Supply
    /\ auditorData = <<>>
    /\ txHash = Unset

(* The next transaction: its messages have other TxBytes. *)
BeginTx ==
    /\ txHash # Unset
    /\ txHash' = Unset
    /\ UNCHANGED <<chainVars, auditorData>>

-----------------------------------------------------------------------------
(***************************************************************************)
(* Checks and effects the handlers share.                                  *)
(***************************************************************************)

EnforceAuditor(hasData) == params.auditorPubKey # Unset => hasData

(* The auditor key that a proof was made for. *)
VerifyAuditorPublicInputs(key) ==
    params.auditorPubKey # Unset => key = params.auditorPubKey

ChainBindingSet == params.chainBinding # Unset

CheckDenom(denom) == denom \in params.supportedDenoms

HasVK(circuit) == circuit \in vks

(* A variant for the runs to refute: all transactions share one key. *)
StoreAuditorDataOneKey(item, hasData) ==
    IF hasData
    THEN /\ txHash' = item
         /\ auditorData' = IF auditorData = <<>> THEN Put(auditorData, item, item)
                           ELSE [hash \in DOMAIN auditorData |-> item]
    ELSE UNCHANGED <<auditorData, txHash>>

(* A transaction's hash is known here by the first item it stores data for. *)
StoreAuditorData(item, hasData) ==
    LET hash == IF txHash = Unset THEN item ELSE txHash
    IN  IF hasData
        THEN /\ txHash' = hash
             /\ auditorData' = Put(auditorData, hash, item)
        ELSE UNCHANGED <<auditorData, txHash>>

-----------------------------------------------------------------------------

(* The proof names the chain and the auditor key it was made for. *)
VerifyRegisterPublicInputs(chainId, key) ==
    /\ ChainBindingSet
    /\ chainId = params.chainBinding
    /\ VerifyAuditorPublicInputs(key)

Register(identity, chainId, key, hasData) ==
    /\ EnforceAuditor(hasData)
    /\ VerifyRegisterPublicInputs(chainId, key)
    /\ HasVK("registration")
    /\ CanInsertRegCommitment(registration, identity)
    /\ registration' = InsertRegCommitment(registration, identity)
    /\ StoreAuditorData(identity, hasData)
    /\ UNCHANGED <<forest, params, vks, spent, escrow, wallet>>

(* The amount reaches the circuit as a field element. *)
FieldElement(amount) == amount % FieldModulus

VerifyDepositPublicInputs(note, amount, denom, key) ==
    /\ DepositStatement(note, FieldElement(amount), denom)
    /\ VerifyAuditorPublicInputs(key)

Deposit(note, amount, denom, key, hasData) ==
    /\ amount > 0
    /\ EnforceAuditor(hasData)
    /\ ChainBindingSet
    /\ VerifyDepositPublicInputs(note, amount, denom, key)
    /\ HasVK("deposit")
    /\ CheckDenom(denom)
    /\ wallet[denom] >= amount
    /\ CanInsertNote(forest, note)
    /\ wallet' = [wallet EXCEPT ![denom] = @ - amount]
    /\ escrow' = [escrow EXCEPT ![denom] = @ + amount]
    /\ forest' = InsertNote(forest, note, params.treeDepth)
    /\ StoreAuditorData(note, hasData)
    /\ UNCHANGED <<registration, params, vks, spent>>

-----------------------------------------------------------------------------
(***************************************************************************)
(* Transact.  A message is a record: two inputs with the roots they prove  *)
(* against, two outputs, the registration root, and what leaves the pool.  *)
(***************************************************************************)

NullifiersOf(notes) == {NullifierOf(notes[i]) : i \in Real(notes)}

(* A variant for the runs to refute: both inputs are checked before either *)
(* is marked.                                                              *)
SpentBeforeLoop(msg, i) == spent

(* A variant for the runs to refute: nothing is known of earlier messages. *)
SpentBeforeHere(msg, i) == NullifiersOf(SubSeq(msg.inputs, 1, i - 1))

(* The nullifiers spent when the loop gets to input i. *)
SpentBefore(msg, i) == spent \cup NullifiersOf(SubSeq(msg.inputs, 1, i - 1))

(* A variant for the runs to refute: the roots are not checked. *)
InputsAcceptedAnyRoot(msg) ==
    \A i \in Real(msg.inputs) : NullifierOf(msg.inputs[i]) \notin SpentBefore(msg, i)

InputsAccepted(msg) ==
    \A i \in Real(msg.inputs) :
        /\ NullifierOf(msg.inputs[i]) \notin SpentBefore(msg, i)
        /\ IsValidRootAnyTree(forest, msg.roots[i])

InsertOutput(f, note) ==
    IF note = Zero THEN f ELSE InsertNote(f, note, params.treeDepth)

(* A variant for the runs to refute: an output may be inserted twice. *)
CanInsertOutputAgain(f, note) == TRUE

CanInsertOutput(f, note) == note # Zero => CanInsertNote(f, note)

AfterFirstOutput(msg) == InsertOutput(forest, msg.outputs[1])

OutputsAccepted(msg) ==
    /\ CanInsertOutput(forest, msg.outputs[1])
    /\ CanInsertOutput(AfterFirstOutput(msg), msg.outputs[2])

(* validateAmount: in this range an amount is its own field element. *)
ValidAmounts(msg) == {msg.withdraw, msg.fee} \subseteq 0..MaxAmount

(* The withdrawal, then the relayer's fee, out of the module account. *)
Payout(msg) == msg.withdraw + msg.fee

PayoutAccepted(msg) ==
    Payout(msg) > 0 => CheckDenom(msg.denom) /\ escrow[msg.denom] >= Payout(msg)

(* AssembleTransactPublicInputs refuses an unset binding; the rest of the  *)
(* vector is what the statement speaks of.                                 *)
TransactProven(msg) ==
    ChainBindingSet /\ HasVK("transact") /\ TransactStatement(msg)

CanTransact(msg) ==
    /\ ValidAmounts(msg)
    /\ IsValidRegRoot(registration, msg.regRoot)
    /\ InputsAccepted(msg)
    /\ TransactProven(msg)
    /\ OutputsAccepted(msg)
    /\ PayoutAccepted(msg)

Transact(msg) ==
    /\ CanTransact(msg)
    /\ spent' = spent \cup NullifiersOf(msg.inputs)
    /\ forest' = InsertOutput(AfterFirstOutput(msg), msg.outputs[2])
    /\ escrow' = [escrow EXCEPT ![msg.denom] = @ - Payout(msg)]
    /\ wallet' = [wallet EXCEPT ![msg.denom] = @ + Payout(msg)]
    /\ UNCHANGED <<registration, params, vks, auditorData, txHash>>

-----------------------------------------------------------------------------
(***************************************************************************)
(* Governance: both messages are refused from any other account.           *)
(***************************************************************************)

UpdateParams(p) ==
    /\ ValidParams(p)
    /\ params' = p
    /\ UNCHANGED <<forest, registration, vks, spent, escrow, wallet, auditorData, txHash>>

SetVerificationKey(circuit) ==
    /\ vks' = vks \cup {circuit}
    /\ UNCHANGED <<forest, registration, params, spent, escrow, wallet, auditorData, txHash>>

-----------------------------------------------------------------------------
(***************************************************************************)
(* The messages tried.  Anybody may name any root: one of the store, or    *)
(* one they made up over a leaf that is not in the tree.                   *)
(***************************************************************************)

CandidateRoots ==
    DOMAIN forest.rootIndex \cup {EmptyRoot}
        \cup {MerkleRoot(<<note>>, CircuitDepth) : note \in Commitment \ forest.used}

RootsOver(note) == {root \in CandidateRoots : note \in LeavesUnder(root, CircuitDepth)}

(* A dummy input's root is not looked at. *)
RootsFor(note) == IF note = Zero THEN {EmptyRoot} ELSE RootsOver(note)

CandidateRegRoots ==
    {GetRegMerkleRoot(registration)}
        \cup {MerkleRoot(<<identity>>, CircuitRegDepth) : identity \in Identity \ registration.used}

Pairs(denom) ==
    LET notes == {Zero} \cup {note \in Commitment : NoteDenom[note] = denom}
    IN  notes \X notes

TransactAny ==
    \E denom \in Denom :
    \E inputs \in Pairs(denom) :
    \E root1 \in RootsFor(inputs[1]), root2 \in RootsFor(inputs[2]) :
    \E outputs \in Pairs(denom), regRoot \in CandidateRegRoots :
    LET surplus == ValueOf(inputs) - ValueOf(outputs)
    IN  \E fee \in 0..surplus :
            Transact([inputs |-> inputs, roots |-> <<root1, root2>>,
                      outputs |-> outputs, regRoot |-> regRoot, denom |-> denom,
                      withdraw |-> surplus - fee, fee |-> fee])

Next ==
    \/ BeginTx
    \/ \E identity \in Identity, chainId \in ChainIds, key \in Keys, data \in AttachData :
          Register(identity, chainId, key, data)
    \/ \E note \in Commitment, denom \in Denom, key \in Keys, data \in AttachData :
          \E amount \in 1..Supply[denom] : Deposit(note, amount, denom, key, data)
    \/ TransactAny
    \/ \E p \in ParamChoices : UpdateParams(p)
    \/ \E circuit \in Circuit : SetVerificationKey(circuit)

Spec == Init /\ [][Next]_vars

-----------------------------------------------------------------------------
(***************************************************************************)
(* Properties.                                                             *)
(***************************************************************************)

Notes == {forest.leaf[key] : key \in DOMAIN forest.leaf}

UnspentNotes == {note \in Notes : NullifierOf(note) \notin spent}

(* The store's types: no payout overdraws the module account, the forest   *)
(* keeps its shape (see NoteForest), only nullifiers of notes are marked,  *)
(* and the current transaction's auditor data is in the store.             *)
TypeOK ==
    /\ ForestTypeOK(forest)
    /\ RegistrationTypeOK(registration)
    /\ params \in ParamsType
    /\ vks \subseteq Circuit
    /\ spent \subseteq {NullifierOf(note) : note \in Commitment}
    /\ escrow \in [Denom -> Nat]
    /\ wallet \in [Denom -> Nat]
    /\ DOMAIN auditorData \subseteq Commitment \cup Identity
    /\ \A hash \in DOMAIN auditorData : auditorData[hash] \in Commitment \cup Identity
    /\ txHash \in DOMAIN auditorData \cup {Unset}

ValueIn(denom) ==
    MapThenSumSet(LAMBDA note : NoteValue[note],
                  {note \in UnspentNotes : NoteDenom[note] = denom})

(* The module account holds exactly what the unspent notes are worth, in    *)
(* every denomination: deposits and payouts move as much value into and out *)
(* of x/bank as they move into and out of the forest (Deposit, Transact).   *)
Solvent == \A denom \in Denom : escrow[denom] = ValueIn(denom)

(* Every spent nullifier is that of a note that was inserted: no root that  *)
(* the forest never had is accepted (IsValidRootAnyTree).                   *)
OnlyNotesAreSpent == spent \subseteq {NullifierOf(note) : note \in Notes}

(* The message that turns one note into coins, against its tree's root. *)
FullWithdrawal(note, tree) ==
    [inputs  |-> <<note, Zero>>,
     roots   |-> <<forest.rootSlot[TreeRootKey(tree)], EmptyRoot>>,
     outputs |-> <<Zero, Zero>>,
     regRoot |-> GetRegMerkleRoot(registration),
     denom   |-> NoteDenom[note], withdraw |-> NoteValue[note], fee |-> 0]

WithdrawalsOn(denom) ==
    ChainBindingSet /\ HasVK("transact") /\ CheckDenom(denom)

(* Whoever owns an unspent note can turn it into coins at once and alone,  *)
(* against its tree's current root, while governance leaves withdrawals on *)
(* (binding, transact key, denomination): no retired tree, no evicted root *)
(* and no other user's transaction is in the way (Transact).               *)
UnspentIsWithdrawable ==
    \A key \in DOMAIN forest.leaf :
        LET note == forest.leaf[key]
        IN  note \in UnspentNotes /\ WithdrawalsOn(NoteDenom[note])
                => CanTransact(FullWithdrawal(note, key[1]))

(* The stored registration root is the Merkle root of the identities in     *)
(* the order they registered, and no identity is in two leaves              *)
(* (InsertRegCommitment).                                                   *)
RegistrationIsSound ==
    /\ GetRegMerkleRoot(registration) = MerkleRoot(RegLeaves(registration), RegTreeDepth)
    /\ \A i, j \in DOMAIN registration.leaf :
          registration.leaf[i] = registration.leaf[j] => i = j

Registered == {registration.leaf[i] : i \in DOMAIN registration.leaf}

(* A note that enters the forest without coins entering the pool belongs   *)
(* to an identity registered before: a transact proves its recipients      *)
(* against the registration root of the moment (IsValidRegRoot).           *)
OutputsAreRegistered ==
    [][\A note \in Notes' \ Notes :
          escrow'[NoteDenom[note]] > escrow[NoteDenom[note]]
              \/ NoteOwner[note] \in Registered]_vars

(* Refinement: a note is unspent while its nullifier is, and the ledger's   *)
(* coins are the module account's.                                         *)
Ledger == INSTANCE PoolLedger WITH
    Note    <- Commitment,
    Value   <- NoteValue,
    DenomOf <- NoteDenom,
    unspent <- UnspentNotes,
    gone    <- {note \in Commitment : NullifierOf(note) \in spent},
    held    <- escrow

(* The pool implements the ledger: no note is shielded twice or spent twice, *)
(* and each message moves exactly the coins its notes are worth (Deposit,    *)
(* Transact).                                                                *)
ImplementsLedger == Ledger!Spec

(* What is stored for one transaction outlives it: the data of a finished   *)
(* transaction is never replaced (StoreAuditorData, AuditorDataKey).        *)
FinishedDataIsKept ==
    [][\A hash \in DOMAIN auditorData \ {txHash} :
          hash \in DOMAIN auditorData' /\ auditorData'[hash] = auditorData[hash]]_vars

(* The pool holds no coins that it could not return for want of a chain     *)
(* binding ("Failing closed on the way in too makes that state              *)
(* unreachable", msg_server.go:146).                                        *)
EscrowIsReturnable == (\E denom \in Denom : escrow[denom] > 0) => ChainBindingSet

(* On a chain whose parameters have an auditor key from genesis on, the      *)
(* auditor finds the data of every registered identity ("required on every  *)
(* transaction once auditor_pub_key is set", README.md:30).                 *)
AuditorSeesIdentities ==
    \A identity \in Registered :
        \E hash \in DOMAIN auditorData : auditorData[hash] = identity
=============================================================================
