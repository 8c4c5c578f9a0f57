---------------------------- MODULE NixPoolProofs ----------------------------
(***************************************************************************)
(* For every set of notes and denominations, every depth and every         *)
(* genesis: the whole module state keeps its type, the pool never owes the *)
(* bank coins, and no commitment is inserted twice, whichever message      *)
(* inserts it; only notes of the forest are ever spent, each one once; the *)
(* module account holds exactly what the unspent notes are worth; and the  *)
(* message server implements the ledger of PoolLedger.                     *)
(*                                                                         *)
(* The argument about value starts from the hashes.  Nothing was ever      *)
(* hashed into a tree but the empty leaf and the elements inserted, so     *)
(* whatever has a path to a root the chain holds is one of them.           *)
(*                                                                         *)
(* The sum of a weight over a finite set, which the community modules      *)
(* define by recursion with arbitrary choices, does not depend on them.    *)
(***************************************************************************)
EXTENDS NixPool, ForestStoreProofs

-----------------------------------------------------------------------------
(***************************************************************************)
(* The registration tree: its stored root is the Merkle root of the        *)
(* identities in the order they registered, and none has two leaves.       *)
(***************************************************************************)

(* What is stored for the tree fits together: the leaves fit the tree, the *)
(* markers are the leaves, the frontier is right for the next leaf, the    *)
(* root is the leaves'.                                                    *)
Registers(r) ==
    /\ RegistrationTypeOK(r)
    /\ r.nextIndex <= Width[RegTreeDepth]
    /\ r.used = {r.leaf[i] : i \in DOMAIN r.leaf}
    /\ \A i, j \in DOMAIN r.leaf : r.leaf[i] = r.leaf[j] => i = j
    /\ FrontierOK(r.frontier, RegLeaves(r), RegTreeDepth)
    /\ GetRegMerkleRoot(r) = MerkleRoot(RegLeaves(r), RegTreeDepth)

(* The list of leaves is as long as the counter says. *)
LEMMA RegLeavesLength ==
    ASSUME NEW r, r.nextIndex \in Nat
    PROVE  /\ Len(RegLeaves(r)) = r.nextIndex
           /\ \A i \in 1..r.nextIndex : RegLeaves(r)[i] = r.leaf[i - 1]
  BY DEF RegLeaves

(* Before the first registration. *)
LEMMA EmptyRegisters ==
    ASSUME NEW r, r = EmptyRegistration
    PROVE  Registers(r)
  <1>1. /\ r.nextIndex = 0 /\ DOMAIN r.leaf = {} /\ DOMAIN r.frontier = {}
        /\ r.used = {} /\ DOMAIN r.root = {} /\ r.leaf \in [0..(0 - 1) -> Identity]
    BY DEF EmptyRegistration
  <1>2. RegistrationTypeOK(r)
    BY <1>1 DEF RegistrationTypeOK
  <1>3. Len(RegLeaves(r)) = 0 /\ RegTreeDepth \in Nat
    BY <1>1, RegLeavesLength, RegDepthAssumption
  <1>4. FrontierOK(r.frontier, RegLeaves(r), RegTreeDepth)
    BY <1>3, AnyFrontierOfNone
  <1>5. MerkleRoot(RegLeaves(r), RegTreeDepth) = ZeroHash[RegTreeDepth]
    BY <1>3, EmptyTreeRoot
  <1>6. GetRegMerkleRoot(r) = ZeroHash[RegTreeDepth]
    BY <1>1 DEF GetRegMerkleRoot, Get
  <1>7. r.nextIndex <= Width[RegTreeDepth]
    BY <1>1, <1>3, WidthEquation
  <1> QED
    BY <1>1, <1>2, <1>4, <1>5, <1>6, <1>7 DEF Registers

(* A registration keeps all of it. *)
LEMMA InsertRegisters ==
    ASSUME NEW r, NEW identity \in Identity, NEW s,
           Registers(r), CanInsertRegCommitment(r, identity),
           s = InsertRegCommitment(r, identity)
    PROVE  Registers(s)
  <1>1. PICK n \in Nat : n = r.nextIndex
    BY DEF Registers, RegistrationTypeOK
  <1>2. /\ s.nextIndex = n + 1
        /\ s.leaf = Put(r.leaf, n, identity)
        /\ s.frontier = NewFrontier(r.frontier, identity, n, RegTreeDepth)
        /\ s.root = Put(r.root, RegRootKey, NewRoot(r.frontier, identity, n, RegTreeDepth))
        /\ s.used = r.used \cup {identity}
    BY <1>1 DEF InsertRegCommitment
  <1>3. r.leaf \in [0..(n - 1) -> Identity]
    BY <1>1 DEF Registers, RegistrationTypeOK
  <1>4. /\ s.leaf \in [0..n -> Identity]
        /\ s.leaf[n] = identity
        /\ \A i \in 0..(n - 1) : s.leaf[i] = r.leaf[i]
    BY <1>2, <1>3 DEF Put
  <1>5. RegistrationTypeOK(s)
    <2>1. DOMAIN s.frontier \subseteq 0..(RegTreeDepth - 1)
      BY <1>2, RegDepthAssumption DEF NewFrontier, Registers, RegistrationTypeOK
    <2> QED
      BY <1>2, <1>4, <2>1 DEF Registers, RegistrationTypeOK
  <1>6. identity \notin r.used /\ r.used = {r.leaf[i] : i \in 0..(n - 1)}
    BY <1>3 DEF CanInsertRegCommitment, Registers
  <1>7. s.used = {s.leaf[i] : i \in DOMAIN s.leaf}
    <2>1. \A i \in 0..n : i = n \/ i \in 0..(n - 1)
      OBVIOUS
    <2>2. n \in 0..n /\ \A i \in 0..(n - 1) : i \in 0..n
      OBVIOUS
    <2> QED
      BY <1>2, <1>4, <1>6, <2>1, <2>2
  <1>8. \A i, j \in DOMAIN s.leaf : s.leaf[i] = s.leaf[j] => i = j
    <2> SUFFICES ASSUME NEW i \in 0..n, NEW j \in 0..n, s.leaf[i] = s.leaf[j] PROVE i = j
      BY <1>4
    <2>1. \A k \in 0..(n - 1) : s.leaf[k] # identity
      BY <1>4, <1>6
    <2>2. CASE i = n \/ j = n
      BY <1>4, <2>1, <2>2
    <2>3. CASE i # n /\ j # n
      BY <1>3, <1>4, <2>3 DEF Registers
    <2> QED
      BY <2>2, <2>3
  <1>9. PICK a : a = RegLeaves(r)
    OBVIOUS
  <1>10. PICK b : b = RegLeaves(s)
    OBVIOUS
  <1>11. Extends(b, a, identity) /\ Len(a) = n
    <2>1. Len(a) = n /\ \A i \in 1..n : a[i] = r.leaf[i - 1]
      BY <1>1, <1>9, RegLeavesLength
    <2>2. Len(b) = n + 1 /\ \A i \in 1..(n + 1) : b[i] = s.leaf[i - 1]
      BY <1>2, <1>10, RegLeavesLength
    <2>3. ASSUME NEW i \in 1..n PROVE b[i] = a[i]
      <3>1. i - 1 \in 0..(n - 1) /\ i \in 1..(n + 1)
        OBVIOUS
      <3> QED
        BY <1>4, <2>1, <2>2, <3>1
    <2>4. b[n + 1] = identity
      <3>1. n + 1 \in 1..(n + 1) /\ (n + 1) - 1 = n
        OBVIOUS
      <3> QED
        BY <1>4, <2>2, <3>1
    <2> QED
      BY <2>1, <2>2, <2>3, <2>4 DEF Extends
  <1>12. /\ RegTreeDepth \in Nat /\ Len(a) < Width[RegTreeDepth]
         /\ FrontierOK(r.frontier, a, RegTreeDepth)
    BY <1>1, <1>9, <1>11, RegDepthAssumption DEF CanInsertRegCommitment, Registers
  <1>13. FrontierOK(s.frontier, b, RegTreeDepth)
    BY <1>2, <1>11, <1>12, NewFrontierIsRight
  <1>14. GetRegMerkleRoot(s) = MerkleRoot(b, RegTreeDepth)
    <2>1. GetRegMerkleRoot(s) = NewRoot(r.frontier, identity, n, RegTreeDepth)
      BY <1>2 DEF GetRegMerkleRoot, Get, Put
    <2> QED
      BY <1>11, <1>12, <2>1, NewRootIsMerkleRoot
  <1>15. s.nextIndex <= Width[RegTreeDepth]
    <2>1. PICK w \in Nat : w = Width[RegTreeDepth]
      BY WidthEquation, RegDepthAssumption
    <2>2. n < w
      BY <1>1, <2>1 DEF CanInsertRegCommitment
    <2> QED
      BY <1>2, <2>1, <2>2
  <1> QED
    BY <1>5, <1>7, <1>8, <1>10, <1>13, <1>14, <1>15 DEF Registers

-----------------------------------------------------------------------------
(***************************************************************************)
(* Every step of the pool.                                                 *)
(***************************************************************************)

(* The two notes on one side of a transact. *)
NotePair == (Commitment \cup {Zero}) \X (Commitment \cup {Zero})

(* Whatever message executes: NixPool's Next tries some of these, clients   *)
(* send others.                                                             *)
AnyTransact ==
    \E msg : /\ msg.denom \in Denom
             /\ msg.inputs \in NotePair /\ msg.outputs \in NotePair
             /\ Transact(msg)

AnyStep ==
    \/ BeginTx
    \/ \E identity \in Identity, chainId \in ChainIds, key \in Keys, data \in AttachData :
          Register(identity, chainId, key, data)
    \/ \E note \in Commitment, denom \in Denom, key \in Keys, data \in AttachData :
          \E amount \in 1..(FieldModulus - 1) : Deposit(note, amount, denom, key, data)
    \/ AnyTransact
    \/ \E p \in ParamChoices : UpdateParams(p)
    \/ \E circuit \in Circuit : SetVerificationKey(circuit)

(* The messages that NixPool tries are among them. *)
LEMMA NextIsAnyStep == Next => AnyStep
  <1> SUFFICES ASSUME Next PROVE AnyStep
    OBVIOUS
  <1>1. CASE TransactAny
    BY <1>1 DEF TransactAny, Pairs, NotePair, AnyTransact, AnyStep
  <1>2. ASSUME NEW note \in Commitment, NEW denom \in Denom, NEW key \in Keys,
               NEW data \in AttachData, NEW amount \in 1..Supply[denom],
               Deposit(note, amount, denom, key, data)
        PROVE  AnyStep
    <2>1. PICK q, top : q = FieldModulus /\ top = Supply[denom]
      OBVIOUS
    <2>2. q \in Nat /\ top \in Nat /\ top < q /\ amount \in 1..top
      BY <2>1, SupplyAssumption
    <2>3. amount \in 1..(q - 1)
      BY <2>2
    <2> QED
      BY <1>2, <2>1, <2>3 DEF AnyStep
  <1> QED
    BY <1>1, <1>2 DEF Next, AnyStep

ForestInv(f) == Good(f) /\ UniqueLeaves(f) /\ LeavesAreNotes(f) /\ Exact(f)

(* The inductive invariant: the types, and of both trees what their         *)
(* operators need to keep theirs.                                           *)
PoolInv == TypeOK /\ ForestInv(forest) /\ Registers(registration)

(* A note that is not in the forest is inserted. *)
LEMMA InsertNoteKeeps ==
    ASSUME NEW f, NEW note \in Commitment, NEW depth, NEW g,
           ForestInv(f), CanInsertNote(f, note), g = InsertNote(f, note, depth)
    PROVE  ForestInv(g)
  <1>1. Good(f) /\ UniqueLeaves(f) /\ LeavesAreNotes(f) /\ Exact(f)
    BY DEF ForestInv
  <1>2. Good(g) /\ IndexKept(f, g)
    BY <1>1, InsertNoteGood
  <1>3. UniqueLeaves(g) /\ LeavesAreNotes(g)
    BY <1>1, InsertNoteUnique, InsertNoteNotes
  <1> QED
    BY <1>1, <1>2, <1>3 DEF ForestInv, IndexKept

(* A Transact's output is inserted like a deposited note, or skipped. *)
LEMMA InsertOutputGood ==
    ASSUME NEW f, ForestInv(f), NEW note \in Commitment \cup {Zero},
           CanInsertOutput(f, note), NEW g, g = InsertOutput(f, note)
    PROVE  ForestInv(g)
  <1>1. CASE note = Zero
    BY <1>1 DEF InsertOutput
  <1>2. CASE note # Zero
    BY <1>2, InsertNoteKeeps DEF InsertOutput, CanInsertOutput
  <1> QED
    BY <1>1, <1>2

(* Only the forest's own well-formedness is needed for its type. *)
LEMMA ForestTyped ==
    ASSUME NEW f, ForestInv(f)
    PROVE  ForestTypeOK(f)
  BY DEF ForestInv, Good, ForestTypeOK

(* The genesis state satisfies the invariant. *)
LEMMA PoolInit == Init => PoolInv
  <1> SUFFICES ASSUME Init PROVE PoolInv
    OBVIOUS
  <1>1. ForestInv(forest)
    BY EmptyForestGood DEF Init, ForestInv
  <1>2. Registers(registration) /\ RegistrationTypeOK(registration)
    BY EmptyRegisters DEF Init, Registers
  <1>3. params \in ParamsType /\ vks \subseteq Circuit
    BY GenesisAssumption DEF Init
  <1>4. escrow \in [Denom -> Nat] /\ wallet \in [Denom -> Nat]
    BY SupplyAssumption DEF Init
  <1>5. DOMAIN auditorData = {} /\ spent = {} /\ txHash = Unset
    BY DEF Init
  <1> QED
    BY <1>1, <1>2, <1>3, <1>4, <1>5, ForestTyped DEF PoolInv, TypeOK

(* Storing auditor data keeps the keys and what they hold. *)
LEMMA AuditorDataTyped ==
    ASSUME TypeOK, NEW item \in Commitment \cup Identity, NEW hasData \in BOOLEAN,
           StoreAuditorData(item, hasData)
    PROVE  /\ DOMAIN auditorData' \subseteq Commitment \cup Identity
           /\ \A hash \in DOMAIN auditorData' : auditorData'[hash] \in Commitment \cup Identity
           /\ txHash' \in DOMAIN auditorData' \cup {Unset}
  <1>1. CASE hasData
    <2>1. PICK hash : hash = IF txHash = Unset THEN item ELSE txHash
      OBVIOUS
    <2>2. txHash' = hash /\ auditorData' = Put(auditorData, hash, item)
      BY <1>1, <2>1 DEF StoreAuditorData
    <2>3. hash \in Commitment \cup Identity
      BY <2>1 DEF TypeOK
    <2> QED
      BY <2>2, <2>3 DEF TypeOK, Put
  <1>2. CASE ~ hasData
    BY <1>2 DEF StoreAuditorData, TypeOK
  <1> QED
    BY <1>1, <1>2

(* Register keeps the invariant. *)
LEMMA RegisterKeeps ==
    ASSUME PoolInv, NEW identity \in Identity, NEW chainId, NEW key,
           NEW hasData \in BOOLEAN, Register(identity, chainId, key, hasData)
    PROVE  PoolInv'
  <1>1. registration' = InsertRegCommitment(registration, identity)
    BY DEF Register
  <1>2. Registers(registration') /\ RegistrationTypeOK(registration')
    <2>1. CanInsertRegCommitment(registration, identity) /\ Registers(registration)
      BY DEF Register, PoolInv
    <2>2. Registers(registration')
      BY <1>1, <2>1, InsertRegisters
    <2> QED
      BY <2>2 DEF Registers
  <1>3. StoreAuditorData(identity, hasData)
    BY DEF Register
  <1>4. UNCHANGED <<forest, params, vks, spent, escrow, wallet>>
    BY DEF Register
  <1> QED
    BY <1>2, <1>3, <1>4, AuditorDataTyped DEF PoolInv, TypeOK

(* Deposit keeps the invariant. *)
LEMMA DepositKeeps ==
    ASSUME PoolInv, NEW note \in Commitment, NEW amount \in Nat, NEW denom \in Denom,
           NEW key, NEW hasData \in BOOLEAN, Deposit(note, amount, denom, key, hasData)
    PROVE  PoolInv'
  <1>1. ForestInv(forest')
    BY InsertNoteKeeps DEF Deposit, PoolInv
  <1>2. escrow' \in [Denom -> Nat] /\ wallet' \in [Denom -> Nat]
    BY DEF Deposit, PoolInv, TypeOK
  <1>3. StoreAuditorData(note, hasData)
    BY DEF Deposit
  <1>4. UNCHANGED <<registration, params, vks, spent>>
    BY DEF Deposit
  <1> QED
    BY <1>1, <1>2, <1>3, <1>4, AuditorDataTyped, ForestTyped DEF PoolInv, TypeOK

(* Transact keeps the invariant: in particular the module account is never *)
(* overdrawn by the withdrawal and the fee together.                       *)
LEMMA TransactKeeps ==
    ASSUME PoolInv, NEW msg, msg.denom \in Denom,
           msg.inputs \in NotePair, msg.outputs \in NotePair,
           Transact(msg)
    PROVE  PoolInv'
  <1>1. CanTransact(msg)
    BY DEF Transact
  <1>2. ForestInv(forest')
    <2>1. PICK middle : middle = AfterFirstOutput(msg)
      OBVIOUS
    <2>2. /\ msg.outputs[1] \in Commitment \cup {Zero}
          /\ msg.outputs[2] \in Commitment \cup {Zero}
      BY DEF NotePair
    <2>3. ForestInv(middle)
      BY <1>1, <2>1, <2>2, InsertOutputGood
      DEF AfterFirstOutput, CanTransact, OutputsAccepted, PoolInv
    <2>4. CanInsertOutput(middle, msg.outputs[2])
      BY <1>1, <2>1 DEF CanTransact, OutputsAccepted
    <2>5. forest' = InsertOutput(middle, msg.outputs[2])
      BY <2>1 DEF Transact
    <2> QED
      BY <2>2, <2>3, <2>4, <2>5, InsertOutputGood
  <1>3. /\ msg.withdraw \in Nat /\ msg.fee \in Nat
        /\ Payout(msg) \in Nat
        /\ Payout(msg) > 0 => escrow[msg.denom] >= Payout(msg)
    BY <1>1, SupplyAssumption DEF CanTransact, ValidAmounts, PayoutAccepted, Payout
  <1>4. escrow' \in [Denom -> Nat] /\ wallet' \in [Denom -> Nat]
    BY <1>3 DEF Transact, PoolInv, TypeOK
  <1>5. spent' \subseteq {NullifierOf(note) : note \in Commitment}
    BY DEF Transact, NullifiersOf, Real, NotePair, PoolInv, TypeOK
  <1>6. UNCHANGED <<registration, params, vks, auditorData, txHash>>
    BY DEF Transact
  <1> QED
    BY <1>2, <1>4, <1>5, <1>6, ForestTyped DEF PoolInv, TypeOK

(* Every step keeps the invariant. *)
LEMMA PoolNext == PoolInv /\ [AnyStep]_vars => PoolInv'
  <1> SUFFICES ASSUME PoolInv, [AnyStep]_vars PROVE PoolInv'
    OBVIOUS
  <1>1. CASE BeginTx
    BY <1>1 DEF BeginTx, chainVars, PoolInv, TypeOK
  <1>2. ASSUME NEW identity \in Identity, NEW chainId \in ChainIds, NEW key \in Keys,
               NEW data \in AttachData, Register(identity, chainId, key, data)
        PROVE  PoolInv'
    BY <1>2, RegisterKeeps, GenesisAssumption
  <1>3. ASSUME NEW note \in Commitment, NEW denom \in Denom, NEW key \in Keys,
               NEW data \in AttachData, NEW amount \in 1..(FieldModulus - 1),
               Deposit(note, amount, denom, key, data)
        PROVE  PoolInv'
    <2>1. amount \in Nat /\ data \in BOOLEAN
      BY SupplyAssumption, GenesisAssumption
    <2> QED
      BY <1>3, <2>1, DepositKeeps
  <1>4. CASE AnyTransact
    <2>1. PICK msg : /\ msg.denom \in Denom
                     /\ msg.inputs \in NotePair /\ msg.outputs \in NotePair
                     /\ Transact(msg)
      BY <1>4 DEF AnyTransact
    <2> QED
      BY <2>1, TransactKeeps
  <1>5. ASSUME NEW p \in ParamChoices, UpdateParams(p) PROVE PoolInv'
    BY <1>5, GenesisAssumption DEF UpdateParams, PoolInv, TypeOK
  <1>6. ASSUME NEW circuit \in Circuit, SetVerificationKey(circuit) PROVE PoolInv'
    BY <1>6 DEF SetVerificationKey, PoolInv, TypeOK
  <1>7. CASE UNCHANGED vars
    BY <1>7 DEF vars, PoolInv, TypeOK
  <1> QED
    BY <1>1, <1>2, <1>3, <1>4, <1>5, <1>6, <1>7 DEF AnyStep

(* The whole store keeps its type; no balance ever goes below zero. *)
THEOREM PoolTypeCorrect == Spec => []TypeOK
  <1>1. PoolInv => TypeOK
    BY DEF PoolInv
  <1> QED
    BY <1>1, PoolInit, PoolNext, NextIsAnyStep, PTL DEF Spec

(* No commitment is ever in two leaves, whether deposits or transacts       *)
(* inserted it, two of one message included: a note that exists twice would *)
(* have one nullifier for both.                                             *)
THEOREM PoolLeavesUnique == Spec => []UniqueLeaves(forest)
  <1>1. PoolInv => UniqueLeaves(forest)
    BY DEF PoolInv, ForestInv
  <1> QED
    BY <1>1, PoolInit, PoolNext, NextIsAnyStep, PTL DEF Spec

(* The stored registration root is always the Merkle root of the identities *)
(* in the order they registered, and no identity ever gets a second leaf:   *)
(* the frontier that insertLeafSingleTree keeps stands for the whole tree.  *)
THEOREM RegistrationStaysSound == Spec => []RegistrationIsSound
  <1>1. PoolInv => RegistrationIsSound
    BY DEF PoolInv, Registers, RegistrationIsSound
  <1> QED
    BY <1>1, PoolInit, PoolNext, NextIsAnyStep, PTL DEF Spec

-----------------------------------------------------------------------------
(***************************************************************************)
(* The auditor's data.                                                     *)
(***************************************************************************)

(* Data is only ever stored under the first item of a transaction, and that *)
(* item is inserted in the same step: a key in the store is used up, so the *)
(* duplicate checks of notes and identities keep later transactions off it. *)
DataInv == PoolInv /\ DOMAIN auditorData \subseteq forest.used \cup registration.used

(* What one StoreAuditorData call does to the data of other transactions. *)
OthersKept ==
    \A hash \in DOMAIN auditorData \ {txHash} :
        hash \in DOMAIN auditorData' /\ auditorData'[hash] = auditorData[hash]

(* An item that no key is called by is stored beside what was there. *)
LEMMA StoringKeeps ==
    ASSUME TypeOK, NEW item, item \notin DOMAIN auditorData, NEW hasData \in BOOLEAN,
           StoreAuditorData(item, hasData)
    PROVE  OthersKept /\ DOMAIN auditorData' \subseteq DOMAIN auditorData \cup {item}
  <1>1. CASE hasData
    <2>1. PICK hash : hash = IF txHash = Unset THEN item ELSE txHash
      OBVIOUS
    <2>2. auditorData' = Put(auditorData, hash, item)
      BY <1>1, <2>1 DEF StoreAuditorData
    <2>3. hash \in DOMAIN auditorData => hash = txHash
      BY <2>1
    <2>4. hash \in DOMAIN auditorData \cup {item}
      BY <2>1 DEF TypeOK
    <2>5. OthersKept
      BY <2>2, <2>3, PutElsewhere DEF OthersKept
    <2>6. DOMAIN auditorData' = DOMAIN auditorData \cup {hash}
      BY <2>2 DEF Put
    <2> QED
      BY <2>4, <2>5, <2>6
  <1>2. CASE ~ hasData
    BY <1>2 DEF StoreAuditorData, OthersKept
  <1> QED
    BY <1>1, <1>2

(* A used marker is never cleared by an insertion. *)
LEMMA OutputKeepsUsed ==
    ASSUME NEW f, ForestInv(f), NEW note \in Commitment \cup {Zero},
           NEW g, g = InsertOutput(f, note)
    PROVE  f.used \subseteq g.used
  <1>1. CASE note = Zero
    BY <1>1 DEF InsertOutput
  <1>2. CASE note # Zero
    BY <1>2, InsertNoteLeaf DEF InsertOutput, ForestInv
  <1> QED
    BY <1>1, <1>2

(* What a registration stores is about an identity that is new. *)
LEMMA RegisterKeepsData ==
    ASSUME DataInv, NEW identity \in Identity, NEW chainId, NEW key,
           NEW hasData \in BOOLEAN, Register(identity, chainId, key, hasData)
    PROVE  DataInv' /\ OthersKept
  <1>1. PoolInv'
    BY RegisterKeeps DEF DataInv
  <1>2. forest.used \subseteq Commitment
    BY DEF DataInv, PoolInv, ForestInv, LeavesAreNotes
  <1>3. identity \notin DOMAIN auditorData
    BY <1>2, ItemAssumption DEF DataInv, Register, CanInsertRegCommitment
  <1>4. TypeOK /\ StoreAuditorData(identity, hasData)
    BY DEF DataInv, PoolInv, Register
  <1>5. OthersKept /\ DOMAIN auditorData' \subseteq DOMAIN auditorData \cup {identity}
    BY <1>3, <1>4, StoringKeeps
  <1>6. forest' = forest /\ registration'.used = registration.used \cup {identity}
    BY DEF Register, InsertRegCommitment
  <1> QED
    BY <1>1, <1>5, <1>6 DEF DataInv

(* What a deposit stores is about a note that is new. *)
LEMMA DepositKeepsData ==
    ASSUME DataInv, NEW note \in Commitment, NEW amount \in Nat, NEW denom \in Denom,
           NEW key, NEW hasData \in BOOLEAN, Deposit(note, amount, denom, key, hasData)
    PROVE  DataInv' /\ OthersKept
  <1>1. PoolInv'
    BY DepositKeeps DEF DataInv
  <1>2. registration.used \subseteq Identity
    BY DEF DataInv, PoolInv, TypeOK, RegistrationTypeOK
  <1>3. note \notin DOMAIN auditorData
    BY <1>2, ItemAssumption DEF DataInv, Deposit, CanInsertNote
  <1>4. TypeOK /\ StoreAuditorData(note, hasData)
    BY DEF DataInv, PoolInv, Deposit
  <1>5. OthersKept /\ DOMAIN auditorData' \subseteq DOMAIN auditorData \cup {note}
    BY <1>3, <1>4, StoringKeeps
  <1>6. registration' = registration /\ forest'.used = forest.used \cup {note}
    BY InsertNoteLeaf DEF Deposit, DataInv, PoolInv, ForestInv
  <1> QED
    BY <1>1, <1>5, <1>6 DEF DataInv

(* A transact stores no data and drops no item that data is about. *)
LEMMA TransactKeepsData ==
    ASSUME DataInv, NEW msg, msg.denom \in Denom,
           msg.inputs \in NotePair, msg.outputs \in NotePair,
           Transact(msg)
    PROVE  DataInv' /\ OthersKept
  <1>1. PoolInv'
    BY TransactKeeps DEF DataInv
  <1>2. PICK middle : middle = AfterFirstOutput(msg)
    OBVIOUS
  <1>3. /\ msg.outputs[1] \in Commitment \cup {Zero}
        /\ msg.outputs[2] \in Commitment \cup {Zero}
    BY DEF NotePair
  <1>4. ForestInv(forest) /\ CanInsertOutput(forest, msg.outputs[1])
    BY DEF DataInv, PoolInv, ForestInv, Transact, CanTransact, OutputsAccepted
  <1>5. ForestInv(middle) /\ forest.used \subseteq middle.used
    BY <1>2, <1>3, <1>4, InsertOutputGood, OutputKeepsUsed DEF AfterFirstOutput
  <1>6. forest' = InsertOutput(middle, msg.outputs[2])
    BY <1>2 DEF Transact
  <1>7. forest.used \subseteq forest'.used
    BY <1>3, <1>5, <1>6, OutputKeepsUsed
  <1>8. registration' = registration /\ auditorData' = auditorData
    BY DEF Transact
  <1> QED
    BY <1>1, <1>7, <1>8 DEF DataInv, OthersKept

(* One step of the pool. *)
LEMMA DataNext == DataInv /\ [AnyStep]_vars => DataInv' /\ [OthersKept]_vars
  <1> SUFFICES ASSUME DataInv, [AnyStep]_vars PROVE DataInv' /\ [OthersKept]_vars
    OBVIOUS
  <1>1. PoolInv'
    BY PoolNext DEF DataInv
  <1>2. CASE UNCHANGED <<forest, registration, auditorData>>
    BY <1>1, <1>2 DEF DataInv, OthersKept
  <1>3. CASE BeginTx
    BY <1>2, <1>3 DEF BeginTx, chainVars
  <1>4. ASSUME NEW identity \in Identity, NEW chainId \in ChainIds, NEW key \in Keys,
               NEW data \in AttachData, Register(identity, chainId, key, data)
        PROVE  DataInv' /\ OthersKept
    BY <1>4, RegisterKeepsData, GenesisAssumption
  <1>5. ASSUME NEW note \in Commitment, NEW denom \in Denom, NEW key \in Keys,
               NEW data \in AttachData, NEW amount \in 1..(FieldModulus - 1),
               Deposit(note, amount, denom, key, data)
        PROVE  DataInv' /\ OthersKept
    <2>1. amount \in Nat /\ data \in BOOLEAN
      BY SupplyAssumption, GenesisAssumption
    <2> QED
      BY <1>5, <2>1, DepositKeepsData
  <1>6. CASE AnyTransact
    <2>1. PICK msg : /\ msg.denom \in Denom
                     /\ msg.inputs \in NotePair /\ msg.outputs \in NotePair
                     /\ Transact(msg)
      BY <1>6 DEF AnyTransact
    <2> QED
      BY <2>1, TransactKeepsData
  <1>7. ASSUME NEW p \in ParamChoices, UpdateParams(p) PROVE DataInv' /\ OthersKept
    BY <1>1, <1>7 DEF UpdateParams, DataInv, OthersKept
  <1>8. ASSUME NEW circuit \in Circuit, SetVerificationKey(circuit) PROVE DataInv' /\ OthersKept
    BY <1>1, <1>8 DEF SetVerificationKey, DataInv, OthersKept
  <1>9. CASE UNCHANGED vars
    BY <1>2, <1>9 DEF vars
  <1> QED
    BY <1>3, <1>4, <1>5, <1>6, <1>7, <1>8, <1>9 DEF AnyStep

(* The data of a finished transaction is never replaced, whatever order the  *)
(* messages of later transactions come in: AuditorDataKey gives no two       *)
(* transactions one key (StoreAuditorData).                                  *)
THEOREM AuditorDataStays == Spec => FinishedDataIsKept
  <1>1. Init => DataInv
    <2>1. Init => DOMAIN auditorData = {}
      BY DEF Init
    <2> QED
      BY <2>1, PoolInit DEF DataInv
  <1>2. [OthersKept]_vars <=>
        [\A hash \in DOMAIN auditorData \ {txHash} :
            hash \in DOMAIN auditorData' /\ auditorData'[hash] = auditorData[hash]]_vars
    BY DEF OthersKept
  <1> QED
    BY <1>1, <1>2, DataNext, NextIsAnyStep, PTL DEF Spec, FinishedDataIsKept

-----------------------------------------------------------------------------
(***************************************************************************)
(* Sums over finite sets.                                                  *)
(***************************************************************************)

(* The sum of the weights of the elements of a set. *)
Total(weight, S) == MapThenSumSet(LAMBDA x : weight[x], S)

Pick(s) == CHOOSE x \in s : TRUE

(* The equation that the recursion solves. *)
IsSum(sum, weight, D) ==
    sum = [s \in D |-> IF s = {} THEN 0 ELSE weight[Pick(s)] + sum[s \ {Pick(s)}]]

(* A set with elements has its chosen one. *)
LEMMA PickIsElement ==
    ASSUME NEW s, s # {}
    PROVE  Pick(s) \in s
  BY DEF Pick

(* What the community module's recursion says, one expansion down. *)
LEMMA TotalIsChosen ==
    ASSUME NEW weight, NEW S
    PROVE  Total(weight, S) = (CHOOSE sum : IsSum(sum, weight, SUBSET S))[S]
  BY DEF Total, MapThenSumSet, MapThenFoldSet, IsSum, Pick

(* What is left of a finite set without one element, and its size. *)
LEMMA WithoutPick ==
    ASSUME NEW s, IsFiniteSet(s), s # {}
    PROVE  /\ IsFiniteSet(s \ {Pick(s)})
           /\ Cardinality(s) \in Nat /\ Cardinality(s \ {Pick(s)}) \in Nat
           /\ Cardinality(s \ {Pick(s)}) = Cardinality(s) - 1
  BY PickIsElement, FS_RemoveElement, FS_CardinalityType

(* The recursion over the subsets of a finite set has a solution: those of *)
(* at most n elements can be summed, for every n.                          *)
LEMMA SumExists ==
    ASSUME NEW weight, NEW S, IsFiniteSet(S)
    PROVE  \E sum : IsSum(sum, weight, SUBSET S)
  <1> DEFINE D(n) == {s \in SUBSET S : Cardinality(s) <= n}
             T    == {n \in Nat : ~ \E sum : IsSum(sum, weight, D(n))}
  <1>1. \A s \in SUBSET S : IsFiniteSet(s) /\ Cardinality(s) \in Nat
    BY FS_Subset, FS_CardinalityType
  <1>2. ASSUME T # {} PROVE FALSE
    <2>1. PICK n \in T : \A m \in T : n <= m
      <3> HIDE DEF T
      <3>1. T \subseteq Nat
        BY DEF T
      <3> QED
        BY <1>2, <3>1, LeastNatural
    <2>2. CASE n = 0
      <3>1. \A s \in D(0) : s = {}
        BY <1>1, FS_EmptySet
      <3>2. IsSum([s \in D(0) |-> 0], weight, D(0))
        BY <3>1 DEF IsSum
      <3> QED
        BY <2>1, <2>2, <3>2
    <2>3. CASE n # 0
      <3>1. n - 1 \in Nat /\ n - 1 \notin T
        <4>1. n \in Nat
          OBVIOUS
        <4> HIDE DEF T
        <4> QED
          BY <2>1, <2>3, <4>1
      <3>2. PICK lower : IsSum(lower, weight, D(n - 1))
        BY <3>1
      <3> DEFINE sum == [s \in D(n) |-> IF s = {} THEN 0
                                        ELSE weight[Pick(s)] + lower[s \ {Pick(s)}]]
      <3>3. ASSUME NEW s \in D(n), s # {}
            PROVE  s \ {Pick(s)} \in D(n - 1) /\ s \ {Pick(s)} \in D(n)
        BY <1>1, <3>3, <2>1, WithoutPick
      <3>4. \A t \in D(n - 1) : t \in D(n) => sum[t] = lower[t]
        BY <3>2 DEF IsSum
      <3>5. \A s \in D(n) : s # {} => sum[s \ {Pick(s)}] = lower[s \ {Pick(s)}]
        BY <3>3, <3>4
      <3>6. IsSum(sum, weight, D(n))
        BY <3>5 DEF IsSum
      <3> QED
        BY <2>1, <3>6
    <2> QED
      BY <2>2, <2>3
  <1>3. Cardinality(S) \in Nat /\ Cardinality(S) \notin T
    BY <1>1, <1>2
  <1>4. D(Cardinality(S)) = SUBSET S
    BY FS_Subset
  <1> QED
    BY <1>3, <1>4

(* The solution at a set is the same within whatever larger set it was found. *)
LEMMA SumsAgree ==
    ASSUME NEW weight, NEW S, NEW U, NEW f, NEW g, IsFiniteSet(S), U \subseteq S,
           IsSum(f, weight, SUBSET S), IsSum(g, weight, SUBSET U)
    PROVE  f[U] = g[U]
  <1> DEFINE Differ == {s \in SUBSET U : f[s] # g[s]}
             T      == {Cardinality(s) : s \in Differ}
  <1>1. \A s \in SUBSET S : IsFiniteSet(s) /\ Cardinality(s) \in Nat
    BY FS_Subset, FS_CardinalityType
  <1>2. ASSUME T # {} PROVE FALSE
    <2>1. PICK n \in T : \A m \in T : n <= m
      <3>1. T \subseteq Nat
        BY <1>1
      <3> HIDE DEF T
      <3> QED
        BY <1>2, <3>1, LeastNatural
    <2>2. PICK s \in Differ : n = Cardinality(s)
      OBVIOUS
    <2>3. CASE s = {}
      BY <2>2, <2>3 DEF IsSum
    <2>4. CASE s # {}
      <3>1. Cardinality(s \ {Pick(s)}) \in Nat /\ Cardinality(s \ {Pick(s)}) < n
        BY <1>1, <2>2, <2>4, WithoutPick
      <3>2. s \ {Pick(s)} \notin Differ
        <4>1. n \in Nat
          BY <1>1, <2>2
        <4> QED
          BY <2>1, <3>1, <4>1
      <3>3. /\ f[s] = weight[Pick(s)] + f[s \ {Pick(s)}]
            /\ g[s] = weight[Pick(s)] + g[s \ {Pick(s)}]
        BY <2>4 DEF IsSum
      <3>4. s \ {Pick(s)} \in SUBSET U
        OBVIOUS
      <3>5. f[s \ {Pick(s)}] = g[s \ {Pick(s)}]
        BY <3>2, <3>4
      <3>6. f[s] # g[s]
        OBVIOUS
      <3> QED
        BY <3>3, <3>5, <3>6
    <2> QED
      BY <2>3, <2>4
  <1> QED
    BY <1>2

(* The sum over nothing, and the sum over a set in terms of the sum without *)
(* the element that the recursion chooses.                                  *)
LEMMA TotalUnfolds ==
    ASSUME NEW weight, NEW S, IsFiniteSet(S)
    PROVE  Total(weight, S) = IF S = {} THEN 0
                              ELSE weight[Pick(S)] + Total(weight, S \ {Pick(S)})
  <1>1. PICK R : R = S \ {Pick(S)}
    OBVIOUS
  <1>2. IsFiniteSet(R) /\ R \subseteq S
    BY <1>1, FS_Subset
  <1>3. PICK f : f = CHOOSE sum : IsSum(sum, weight, SUBSET S)
    OBVIOUS
  <1>4. PICK g : g = CHOOSE sum : IsSum(sum, weight, SUBSET R)
    OBVIOUS
  <1>5. IsSum(f, weight, SUBSET S) /\ IsSum(g, weight, SUBSET R)
    BY <1>2, <1>3, <1>4, SumExists
  <1>6. Total(weight, S) = f[S] /\ Total(weight, R) = g[R]
    BY <1>3, <1>4, TotalIsChosen
  <1>7. f[R] = g[R]
    BY <1>2, <1>5, SumsAgree
  <1>8. f[S] = IF S = {} THEN 0 ELSE weight[Pick(S)] + f[R]
    BY <1>1, <1>5 DEF IsSum
  <1> QED
    BY <1>1, <1>6, <1>7, <1>8

(* An element adds its weight, whatever the recursion chooses, and the sum *)
(* is a number.                                                            *)
LEMMA TotalAdds ==
    ASSUME NEW weight, NEW S, IsFiniteSet(S), \A x \in S : weight[x] \in Nat,
           NEW e \in S
    PROVE  /\ Total(weight, S) \in Nat /\ Total(weight, S \ {e}) \in Nat
           /\ Total(weight, S) = Total(weight, S \ {e}) + weight[e]
  <1> DEFINE Adds(s) == /\ Total(weight, s) \in Nat
                        /\ \A x \in s : Total(weight, s) = Total(weight, s \ {x}) + weight[x]
             Bad == {s \in SUBSET S : ~ Adds(s)}
             T   == {Cardinality(s) : s \in Bad}
  <1>1. \A s \in SUBSET S : IsFiniteSet(s) /\ Cardinality(s) \in Nat
    BY FS_Subset, FS_CardinalityType
  <1>2. ASSUME T # {} PROVE FALSE
    <2>1. PICK n \in T : \A m \in T : n <= m
      <3>1. T \subseteq Nat
        BY <1>1
      <3> HIDE DEF T
      <3> QED
        BY <1>2, <3>1, LeastNatural
    <2>2. PICK s \in Bad : n = Cardinality(s)
      OBVIOUS
    <2>3. s \in SUBSET S /\ ~ Adds(s)
      OBVIOUS
    <2>4. \A t \in SUBSET S : Cardinality(t) < n => Adds(t)
      <3>1. n \in Nat
        BY <1>1, <2>2
      <3> HIDE DEF Adds
      <3> QED
        BY <1>1, <2>1, <3>1
    <2>5. CASE s = {}
      <3>1. Total(weight, s) = 0
        BY <1>1, <2>3, <2>5, TotalUnfolds
      <3> QED
        BY <2>3, <2>5, <3>1
    <2>6. CASE s # {}
      <3> DEFINE p == Pick(s)
      <3>1. p \in s /\ p \in S
        BY <2>3, <2>6, PickIsElement
      <3>2. \A x \in s : Adds(s \ {x})
        <4> SUFFICES ASSUME NEW x \in s PROVE Adds(s \ {x})
          OBVIOUS
        <4>1. Cardinality(s \ {x}) < n
          BY <1>1, <2>2, <2>3, FS_RemoveElement
        <4> HIDE DEF Adds
        <4> QED
          BY <2>3, <2>4, <4>1
      <3>3. Total(weight, s) = weight[p] + Total(weight, s \ {p})
        BY <1>1, <2>3, <2>6, TotalUnfolds
      <3>4. Total(weight, s \ {p}) \in Nat /\ weight[p] \in Nat
        BY <3>1, <3>2
      <3> HIDE DEF p
      <3>5. ASSUME NEW x \in s PROVE Total(weight, s) = Total(weight, s \ {x}) + weight[x]
        <4>1. weight[x] \in Nat /\ Total(weight, s \ {x}) \in Nat
          BY <2>3, <3>2
        <4>2. CASE x = p
          BY <3>3, <3>4, <4>1, <4>2
        <4>3. CASE x # p
          <5> DEFINE m == (s \ {p}) \ {x}
          <5>1. m = (s \ {x}) \ {p} /\ x \in s \ {p} /\ p \in s \ {x}
            BY <3>1, <4>3
          <5>2. Total(weight, s \ {p}) = Total(weight, m) + weight[x]
            BY <3>1, <3>2, <5>1
          <5>3. Total(weight, s \ {x}) = Total(weight, m) + weight[p]
            BY <3>2, <5>1
          <5>4. Total(weight, m) \in Nat
            <6>1. m \in SUBSET S /\ Cardinality(m) < n
              <7>1. Cardinality(s \ {p}) < n /\ Cardinality(s \ {p}) \in Nat
                BY <1>1, <2>2, <2>3, <3>1, FS_RemoveElement
              <7>2. Cardinality(m) < Cardinality(s \ {p}) /\ Cardinality(m) \in Nat
                <8> DEFINE r == s \ {p}
                <8>1. r \in SUBSET S /\ x \in r /\ m = r \ {x}
                  BY <2>3, <5>1
                <8> HIDE DEF r, m
                <8>2. IsFiniteSet(r) /\ Cardinality(r) \in Nat
                  BY <1>1, <8>1
                <8>3. Cardinality(m) = Cardinality(r) - 1 /\ IsFiniteSet(m)
                  BY <8>1, <8>2, FS_RemoveElement
                <8>4. Cardinality(m) \in Nat
                  BY <8>3, FS_CardinalityType
                <8> QED
                  BY <8>2, <8>3, <8>4 DEF r
              <7> QED
                BY <1>1, <2>2, <2>3, <7>1, <7>2
            <6> HIDE DEF m
            <6> QED
              BY <2>4, <6>1
          <5> HIDE DEF m
          <5> QED
            BY <3>3, <3>4, <4>1, <5>2, <5>3, <5>4
        <4> QED
          BY <4>2, <4>3
      <3>6. p \in s
        BY <3>1
      <3>7. Total(weight, s) \in Nat
        BY <3>3, <3>4
      <3>8. Adds(s)
        BY <3>5, <3>7
      <3> HIDE DEF Adds
      <3> QED
        BY <2>3, <3>8
    <2> QED
      BY <2>5, <2>6
  <1>3. \A s \in SUBSET S : Adds(s)
    BY <1>2
  <1> QED
    BY <1>3

(* The same, for an element that was not there. *)
LEMMA TotalGrows ==
    ASSUME NEW weight, NEW S, IsFiniteSet(S), NEW e, e \notin S,
           \A x \in S \cup {e} : weight[x] \in Nat
    PROVE  /\ Total(weight, S) \in Nat
           /\ Total(weight, S \cup {e}) = Total(weight, S) + weight[e]
  <1>1. IsFiniteSet(S \cup {e}) /\ (S \cup {e}) \ {e} = S
    BY FS_AddElement
  <1> QED
    BY <1>1, TotalAdds

(* Nothing weighs nothing. *)
LEMMA TotalOfNone ==
    ASSUME NEW weight
    PROVE  Total(weight, {}) = 0
  BY TotalUnfolds, FS_EmptySet

-----------------------------------------------------------------------------
(***************************************************************************)
(* What the trees were hashed from.                                        *)
(***************************************************************************)

(* A set of nodes closed under going down, whose leaves hold elements of E, *)
(* and which has the empty subtrees.                                        *)
Grown(K, E) ==
    /\ \A level \in Nat : ZeroHash[level] \in K
    /\ \A node \in K : Children(node) \subseteq K
    /\ \A node \in K : Len(node) = 1 => node[1] \in E \cup {Zero}

IsGenerations(row, root, n) ==
    row = [level \in 0..n |->
             IF level = 0 THEN {root} ELSE Below(row[level - 1])]

(* There is a function such as the recursive definition of paths speaks of. *)
LEMMA GenerationsExist ==
    ASSUME NEW root, NEW depth \in Nat
    PROVE  \E row : IsGenerations(row, root, depth)
  <1> DEFINE G == {n \in Nat : \E row : IsGenerations(row, root, n)}
  <1>1. 0 \in G
    <2>1. IsGenerations([level \in 0..0 |-> {root}], root, 0)
      BY DEF IsGenerations
    <2> QED
      BY <2>1
  <1>2. ASSUME NEW n \in Nat, n \in G PROVE n + 1 \in G
    <2>1. PICK row : IsGenerations(row, root, n)
      BY <1>2
    <2>2. PICK v : v = [level \in 0..(n + 1) |->
                          IF level = 0 THEN {root}
                          ELSE Below(row[level - 1])]
      OBVIOUS
    <2>3. \A level \in 0..n : v[level] = row[level]
      <3> TAKE level \in 0..n
      <3>1. level \in 0..(n + 1)
        OBVIOUS
      <3>2. v[level] = IF level = 0 THEN {root} ELSE Below(row[level - 1])
        BY <2>2, <3>1
      <3>3. PICK e : e = [l \in 0..n |-> IF l = 0 THEN {root} ELSE Below(row[l - 1])]
        OBVIOUS
      <3>4. row = e
        BY <2>1, <3>3 DEF IsGenerations
      <3>5. e[level] = IF level = 0 THEN {root} ELSE Below(row[level - 1])
        BY <3>3
      <3> QED
        BY <3>2, <3>4, <3>5
    <2>4. \A level \in 0..(n + 1) :
            v[level] = IF level = 0 THEN {root}
                       ELSE Below(v[level - 1])
      <3> TAKE level \in 0..(n + 1)
      <3>1. level # 0 => level - 1 \in 0..n
        OBVIOUS
      <3> QED
        BY <2>2, <2>3, <3>1
    <2>5. IsGenerations(v, root, n + 1)
      BY <2>2, <2>4 DEF IsGenerations
    <2> QED
      BY <2>5
  <1>3. \A n \in Nat : n \in G
    <2> HIDE DEF G
    <2> QED
      BY <1>1, <1>2, NumberInduction
  <1> QED
    BY <1>3

(* Paths start at the root and go on from node to child. *)
LEMMA GenerationsEquation ==
    ASSUME NEW root, NEW depth \in Nat, NEW row, row = Generations(root, depth)
    PROVE  /\ row[0] = {root}
           /\ \A l \in 0..(depth - 1) :
                row[l + 1] = Below(row[l])
  <1>1. IsGenerations(row, root, depth)
    <2>1. row = CHOOSE r : IsGenerations(r, root, depth)
      BY DEF Generations, IsGenerations
    <2> QED
      BY <2>1, GenerationsExist
  <1>2. \A level \in 0..depth :
          row[level] = IF level = 0 THEN {root}
                       ELSE Below(row[level - 1])
    BY <1>1 DEF IsGenerations
  <1>3. ASSUME NEW l \in 0..(depth - 1)
        PROVE  row[l + 1] = Below(row[l])
    <2>1. l + 1 \in 0..depth /\ l + 1 # 0 /\ (l + 1) - 1 = l
      OBVIOUS
    <2> QED
      BY <1>2, <2>1
  <1> QED
    BY <1>2, <1>3

(* What has a path to a node of such a set is one of its elements. *)
LEMMA GrownLeaves ==
    ASSUME NEW K, NEW E, NEW root \in K, NEW depth \in Nat, Grown(K, E)
    PROVE  LeavesUnder(root, depth) \subseteq E \cup {Zero}
  <1>1. PICK row : row = Generations(root, depth)
    OBVIOUS
  <1>2. /\ row[0] = {root}
        /\ \A l \in 0..(depth - 1) :
             row[l + 1] = Below(row[l])
    BY <1>1, GenerationsEquation
  <1> DEFINE G == {n \in Nat : n <= depth => row[n] \subseteq K}
  <1>3. 0 \in G
    BY <1>2
  <1>4. ASSUME NEW n \in Nat, n \in G PROVE n + 1 \in G
    <2> SUFFICES ASSUME n + 1 <= depth PROVE row[n + 1] \subseteq K
      OBVIOUS
    <2>1. n \in 0..(depth - 1) /\ row[n] \subseteq K
      BY <1>4
    <2>2. \A node \in row[n] : Children(node) \subseteq K
      BY <2>1 DEF Grown
    <2> QED
      BY <1>2, <2>1, <2>2 DEF Below
  <1>5. \A n \in Nat : n \in G
    <2> HIDE DEF G
    <2> QED
      BY <1>3, <1>4, NumberInduction
  <1>6. row[depth] \subseteq K
    BY <1>5
  <1> QED
    BY <1>1, <1>6 DEF LeavesUnder, Grown

(* Before anything is inserted there are the empty subtrees. *)
LEMMA EmptyGrown == \E K : Grown(K, {})
  <1> DEFINE K == {ZeroHash[level] : level \in Nat}
  <1>1. ASSUME NEW node \in K
        PROVE  Children(node) \subseteq K /\ (Len(node) = 1 => node[1] = Zero)
    <2>1. PICK level \in Nat : node = ZeroHash[level]
      OBVIOUS
    <2>2. CASE level = 0
      <3>1. node = <<Zero>>
        BY <2>1, <2>2, ZeroHashEquation DEF Leaf
      <3> QED
        BY <3>1 DEF Children
    <2>3. CASE level # 0
      <3>1. PICK below \in Nat : level = below + 1
        <4>1. level - 1 \in Nat /\ level = (level - 1) + 1
          BY <2>3
        <4> QED
          BY <4>1
      <3>2. node = <<ZeroHash[below], ZeroHash[below]>>
        BY <2>1, <3>1, ZeroHashEquation DEF Hash2
      <3>3. ZeroHash[below] \in K
        OBVIOUS
      <3> HIDE DEF K
      <3> QED
        BY <3>2, <3>3 DEF Children
    <2> QED
      BY <2>2, <2>3
  <1>2. \A level \in Nat : ZeroHash[level] \in K
    OBVIOUS
  <1> HIDE DEF K
  <1>3. Grown(K, {})
    BY <1>1, <1>2 DEF Grown
  <1> QED
    BY <1>3

(* A frontier made of nodes of K. *)
NodesIn(frontier, K) == \A level \in DOMAIN frontier : frontier[level] \in K

(* A climb adds its own nodes, whose one leaf is the new element. *)
LEMMA ClimbGrows ==
    ASSUME NEW K, NEW E, NEW frontier, NEW leaf, NEW index, NEW depth \in Nat,
           Grown(K, E), NodesIn(frontier, K)
    PROVE  \E M : /\ K \subseteq M /\ Grown(M, E \cup {leaf})
                  /\ NodesIn(NewFrontier(frontier, leaf, index, depth), M)
                  /\ NewRoot(frontier, leaf, index, depth) \in M
  <1>1. PICK path : path = Path(frontier, leaf, index, depth)
    OBVIOUS
  <1>2. /\ path[0] = Leaf(leaf)
        /\ \A l \in 0..(depth - 1) :
             path[l + 1] = IF GoesLeft(index, l)
                           THEN Hash2(path[l], ZeroHash[l])
                           ELSE Hash2(LeftSibling(frontier, l), path[l])
    BY <1>1, PathEquation
  <1>3. PICK M : M = K \cup {path[l] : l \in 0..depth}
    OBVIOUS
  <1>4. \A l \in Nat : ZeroHash[l] \in K
    BY DEF Grown
  <1>5. \A l \in Nat : LeftSibling(frontier, l) \in K
    BY <1>4, ZeroHashEquation DEF LeftSibling, Get, NodesIn
  <1>6. ASSUME NEW l \in 0..depth
        PROVE  /\ Children(path[l]) \subseteq M
               /\ Len(path[l]) = 1 => path[l][1] = leaf
    <2>1. CASE l = 0
      <3>1. path[l] = <<leaf>>
        BY <1>2, <2>1 DEF Leaf
      <3> QED
        BY <3>1 DEF Children
    <2>2. CASE l # 0
      <3>1. PICK m \in 0..(depth - 1) : l = m + 1
        <4>1. l - 1 \in 0..(depth - 1) /\ l = (l - 1) + 1
          BY <2>2
        <4> QED
          BY <4>1
      <3>2. path[m] \in M /\ ZeroHash[m] \in M /\ LeftSibling(frontier, m) \in M
        BY <1>3, <1>4, <1>5
      <3>3. PICK left \in M, right \in M : path[l] = <<left, right>>
        <4>1. CASE GoesLeft(index, m)
          BY <1>2, <3>1, <3>2, <4>1 DEF Hash2
        <4>2. CASE ~ GoesLeft(index, m)
          BY <1>2, <3>1, <3>2, <4>2 DEF Hash2
        <4> QED
          BY <4>1, <4>2
      <3> QED
        BY <3>3 DEF Children
    <2> QED
      BY <2>1, <2>2
  <1>7. Grown(M, E \cup {leaf})
    BY <1>3, <1>6 DEF Grown
  <1>8. NodesIn(NewFrontier(frontier, leaf, index, depth), M)
    BY <1>1, <1>3 DEF NewFrontier, NodesIn
  <1>9. NewRoot(frontier, leaf, index, depth) \in M
    BY <1>1, <1>3 DEF NewRoot
  <1> QED
    BY <1>3, <1>7, <1>8, <1>9

(* The roots a store holds once one more is written. *)
LEMMA HeldAfterPut ==
    ASSUME NEW slots, NEW key, NEW root
    PROVE  HeldRoots(Put(slots, key, root)) \subseteq HeldRoots(slots) \cup {root}
  BY DEF HeldRoots, Put

(* A forest that was hashed from nodes of K: its frontiers and its roots. *)
MadeOf(f, K) ==
    /\ \A tree \in DOMAIN f.frontier : NodesIn(f.frontier[tree], K)
    /\ HeldRoots(f.rootSlot) \subseteq K

(* A new tree is made of empty subtrees. *)
LEMMA CreateTreeMadeOf ==
    ASSUME NEW f, NEW K, NEW E, NEW depth \in Nat, NEW g,
           Good(f), Grown(K, E), MadeOf(f, K), g = CreateTree(f, depth)
    PROVE  MadeOf(g, K)
  <1>1. /\ g.frontier = Put(f.frontier, f.treeCount, EmptyFrontier(depth))
        /\ g.rootSlot = Put(f.rootSlot, TreeRootKey(f.treeCount), ZeroHash[depth])
    BY CreateTreeFacts DEF Good
  <1>2. ZeroHash[depth] \in K
    BY DEF Grown
  <1>3. HeldRoots(g.rootSlot) \subseteq K
    BY <1>1, <1>2, HeldAfterPut DEF MadeOf
  <1>4. NodesIn(EmptyFrontier(depth), K)
    BY DEF Grown, NodesIn, EmptyFrontier
  <1>5. \A tree \in DOMAIN g.frontier : NodesIn(g.frontier[tree], K)
    BY <1>1, <1>4 DEF Put, MadeOf
  <1> QED
    BY <1>3, <1>5 DEF MadeOf

(* An insertion into a forest with room for it adds the nodes of one climb. *)
LEMMA InsertedMadeOf ==
    ASSUME NEW r, NEW g, NEW commitment, NEW K, NEW E, NEW depth \in Nat,
           Grown(K, E), MadeOf(r, K), r.nextIndex[r.activeTreeId] \in Nat,
           r.activeTreeId \in DOMAIN r.nextIndex, NoteInserted(r, g, commitment, depth)
    PROVE  \E M : Grown(M, E \cup {commitment}) /\ MadeOf(g, M)
  <1>1. PICK tree : tree = r.activeTreeId
    OBVIOUS
  <1>2. PICK old : old = Frontier(r, tree)
    OBVIOUS
  <1>3. PICK n : n = r.nextIndex[tree]
    OBVIOUS
  <1>4. NodesIn(old, K)
    BY <1>2 DEF Frontier, Get, MadeOf, NodesIn
  <1>5. PICK M : /\ K \subseteq M /\ Grown(M, E \cup {commitment})
                 /\ NodesIn(NewFrontier(old, commitment, n, depth), M)
                 /\ NewRoot(old, commitment, n, depth) \in M
    BY <1>4, ClimbGrows
  <1>6. PICK nodes : nodes = NewFrontier(old, commitment, n, depth)
    OBVIOUS
  <1>7. PICK root : root = NewRoot(old, commitment, n, depth)
    OBVIOUS
  <1>8. g.frontier = Put(r.frontier, tree, nodes)
    BY <1>1, <1>2, <1>3, <1>6 DEF NoteInserted
  <1>9. PICK first : first = Put(r.rootSlot, TreeRootKey(tree), root)
    OBVIOUS
  <1>10. PICK key : key = RootHistoryKey(tree, n % MaxRootHistory)
    OBVIOUS
  <1>11. g.rootSlot = Put(first, key, root)
    BY <1>1, <1>2, <1>3, <1>7, <1>9, <1>10
    DEF NoteInserted, SlotsAfterLeaf, TreeNextIndex, Get
  <1>12. HeldRoots(g.rootSlot) \subseteq M
    <2>1. HeldRoots(first) \subseteq HeldRoots(r.rootSlot) \cup {root}
      BY <1>9, HeldAfterPut
    <2>2. HeldRoots(g.rootSlot) \subseteq HeldRoots(first) \cup {root}
      BY <1>11, HeldAfterPut
    <2> QED
      BY <1>5, <1>7, <2>1, <2>2 DEF MadeOf
  <1>13. \A t \in DOMAIN g.frontier : NodesIn(g.frontier[t], M)
    <2>1. NodesIn(nodes, M)
      BY <1>5, <1>6
    <2>2. \A t \in DOMAIN r.frontier : NodesIn(r.frontier[t], M)
      BY <1>5 DEF MadeOf, NodesIn
    <2> QED
      BY <1>8, <2>1, <2>2 DEF Put
  <1> QED
    BY <1>5, <1>12, <1>13 DEF MadeOf

(* Everything a forest stores was hashed from its notes and empty leaves. *)
ForestGrown(f) == \E K : Grown(K, f.used) /\ MadeOf(f, K)

(* The empty store holds nothing that was hashed. *)
LEMMA EmptyForestGrown ==
    ASSUME NEW f, f = EmptyForest
    PROVE  ForestGrown(f)
  <1>1. f.used = {} /\ DOMAIN f.frontier = {} /\ DOMAIN f.rootSlot = {}
    BY DEF EmptyForest
  <1> QED
    BY <1>1, EmptyGrown DEF ForestGrown, MadeOf, HeldRoots

(* A whole insertion, at any depth, keeps it so. *)
LEMMA InsertNoteGrows ==
    ASSUME NEW f, NEW commitment, NEW depth \in Nat, NEW g,
           Good(f), ForestGrown(f), g = InsertNote(f, commitment, depth)
    PROVE  ForestGrown(g)
  <1>1. PICK r : r = ForestWithRoom(f, depth)
    OBVIOUS
  <1>2. PICK K : Grown(K, f.used) /\ MadeOf(f, K)
    BY DEF ForestGrown
  <1>3. MadeOf(r, K)
    <2>1. PICK e : /\ e = f \/ e = CreateTree(f, depth)
                   /\ r = e \/ r = CreateTree(e, depth)
      BY <1>1, RoomSteps
    <2>2. Good(e) /\ MadeOf(e, K)
      BY <1>2, <2>1, CreateTreeGood, CreateTreeMadeOf
    <2> QED
      BY <1>2, <2>1, <2>2, CreateTreeMadeOf
  <1>4. Good(r) /\ r.activeTreeId \in Trees(r) /\ r.used = f.used
    BY <1>1, ForestWithRoomGood
  <1>5. /\ r.activeTreeId \in DOMAIN r.nextIndex
        /\ r.nextIndex[r.activeTreeId] \in Nat
    BY <1>4 DEF Good, ForestShapeOK, CountersOK
  <1>6. NoteInserted(r, g, commitment, depth)
    BY <1>1, InsertNoteWrites
  <1>7. g.used = f.used \cup {commitment}
    BY <1>4, <1>6 DEF NoteInserted
  <1>8. \E M : Grown(M, f.used \cup {commitment}) /\ MadeOf(g, M)
    BY <1>2, <1>3, <1>5, <1>6, InsertedMadeOf
  <1> QED
    BY <1>7, <1>8 DEF ForestGrown

(* Whatever has a path to a root that a spend may prove against is one of *)
(* the forest's notes, or the empty leaf.                                 *)
LEMMA AcceptedRootLeaves ==
    ASSUME NEW f, NEW root, NEW depth \in Nat,
           Exact(f), ForestGrown(f), IsValidRootAnyTree(f, root)
    PROVE  LeavesUnder(root, depth) \subseteq f.used \cup {Zero}
  <1>1. PICK K : Grown(K, f.used) /\ MadeOf(f, K)
    BY DEF ForestGrown
  <1>2. root \in K
    <2>1. CASE root = EmptyRoot
      BY <1>1, <2>1, DefaultDepthAssumption DEF EmptyRoot, Grown
    <2>2. CASE RootRefCount(f.rootIndex, root) > 0
      <3>1. root \in DOMAIN f.rootIndex
        BY <2>2 DEF RootRefCount, Get
      <3>2. root \in HeldRoots(f.rootSlot)
        BY <3>1 DEF Exact, CountHolders
      <3> QED
        BY <1>1, <3>2 DEF MadeOf
    <2> QED
      BY <2>1, <2>2 DEF IsValidRootAnyTree
  <1> QED
    BY <1>1, <1>2, GrownLeaves

(* The registration tree likewise. *)
RegGrown(r) ==
    \E K : /\ Grown(K, r.used) /\ NodesIn(r.frontier, K)
          /\ GetRegMerkleRoot(r) \in K

(* Before anybody registered there is nothing but the empty subtrees. *)
LEMMA EmptyRegGrown ==
    ASSUME NEW r, r = EmptyRegistration
    PROVE  RegGrown(r)
  <1>1. /\ r.used = {} /\ DOMAIN r.frontier = {}
        /\ GetRegMerkleRoot(r) = ZeroHash[RegTreeDepth]
    BY DEF EmptyRegistration, GetRegMerkleRoot, Get
  <1> QED
    BY <1>1, EmptyGrown, RegDepthAssumption DEF RegGrown, NodesIn, Grown

(* A registration adds the nodes of one climb. *)
LEMMA InsertRegGrows ==
    ASSUME NEW r, NEW identity, NEW s, RegGrown(r), s = InsertRegCommitment(r, identity)
    PROVE  RegGrown(s)
  <1>1. PICK K : Grown(K, r.used) /\ NodesIn(r.frontier, K)
    BY DEF RegGrown
  <1>2. PICK n : n = r.nextIndex
    OBVIOUS
  <1>3. /\ s.frontier = NewFrontier(r.frontier, identity, n, RegTreeDepth)
        /\ s.used = r.used \cup {identity}
        /\ s.root = Put(r.root, RegRootKey, NewRoot(r.frontier, identity, n, RegTreeDepth))
    BY <1>2 DEF InsertRegCommitment
  <1>4. GetRegMerkleRoot(s) = NewRoot(r.frontier, identity, n, RegTreeDepth)
    BY <1>3 DEF GetRegMerkleRoot, Get, Put
  <1>5. PICK M : /\ K \subseteq M /\ Grown(M, r.used \cup {identity})
                 /\ NodesIn(NewFrontier(r.frontier, identity, n, RegTreeDepth), M)
                 /\ NewRoot(r.frontier, identity, n, RegTreeDepth) \in M
    BY <1>1, ClimbGrows, RegDepthAssumption
  <1> QED
    BY <1>3, <1>4, <1>5 DEF RegGrown

(* Who has a path to the registration root of the moment is registered. *)
LEMMA RegRootLeaves ==
    ASSUME NEW r, NEW depth \in Nat, RegGrown(r)
    PROVE  LeavesUnder(GetRegMerkleRoot(r), depth) \subseteq r.used \cup {Zero}
  BY GrownLeaves DEF RegGrown

-----------------------------------------------------------------------------
(***************************************************************************)
(* The two notes on one side of a transact.                                *)
(***************************************************************************)

NotesIn(notes) == {notes[i] : i \in Real(notes)}

(* No note is on this side twice. *)
Distinct(notes) == notes[1] = notes[2] => notes[1] = Zero

(* A side is its real notes, at most two of them. *)
LEMMA PairNotes ==
    ASSUME NEW notes \in NotePair
    PROVE  /\ NotesIn(notes) = {notes[1], notes[2]} \ {Zero}
           /\ NotesIn(notes) \subseteq Commitment
           /\ NullifiersOf(notes) = {NullifierOf(note) : note \in NotesIn(notes)}
           /\ Real(notes) \subseteq {1, 2}
           /\ \A i \in {1, 2} : i \in Real(notes) <=> notes[i] # Zero
  <1>1. DOMAIN notes = {1, 2}
    BY DEF NotePair
  <1>2. notes[1] \in Commitment \cup {Zero} /\ notes[2] \in Commitment \cup {Zero}
    BY DEF NotePair
  <1> QED
    BY <1>1, <1>2 DEF NotesIn, Real, NullifiersOf

(* The value of two notes that join a set, and of two that leave it. *)
LEMMA PairJoins ==
    ASSUME NEW S, IsFiniteSet(S), S \subseteq Commitment,
           NEW notes \in NotePair, Distinct(notes), NotesIn(notes) \cap S = {}
    PROVE  /\ Total(NoteValue, S) \in Nat /\ ValueOf(notes) \in Nat
           /\ Total(NoteValue, S \cup NotesIn(notes)) = Total(NoteValue, S) + ValueOf(notes)
  <1>1. PICK a \in Commitment \cup {Zero} : a = notes[1]
    BY DEF NotePair
  <1>2. PICK b \in Commitment \cup {Zero} : b = notes[2]
    BY DEF NotePair
  <1>3. NotesIn(notes) = {a, b} \ {Zero} /\ ValueOf(notes) = Worth(a) + Worth(b)
    BY <1>1, <1>2, PairNotes DEF ValueOf
  <1>4. \A note \in Commitment : NoteValue[note] \in Nat /\ note # Zero
    BY NoteAssumption, ZeroAssumption
  <1>5. Total(NoteValue, S) \in Nat
    <2>1. CASE S = {}
      <3>1. Total(NoteValue, S) = 0
        BY <2>1, TotalOfNone, Zenon
      <3> QED
        BY <3>1
    <2>2. CASE S # {}
      <3>1. PICK e \in S : TRUE
        BY <2>2
      <3>2. \A note \in S : NoteValue[note] \in Nat
        BY <1>4
      <3>3. /\ Total(NoteValue, S) \in Nat /\ Total(NoteValue, S \ {e}) \in Nat
            /\ Total(NoteValue, S) = Total(NoteValue, S \ {e}) + NoteValue[e]
        BY <3>1, <3>2, TotalAdds
      <3> QED
        BY <3>3
    <2> QED
      BY <2>1, <2>2
  <1>6. ASSUME NEW T, IsFiniteSet(T), T \subseteq Commitment, NEW note \in Commitment,
               note \notin T, Total(NoteValue, T) \in Nat
        PROVE  /\ Total(NoteValue, T \cup {note}) = Total(NoteValue, T) + Worth(note)
               /\ Worth(note) \in Nat
    BY <1>4, <1>6, TotalGrows DEF Worth
  <1>7. CASE a = Zero /\ b = Zero
    <2>1. S \cup NotesIn(notes) = S
      BY <1>3, <1>7
    <2>2. ValueOf(notes) = 0
      BY <1>3, <1>7 DEF Worth
    <2>3. Total(NoteValue, S \cup NotesIn(notes)) = Total(NoteValue, S)
      BY <2>1, Zenon
    <2> QED
      BY <1>5, <2>2, <2>3
  <1>8. CASE a = Zero /\ b # Zero
    <2>1. S \cup NotesIn(notes) = S \cup {b} /\ b \notin S
      BY <1>3, <1>8
    <2>2. Worth(a) = 0
      BY <1>8 DEF Worth
    <2> QED
      BY <1>3, <1>5, <1>6, <1>8, <2>1, <2>2
  <1>9. CASE a # Zero /\ b = Zero
    <2>1. S \cup NotesIn(notes) = S \cup {a} /\ a \notin S
      BY <1>3, <1>9
    <2>2. Worth(b) = 0
      BY <1>9 DEF Worth
    <2> QED
      BY <1>3, <1>5, <1>6, <1>9, <2>1, <2>2
  <1>10. CASE a # Zero /\ b # Zero
    <2>1. a # b /\ a \notin S /\ b \notin S
      BY <1>1, <1>2, <1>3, <1>10 DEF Distinct
    <2>2. S \cup NotesIn(notes) = (S \cup {a}) \cup {b}
      BY <1>3, <1>10
    <2>3. PICK T : T = S \cup {a}
      OBVIOUS
    <2>4. IsFiniteSet(T) /\ T \subseteq Commitment /\ b \notin T
      BY <1>10, <2>1, <2>3, FS_AddElement
    <2>5. /\ Total(NoteValue, T) = Total(NoteValue, S) + Worth(a)
          /\ Worth(a) \in Nat
      BY <1>5, <1>6, <1>10, <2>1, <2>3
    <2>6. /\ Total(NoteValue, T \cup {b}) = Total(NoteValue, T) + Worth(b)
          /\ Worth(b) \in Nat
      BY <1>5, <1>6, <1>10, <2>4, <2>5
    <2> QED
      BY <1>3, <1>5, <2>2, <2>3, <2>5, <2>6
  <1> QED
    BY <1>7, <1>8, <1>9, <1>10

(* Two notes that leave a set take their value with them. *)
LEMMA PairLeaves ==
    ASSUME NEW S, IsFiniteSet(S), S \subseteq Commitment,
           NEW notes \in NotePair, Distinct(notes), NotesIn(notes) \subseteq S
    PROVE  /\ Total(NoteValue, S) \in Nat /\ ValueOf(notes) \in Nat
           /\ Total(NoteValue, S \ NotesIn(notes)) \in Nat
           /\ Total(NoteValue, S) = Total(NoteValue, S \ NotesIn(notes)) + ValueOf(notes)
  <1>1. PICK T : T = S \ NotesIn(notes)
    OBVIOUS
  <1>2. /\ IsFiniteSet(T) /\ T \subseteq Commitment
        /\ NotesIn(notes) \cap T = {} /\ S = T \cup NotesIn(notes)
    BY <1>1, FS_Subset
  <1>3. /\ Total(NoteValue, T) \in Nat /\ ValueOf(notes) \in Nat
        /\ Total(NoteValue, T \cup NotesIn(notes)) = Total(NoteValue, T) + ValueOf(notes)
    BY <1>2, PairJoins
  <1>4. Total(NoteValue, S) = Total(NoteValue, T) + ValueOf(notes)
    BY <1>2, <1>3, Zenon
  <1> QED
    BY <1>1, <1>3, <1>4

(* What the two are worth together. *)
LEMMA PairWorth ==
    ASSUME NEW notes \in NotePair, Distinct(notes)
    PROVE  Total(NoteValue, NotesIn(notes)) = ValueOf(notes) /\ ValueOf(notes) \in Nat
  <1>1. PICK S : S = {}
    OBVIOUS
  <1>2. IsFiniteSet(S) /\ S \subseteq Commitment /\ NotesIn(notes) \cap S = {}
    BY <1>1, FS_EmptySet
  <1>3. /\ ValueOf(notes) \in Nat
        /\ Total(NoteValue, S \cup NotesIn(notes)) = Total(NoteValue, S) + ValueOf(notes)
    BY <1>2, PairJoins
  <1>4. Total(NoteValue, S) = 0 /\ S \cup NotesIn(notes) = NotesIn(notes)
    BY <1>1, TotalOfNone
  <1>5. Total(NoteValue, NotesIn(notes)) = 0 + ValueOf(notes)
    BY <1>3, <1>4, Zenon
  <1> QED
    BY <1>3, <1>5

-----------------------------------------------------------------------------

(* The unspent notes of one denomination, by the used markers. *)
UnspentIn(used, gone, denom) ==
    {note \in used : NullifierOf(note) \notin gone /\ NoteDenom[note] = denom}

(* Solvent, by the used markers. *)
Covered ==
    \A denom \in Denom :
        escrow[denom] = Total(NoteValue, UnspentIn(forest.used, spent, denom))

(***************************************************************************)
(* The inductive invariant: the store is as NixPoolProofs keeps it, both   *)
(* trees were hashed from their leaves, what is spent was a note, and the  *)
(* coins are what the unspent notes are worth.                             *)
(***************************************************************************)
LedgerInv ==
    /\ PoolInv
    /\ ForestGrown(forest)
    /\ RegGrown(registration)
    /\ IsFiniteSet(forest.used)
    /\ spent \subseteq {NullifierOf(note) : note \in forest.used}
    /\ Covered

(* The used markers are the leaves: the coins are what Solvent says. *)
LEMMA CoveredIsSolvent ==
    ASSUME UniqueLeaves(forest), Covered
    PROVE  Notes = forest.used /\ Solvent
  <1>1. Notes = forest.used
    BY DEF Notes, UniqueLeaves
  <1>2. ASSUME NEW denom \in Denom PROVE escrow[denom] = ValueIn(denom)
    <2>1. ValueIn(denom)
            = Total(NoteValue, {note \in UnspentNotes : NoteDenom[note] = denom})
      BY DEF ValueIn, Total
    <2>2. {note \in UnspentNotes : NoteDenom[note] = denom} = UnspentIn(forest.used, spent, denom)
      BY <1>1 DEF UnspentNotes, UnspentIn
    <2>3. escrow[denom] = Total(NoteValue, UnspentIn(forest.used, spent, denom))
      BY DEF Covered
    <2> QED
      BY <2>1, <2>2, <2>3, Zenon
  <1> QED
    BY <1>1, <1>2 DEF Solvent

(* Two commitments have two nullifiers. *)
LEMMA OneNullifierEach ==
    ASSUME NEW a, NEW b, NullifierOf(a) = NullifierOf(b)
    PROVE  a = b
  BY DEF NullifierOf

(* The loop over the inputs marks each nullifier before it looks at the next *)
(* one: no note is an input twice.                                           *)
LEMMA InputsDiffer ==
    ASSUME NEW msg, msg.inputs \in NotePair, InputsAccepted(msg)
    PROVE  Distinct(msg.inputs)
  <1> SUFFICES ASSUME msg.inputs[1] = msg.inputs[2], msg.inputs[1] # Zero PROVE FALSE
    BY DEF Distinct
  <1>1. 2 \in Real(msg.inputs)
    BY PairNotes
  <1>2. NullifierOf(msg.inputs[2]) \notin NullifiersOf(SubSeq(msg.inputs, 1, 1))
    BY <1>1 DEF InputsAccepted, SpentBefore
  <1>3. PICK before : before = SubSeq(msg.inputs, 1, 1)
    OBVIOUS
  <1>4. DOMAIN before = {1} /\ before[1] = msg.inputs[1]
    <2>1. before = [i \in 1..1 |-> msg.inputs[i]]
      BY <1>3 DEF NotePair
    <2> QED
      BY <2>1
  <1>5. NullifierOf(msg.inputs[1]) \in NullifiersOf(before)
    BY <1>4 DEF NullifiersOf, Real
  <1> QED
    BY <1>2, <1>3, <1>5

(* The inputs are notes of the forest that no one has spent, in the         *)
(* denomination of the message: whatever root was named for them, it is one *)
(* the forest had.                                                          *)
LEMMA InputsAreUnspent ==
    ASSUME LedgerInv, NEW msg, msg.inputs \in NotePair, CanTransact(msg)
    PROVE  /\ NotesIn(msg.inputs) \subseteq UnspentIn(forest.used, spent, msg.denom)
           /\ Distinct(msg.inputs)
  <1>1. Distinct(msg.inputs)
    BY InputsDiffer DEF CanTransact
  <1>2. ASSUME NEW i \in Real(msg.inputs)
        PROVE  msg.inputs[i] \in UnspentIn(forest.used, spent, msg.denom)
    <2>1. /\ NullifierOf(msg.inputs[i]) \notin spent
          /\ IsValidRootAnyTree(forest, msg.roots[i])
      BY DEF CanTransact, InputsAccepted, SpentBefore
    <2>2. /\ NoteDenom[msg.inputs[i]] = msg.denom
          /\ msg.inputs[i] \in LeavesUnder(msg.roots[i], CircuitDepth)
      BY DEF CanTransact, TransactProven, TransactStatement
    <2>3. Exact(forest) /\ ForestGrown(forest) /\ CircuitDepth \in Nat
      BY CircuitDepthAssumption DEF LedgerInv, PoolInv, ForestInv
    <2>4. LeavesUnder(msg.roots[i], CircuitDepth) \subseteq forest.used \cup {Zero}
      BY <2>1, <2>3, AcceptedRootLeaves
    <2>5. msg.inputs[i] # Zero
      BY DEF Real
    <2> QED
      BY <2>1, <2>2, <2>4, <2>5 DEF UnspentIn
  <1> QED
    BY <1>1, <1>2 DEF NotesIn

(* The outputs are new to the forest, and are what it gains. *)
LEMMA OutputsAreNew ==
    ASSUME PoolInv, NEW msg, msg.outputs \in NotePair, Transact(msg)
    PROVE  /\ NotesIn(msg.outputs) \cap forest.used = {}
           /\ Distinct(msg.outputs)
           /\ forest'.used = forest.used \cup NotesIn(msg.outputs)
  <1>1. PICK a \in Commitment \cup {Zero} : a = msg.outputs[1]
    BY DEF NotePair
  <1>2. PICK b \in Commitment \cup {Zero} : b = msg.outputs[2]
    BY DEF NotePair
  <1>3. PICK middle : middle = InsertOutput(forest, a)
    OBVIOUS
  <1>4. CanInsertOutput(forest, a) /\ CanInsertOutput(middle, b)
    BY <1>1, <1>2, <1>3 DEF Transact, CanTransact, OutputsAccepted, AfterFirstOutput
  <1>5. forest' = InsertOutput(middle, b)
    BY <1>1, <1>2, <1>3 DEF Transact, AfterFirstOutput
  <1>6. ForestInv(forest) /\ ForestInv(middle)
    BY <1>3, <1>4, InsertOutputGood DEF PoolInv
  <1>7. ASSUME NEW f, ForestInv(f), NEW note \in Commitment \cup {Zero}, NEW g,
               g = InsertOutput(f, note), CanInsertOutput(f, note)
        PROVE  /\ g.used = f.used \cup ({note} \ {Zero})
               /\ note # Zero => note \notin f.used
    <2>1. CASE note = Zero
      BY <1>7, <2>1 DEF InsertOutput
    <2>2. CASE note # Zero
      <3>1. Good(f) /\ note \in Commitment /\ g = InsertNote(f, note, params.treeDepth)
        BY <1>7, <2>2 DEF ForestInv, InsertOutput
      <3>2. g.used = f.used \cup {note}
        BY <3>1, InsertNoteLeaf
      <3> QED
        BY <1>7, <2>2, <3>2 DEF CanInsertOutput, CanInsertNote
    <2> QED
      BY <2>1, <2>2
  <1>8. /\ middle.used = forest.used \cup ({a} \ {Zero})
        /\ a # Zero => a \notin forest.used
    BY <1>3, <1>4, <1>6, <1>7
  <1>9. /\ forest'.used = middle.used \cup ({b} \ {Zero})
        /\ b # Zero => b \notin middle.used
    BY <1>4, <1>5, <1>6, <1>7
  <1>10. NotesIn(msg.outputs) = {a, b} \ {Zero}
    BY <1>1, <1>2, PairNotes
  <1> QED
    BY <1>1, <1>2, <1>8, <1>9, <1>10 DEF Distinct

(* What a transact does to the unspent notes: the inputs leave, the outputs *)
(* join, and the account pays the difference.                               *)
LEMMA TransactMoves ==
    ASSUME LedgerInv, NEW msg, msg.denom \in Denom,
           msg.inputs \in NotePair, msg.outputs \in NotePair, Transact(msg)
    PROVE  /\ UnspentIn(forest'.used, spent', msg.denom)
                = (UnspentIn(forest.used, spent, msg.denom) \ NotesIn(msg.inputs))
                    \cup NotesIn(msg.outputs)
           /\ \A denom : denom # msg.denom =>
                UnspentIn(forest'.used, spent', denom) = UnspentIn(forest.used, spent, denom)
           /\ escrow'[msg.denom] = escrow[msg.denom] - (ValueOf(msg.inputs) - ValueOf(msg.outputs))
           /\ \A denom \in Denom : denom # msg.denom => escrow'[denom] = escrow[denom]
           /\ ValueOf(msg.inputs) \in Nat /\ ValueOf(msg.outputs) \in Nat
           /\ ValueOf(msg.outputs) <= ValueOf(msg.inputs)
  <1>1. CanTransact(msg)
    BY DEF Transact
  <1>2. PICK ins : ins = NotesIn(msg.inputs)
    OBVIOUS
  <1>3. PICK outs : outs = NotesIn(msg.outputs)
    OBVIOUS
  <1>4. /\ ins \subseteq UnspentIn(forest.used, spent, msg.denom)
        /\ Distinct(msg.inputs)
    BY <1>1, <1>2, InputsAreUnspent
  <1>5. /\ outs \cap forest.used = {}
        /\ Distinct(msg.outputs)
        /\ forest'.used = forest.used \cup outs
    BY <1>3, OutputsAreNew DEF LedgerInv
  <1>6. spent' = spent \cup {NullifierOf(note) : note \in ins}
    BY <1>2, PairNotes DEF Transact
  <1>7. \A note \in outs : NoteDenom[note] = msg.denom
    BY <1>1, <1>3 DEF CanTransact, TransactProven, TransactStatement, NotesIn
  <1>8. \A note \in outs : NullifierOf(note) \notin spent'
    <2> SUFFICES ASSUME NEW note \in outs, NullifierOf(note) \in spent' PROVE FALSE
      OBVIOUS
    <2>1. PICK old \in forest.used : NullifierOf(old) = NullifierOf(note)
      BY <1>4, <1>6 DEF LedgerInv, UnspentIn
    <2> QED
      BY <1>5, <2>1, OneNullifierEach
  <1>9. \A note : NullifierOf(note) \in spent' <=> NullifierOf(note) \in spent \/ note \in ins
    BY <1>6, OneNullifierEach
  <1>10. \A note \in ins : NoteDenom[note] = msg.denom
    BY <1>4 DEF UnspentIn
  <1>11. UnspentIn(forest'.used, spent', msg.denom)
            = (UnspentIn(forest.used, spent, msg.denom) \ ins) \cup outs
    BY <1>5, <1>7, <1>8, <1>9 DEF UnspentIn
  <1>12. ASSUME NEW denom, denom # msg.denom
         PROVE  UnspentIn(forest'.used, spent', denom) = UnspentIn(forest.used, spent, denom)
    BY <1>5, <1>7, <1>9, <1>10, <1>12 DEF UnspentIn
  <1>13. ValueOf(msg.inputs) \in Nat /\ ValueOf(msg.outputs) \in Nat
    BY <1>4, <1>5, PairWorth
  <1>14. /\ msg.withdraw \in Nat /\ msg.fee \in Nat
         /\ ValueOf(msg.inputs) = ValueOf(msg.outputs) + msg.withdraw + msg.fee
    BY <1>1, SupplyAssumption DEF CanTransact, ValidAmounts, TransactProven, TransactStatement
  <1>15. escrow' = [escrow EXCEPT ![msg.denom] = @ - Payout(msg)] /\ escrow \in [Denom -> Nat]
    BY DEF Transact, LedgerInv, PoolInv, TypeOK
  <1>16. /\ escrow'[msg.denom] = escrow[msg.denom] - (msg.withdraw + msg.fee)
         /\ \A denom \in Denom : denom # msg.denom => escrow'[denom] = escrow[denom]
         /\ escrow[msg.denom] \in Nat
    BY <1>15 DEF Payout
  <1>17. /\ escrow'[msg.denom] = escrow[msg.denom] - (ValueOf(msg.inputs) - ValueOf(msg.outputs))
         /\ ValueOf(msg.outputs) <= ValueOf(msg.inputs)
    BY <1>13, <1>14, <1>16
  <1> QED
    BY <1>2, <1>3, <1>11, <1>12, <1>13, <1>16, <1>17

(* Outputs are inserted, and hashed, like any note. *)
LEMMA TransactGrows ==
    ASSUME LedgerInv, NEW msg, msg.outputs \in NotePair, Transact(msg)
    PROVE  ForestGrown(forest')
  <1>1. PICK a \in Commitment \cup {Zero} : a = msg.outputs[1]
    BY DEF NotePair
  <1>2. PICK b \in Commitment \cup {Zero} : b = msg.outputs[2]
    BY DEF NotePair
  <1>3. PICK middle : middle = InsertOutput(forest, a)
    OBVIOUS
  <1>4. CanInsertOutput(forest, a)
    BY <1>1 DEF Transact, CanTransact, OutputsAccepted
  <1>5. forest' = InsertOutput(middle, b)
    BY <1>1, <1>2, <1>3 DEF Transact, AfterFirstOutput
  <1>6. ForestInv(forest) /\ ForestInv(middle) /\ params.treeDepth \in Nat
    BY <1>3, <1>4, InsertOutputGood DEF LedgerInv, PoolInv, TypeOK, ParamsType
  <1>7. ASSUME NEW f, ForestInv(f), ForestGrown(f), NEW note, NEW g,
               g = InsertOutput(f, note)
        PROVE  ForestGrown(g)
    <2>1. CASE note = Zero
      BY <1>7, <2>1 DEF InsertOutput
    <2>2. CASE note # Zero
      <3>1. Good(f) /\ g = InsertNote(f, note, params.treeDepth)
        BY <1>7, <2>2 DEF ForestInv, InsertOutput
      <3> QED
        BY <1>6, <1>7, <3>1, InsertNoteGrows
    <2> QED
      BY <2>1, <2>2
  <1>8. ForestGrown(middle)
    BY <1>3, <1>6, <1>7 DEF LedgerInv
  <1> QED
    BY <1>5, <1>6, <1>7, <1>8

(* A transact leaves the account with what is left unspent. *)
LEMMA TransactKeepsLedger ==
    ASSUME LedgerInv, PoolInv', NEW msg, msg.denom \in Denom,
           msg.inputs \in NotePair, msg.outputs \in NotePair, Transact(msg)
    PROVE  LedgerInv'
  <1>1. PICK ins : ins = NotesIn(msg.inputs)
    OBVIOUS
  <1>2. PICK outs : outs = NotesIn(msg.outputs)
    OBVIOUS
  <1>3. PICK old : old = UnspentIn(forest.used, spent, msg.denom)
    OBVIOUS
  <1>4. PICK new : new = UnspentIn(forest'.used, spent', msg.denom)
    OBVIOUS
  <1>5. /\ new = (old \ ins) \cup outs
        /\ \A denom : denom # msg.denom =>
             UnspentIn(forest'.used, spent', denom) = UnspentIn(forest.used, spent, denom)
        /\ escrow'[msg.denom] = escrow[msg.denom] - (ValueOf(msg.inputs) - ValueOf(msg.outputs))
        /\ \A denom \in Denom : denom # msg.denom => escrow'[denom] = escrow[denom]
        /\ ValueOf(msg.inputs) \in Nat /\ ValueOf(msg.outputs) \in Nat
    BY <1>1, <1>2, <1>3, <1>4, TransactMoves
  <1>6. ins \subseteq old /\ Distinct(msg.inputs)
    BY <1>1, <1>3, InputsAreUnspent DEF Transact
  <1>7. /\ outs \cap forest.used = {}
        /\ Distinct(msg.outputs)
        /\ forest'.used = forest.used \cup outs
    BY <1>2, OutputsAreNew DEF LedgerInv
  <1>8. IsFiniteSet(forest.used) /\ forest.used \subseteq Commitment
    BY DEF LedgerInv, PoolInv, TypeOK, ForestTypeOK, LeavesAreNotes
  <1>9. IsFiniteSet(old) /\ old \subseteq Commitment /\ old \subseteq forest.used
    BY <1>3, <1>8, FS_Subset DEF UnspentIn
  <1>10. PICK left : left = old \ ins
    OBVIOUS
  <1>11. /\ Total(NoteValue, old) \in Nat /\ Total(NoteValue, left) \in Nat
         /\ Total(NoteValue, old) = Total(NoteValue, left) + ValueOf(msg.inputs)
    BY <1>1, <1>6, <1>9, <1>10, PairLeaves
  <1>12. IsFiniteSet(left) /\ left \subseteq Commitment /\ outs \cap left = {}
    BY <1>7, <1>9, <1>10, FS_Subset
  <1>13. Total(NoteValue, new) = Total(NoteValue, left) + ValueOf(msg.outputs)
    <2>1. Total(NoteValue, left \cup outs) = Total(NoteValue, left) + ValueOf(msg.outputs)
      BY <1>2, <1>7, <1>12, PairJoins
    <2>2. new = left \cup outs
      BY <1>5, <1>10
    <2> QED
      BY <2>1, <2>2, Zenon
  <1>14. escrow'[msg.denom] = Total(NoteValue, new)
    <2>1. escrow[msg.denom] = Total(NoteValue, old)
      BY <1>3 DEF LedgerInv, Covered
    <2> QED
      BY <1>5, <1>11, <1>13, <2>1
  <1>15. Covered'
    <2> SUFFICES ASSUME NEW denom \in Denom
                 PROVE  escrow'[denom] = Total(NoteValue, UnspentIn(forest'.used, spent', denom))
      BY DEF Covered
    <2>1. CASE denom = msg.denom
      BY <1>4, <1>14, <2>1
    <2>2. CASE denom # msg.denom
      <3>1. escrow[denom] = Total(NoteValue, UnspentIn(forest.used, spent, denom))
        BY DEF LedgerInv, Covered
      <3> QED
        BY <1>5, <2>2, <3>1, Zenon
    <2> QED
      BY <2>1, <2>2
  <1>16. IsFiniteSet(forest'.used)
    <2>1. IsFiniteSet(outs)
      <3>1. outs \subseteq {msg.outputs[1], msg.outputs[2]}
        BY <1>2, PairNotes
      <3>2. IsFiniteSet({msg.outputs[1]} \cup {msg.outputs[2]})
        BY FS_Singleton, FS_AddElement
      <3>3. outs \subseteq {msg.outputs[1]} \cup {msg.outputs[2]}
        BY <3>1
      <3> QED
        BY <3>2, <3>3, FS_Subset
    <2> QED
      BY <1>7, <1>8, <2>1, FS_Union
  <1>17. spent' \subseteq {NullifierOf(note) : note \in forest'.used}
    <2>1. spent' = spent \cup {NullifierOf(note) : note \in ins}
      BY <1>1, PairNotes DEF Transact
    <2> QED
      BY <1>6, <1>7, <1>9, <2>1 DEF LedgerInv
  <1>18. ForestGrown(forest') /\ RegGrown(registration')
    BY TransactGrows DEF Transact, LedgerInv
  <1> QED
    BY <1>15, <1>16, <1>17, <1>18 DEF LedgerInv

(* The amount of a deposit is the note's value, not just its residue: an  *)
(* amount below the field modulus is its own (types/msgs.go:117).         *)
LEMMA DepositedAmount ==
    ASSUME NEW note, NEW denom \in Denom, NEW amount \in 1..(FieldModulus - 1), NEW key,
           VerifyDepositPublicInputs(note, amount, denom, key)
    PROVE  amount = NoteValue[note] /\ denom = NoteDenom[note] /\ amount \in Nat
  <1>1. PICK q \in Nat : q = FieldModulus
    BY SupplyAssumption
  <1>2. amount \in 1..(q - 1)
    BY <1>1
  <1>3. amount % q = amount
    BY <1>2
  <1> QED
    BY <1>1, <1>2, <1>3 DEF VerifyDepositPublicInputs, DepositStatement, FieldElement

(* A deposit adds one unspent note and its value to the account. *)
LEMMA DepositMoves ==
    ASSUME LedgerInv, NEW note \in Commitment, NEW denom \in Denom,
           NEW amount \in 1..(FieldModulus - 1), NEW key, NEW hasData,
           Deposit(note, amount, denom, key, hasData)
    PROVE  /\ denom = NoteDenom[note] /\ amount = NoteValue[note] /\ amount \in Nat
           /\ note \notin forest.used /\ NullifierOf(note) \notin spent
           /\ forest'.used = forest.used \cup {note} /\ spent' = spent
           /\ escrow' = [escrow EXCEPT ![denom] = @ + NoteValue[note]]
           /\ UnspentIn(forest'.used, spent', denom)
                = UnspentIn(forest.used, spent, denom) \cup {note}
           /\ \A d : d # denom =>
                UnspentIn(forest'.used, spent', d) = UnspentIn(forest.used, spent, d)
  <1>1. denom = NoteDenom[note] /\ amount = NoteValue[note] /\ amount \in Nat
    BY DepositedAmount DEF Deposit
  <1>2. note \notin forest.used
    BY DEF Deposit, CanInsertNote
  <1>3. NullifierOf(note) \notin spent
    BY <1>2, OneNullifierEach DEF LedgerInv
  <1>4. forest'.used = forest.used \cup {note}
    BY InsertNoteLeaf DEF Deposit, LedgerInv, PoolInv, ForestInv
  <1>5. spent' = spent /\ escrow' = [escrow EXCEPT ![denom] = @ + amount]
    BY DEF Deposit
  <1>6. UnspentIn(forest'.used, spent', denom) = UnspentIn(forest.used, spent, denom) \cup {note}
    BY <1>1, <1>3, <1>4, <1>5 DEF UnspentIn
  <1>7. \A d : d # denom =>
          UnspentIn(forest'.used, spent', d) = UnspentIn(forest.used, spent, d)
    BY <1>1, <1>4, <1>5 DEF UnspentIn
  <1> QED
    BY <1>1, <1>2, <1>3, <1>4, <1>5, <1>6, <1>7

(* A deposit brings one new note and as many coins as it is worth. *)
LEMMA DepositKeepsLedger ==
    ASSUME LedgerInv, PoolInv', NEW note \in Commitment, NEW denom \in Denom,
           NEW amount \in 1..(FieldModulus - 1), NEW key, NEW hasData,
           Deposit(note, amount, denom, key, hasData)
    PROVE  LedgerInv'
  <1>1. PICK old : old = UnspentIn(forest.used, spent, denom)
    OBVIOUS
  <1>2. /\ NoteValue[note] \in Nat
        /\ note \notin forest.used
        /\ forest'.used = forest.used \cup {note} /\ spent' = spent
        /\ escrow' = [escrow EXCEPT ![denom] = @ + NoteValue[note]]
        /\ UnspentIn(forest'.used, spent', denom) = old \cup {note}
        /\ \A d : d # denom =>
             UnspentIn(forest'.used, spent', d) = UnspentIn(forest.used, spent, d)
    BY <1>1, DepositMoves
  <1>3. IsFiniteSet(forest.used) /\ forest.used \subseteq Commitment /\ escrow \in [Denom -> Nat]
    BY DEF LedgerInv, PoolInv, TypeOK, ForestTypeOK, LeavesAreNotes
  <1>4. IsFiniteSet(old) /\ old \subseteq Commitment /\ note \notin old
    BY <1>1, <1>2, <1>3, FS_Subset DEF UnspentIn
  <1>5. /\ Total(NoteValue, old) \in Nat
        /\ Total(NoteValue, old \cup {note}) = Total(NoteValue, old) + NoteValue[note]
    <2>1. \A x \in old \cup {note} : NoteValue[x] \in Nat
      BY <1>4, NoteAssumption
    <2> QED
      BY <1>4, <2>1, TotalGrows
  <1>6. escrow[denom] = Total(NoteValue, old)
    BY <1>1 DEF LedgerInv, Covered
  <1>7. Covered'
    <2> SUFFICES ASSUME NEW d \in Denom
                 PROVE  escrow'[d] = Total(NoteValue, UnspentIn(forest'.used, spent', d))
      BY DEF Covered
    <2>1. CASE d = denom
      <3>1. escrow'[denom] = escrow[denom] + NoteValue[note]
        BY <1>2, <1>3
      <3>2. escrow'[denom] = Total(NoteValue, old \cup {note})
        BY <1>5, <1>6, <3>1
      <3> QED
        BY <1>2, <2>1, <3>2, Zenon
    <2>2. CASE d # denom
      <3>1. escrow[d] = Total(NoteValue, UnspentIn(forest.used, spent, d))
        BY DEF LedgerInv, Covered
      <3>2. escrow'[d] = escrow[d]
        BY <1>2, <1>3, <2>2
      <3> QED
        BY <1>2, <2>2, <3>1, <3>2, Zenon
    <2> QED
      BY <2>1, <2>2
  <1>8. IsFiniteSet(forest'.used)
    BY <1>2, <1>3, FS_AddElement
  <1>9. spent' \subseteq {NullifierOf(n) : n \in forest'.used}
    BY <1>2 DEF LedgerInv
  <1>10. ForestGrown(forest')
    <2>1. Good(forest) /\ params.treeDepth \in Nat
      BY DEF LedgerInv, PoolInv, ForestInv, TypeOK, ParamsType
    <2> QED
      BY <2>1, InsertNoteGrows DEF Deposit, LedgerInv
  <1>11. RegGrown(registration')
    BY DEF Deposit, LedgerInv
  <1> QED
    BY <1>7, <1>8, <1>9, <1>10, <1>11 DEF LedgerInv

(* The genesis state owes and holds nothing. *)
LEMMA LedgerInit == Init => LedgerInv
  <1> SUFFICES ASSUME Init PROVE LedgerInv
    OBVIOUS
  <1>1. forest = EmptyForest /\ registration = EmptyRegistration /\ spent = {}
    BY DEF Init
  <1>2. ForestGrown(forest) /\ RegGrown(registration)
    BY <1>1, EmptyForestGrown, EmptyRegGrown
  <1>3. forest.used = {}
    BY <1>1 DEF EmptyForest
  <1>4. IsFiniteSet(forest.used)
    BY <1>3, FS_EmptySet
  <1>5. Covered
    <2> SUFFICES ASSUME NEW denom \in Denom
                 PROVE  escrow[denom] = Total(NoteValue, UnspentIn(forest.used, spent, denom))
      BY DEF Covered
    <2>1. UnspentIn(forest.used, spent, denom) = {}
      BY <1>3 DEF UnspentIn
    <2>2. escrow[denom] = 0
      BY DEF Init
    <2> QED
      BY <2>1, <2>2, TotalOfNone, Zenon
  <1> QED
    BY <1>1, <1>2, <1>4, <1>5, PoolInit DEF LedgerInv

(* Every step keeps the invariant. *)
LEMMA LedgerNext == LedgerInv /\ [AnyStep]_vars => LedgerInv'
  <1> SUFFICES ASSUME LedgerInv, [AnyStep]_vars PROVE LedgerInv'
    OBVIOUS
  <1>1. PoolInv'
    BY PoolNext DEF LedgerInv
  <1>2. CASE UNCHANGED <<forest, registration, spent, escrow>>
    BY <1>1, <1>2 DEF LedgerInv, Covered
  <1>3. CASE BeginTx
    BY <1>2, <1>3 DEF BeginTx, chainVars
  <1>4. ASSUME NEW identity \in Identity, NEW chainId \in ChainIds, NEW key \in Keys,
               NEW data \in AttachData, Register(identity, chainId, key, data)
        PROVE  LedgerInv'
    <2>1. RegGrown(registration')
      BY <1>4, InsertRegGrows DEF Register, LedgerInv
    <2>2. UNCHANGED <<forest, spent, escrow>>
      BY <1>4 DEF Register
    <2> QED
      BY <1>1, <2>1, <2>2 DEF LedgerInv, Covered
  <1>5. ASSUME NEW note \in Commitment, NEW denom \in Denom, NEW key \in Keys,
               NEW data \in AttachData, NEW amount \in 1..(FieldModulus - 1),
               Deposit(note, amount, denom, key, data)
        PROVE  LedgerInv'
    BY <1>1, <1>5, DepositKeepsLedger
  <1>6. CASE AnyTransact
    <2>1. PICK msg : /\ msg.denom \in Denom
                     /\ msg.inputs \in NotePair /\ msg.outputs \in NotePair
                     /\ Transact(msg)
      BY <1>6 DEF AnyTransact
    <2> QED
      BY <1>1, <2>1, TransactKeepsLedger
  <1>7. ASSUME NEW p \in ParamChoices, UpdateParams(p) PROVE LedgerInv'
    BY <1>2, <1>7 DEF UpdateParams
  <1>8. ASSUME NEW circuit \in Circuit, SetVerificationKey(circuit) PROVE LedgerInv'
    BY <1>2, <1>8 DEF SetVerificationKey
  <1>9. CASE UNCHANGED vars
    BY <1>2, <1>9 DEF vars
  <1> QED
    BY <1>3, <1>4, <1>5, <1>6, <1>7, <1>8, <1>9 DEF AnyStep

(* The module account holds exactly what the unspent notes are worth, in     *)
(* every denomination, after any sequence of deposits and transacts of any   *)
(* users: neither is an amount that wraps around the field, nor a note that  *)
(* a message names twice, worth anything.                                    *)
THEOREM AlwaysSolvent == Spec => []Solvent
  <1>1. LedgerInv => Solvent
    BY CoveredIsSolvent DEF LedgerInv, PoolInv, ForestInv
  <1> QED
    BY <1>1, LedgerInit, LedgerNext, NextIsAnyStep, PTL DEF Spec

(* Every spent nullifier is that of a note that was inserted, whatever root  *)
(* of whatever tree the spend was proven against, at whatever depth.         *)
THEOREM OnlyNotesAreEverSpent == Spec => []OnlyNotesAreSpent
  <1>1. LedgerInv => OnlyNotesAreSpent
    BY CoveredIsSolvent DEF LedgerInv, PoolInv, ForestInv, OnlyNotesAreSpent
  <1> QED
    BY <1>1, LedgerInit, LedgerNext, NextIsAnyStep, PTL DEF Spec

-----------------------------------------------------------------------------
(***************************************************************************)
(* Who gets a note that no coins came in for.                              *)
(***************************************************************************)

(* What OutputsAreRegistered says of one step. *)
RecipientsRegistered ==
    \A note \in Notes' \ Notes :
        escrow'[NoteDenom[note]] > escrow[NoteDenom[note]] \/ NoteOwner[note] \in Registered

(* The notes are the used markers, before a step and after it. *)
LEMMA NotesAreUsed ==
    ASSUME LedgerInv, PoolInv'
    PROVE  Notes = forest.used /\ Notes' = forest'.used
  <1>1. UniqueLeaves(forest) /\ UniqueLeaves(forest')
    BY DEF LedgerInv, PoolInv, ForestInv
  <1>2. Notes = forest.used
    BY <1>1 DEF Notes, UniqueLeaves
  <1>3. Notes' = forest'.used
    BY <1>1 DEF Notes, UniqueLeaves
  <1> QED
    BY <1>2, <1>3

(* The owner of an output is under the registration root, hence registered. *)
LEMMA TransactRecipients ==
    ASSUME LedgerInv, PoolInv', NEW msg, msg.outputs \in NotePair, Transact(msg)
    PROVE  RecipientsRegistered
  <1> SUFFICES ASSUME NEW note \in Notes' \ Notes PROVE NoteOwner[note] \in Registered
    BY DEF RecipientsRegistered
  <1>1. note \in NotesIn(msg.outputs) /\ note \in Commitment
    BY NotesAreUsed, OutputsAreNew, PairNotes DEF LedgerInv
  <1>2. /\ msg.regRoot = GetRegMerkleRoot(registration)
        /\ NoteOwner[note] \in LeavesUnder(msg.regRoot, CircuitRegDepth)
    BY <1>1 DEF NotesIn, Transact, CanTransact, IsValidRegRoot, TransactProven, TransactStatement
  <1>3. RegGrown(registration) /\ CircuitRegDepth \in Nat
    BY CircuitDepthAssumption DEF LedgerInv
  <1>4. NoteOwner[note] \in registration.used \cup {Zero}
    BY <1>2, <1>3, RegRootLeaves
  <1>5. NoteOwner[note] # Zero
    BY <1>1, NoteAssumption, ZeroAssumption
  <1>6. registration.used = Registered
    BY DEF LedgerInv, PoolInv, Registers, Registered
  <1> QED
    BY <1>4, <1>5, <1>6

(* No other step makes notes without bringing coins. *)
LEMMA RecipientsNext == LedgerInv /\ [AnyStep]_vars => [RecipientsRegistered]_vars
  <1> SUFFICES ASSUME LedgerInv, AnyStep PROVE RecipientsRegistered
    OBVIOUS
  <1>1. PoolInv'
    BY PoolNext DEF LedgerInv
  <1>2. CASE forest' = forest
    BY <1>2 DEF RecipientsRegistered, Notes
  <1>3. CASE BeginTx
    BY <1>2, <1>3 DEF BeginTx, chainVars
  <1>4. ASSUME NEW identity \in Identity, NEW chainId \in ChainIds, NEW key \in Keys,
               NEW data \in AttachData, Register(identity, chainId, key, data)
        PROVE  RecipientsRegistered
    BY <1>2, <1>4 DEF Register
  <1>5. ASSUME NEW note \in Commitment, NEW denom \in Denom, NEW key \in Keys,
               NEW data \in AttachData, NEW amount \in 1..(FieldModulus - 1),
               Deposit(note, amount, denom, key, data)
        PROVE  RecipientsRegistered
    <2>1. /\ denom = NoteDenom[note] /\ forest'.used = forest.used \cup {note}
          /\ escrow' = [escrow EXCEPT ![denom] = @ + NoteValue[note]]
      BY <1>5, DepositMoves
    <2>2. Notes' \ Notes \subseteq {note}
      BY <1>1, <2>1, NotesAreUsed
    <2>3. escrow \in [Denom -> Nat] /\ NoteValue[note] \in Nat \ {0}
      BY NoteAssumption DEF LedgerInv, PoolInv, TypeOK
    <2>4. escrow'[denom] > escrow[denom]
      BY <2>1, <2>3
    <2> QED
      BY <2>1, <2>2, <2>4 DEF RecipientsRegistered
  <1>6. CASE AnyTransact
    <2>1. PICK msg : msg.outputs \in NotePair /\ Transact(msg)
      BY <1>6 DEF AnyTransact
    <2> QED
      BY <1>1, <2>1, TransactRecipients
  <1>7. ASSUME NEW p \in ParamChoices, UpdateParams(p) PROVE RecipientsRegistered
    BY <1>2, <1>7 DEF UpdateParams
  <1>8. ASSUME NEW circuit \in Circuit, SetVerificationKey(circuit) PROVE RecipientsRegistered
    BY <1>2, <1>8 DEF SetVerificationKey
  <1> QED
    BY <1>3, <1>4, <1>5, <1>6, <1>7, <1>8 DEF AnyStep

(* A note that enters the forest without coins entering the pool belongs to *)
(* an identity registered before: the registration root of the moment has   *)
(* paths to nobody else.                                                    *)
THEOREM OutputsGoToRegistered == Spec => OutputsAreRegistered
  <1>1. [RecipientsRegistered]_vars <=>
        [\A note \in Notes' \ Notes :
            escrow'[NoteDenom[note]] > escrow[NoteDenom[note]]
                \/ NoteOwner[note] \in Registered]_vars
    BY DEF RecipientsRegistered
  <1> QED
    BY <1>1, LedgerInit, LedgerNext, RecipientsNext, NextIsAnyStep, PTL DEF Spec, OutputsAreRegistered

-----------------------------------------------------------------------------
(***************************************************************************)
(* The refinement.  In a state of the invariant, the ledger's unspent      *)
(* notes are those of the used markers, and those spent are gone for good. *)
(***************************************************************************)

(* An empty pool is an empty ledger. *)
LEMMA InitRefines == Init => Ledger!Init
  <1> SUFFICES ASSUME Init PROVE Ledger!Init
    OBVIOUS
  <1>1. forest = EmptyForest /\ spent = {} /\ escrow = [d \in Denom |-> 0]
    BY DEF Init
  <1>2. Notes = {}
    BY <1>1 DEF Notes, EmptyForest
  <1> QED
    BY <1>1, <1>2 DEF Ledger!Init, UnspentNotes

(* The ledger counts and adds up as this module does. *)
LEMMA LedgerCounts ==
    ASSUME NEW S
    PROVE  Ledger!Cardinality(S) = Cardinality(S)
  BY DEF Ledger!Cardinality, Cardinality

(* The ledger's sums are those of the pool: it has definitions of its own. *)
LEMMA LedgerAdds ==
    ASSUME NEW S
    PROVE  Ledger!Amount(S) = Total(NoteValue, S)
  BY DEF Ledger!Amount, Ledger!MapThenSumSet, Ledger!MapThenFoldSet,
         Total, MapThenSumSet, MapThenFoldSet

(* At most two notes of a set, in one denomination. *)
LEMMA PairIsAtMostTwo ==
    ASSUME NEW notes \in NotePair, NEW S, NEW denom, NotesIn(notes) \subseteq S,
           \A note \in NotesIn(notes) : NoteDenom[note] = denom
    PROVE  NotesIn(notes) \in Ledger!AtMostTwo(S, denom)
  <1>1. PICK A : A = NotesIn(notes)
    OBVIOUS
  <1>2. IsFiniteSet(A) /\ Cardinality(A) \in 0..2
    <2>1. PICK a, b : A = {a, b} \ {Zero}
      <3>1. A = {notes[1], notes[2]} \ {Zero}
        BY <1>1, PairNotes
      <3> QED
        BY <3>1
    <2>2. PICK B : B = {a} \cup {b}
      OBVIOUS
    <2>3. /\ IsFiniteSet({a}) /\ Cardinality({a}) = 1
      BY FS_Singleton
    <2>4. IsFiniteSet(B) /\ Cardinality(B) <= 2 /\ Cardinality(B) \in Nat
      BY <2>2, <2>3, FS_AddElement, FS_CardinalityType
    <2>5. A \subseteq B
      BY <2>1, <2>2
    <2>6. IsFiniteSet(A) /\ Cardinality(A) <= Cardinality(B)
      BY <2>4, <2>5, FS_Subset
    <2>7. Cardinality(A) \in Nat
      BY <2>6, FS_CardinalityType
    <2> QED
      BY <2>4, <2>6, <2>7
  <1>3. PICK T : T = {note \in S : NoteDenom[note] = denom}
    OBVIOUS
  <1>4. A \in SUBSET T
    BY <1>1, <1>3
  <1>5. A \in Ledger!kSubset(Cardinality(A), T)
    BY <1>4, LedgerCounts DEF Ledger!kSubset
  <1>6. A \in Ledger!AtMostTwo(S, denom)
    BY <1>2, <1>3, <1>5 DEF Ledger!AtMostTwo
  <1> QED
    BY <1>1, <1>6

(* The mapped state, before a step and after it, by the used markers. *)
LEMMA MappedState ==
    ASSUME LedgerInv, LedgerInv'
    PROVE  /\ UnspentNotes = {note \in forest.used : NullifierOf(note) \notin spent}
           /\ UnspentNotes' = {note \in forest'.used : NullifierOf(note) \notin spent'}
           /\ Ledger!Fresh = Commitment \ forest.used
  <1>1. Notes = forest.used /\ Notes' = forest'.used
    BY NotesAreUsed DEF LedgerInv
  <1>2. UnspentNotes = {note \in forest.used : NullifierOf(note) \notin spent}
    BY <1>1 DEF UnspentNotes
  <1>3. UnspentNotes' = {note \in forest'.used : NullifierOf(note) \notin spent'}
    BY <1>1 DEF UnspentNotes
  <1>4. Ledger!Fresh = Commitment \ forest.used
    <2>1. \A note \in Commitment : NullifierOf(note) \in spent => note \in forest.used
      BY OneNullifierEach DEF LedgerInv
    <2> QED
      BY <1>2, <2>1 DEF Ledger!Fresh
  <1> QED
    BY <1>2, <1>3, <1>4

(* A deposit shields its note. *)
LEMMA DepositShields ==
    ASSUME LedgerInv, LedgerInv', NEW note \in Commitment, NEW denom \in Denom,
           NEW amount \in 1..(FieldModulus - 1), NEW key, NEW hasData,
           Deposit(note, amount, denom, key, hasData)
    PROVE  note \in Ledger!Fresh /\ Ledger!Shield(note)
  <1>1. /\ denom = NoteDenom[note]
        /\ note \notin forest.used /\ NullifierOf(note) \notin spent
        /\ forest'.used = forest.used \cup {note} /\ spent' = spent
        /\ escrow' = [escrow EXCEPT ![denom] = @ + NoteValue[note]]
    BY DepositMoves
  <1>2. note \in Ledger!Fresh
    BY <1>1, MappedState
  <1>3. UnspentNotes' = UnspentNotes \cup {note}
    BY <1>1, MappedState
  <1> QED
    BY <1>1, <1>2, <1>3 DEF Ledger!Shield

(* A transact transfers its inputs' value to its outputs and out of the pool. *)
LEMMA TransactTransfers ==
    ASSUME LedgerInv, LedgerInv', NEW msg, msg.denom \in Denom,
           msg.inputs \in NotePair, msg.outputs \in NotePair, Transact(msg)
    PROVE  /\ NotesIn(msg.inputs) \in Ledger!AtMostTwo(UnspentNotes, msg.denom)
           /\ NotesIn(msg.outputs) \in Ledger!AtMostTwo(Ledger!Fresh, msg.denom)
           /\ Ledger!Transfer(msg.denom, NotesIn(msg.inputs), NotesIn(msg.outputs))
  <1>1. PICK ins : ins = NotesIn(msg.inputs)
    OBVIOUS
  <1>2. PICK outs : outs = NotesIn(msg.outputs)
    OBVIOUS
  <1>3. /\ ins \subseteq UnspentIn(forest.used, spent, msg.denom)
        /\ Distinct(msg.inputs)
    BY <1>1, InputsAreUnspent DEF Transact
  <1>4. /\ outs \cap forest.used = {}
        /\ Distinct(msg.outputs)
        /\ forest'.used = forest.used \cup outs
    BY <1>2, OutputsAreNew DEF LedgerInv
  <1>5. ins \subseteq Commitment /\ outs \subseteq Commitment
    BY <1>1, <1>2, PairNotes
  <1>6. ins \in Ledger!AtMostTwo(UnspentNotes, msg.denom)
    <2>1. ins \subseteq UnspentNotes /\ \A note \in ins : NoteDenom[note] = msg.denom
      BY <1>3, MappedState DEF UnspentIn
    <2> QED
      BY <1>1, <2>1, PairIsAtMostTwo
  <1>7. outs \in Ledger!AtMostTwo(Ledger!Fresh, msg.denom)
    <2>1. \A note \in outs : NoteDenom[note] = msg.denom
      BY <1>2 DEF Transact, CanTransact, TransactProven, TransactStatement, NotesIn
    <2>2. outs \subseteq Ledger!Fresh
      BY <1>4, <1>5, MappedState
    <2> QED
      BY <1>2, <2>1, <2>2, PairIsAtMostTwo
  <1>8. spent' = spent \cup {NullifierOf(note) : note \in ins}
    BY <1>1, PairNotes DEF Transact
  <1>9. \A note : NullifierOf(note) \in spent' <=> NullifierOf(note) \in spent \/ note \in ins
    BY <1>8, OneNullifierEach
  <1>10. UnspentNotes' = (UnspentNotes \ ins) \cup outs
    <2>1. \A note \in outs : NullifierOf(note) \notin spent'
      <3>1. \A note \in outs : NullifierOf(note) \notin spent
        BY <1>4, OneNullifierEach DEF LedgerInv
      <3>2. \A note \in outs : note \notin ins
        BY <1>3, <1>4 DEF UnspentIn
      <3> QED
        BY <1>9, <3>1, <3>2
    <2> QED
      BY <1>4, <1>9, <2>1, MappedState
  <1>11. {note \in Commitment : NullifierOf(note) \in spent'}
            = {note \in Commitment : NullifierOf(note) \in spent} \cup ins
    BY <1>5, <1>9
  <1>12. /\ Ledger!Amount(ins) = ValueOf(msg.inputs)
         /\ Ledger!Amount(outs) = ValueOf(msg.outputs)
    BY <1>1, <1>2, <1>3, <1>4, PairWorth, LedgerAdds
  <1>13. /\ escrow'[msg.denom] = escrow[msg.denom] - (ValueOf(msg.inputs) - ValueOf(msg.outputs))
         /\ ValueOf(msg.outputs) <= ValueOf(msg.inputs)
    BY TransactMoves
  <1>14. escrow' = [escrow EXCEPT ![msg.denom] = @ - (ValueOf(msg.inputs) - ValueOf(msg.outputs))]
    <2>1. escrow' = [escrow EXCEPT ![msg.denom] = @ - Payout(msg)] /\ escrow \in [Denom -> Nat]
      BY DEF Transact, LedgerInv, PoolInv, TypeOK
    <2>2. escrow' = [escrow EXCEPT ![msg.denom] = escrow'[msg.denom]]
      BY <2>1
    <2> QED
      BY <1>13, <2>2
  <1>15. Ledger!Transfer(msg.denom, ins, outs)
    BY <1>10, <1>11, <1>12, <1>13, <1>14 DEF Ledger!Transfer
  <1> QED
    BY <1>1, <1>2, <1>6, <1>7, <1>15

(* Every step of the pool is one of the ledger's, or none. *)
LEMMA NextRefines == LedgerInv /\ LedgerInv' /\ [AnyStep]_vars => [Ledger!Next]_(Ledger!vars)
  <1> SUFFICES ASSUME LedgerInv, LedgerInv', [AnyStep]_vars
               PROVE  Ledger!Next \/ UNCHANGED Ledger!vars
    BY DEF Ledger!vars
  <1>1. CASE UNCHANGED <<forest, spent, escrow>>
    BY <1>1 DEF Ledger!vars, UnspentNotes, Notes
  <1>2. CASE BeginTx
    BY <1>1, <1>2 DEF BeginTx, chainVars
  <1>3. ASSUME NEW identity \in Identity, NEW chainId \in ChainIds, NEW key \in Keys,
               NEW data \in AttachData, Register(identity, chainId, key, data)
        PROVE  Ledger!Next \/ UNCHANGED Ledger!vars
    BY <1>1, <1>3 DEF Register
  <1>4. ASSUME NEW note \in Commitment, NEW denom \in Denom, NEW key \in Keys,
               NEW data \in AttachData, NEW amount \in 1..(FieldModulus - 1),
               Deposit(note, amount, denom, key, data)
        PROVE  Ledger!Next
    BY <1>4, DepositShields DEF Ledger!Next
  <1>5. CASE AnyTransact
    <2>1. PICK msg : /\ msg.denom \in Denom
                     /\ msg.inputs \in NotePair /\ msg.outputs \in NotePair
                     /\ Transact(msg)
      BY <1>5 DEF AnyTransact
    <2> QED
      BY <2>1, TransactTransfers DEF Ledger!Next
  <1>6. ASSUME NEW p \in ParamChoices, UpdateParams(p)
        PROVE  Ledger!Next \/ UNCHANGED Ledger!vars
    BY <1>1, <1>6 DEF UpdateParams
  <1>7. ASSUME NEW circuit \in Circuit, SetVerificationKey(circuit)
        PROVE  Ledger!Next \/ UNCHANGED Ledger!vars
    BY <1>1, <1>7 DEF SetVerificationKey
  <1>8. CASE UNCHANGED vars
    BY <1>1, <1>8 DEF vars
  <1> QED
    BY <1>2, <1>3, <1>4, <1>5, <1>6, <1>7, <1>8 DEF AnyStep

(* The message server implements the ledger: with its trees, roots and       *)
(* nullifiers taken away, every step shields a fresh note for its value,     *)
(* spends notes that are unspent for no more than they are worth, or         *)
(* changes nothing.                                                          *)
THEOREM PoolImplementsLedger == Spec => ImplementsLedger
  BY InitRefines, NextRefines, LedgerInit, LedgerNext, NextIsAnyStep, PTL
  DEF Spec, ImplementsLedger, Ledger!Spec

-----------------------------------------------------------------------------
(***************************************************************************)
(* Getting the coins back, while governance leaves the note trees' depth   *)
(* at the one the circuit walks.                                           *)
(***************************************************************************)

(* Every node of the reference tree is as many steps from its root as its   *)
(* row is above: halving a position leads to the parent.                    *)
LEMMA RowsUnderRoot ==
    ASSUME NEW depth \in Nat, NEW leaves, NEW row, row = Rows(leaves, depth),
           NEW gen, gen = Generations(row[depth][0], depth)
    PROVE  \A l \in 0..depth : \A p \in 0..(Width[l] - 1) : row[depth - l][p] \in gen[l]
  <1>1. /\ gen[0] = {row[depth][0]}
        /\ \A l \in 0..(depth - 1) : gen[l + 1] = Below(gen[l])
    BY GenerationsEquation
  <1> DEFINE A == {l \in Nat : l <= depth =>
                      \A p \in 0..(Width[l] - 1) : row[depth - l][p] \in gen[l]}
  <1>2. 0 \in A
    <2>1. Width[0] - 1 = 0 /\ depth - 0 = depth
      BY WidthEquation
    <2> QED
      BY <1>1, <2>1
  <1>3. ASSUME NEW l \in Nat, l \in A PROVE l + 1 \in A
    <2> SUFFICES ASSUME l + 1 <= depth, NEW p \in 0..(Width[l + 1] - 1)
                 PROVE  row[depth - (l + 1)][p] \in gen[l + 1]
      OBVIOUS
    <2>1. PICK w \in Nat \ {0} : w = Width[l] /\ Width[l + 1] = 2 * w
      BY WidthEquation
    <2>2. PICK m \in Nat : m = depth - (l + 1)
      OBVIOUS
    <2>3. m + 1 <= depth /\ depth - (m + 1) = l /\ depth - l = m + 1
      BY <2>2
    <2>4. PICK q \in 0..(w - 1) : p = 2 * q \/ p = 2 * q + 1
      <3>1. p \in Nat /\ p < 2 * w
        BY <2>1
      <3>2. p \div 2 \in 0..(w - 1) /\ (p = 2 * (p \div 2) \/ p = 2 * (p \div 2) + 1)
        BY <3>1
      <3> QED
        BY <3>2
    <2>5. q \in 0..(Width[depth - (m + 1)] - 1)
      BY <2>1, <2>3
    <2>6. \A r : r = Rows(leaves, depth) => r[m + 1][q] = Hash2(r[m][2 * q], r[m][2 * q + 1])
      BY <2>3, <2>5, TwoBelow
    <2>7. row[m + 1][q] = Hash2(row[m][2 * q], row[m][2 * q + 1])
      BY <2>6
    <2>8. row[m + 1][q] \in gen[l]
      <3>1. row[depth - l][q] \in gen[l]
        BY <1>3, <2>1
      <3> QED
        BY <2>3, <3>1
    <2>9. row[m][p] \in Children(row[m + 1][q])
      BY <2>4, <2>7 DEF Hash2, Children
    <2>10. gen[l + 1] = Below(gen[l])
      BY <1>1
    <2> QED
      BY <2>2, <2>8, <2>9, <2>10 DEF Below
  <1>4. \A l \in Nat : l \in A
    <2> HIDE DEF A
    <2> QED
      BY <1>2, <1>3, NumberInduction
  <1> QED
    BY <1>4

(* Every leaf of a list that fits the tree has a path to its Merkle root. *)
LEMMA LeafUnderRoot ==
    ASSUME NEW depth \in Nat, NEW leaves, Len(leaves) \in Nat, Len(leaves) <= Width[depth],
           NEW i \in Nat, i < Len(leaves)
    PROVE  leaves[i + 1] \in LeavesUnder(MerkleRoot(leaves, depth), depth)
  <1>1. PICK row : row = Rows(leaves, depth)
    OBVIOUS
  <1>2. PICK gen : gen = Generations(row[depth][0], depth)
    OBVIOUS
  <1>3. depth \in 0..depth /\ i \in 0..(Width[depth] - 1) /\ depth - depth = 0
    <2>1. PICK w \in Nat \ {0} : w = Width[depth]
      BY WidthEquation
    <2>2. PICK n \in Nat : n = Len(leaves)
      OBVIOUS
    <2>3. i \in 0..(w - 1)
      BY <2>1, <2>2
    <2> QED
      BY <2>1, <2>3
  <1>4. row[depth - depth][i] \in gen[depth]
    BY <1>1, <1>2, <1>3, RowsUnderRoot
  <1>5. row[0][i] = Leaf(IF i < Len(leaves) THEN leaves[i + 1] ELSE Zero)
    BY <1>1, <1>3, RowsEquation
  <1>6. row[0][i] = <<leaves[i + 1]>>
    BY <1>5 DEF Leaf
  <1>7. <<leaves[i + 1]>> \in gen[depth]
    BY <1>3, <1>4, <1>6
  <1>8. gen = Generations(MerkleRoot(leaves, depth), depth)
    BY <1>1, <1>2 DEF MerkleRoot
  <1> QED
    BY <1>7, <1>8 DEF LeavesUnder

(* A tree's current root is accepted: the index is exact. *)
LEMMA CurrentRootAccepted ==
    ASSUME NEW f, Good(f), Exact(f), NEW tree \in Trees(f)
    PROVE  IsValidRootAnyTree(f, f.rootSlot[TreeRootKey(tree)])
  <1>1. PICK root : root = f.rootSlot[TreeRootKey(tree)]
    OBVIOUS
  <1>2. TreeRootKey(tree) \in DOMAIN f.rootSlot
    BY DEF Good, ForestShapeOK, SlotsOK
  <1>3. root \in HeldRoots(f.rootSlot) /\ IsFiniteSet(DOMAIN f.rootSlot)
    BY <1>1, <1>2 DEF HeldRoots, Good, Slotted
  <1>4. /\ Cardinality(Holders(f.rootSlot, root)) \in Nat
        /\ Cardinality(Holders(f.rootSlot, root)) # 0
    BY <1>3, HoldersFinite
  <1>5. RootRefCount(f.rootIndex, root) = Cardinality(Holders(f.rootSlot, root))
    BY <1>3 DEF Exact, CountHolders, RootRefCount, Get
  <1> QED
    BY <1>1, <1>4, <1>5 DEF IsValidRootAnyTree

(* The note of any leaf has a path of the circuit's length to the current   *)
(* root of its tree, retired or not.                                        *)
LEMMA LeafUnderTreeRoot ==
    ASSUME NEW f, Good(f), NEW depth \in Nat, TreesRight(f, depth), NEW key \in DOMAIN f.leaf
    PROVE  /\ key[1] \in Trees(f)
           /\ f.leaf[key] \in LeavesUnder(f.rootSlot[TreeRootKey(key[1])], depth)
  <1>1. PICK tree \in Trees(f) : \E i \in 0..(f.nextIndex[tree] - 1) : key = <<tree, i>>
    BY DEF Good, ForestShapeOK, LeavesOK
  <1>2. PICK i \in 0..(f.nextIndex[tree] - 1) : key = <<tree, i>>
    BY <1>1
  <1>3. PICK n \in Nat : n = f.nextIndex[tree]
    BY DEF Good, ForestShapeOK, CountersOK
  <1>4. PICK leaves : leaves = First(f, tree, n)
    OBVIOUS
  <1>5. n <= Width[depth] /\ f.rootSlot[TreeRootKey(tree)] = MerkleRoot(leaves, depth)
    BY <1>3, <1>4 DEF TreesRight, TreeRight
  <1>6. Len(leaves) = n /\ \A j \in 1..n : leaves[j] = f.leaf[<<tree, j - 1>>]
    BY <1>4, FirstLength
  <1>7. i \in Nat /\ i < n /\ i + 1 \in 1..n /\ (i + 1) - 1 = i
    BY <1>2, <1>3
  <1>8. leaves[i + 1] = f.leaf[key]
    BY <1>2, <1>6, <1>7
  <1>9. leaves[i + 1] \in LeavesUnder(MerkleRoot(leaves, depth), depth)
    BY <1>5, <1>6, <1>7, LeafUnderRoot
  <1> QED
    BY <1>2, <1>5, <1>8, <1>9

(* The account can pay any unspent note. *)
LEMMA NoteIsCovered ==
    ASSUME LedgerInv, NEW note \in forest.used, NullifierOf(note) \notin spent
    PROVE  escrow[NoteDenom[note]] >= NoteValue[note] /\ NoteValue[note] \in Nat
  <1>1. PICK S : S = UnspentIn(forest.used, spent, NoteDenom[note])
    OBVIOUS
  <1>2. note \in S /\ S \subseteq forest.used
    BY <1>1 DEF UnspentIn
  <1>3. IsFiniteSet(forest.used) /\ forest.used \subseteq Commitment
    BY DEF LedgerInv, PoolInv, TypeOK, ForestTypeOK, LeavesAreNotes
  <1>4. IsFiniteSet(S) /\ \A x \in S : NoteValue[x] \in Nat
    BY <1>2, <1>3, FS_Subset, NoteAssumption
  <1>5. /\ Total(NoteValue, S) \in Nat /\ Total(NoteValue, S \ {note}) \in Nat
        /\ Total(NoteValue, S) = Total(NoteValue, S \ {note}) + NoteValue[note]
    BY <1>2, <1>4, TotalAdds
  <1>6. escrow[NoteDenom[note]] = Total(NoteValue, S)
    <2>1. NoteDenom[note] \in Denom
      BY <1>3, NoteAssumption
    <2> QED
      BY <1>1, <2>1 DEF LedgerInv, Covered
  <1> QED
    BY <1>2, <1>4, <1>5, <1>6

(* The inductive invariant of this part. *)
DepthInv == LedgerInv /\ TreesRight(forest, CircuitDepth) /\ params.treeDepth = CircuitDepth

(* A withdrawal of one unspent note passes every check of the handler. *)
LEMMA WithdrawalPasses ==
    ASSUME DepthInv, NEW key \in DOMAIN forest.leaf, NEW note, note = forest.leaf[key],
           NullifierOf(note) \notin spent, WithdrawalsOn(NoteDenom[note]),
           NEW msg, msg = FullWithdrawal(note, key[1])
    PROVE  CanTransact(msg)
  <1>1. PICK root : root = forest.rootSlot[TreeRootKey(key[1])]
    OBVIOUS
  <1>2. /\ msg.inputs = <<note, Zero>> /\ msg.roots = <<root, EmptyRoot>>
        /\ msg.outputs = <<Zero, Zero>> /\ msg.regRoot = GetRegMerkleRoot(registration)
        /\ msg.denom = NoteDenom[note] /\ msg.withdraw = NoteValue[note] /\ msg.fee = 0
    BY <1>1 DEF FullWithdrawal
  <1>3. note \in forest.used /\ note \in Commitment /\ note # Zero
    <2>1. note \in forest.used
      BY DEF DepthInv, LedgerInv, PoolInv, ForestInv, UniqueLeaves
    <2>2. forest.used \subseteq Commitment
      BY DEF DepthInv, LedgerInv, PoolInv, TypeOK, ForestTypeOK, LeavesAreNotes
    <2> QED
      BY <2>1, <2>2, ZeroAssumption
  <1>4. escrow[NoteDenom[note]] >= NoteValue[note] /\ NoteValue[note] \in Nat
    BY <1>3, NoteIsCovered DEF DepthInv
  <1>5. ValidAmounts(msg)
    <2>1. NoteValue[note] <= MaxAmount /\ MaxAmount \in Nat
      BY <1>3, RangeAssumption, SupplyAssumption
    <2> QED
      BY <1>2, <1>4, <2>1 DEF ValidAmounts
  <1>6. IsValidRegRoot(registration, msg.regRoot)
    BY <1>2 DEF IsValidRegRoot
  <1>7. Real(msg.inputs) = {1} /\ Real(msg.outputs) = {}
    BY <1>2, <1>3 DEF Real
  <1>8. Good(forest) /\ Exact(forest) /\ TreesRight(forest, CircuitDepth) /\ CircuitDepth \in Nat
    BY CircuitDepthAssumption DEF DepthInv, LedgerInv, PoolInv, ForestInv
  <1>9. key[1] \in Trees(forest) /\ note \in LeavesUnder(root, CircuitDepth)
    BY <1>1, <1>8, LeafUnderTreeRoot
  <1>10. InputsAccepted(msg)
    <2>1. IsValidRootAnyTree(forest, root)
      BY <1>1, <1>8, <1>9, CurrentRootAccepted
    <2>2. NullifierOf(note) \notin SpentBefore(msg, 1)
      <3>1. SubSeq(msg.inputs, 1, 1 - 1) = <<>>
        BY <1>2
      <3>2. NullifiersOf(<<>>) = {}
        BY DEF NullifiersOf, Real
      <3> QED
        BY <3>1, <3>2 DEF SpentBefore
    <2> QED
      BY <1>2, <1>7, <2>1, <2>2 DEF InputsAccepted
  <1>11. TransactProven(msg)
    <2>1. ValueOf(msg.inputs) = NoteValue[note] /\ ValueOf(msg.outputs) = 0
      BY <1>2, <1>3, <1>4 DEF ValueOf, Worth
    <2>2. ValueOf(msg.inputs) = ValueOf(msg.outputs) + msg.withdraw + msg.fee
      BY <1>2, <1>4, <2>1
    <2>3. TransactStatement(msg)
      BY <1>2, <1>7, <1>9, <2>2 DEF TransactStatement
    <2> QED
      BY <2>3 DEF TransactProven, WithdrawalsOn
  <1>12. OutputsAccepted(msg)
    BY <1>2 DEF OutputsAccepted, CanInsertOutput
  <1>13. PayoutAccepted(msg)
    BY <1>2, <1>4 DEF PayoutAccepted, Payout, WithdrawalsOn
  <1> QED
    BY <1>5, <1>6, <1>10, <1>11, <1>12, <1>13 DEF CanTransact

(* There is no tree yet, and the parameters are those of the genesis. *)
LEMMA DepthInit ==
    ASSUME GenesisParams.treeDepth = CircuitDepth
    PROVE  Init => DepthInv
  <1> SUFFICES ASSUME Init PROVE DepthInv
    OBVIOUS
  <1>1. forest.treeCount = 0 /\ params.treeDepth = CircuitDepth
    BY DEF Init, EmptyForest
  <1>2. TreesRight(forest, CircuitDepth)
    BY <1>1 DEF TreesRight, Trees
  <1> QED
    BY <1>1, <1>2, LedgerInit DEF DepthInv

(* Both outputs of a transact leave every tree right. *)
LEMMA TransactKeepsRight ==
    ASSUME DepthInv, NEW msg, msg.outputs \in NotePair, Transact(msg)
    PROVE  TreesRight(forest', CircuitDepth)
  <1>1. PICK a \in Commitment \cup {Zero} : a = msg.outputs[1]
    BY DEF NotePair
  <1>2. PICK b \in Commitment \cup {Zero} : b = msg.outputs[2]
    BY DEF NotePair
  <1>3. PICK middle : middle = InsertOutput(forest, a)
    OBVIOUS
  <1>4. CanInsertOutput(forest, a)
    BY <1>1 DEF Transact, CanTransact, OutputsAccepted
  <1>5. forest' = InsertOutput(middle, b)
    BY <1>1, <1>2, <1>3 DEF Transact, AfterFirstOutput
  <1>6. ForestInv(forest) /\ ForestInv(middle)
    BY <1>3, <1>4, InsertOutputGood DEF DepthInv, LedgerInv, PoolInv
  <1>7. ASSUME NEW f, ForestInv(f), TreesRight(f, CircuitDepth),
               NEW note \in Commitment \cup {Zero}, NEW g, g = InsertOutput(f, note)
        PROVE  TreesRight(g, CircuitDepth)
    <2>1. CASE note = Zero
      BY <1>7, <2>1 DEF InsertOutput
    <2>2. CASE note # Zero
      <3>1. /\ Good(f) /\ note \in Commitment /\ CircuitDepth \in Nat
            /\ g = InsertNote(f, note, CircuitDepth)
        BY <1>7, <2>2, CircuitDepthAssumption DEF ForestInv, InsertOutput, DepthInv
      <3> QED
        BY <1>7, <3>1, InsertNoteRight
    <2> QED
      BY <2>1, <2>2
  <1>8. TreesRight(middle, CircuitDepth)
    BY <1>3, <1>6, <1>7 DEF DepthInv
  <1> QED
    BY <1>5, <1>6, <1>7, <1>8

(* Each step inserts at the depth of the circuit or leaves the forest alone. *)
LEMMA DepthNext ==
    ASSUME \A p \in ParamChoices : ValidParams(p) => p.treeDepth = CircuitDepth
    PROVE  DepthInv /\ [AnyStep]_vars => DepthInv'
  <1> SUFFICES ASSUME DepthInv, [AnyStep]_vars PROVE DepthInv'
    OBVIOUS
  <1>1. LedgerInv'
    BY LedgerNext DEF DepthInv
  <1>2. CASE UNCHANGED <<forest, params>>
    BY <1>1, <1>2 DEF DepthInv
  <1>3. CASE BeginTx
    BY <1>2, <1>3 DEF BeginTx, chainVars
  <1>4. ASSUME NEW identity \in Identity, NEW chainId \in ChainIds, NEW key \in Keys,
               NEW data \in AttachData, Register(identity, chainId, key, data)
        PROVE  DepthInv'
    BY <1>2, <1>4 DEF Register
  <1>5. ASSUME NEW note \in Commitment, NEW denom \in Denom, NEW key \in Keys,
               NEW data \in AttachData, NEW amount \in 1..(FieldModulus - 1),
               Deposit(note, amount, denom, key, data)
        PROVE  DepthInv'
    <2>1. forest' = InsertNote(forest, note, CircuitDepth) /\ params' = params
      BY <1>5 DEF Deposit, DepthInv
    <2>2. Good(forest) /\ CircuitDepth \in Nat /\ TreesRight(forest, CircuitDepth)
      BY CircuitDepthAssumption DEF DepthInv, LedgerInv, PoolInv, ForestInv
    <2>3. TreesRight(forest', CircuitDepth)
      BY <2>1, <2>2, InsertNoteRight
    <2> QED
      BY <1>1, <2>1, <2>3 DEF DepthInv
  <1>6. CASE AnyTransact
    <2>1. PICK msg : msg.outputs \in NotePair /\ Transact(msg)
      BY <1>6 DEF AnyTransact
    <2>2. TreesRight(forest', CircuitDepth) /\ params' = params
      BY <2>1, TransactKeepsRight DEF Transact
    <2> QED
      BY <1>1, <2>2 DEF DepthInv
  <1>7. ASSUME NEW p \in ParamChoices, UpdateParams(p) PROVE DepthInv'
    BY <1>1, <1>7 DEF UpdateParams, DepthInv
  <1>8. ASSUME NEW circuit \in Circuit, SetVerificationKey(circuit) PROVE DepthInv'
    BY <1>2, <1>8 DEF SetVerificationKey
  <1>9. CASE UNCHANGED vars
    BY <1>2, <1>9 DEF vars
  <1> QED
    BY <1>3, <1>4, <1>5, <1>6, <1>7, <1>8, <1>9 DEF AnyStep

(* Whoever owns an unspent note can turn it into coins at once, against its   *)
(* tree's current root, while withdrawals are on: every check of Transact     *)
(* passes in every reachable state, as long as governance leaves the depth    *)
(* of the note trees at the depth of the circuit.  (Once a proposal changes   *)
(* it, roots need not be Merkle roots any more: the run DepthChange.)         *)
THEOREM UnspentStaysWithdrawable ==
    ASSUME GenesisParams.treeDepth = CircuitDepth,
           \A p \in ParamChoices : ValidParams(p) => p.treeDepth = CircuitDepth
    PROVE  Spec => []UnspentIsWithdrawable
  <1>1. DepthInv => UnspentIsWithdrawable
    <2> SUFFICES ASSUME DepthInv, NEW key \in DOMAIN forest.leaf,
                        forest.leaf[key] \in UnspentNotes,
                        WithdrawalsOn(NoteDenom[forest.leaf[key]])
                 PROVE  CanTransact(FullWithdrawal(forest.leaf[key], key[1]))
      BY DEF UnspentIsWithdrawable
    <2>1. NullifierOf(forest.leaf[key]) \notin spent
      BY DEF UnspentNotes
    <2> QED
      BY <2>1, WithdrawalPasses
  <1>2. Init => DepthInv
    BY DepthInit
  <1>3. DepthInv /\ [Next]_vars => DepthInv'
    BY DepthNext, NextIsAnyStep
  <1> QED
    BY <1>1, <1>2, <1>3, PTL DEF Spec
=============================================================================
