---------------------------- MODULE ClientsProofs ----------------------------
(***************************************************************************)
(* Messages in flight.  For every set of notes, every number of messages   *)
(* on their way and every order in which they arrive: the pool implements  *)
(* the ledger, and a message that nothing has overtaken is accepted.       *)
(***************************************************************************)
EXTENDS Clients, NixPoolProofs

-----------------------------------------------------------------------------
(***************************************************************************)
(* What is delivered is a message of the pool.                             *)
(***************************************************************************)

(* A plan of a note's owner: it spends this note alone and in full, for at *)
(* most two different notes and a withdrawal.                              *)
PlanOf(note, msg) ==
    /\ msg.inputs = <<note, Zero>>
    /\ msg.outputs \in NotePair
    /\ Distinct(msg.outputs)
    /\ msg.denom = NoteDenom[note]
    /\ ValueOf(msg.outputs) \in Nat
    /\ ValueOf(msg.outputs) <= NoteValue[note]
    /\ msg.withdraw = NoteValue[note] - ValueOf(msg.outputs)
    /\ msg.fee = 0

(* What is in flight was planned. *)
SentPlanned ==
    \A note \in DOMAIN outbox : note \in Commitment /\ PlanOf(note, outbox[note].msg)

(* The inductive invariant of this part. *)
ClientInv == LedgerInv /\ SentPlanned

(* The notes are the used markers. *)
LEMMA NotesUsed == PoolInv => Notes = forest.used /\ Notes \subseteq Commitment
  BY DEF PoolInv, ForestInv, UniqueLeaves, Notes, TypeOK, ForestTypeOK, LeavesAreNotes

(* What an owner chooses among: payments to registered owners, in the note's *)
(* own denomination, that are not notes yet.                                 *)
LEMMA PlansArePlans ==
    ASSUME PoolInv, NEW note \in Notes, NEW msg \in Plans(note)
    PROVE  /\ note \in Commitment /\ PlanOf(note, msg)
           /\ msg.roots = <<RootFor(note), EmptyRoot>> /\ msg.regRoot = RegistrationRoot
           /\ \A i \in Real(msg.outputs) :
                /\ NoteDenom[msg.outputs[i]] = msg.denom
                /\ NoteOwner[msg.outputs[i]] \in Registered
  <1>1. note \in Commitment
    BY NotesUsed
  <1>2. PICK fresh : fresh = {n \in {c \in Commitment : NoteOwner[c] \in Registered} \ Notes :
                                NoteDenom[n] = NoteDenom[note]} \cup {Zero}
    OBVIOUS
  <1>3. PICK outs \in fresh \X fresh :
          /\ outs[1] \in {Zero, outs[2]} => outs[2] = Zero
          /\ ValueOf(outs) <= NoteValue[note]
          /\ msg = [inputs   |-> <<note, Zero>>,
                    roots    |-> <<RootFor(note), EmptyRoot>>,
                    outputs  |-> outs,
                    regRoot  |-> RegistrationRoot,
                    denom    |-> NoteDenom[note],
                    withdraw |-> NoteValue[note] - ValueOf(outs),
                    fee      |-> 0]
    BY <1>2 DEF Plans
  <1>4. outs \in NotePair
    BY <1>2, <1>3 DEF NotePair
  <1>5. Distinct(outs)
    BY <1>3 DEF Distinct
  <1>6. ValueOf(outs) \in Nat
    BY <1>4, <1>5, PairWorth
  <1>7. PlanOf(note, msg)
    BY <1>3, <1>4, <1>5, <1>6 DEF PlanOf
  <1>8. ASSUME NEW i \in Real(outs)
        PROVE  NoteDenom[outs[i]] = NoteDenom[note] /\ NoteOwner[outs[i]] \in Registered
    <2>1. outs[i] \in fresh /\ outs[i] # Zero
      BY <1>3 DEF Real
    <2> QED
      BY <1>2, <2>1
  <1> QED
    BY <1>1, <1>3, <1>7, <1>8

(* A plan is a message of the types that the pool's lemmas speak of. *)
LEMMA PlanTyped ==
    ASSUME NEW note \in Commitment, NEW msg, PlanOf(note, msg)
    PROVE  /\ msg.denom \in Denom
           /\ msg.inputs \in NotePair /\ msg.outputs \in NotePair
  BY NoteAssumption DEF PlanOf, NotePair

(* What was sent before, one message less or one more. *)
LEMMA SentStaysPlanned ==
    ASSUME PoolInv, SentPlanned, [ClientNext]_clientVars
    PROVE  SentPlanned'
  <1>1. CASE UNCHANGED outbox
    BY <1>1 DEF SentPlanned
  <1>2. ASSUME NEW note \in Commitment, Prepare(note) PROVE SentPlanned'
    <2>1. PICK msg \in Plans(note) :
            outbox' = Put(outbox, note, [msg  |-> msg, tree |-> TreeOf(note),
                                         size |-> TreeNextIndex(forest, TreeOf(note))])
      BY <1>2 DEF Prepare
    <2>2. PlanOf(note, msg)
      BY <1>2, <2>1, PlansArePlans DEF Prepare
    <2> QED
      BY <2>1, <2>2 DEF SentPlanned, Put
  <1>3. ASSUME NEW note \in Commitment, Refuse(note) PROVE SentPlanned'
    BY <1>3 DEF Refuse, Without, SentPlanned
  <1> QED
    BY <1>1, <1>2, <1>3 DEF ClientNext, clientVars, Deliver, Others

(* A step of an owner or of anybody else is one of the pool's, or none. *)
LEMMA ClientStepsAreAny ==
    ASSUME SentPlanned, [ClientNext]_clientVars
    PROVE  [AnyStep]_vars
  <1>1. CASE UNCHANGED vars
    BY <1>1
  <1>2. ASSUME NEW note \in Commitment, Deliver(note) PROVE AnyStep
    <2>1. note \in DOMAIN outbox /\ Transact(outbox[note].msg)
      BY <1>2 DEF Deliver
    <2>2. PICK msg : msg = outbox[note].msg
      OBVIOUS
    <2>3. /\ msg.denom \in Denom
          /\ msg.inputs \in NotePair /\ msg.outputs \in NotePair
      BY <2>1, <2>2, PlanTyped DEF SentPlanned
    <2>4. AnyTransact
      BY <2>1, <2>2, <2>3 DEF AnyTransact
    <2> QED
      BY <2>4 DEF AnyStep
  <1>3. CASE Others
    <2>1. ASSUME NEW identity \in Identity, NEW chainId \in ChainIds, NEW key \in Keys,
                 NEW data \in AttachData, Register(identity, chainId, key, data)
          PROVE  AnyStep
      BY <2>1 DEF AnyStep
    <2>2. ASSUME NEW note \in Commitment, NEW key \in Keys, NEW data \in AttachData,
                 Deposit(note, NoteValue[note], NoteDenom[note], key, data)
          PROVE  AnyStep
      <3>1. PICK amount, denom : amount = NoteValue[note] /\ denom = NoteDenom[note]
        OBVIOUS
      <3>2. denom \in Denom /\ amount \in 1..(FieldModulus - 1)
        BY <3>1, NoteAssumption, RangeAssumption, SupplyAssumption
      <3> QED
        BY <2>2, <3>1, <3>2 DEF AnyStep
    <2>3. ASSUME NEW p \in ParamChoices, UpdateParams(p) PROVE AnyStep
      BY <2>3 DEF AnyStep
    <2> QED
      BY <1>3, <2>1, <2>2, <2>3 DEF Others
  <1> QED
    BY <1>1, <1>2, <1>3 DEF ClientNext, clientVars, Prepare, Refuse

(* Nothing is in flight at first, and every step keeps the invariant. *)
LEMMA ClientInvariance == ClientSpec => []ClientInv
  <1>1. ClientInit => ClientInv
    BY LedgerInit DEF ClientInit, ClientInv, SentPlanned
  <1>2. ClientInv /\ [ClientNext]_clientVars => ClientInv'
    BY SentStaysPlanned, ClientStepsAreAny, LedgerNext DEF ClientInv, LedgerInv
  <1> QED
    BY <1>1, <1>2, PTL DEF ClientSpec

(* Late, lost, repeated and reordered messages move value as the ledger       *)
(* allows: an old proof spends no note a second time and pays nothing twice.  *)
THEOREM ClientsImplementLedger == ClientSpec => ImplementsLedger
  <1>1. ClientInit => Ledger!Init
    BY InitRefines DEF ClientInit
  <1>2. ClientInv /\ ClientInv' /\ [ClientNext]_clientVars => [Ledger!Next]_(Ledger!vars)
    BY ClientStepsAreAny, NextRefines DEF ClientInv
  <1> QED
    BY <1>1, <1>2, ClientInvariance, PTL DEF ClientSpec, ImplementsLedger, Ledger!Spec

-----------------------------------------------------------------------------
(***************************************************************************)
(* How long a message stays good, while the depths are the circuit's.      *)
(***************************************************************************)

(* What one forest has in its leaves, another has too. *)
LeavesStay(f, g) ==
    \A key \in DOMAIN f.leaf : key \in DOMAIN g.leaf /\ g.leaf[key] = f.leaf[key]

(* An output is put in a free leaf, or nowhere. *)
LEMMA OutputLeavesStay ==
    ASSUME NEW f, ForestInv(f), NEW note \in Commitment \cup {Zero},
           NEW g, g = InsertOutput(f, note)
    PROVE  LeavesStay(f, g)
  <1>1. CASE note = Zero
    BY <1>1 DEF InsertOutput, LeavesStay
  <1>2. CASE note # Zero
    <2>1. PICK key : key \notin DOMAIN f.leaf /\ g.leaf = Put(f.leaf, key, note)
      BY <1>2, InsertNoteLeaf DEF InsertOutput, ForestInv
    <2> QED
      BY <2>1, PutElsewhere DEF LeavesStay
  <1> QED
    BY <1>1, <1>2

(* No step takes a leaf away. *)
LEMMA StepLeavesStay ==
    ASSUME PoolInv, [AnyStep]_vars
    PROVE  LeavesStay(forest, forest')
  <1>1. CASE UNCHANGED forest
    BY <1>1 DEF LeavesStay
  <1>2. ASSUME NEW note \in Commitment, NEW denom, NEW amount, NEW key, NEW data,
               Deposit(note, amount, denom, key, data)
        PROVE  LeavesStay(forest, forest')
    <2>1. PICK at : at \notin DOMAIN forest.leaf /\ forest'.leaf = Put(forest.leaf, at, note)
      BY <1>2, InsertNoteLeaf DEF Deposit, PoolInv, ForestInv
    <2> QED
      BY <2>1, PutElsewhere DEF LeavesStay
  <1>3. CASE AnyTransact
    <2>1. PICK msg : msg.outputs \in NotePair /\ Transact(msg)
      BY <1>3 DEF AnyTransact
    <2>2. PICK middle : middle = AfterFirstOutput(msg)
      OBVIOUS
    <2>3. msg.outputs[1] \in Commitment \cup {Zero} /\ msg.outputs[2] \in Commitment \cup {Zero}
      BY <2>1 DEF NotePair
    <2>4. CanInsertOutput(forest, msg.outputs[1]) /\ ForestInv(forest)
      BY <2>1 DEF Transact, CanTransact, OutputsAccepted, PoolInv
    <2>5. ForestInv(middle) /\ LeavesStay(forest, middle)
      BY <2>2, <2>3, <2>4, InsertOutputGood, OutputLeavesStay DEF AfterFirstOutput
    <2>6. forest' = InsertOutput(middle, msg.outputs[2])
      BY <2>1, <2>2 DEF Transact
    <2>7. LeavesStay(middle, forest')
      BY <2>3, <2>5, <2>6, OutputLeavesStay
    <2> QED
      BY <2>5, <2>7 DEF LeavesStay
  <1> QED
    BY <1>1, <1>2, <1>3
    DEF AnyStep, BeginTx, chainVars, Register, UpdateParams, SetVerificationKey, vars

(* The leaves that a message was proved against are there, and it names the *)
(* root that the circuit's tree has over them.                              *)
Anchored(f, sent) ==
    /\ sent.size \in Nat \ {0}
    /\ \A i \in 0..(sent.size - 1) : <<sent.tree, i>> \in DOMAIN f.leaf
    /\ sent.msg.roots[1] = MerkleRoot(First(f, sent.tree, sent.size), CircuitDepth)

(* What is in flight was true when it was proved. *)
SentProven ==
    \A note \in DOMAIN outbox :
        TransactStatement(outbox[note].msg) /\ Anchored(forest, outbox[note])

(* The inductive invariant of this part. *)
FlightInv == DepthInv /\ SentPlanned /\ SentProven

(* Leaves that stay anchor what they anchored. *)
LEMMA StaysAnchored ==
    ASSUME NEW f, NEW g, NEW sent, LeavesStay(f, g), Anchored(f, sent)
    PROVE  Anchored(g, sent)
  <1>1. PICK n \in Nat \ {0} : n = sent.size
    BY DEF Anchored
  <1>2. PICK tree : tree = sent.tree
    OBVIOUS
  <1>3. \A i \in 0..(n - 1) : /\ <<tree, i>> \in DOMAIN g.leaf
                              /\ g.leaf[<<tree, i>>] = f.leaf[<<tree, i>>]
    BY <1>1, <1>2 DEF Anchored, LeavesStay
  <1>4. \A i \in 1..n : i - 1 \in 0..(n - 1)
    OBVIOUS
  <1>5. First(g, tree, n) = First(f, tree, n)
    BY <1>3, <1>4 DEF First
  <1> QED
    BY <1>1, <1>2, <1>3, <1>5 DEF Anchored

(* The root that an owner is told or computes is that of the tree's leaves. *)
LEMMA RootForIsMerkle ==
    ASSUME DepthInv, NEW note, NEW tree \in Trees(forest), tree = TreeOf(note),
           NEW n, n = forest.nextIndex[tree]
    PROVE  RootFor(note) = MerkleRoot(First(forest, tree, n), CircuitDepth)
  <1>1. /\ tree \in DOMAIN forest.nextIndex
        /\ TreeRootKey(tree) \in DOMAIN forest.rootSlot
    BY DEF DepthInv, LedgerInv, PoolInv, TypeOK, ForestTypeOK, ForestShapeOK, CountersOK, SlotsOK
  <1>2. forest.rootSlot[TreeRootKey(tree)] = MerkleRoot(First(forest, tree, n), CircuitDepth)
    BY DEF DepthInv, TreesRight, TreeRight
  <1>3. CASE tree = TreeInfo.activeTreeId
    <2>1. tree = forest.activeTreeId
      BY <1>3 DEF TreeInfo
    <2>2. Root = forest.rootSlot[TreeRootKey(tree)]
      BY <1>1, <2>1 DEF Root, GetTreeRoot, Get
    <2> QED
      BY <1>2, <1>3, <2>2 DEF RootFor
  <1>4. CASE tree # TreeInfo.activeTreeId
    <2>1. TreeNextIndex(forest, tree) = n
      BY <1>1 DEF TreeNextIndex, Get
    <2>2. LeavesOf(tree) = First(forest, tree, n)
      BY <2>1 DEF LeavesOf, First
    <2> QED
      BY <1>4, <2>2 DEF RootFor
  <1> QED
    BY <1>3, <1>4

(* Whoever registered is under the root the registration query answers. *)
LEMMA RegisteredUnderRoot ==
    ASSUME PoolInv, RegTreeDepth = CircuitRegDepth, NEW identity \in Registered
    PROVE  identity \in LeavesUnder(RegistrationRoot, CircuitRegDepth)
  <1>1. PICK n \in Nat : n = registration.nextIndex
    BY DEF PoolInv, Registers, RegistrationTypeOK
  <1>2. PICK leaves : leaves = RegLeaves(registration)
    OBVIOUS
  <1>3. PICK i \in 0..(n - 1) : registration.leaf[i] = identity
    BY <1>1 DEF Registered, PoolInv, Registers, RegistrationTypeOK
  <1>4. Len(leaves) = n /\ \A j \in 1..n : leaves[j] = registration.leaf[j - 1]
    BY <1>1, <1>2, RegLeavesLength
  <1>5. i \in Nat /\ i < n /\ i + 1 \in 1..n /\ (i + 1) - 1 = i
    OBVIOUS
  <1>6. leaves[i + 1] = identity
    BY <1>3, <1>4, <1>5
  <1>7. /\ RegistrationRoot = MerkleRoot(leaves, RegTreeDepth)
        /\ n <= Width[RegTreeDepth] /\ RegTreeDepth \in Nat
    BY <1>1, <1>2, RegDepthAssumption DEF PoolInv, Registers, RegistrationRoot
  <1>8. leaves[i + 1] \in LeavesUnder(MerkleRoot(leaves, RegTreeDepth), RegTreeDepth)
    BY <1>4, <1>5, <1>7, LeafUnderRoot
  <1> QED
    BY <1>6, <1>7, <1>8

(* A plan is true when it is made, whichever tree its note is in. *)
LEMMA PlanIsProven ==
    ASSUME DepthInv, RegTreeDepth = CircuitRegDepth, NEW note \in Notes,
           NEW msg \in Plans(note), NEW sent,
           sent = [msg |-> msg, tree |-> TreeOf(note),
                   size |-> TreeNextIndex(forest, TreeOf(note))]
    PROVE  TransactStatement(msg) /\ Anchored(forest, sent)
  <1>1. PoolInv /\ Good(forest)
    BY DEF DepthInv, LedgerInv, PoolInv, ForestInv
  <1>2. PICK key : key \in DOMAIN forest.leaf /\ forest.leaf[key] = note /\ TreeOf(note) = key[1]
    BY DEF Notes, TreeOf
  <1>3. PICK tree \in Trees(forest) : \E i \in 0..(forest.nextIndex[tree] - 1) : key = <<tree, i>>
    BY <1>1, <1>2 DEF Good, ForestShapeOK, LeavesOK
  <1>4. PICK n \in Nat : n = forest.nextIndex[tree]
    BY <1>1 DEF Good, ForestShapeOK, CountersOK
  <1>5. TreeOf(note) = tree /\ n # 0 /\ TreeNextIndex(forest, tree) = n
    <2>1. PICK i \in 0..(n - 1) : key = <<tree, i>>
      BY <1>3, <1>4
    <2>2. tree \in DOMAIN forest.nextIndex
      BY <1>1 DEF Good, ForestShapeOK, CountersOK
    <2> QED
      BY <1>2, <1>4, <2>1, <2>2 DEF TreeNextIndex, Get
  <1>6. RootFor(note) = MerkleRoot(First(forest, tree, n), CircuitDepth)
    BY <1>4, <1>5, RootForIsMerkle
  <1>7. /\ note \in Commitment /\ PlanOf(note, msg)
        /\ msg.roots = <<RootFor(note), EmptyRoot>> /\ msg.regRoot = RegistrationRoot
        /\ \A i \in Real(msg.outputs) :
             /\ NoteDenom[msg.outputs[i]] = msg.denom
             /\ NoteOwner[msg.outputs[i]] \in Registered
    BY <1>1, PlansArePlans
  <1>8. Anchored(forest, sent)
    <2>1. \A i \in 0..(n - 1) : <<tree, i>> \in DOMAIN forest.leaf
      BY <1>1, <1>4 DEF Good, ForestShapeOK, LeavesOK
    <2> QED
      BY <1>5, <1>6, <1>7, <2>1 DEF Anchored
  <1>9. note \in LeavesUnder(RootFor(note), CircuitDepth)
    <2>1. forest.leaf[key] \in LeavesUnder(forest.rootSlot[TreeRootKey(key[1])], CircuitDepth)
      BY <1>1, <1>2, LeafUnderTreeRoot, CircuitDepthAssumption DEF DepthInv
    <2>2. forest.rootSlot[TreeRootKey(tree)] = MerkleRoot(First(forest, tree, n), CircuitDepth)
      BY <1>4 DEF DepthInv, TreesRight, TreeRight
    <2> QED
      BY <1>2, <1>5, <1>6, <2>1, <2>2
  <1>10. TransactStatement(msg)
    <2>1. /\ Real(msg.inputs) = {1} /\ msg.inputs[1] = note /\ msg.denom = NoteDenom[note]
          /\ msg.roots[1] = RootFor(note)
      BY <1>7, ZeroAssumption DEF PlanOf, Real
    <2>2. \A i \in Real(msg.outputs) :
             NoteOwner[msg.outputs[i]] \in LeavesUnder(msg.regRoot, CircuitRegDepth)
      BY <1>1, <1>7, RegisteredUnderRoot
    <2>3. ValueOf(msg.inputs) = NoteValue[note] /\ NoteValue[note] \in Nat
      BY <1>7, ZeroAssumption, NoteAssumption DEF PlanOf, ValueOf, Worth
    <2>4. ValueOf(msg.inputs) = ValueOf(msg.outputs) + msg.withdraw + msg.fee
      <3>1. PICK v, w \in Nat : v = NoteValue[note] /\ w = ValueOf(msg.outputs) /\ w <= v
        BY <1>7, <2>3 DEF PlanOf
      <3>2. msg.withdraw = v - w /\ msg.fee = 0
        BY <1>7, <3>1 DEF PlanOf
      <3> QED
        BY <2>3, <3>1, <3>2
    <2> QED
      BY <1>7, <1>9, <2>1, <2>2, <2>4 DEF TransactStatement
  <1> QED
    BY <1>8, <1>10

(* Leaves stay, and so does what a message says of them. *)
LEMMA SentStaysProven ==
    ASSUME FlightInv, RegTreeDepth = CircuitRegDepth, [ClientNext]_clientVars
    PROVE  SentProven'
  <1>1. LeavesStay(forest, forest')
    BY ClientStepsAreAny, StepLeavesStay DEF FlightInv, DepthInv, LedgerInv
  <1>2. \A note \in DOMAIN outbox :
          TransactStatement(outbox[note].msg) /\ Anchored(forest', outbox[note])
    BY <1>1, StaysAnchored DEF FlightInv, SentProven
  <1>3. CASE UNCHANGED outbox
    BY <1>2, <1>3 DEF SentProven
  <1>4. ASSUME NEW note \in Commitment, Prepare(note) PROVE SentProven'
    <2>1. PICK msg \in Plans(note) :
            outbox' = Put(outbox, note, [msg  |-> msg, tree |-> TreeOf(note),
                                         size |-> TreeNextIndex(forest, TreeOf(note))])
      BY <1>4 DEF Prepare
    <2>2. PICK sent : sent = [msg  |-> msg, tree |-> TreeOf(note),
                              size |-> TreeNextIndex(forest, TreeOf(note))]
      OBVIOUS
    <2>3. note \in Notes /\ forest' = forest
      BY <1>4 DEF Prepare, vars
    <2>4. TransactStatement(sent.msg) /\ Anchored(forest', sent)
      BY <2>2, <2>3, PlanIsProven DEF FlightInv
    <2> QED
      BY <1>2, <2>1, <2>2, <2>4 DEF SentProven, Put
  <1>5. ASSUME NEW note \in Commitment, Refuse(note) PROVE SentProven'
    <2>1. outbox' = Without(note)
      BY <1>5 DEF Refuse
    <2> QED
      BY <1>2, <2>1 DEF Without, SentProven
  <1> QED
    BY <1>3, <1>4, <1>5 DEF ClientNext, clientVars, Deliver, Others

(* A root in any slot of any tree is accepted: the index is exact. *)
LEMMA HeldRootAccepted ==
    ASSUME NEW f, Good(f), Exact(f), NEW key \in DOMAIN f.rootSlot
    PROVE  IsValidRootAnyTree(f, f.rootSlot[key])
  <1>1. f.rootSlot[key] \in HeldRoots(f.rootSlot)
    BY DEF HeldRoots, Good, Slotted
  <1>2. RootRefCount(f.rootIndex, f.rootSlot[key]) > 0
    BY <1>1, CountedIsHeld DEF Good
  <1> QED
    BY <1>2 DEF IsValidRootAnyTree

(* The root a message names is in its tree's ring, as long as fewer than     *)
(* MaxRootHistory notes went into the tree after the message was proved.     *)
LEMMA AnchorIsAccepted ==
    ASSUME DepthInv, NEW sent, Anchored(forest, sent),
           TreeNextIndex(forest, sent.tree) < sent.size + MaxRootHistory
    PROVE  IsValidRootAnyTree(forest, sent.msg.roots[1])
  <1>1. PICK n \in Nat \ {0} : n = sent.size
    BY DEF Anchored
  <1>2. Good(forest) /\ Exact(forest) /\ TreesRight(forest, CircuitDepth)
    BY DEF DepthInv, LedgerInv, PoolInv, ForestInv
  <1>3. PICK tree \in Trees(forest) : tree = sent.tree /\ n - 1 \in 0..(forest.nextIndex[tree] - 1)
    <2>1. <<sent.tree, n - 1>> \in DOMAIN forest.leaf
      BY <1>1 DEF Anchored
    <2>2. PICK tree \in Trees(forest) :
            \E i \in 0..(forest.nextIndex[tree] - 1) : <<sent.tree, n - 1>> = <<tree, i>>
      BY <1>2, <2>1 DEF Good, ForestShapeOK, LeavesOK
    <2> QED
      BY <2>2
  <1>4. PICK next \in Nat : next = forest.nextIndex[tree] /\ next = TreeNextIndex(forest, tree)
    BY <1>2 DEF Good, ForestShapeOK, CountersOK, TreeNextIndex, Get
  <1>5. n \in 1..next /\ n > next - MaxRootHistory
    BY <1>1, <1>3, <1>4, RootHistoryAssumption
  <1>6. PICK key : key = RootHistoryKey(tree, (n - 1) % MaxRootHistory)
    OBVIOUS
  <1>7. /\ key \in DOMAIN forest.rootSlot
        /\ forest.rootSlot[key] = MerkleRoot(First(forest, tree, n), CircuitDepth)
    BY <1>2, <1>4, <1>5, <1>6 DEF TreesRight, TreeRight
  <1>8. sent.msg.roots[1] = MerkleRoot(First(forest, tree, n), CircuitDepth)
    BY <1>1, <1>3 DEF Anchored
  <1> QED
    BY <1>2, <1>7, <1>8, HeldRootAccepted

(* A plan that is still true passes every check of the handler. *)
LEMMA PlanPasses ==
    ASSUME LedgerInv, NEW note \in Commitment, NEW msg, PlanOf(note, msg),
           TransactStatement(msg), note \in UnspentNotes,
           NotesIn(msg.outputs) \cap Notes = {}, msg.regRoot = RegistrationRoot,
           WithdrawalsOn(msg.denom), IsValidRootAnyTree(forest, msg.roots[1])
    PROVE  CanTransact(msg)
  <1>1. PICK v, w \in Nat : v = NoteValue[note] /\ w = ValueOf(msg.outputs) /\ w <= v
    BY NoteAssumption DEF PlanOf
  <1>2. msg.withdraw = v - w /\ msg.fee = 0 /\ msg.denom = NoteDenom[note]
    BY <1>1 DEF PlanOf
  <1>3. Notes = forest.used /\ note \in forest.used /\ NullifierOf(note) \notin spent
    BY NotesUsed DEF LedgerInv, UnspentNotes
  <1>4. ValidAmounts(msg)
    <2>1. v <= MaxAmount /\ MaxAmount \in Nat
      BY <1>1, RangeAssumption, SupplyAssumption
    <2> QED
      BY <1>1, <1>2, <2>1 DEF ValidAmounts
  <1>5. IsValidRegRoot(registration, msg.regRoot)
    BY DEF IsValidRegRoot, RegistrationRoot
  <1>6. InputsAccepted(msg)
    <2>1. msg.inputs = <<note, Zero>> /\ Real(msg.inputs) = {1}
      BY ZeroAssumption DEF PlanOf, Real
    <2>2. NullifierOf(note) \notin SpentBefore(msg, 1)
      <3>1. SubSeq(msg.inputs, 1, 1 - 1) = <<>>
        BY <2>1
      <3>2. NullifiersOf(<<>>) = {}
        BY DEF NullifiersOf, Real
      <3> QED
        BY <1>3, <3>1, <3>2 DEF SpentBefore
    <2> QED
      BY <2>1, <2>2 DEF InputsAccepted
  <1>7. TransactProven(msg)
    BY DEF TransactProven, WithdrawalsOn
  <1>8. OutputsAccepted(msg)
    <2>1. PICK a, b \in Commitment \cup {Zero} : a = msg.outputs[1] /\ b = msg.outputs[2]
      BY DEF PlanOf, NotePair
    <2>2. NotesIn(msg.outputs) = {a, b} \ {Zero} /\ (a = b => a = Zero)
      BY <2>1, PairNotes DEF PlanOf, Distinct
    <2>3. (a # Zero => a \notin forest.used) /\ (b # Zero => b \notin forest.used)
      BY <1>3, <2>2
    <2>4. CanInsertOutput(forest, a)
      BY <2>3 DEF CanInsertOutput, CanInsertNote
    <2>5. PICK middle : middle = InsertOutput(forest, a)
      OBVIOUS
    <2>6. middle.used = forest.used \cup ({a} \ {Zero})
      <3>1. CASE a = Zero
        BY <2>5, <3>1 DEF InsertOutput
      <3>2. CASE a # Zero
        <4>1. a \in Commitment /\ middle = InsertNote(forest, a, params.treeDepth)
          BY <2>5, <3>2 DEF InsertOutput
        <4>2. middle.used = forest.used \cup {a}
          BY <4>1, InsertNoteLeaf DEF LedgerInv, PoolInv, ForestInv
        <4> QED
          BY <3>2, <4>2
      <3> QED
        BY <3>1, <3>2
    <2>7. CanInsertOutput(middle, b)
      BY <2>2, <2>3, <2>6 DEF CanInsertOutput, CanInsertNote
    <2> QED
      BY <2>1, <2>4, <2>5, <2>7 DEF OutputsAccepted, AfterFirstOutput
  <1>9. PayoutAccepted(msg)
    <2>1. escrow[NoteDenom[note]] >= v
      BY <1>1, <1>3, NoteIsCovered
    <2>2. NoteDenom[note] \in Denom /\ escrow[NoteDenom[note]] \in Nat
      BY NoteAssumption DEF LedgerInv, PoolInv, TypeOK
    <2>3. Payout(msg) = v - w
      BY <1>1, <1>2 DEF Payout
    <2> QED
      BY <1>1, <1>2, <2>1, <2>2, <2>3 DEF PayoutAccepted, WithdrawalsOn
  <1> QED
    BY <1>4, <1>5, <1>6, <1>7, <1>8, <1>9 DEF CanTransact

(* A message on its way stays good, however long it takes and whatever        *)
(* arrives before it: only a spent note, a taken output, a registration,      *)
(* governance, or MaxRootHistory notes in its own tree stand in its way.  The *)
(* trees' depths are those of the circuits, as in UnspentStaysWithdrawable.   *)
THEOREM WindowStaysOpen ==
    ASSUME GenesisParams.treeDepth = CircuitDepth, RegTreeDepth = CircuitRegDepth,
           \A p \in ParamChoices : ValidParams(p) => p.treeDepth = CircuitDepth
    PROVE  ClientSpec => []WindowIsKept
  <1>1. ClientInit => FlightInv
    <2>1. ClientInit => DepthInv /\ outbox = <<>>
      BY DepthInit DEF ClientInit
    <2> QED
      BY <2>1 DEF FlightInv, SentPlanned, SentProven
  <1>2. FlightInv /\ [ClientNext]_clientVars => FlightInv'
    <2> SUFFICES ASSUME FlightInv, [ClientNext]_clientVars PROVE FlightInv'
      OBVIOUS
    <2>1. PoolInv /\ SentPlanned /\ DepthInv
      BY DEF FlightInv, DepthInv, LedgerInv
    <2>2. DepthInv'
      BY <2>1, ClientStepsAreAny, DepthNext
    <2> QED
      BY <2>1, <2>2, SentStaysPlanned, SentStaysProven DEF FlightInv
  <1>3. FlightInv => WindowIsKept
    <2> SUFFICES ASSUME FlightInv, NEW note \in DOMAIN outbox,
                        note \in UnspentNotes,
                        NotesIn(outbox[note].msg.outputs) \cap Notes = {},
                        outbox[note].msg.regRoot = RegistrationRoot,
                        WithdrawalsOn(outbox[note].msg.denom),
                        TreeNextIndex(forest, outbox[note].tree)
                            < outbox[note].size + MaxRootHistory
                 PROVE  CanTransact(outbox[note].msg)
      BY DEF WindowIsKept, NotesIn
    <2>1. PICK sent, msg : sent = outbox[note] /\ msg = sent.msg
      OBVIOUS
    <2>2. /\ note \in Commitment /\ PlanOf(note, msg)
          /\ TransactStatement(msg) /\ Anchored(forest, sent)
      BY <2>1 DEF FlightInv, SentPlanned, SentProven
    <2>3. IsValidRootAnyTree(forest, msg.roots[1])
      BY <2>1, <2>2, AnchorIsAccepted DEF FlightInv
    <2> QED
      BY <2>1, <2>2, <2>3, PlanPasses DEF FlightInv, DepthInv
  <1> QED
    BY <1>1, <1>2, <1>3, PTL DEF ClientSpec
=============================================================================
