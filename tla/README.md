# cosmos-nixpool in TLA+

cosmos-nixpool is a Cosmos SDK module: a shielded pool of notes. Coins come in
with `Deposit`, notes are split, merged and handed on with `Transact`, coins
leave through the withdrawal amount and the relayer fee of a `Transact`,
recipients `Register` first, and governance sets parameters and verification
keys. This directory models the state the module keeps in its store, every
message that changes it, and the coins it holds in `x/bank`.

Paths below are relative to the repository (`src/`).

## 1. The system

| component | where | state it keeps | operations |
|---|---|---|---|
| Note forest | `keeper/merkle.go` | per tree: leaves, next index, frontier, current root, ring of `MaxRootHistory` recent roots; tree count, active tree; used commitments | `InsertNote` (`EnsureTreeExists`, `CreateTree`, `insertLeafIntoTree`) |
| Root reverse index | `keeper/merkle.go:430-623` | root -> number of slots that hold it | the two indexed setters, `IsValidRootAnyTree`, `IsKnownRoot` (the scan it replaced), `RebuildRootIndex` |
| Registration tree | `keeper/merkle.go:304-416` | leaves, next index, frontier, root, used identities | `InsertRegCommitment`, `IsValidRegRoot` |
| Nullifiers | `keeper/merkle.go:418-428` | the spent set | check and mark, inside `Transact` |
| Message server | `keeper/msg_server.go` | auditor data by transaction hash | `Register`, `Deposit`, `Transact`, `UpdateParams`, `SetVerificationKey` |
| Public inputs and proofs | `keeper/verify.go` | verification keys | what a proof is bound to; UltraHonk (a library) |
| Parameters | `types/params.go`, `keeper/keeper.go` | `Params` | `Validate`, get, set |
| Message validation | `types/msgs.go` | none | `ValidateBasic` |
| Store keys | `types/keys.go` | none | key layout, canonical encodings of field elements |
| Genesis | `keeper/genesis.go` | none | `InitGenesis`, `ExportGenesis` |
| Queries | `keeper/query_server.go` | none | seven reads of the committed state |
| Client cryptography | `crypto/` | none on chain | Grumpkin keys, nix addresses, encryption to an address |
| Generated encoding | `types/*.pb.go` | none | `Size`, `MarshalToSizedBuffer`, `Unmarshal` of 31 message types |
| CLI, wiring, registration | `client/`, `module/`, `types/codec.go` | none | flags and files, registration with the application |

How they interact: a handler reads the parameters, checks what the proof is
bound to, asks for the verification key, moves coins in `x/bank` and calls the
forest or the registration tree, all in one transaction; any error aborts the
transaction and undoes every write. Transactions run one after the other, in an
order the proposer of the block picks. Nothing runs at the start or at the end
of a block. So there are no threads to interleave; what is hard is *order*:

* messages and governance changes interleave freely, and a later insertion reads
  a frontier, a ring and an index that were written under older parameters;
* one root sits in several slots, and slots are overwritten at their own pace;
* a message writes in several parts (nullifiers, two outputs, two payouts), each
  of which reads what the one before it wrote, and may still fail;
* several messages share one transaction, and what they store under its hash;
* a chain may be upgraded in place and carry slots that the index does not know;
* proofs are public once they land, so any message can be submitted again;
* a message is proved against one state and executed in a later one, after
  others have moved roots, filled trees and registered, or it is lost or comes
  twice while its owner has already sent another;
* a field element has several byte encodings, an amount several texts, and the
  store compares bytes where a proof compares elements;
* the bytes of a message are read by generated code that must neither take half
  a field for a whole one nor lose its place on lengths that wrap around.

What makes each component correct: the forest's roots are the Merkle roots of
its leaves and no leaf is lost or repeated; the index is exactly the slots it
summarises, so a root is accepted for a bounded time and for all of that time;
the registration tree holds each identity once; a note is spent at most once and
only if it exists; the module account holds exactly the value of the unspent
notes, and each of them can be turned into coins. The full list of hazards, each
with its line and the properties aimed at it, is in `PROJECT.json`.

## 2. The modules

| module | models | state |
|---|---|---|
| `KVStore` | a region of the key-value store: a map without the keys never written | operators |
| `FrontierTree` | the climb of `insertLeafIntoTree` / `insertLeafSingleTree`; `MerkleRoot` is the reference it is compared with | operators |
| `ForestStore` | the note forest and the reverse index as operators from forest to forest | operators |
| `NoteForest` | the forest alone: insertions, depth changes, the rebuild, upgraded chains | `forest`, `treeDepth` |
| `Genesis` | `ExportGenesis` and `InitGenesis` over the store of `NixPool`, and a chain that restarts through them | as `NixPool` |
| `RootLookback` | abstract: each tree remembers its last roots, and those are accepted | `recent`, `accepted` |
| `RegistrationTree` | the registration tree | operators |
| `Circuits` | external: what a valid proof of each circuit says | operators |
| `NixPool` | the message server over the whole store and the coins | nine variables |
| `PoolLedger` | abstract: notes are shielded once, spent once, coins follow | `unspent`, `gone`, `held` |
| `Queries` | the query server over the state of `NixPool` | operators |
| `Clients` | owners who query, prove, send, and send again, with messages in flight | `NixPool`'s and `outbox` |
| `FieldEncoding` | the encodings of a field element, the store keys made of one, `validateFieldBytes` | operators |
| `WirePool` | the three user messages over bytes and texts; refines `NixPool` | `NixPool`'s and `validateFirst` |
| `WireFormat` | the protobuf loop of `Unmarshal`, `skip`, and what `Size` and `MarshalToSizedBuffer` do per kind of field | operators |
| `TxCodec`, `QueryCodec`, `GenesisCodec` | per message type: its table of fields, what it writes, its size | operators |
| `Codec` | one message from its sender through a faulty wire to its reader, a field a step | eight variables |
| `ForestStoreProofs` | lemmas: induction over a set of numbers, powers of two, the frontier climb, the forest's operators | |
| `NoteForestProofs` | theorems about `NoteForest` | |
| `NixPoolProofs` | theorems about `NixPool`: types, auditor data, registration (with lemmas about its tree); value (with lemmas about sums) | |
| `GenesisProofs` | theorems about `Genesis`: what outlives a restart, what an export leaves out | |
| `ClientsProofs`, `WireProofs` | theorems about `Clients`: messages in flight; about `WirePool`: bytes and texts | |
| `WireFormatProofs` | lemmas about varints, entries, joined strings and the loops of `WireFormat` | |
| `CodecProofs` | theorems about `Codec`, with lemmas about messages and about each message type | |
| `MCNoteForest`, `MCNixPool`, `MCGenesis`, `MCWirePool`, `MCClients`, `MCCodec` | values for the constants | |

A handler calls several keeper functions in a row inside one transaction. The
keeper functions are therefore operators on a record with one field per key
region (`forest.nextIndex[tree]` is what `TreeNextIndexKey(tree)` holds), and a
handler is one action that composes them, in the code's order. The order inside
`Transact` matters and is kept: input 2 is checked against the nullifiers after
input 1 was marked (`SpentBefore`), output 2 is inserted into the forest that
output 1 left (`AfterFirstOutput`), the payouts come last. A failing handler
leaves nothing behind and is not a step.

Notes on single definitions:

* **Hashing** is symbolic: `Hash2` builds a pair, so it is injective, which is
  the collision resistance the code takes from Poseidon2. A field element is a
  model value, `Zero`, or a pair.
  `Leaf` is the node of an element that enters a tree, so an element is never
  taken for a hash of two others. `Width[level]` is `1 << level`.
* **`LeavesUnder`** is what a Merkle path of the circuit's depth can lead to: the
  elements that many steps below the root, whichever tree the root is of.
* **`SetRootIndexed`** is the body that `setTreeRootIndexed` and
  `setRootHistoryIndexed` share: nothing if the value is the same, else write,
  count the new root up, count the displaced one down.
* **`RootIndexDecr`** deletes the entry at one or less, so a root without an
  entry is left without one (`BagRemove`).
* **`CreateTree`** writes the frontier up to the depth in force only;
  **`NewFrontier`** keeps entries above it.
* **Amounts** of a deposit are reduced modulo the field order as in
  `verify.go:335`; amounts of a transact are bounded by `validateAmount`.
* **`params.reg_tree_depth`** is validated and stored but never read
  (`merkle.go:331` uses the default), so `RegTreeDepth` is a constant.
* **`wallet`** is what all accounts outside the pool hold together; accounts are
  not told apart. Nothing else pays into the module account, and the application
  blocks it as a recipient, as Cosmos applications do with module accounts.
* **`BeginTx`** makes the next message belong to another transaction. The first
  item a transaction stores auditor data for stands for its hash: two different
  transactions cannot store data for the same item, because each item is
  inserted once.
* **`Restart`** is an export, the end of the chain, and an import into an empty
  store. Ring slots fill up from 0, so skipping the empty ones on export
  (`genesis.go:228`) loses nothing. `StoreTakesNil` tells the store of the
  repository's tests, which keeps a nil value, from the SDK's, which panics on
  one; the passing run uses the first, under which more restarts are possible.
* **Nullifiers** are those of the witness notes; the proof system leaves a
  message no other choice.
* **`Encoded(e, form)`** is a byte string for element `e`: its length and how
  many times the modulus was added. `CanonicalFieldBytes` reads any of them and
  writes the one of 32 bytes below the modulus. In `WirePool` leaves hold the
  bytes the store holds, the used and spent sets hold keys, and
  `WireImplementsPool` maps both back to elements.
* **`validateFirst`** says whether `ValidateBasic` runs in front of the handlers;
  it is chosen once, in the initial state. The repository's messages have it as
  the SDK's legacy interface; whether it is called is up to the application, so
  both cases are checked: with it, bytes add nothing to `NixPool`; without it, the
  handlers and the canonical keys still protect value.
* **`WireFormat`** has the loop of `Unmarshal` once and each message type as a
  table, because the generated functions differ in nothing else. Words keep their
  wrap-around at `WordBits` (64 in the code) and `HalfBits` (32), so that a length
  turns negative and a field number aliases in strings of three bytes. Errors are
  told apart by where they are returned. A nil and an empty byte slice are one.
* **`Clients.Prepare`** reads the query server; for a note in a retired tree,
  for which there is no root query, the owner computes the root from the leaves.
  `Deliver` leaves the message in `outbox`: it may be delivered again.
* **`TreeInfo`** answers the compiled-in default as the tree depth
  (`query_server.go:59`), whatever `params.tree_depth` is.

### Assumed of what is outside

`Circuits` states the three circuits as predicates; a proof verifies exactly
when its predicate is true (soundness and completeness). The predicates are
timeless, so replaying a message is among the steps and the handlers alone stop
it. `TransactStatement` requires one denomination on both sides. The
repository's README lists "No ZK-level denom binding" as a limitation while the
handler (`msg_server.go:351`) says the denomination is bound as a public input,
and `verify.go:387` does put it there; the model follows the code. Auditor keys
and the chain binding of a `Transact` are assembled by the handler, so a proof
made for other ones fails to verify; such messages are simply absent. The
constants `CircuitDepth` and `CircuitRegDepth` are the depths the circuits were
built for.

## 3. The runs

| run | instance | shows |
|---|---|---|
| `note_forest` | 6 notes, depths 1-3 changed at will, ring of 3 roots | `IndexExact`, `LookupMatchesScan`, `LeavesAreUnique`, `HistoryIsAppendOnly`, `TypeOK`, and that the forest implements `RootLookback` |
| `upgrade` | chains with 0 to 5 notes and an empty index (with 0, a fresh chain), up to 6 notes, depth 2, ring of 3, no symmetry | `RootsAreMerkleRoots`: current root and every slot of the ring, over two trees; `IndexNeverOvercounts`, `RebuildRepairs` |
| `depth_change` | as `note_forest` | a violation, see section 5 |
| `pool` | 4 notes in two denominations, 2 identities, trees of 2 leaves, ring of 1, governance dropping and restoring a denomination and proposing a bad depth | solvency, unforgeability, withdrawability, soundness of registration, and that the pool implements `PoolLedger` |
| `restart` | 3 notes of one coin, auditor key set, chain binding and two keys supplied by governance, depths 1-2, ring of 2, transactions of several messages, export and import at any moment | `RestartIsInvisible`; `RegistrationIsSound`, `FinishedDataIsKept` and `ImplementsLedger` across restarts; what an export leaves out: `LossIsAboveDepth`, `NilsAreGaps` |
| `wire` | 2 notes, each byte field canonical, one modulus above, or with a leading zero byte, at most two odd fields a message, amounts off by the modulus, negative or unreadable, with and without `ValidateBasic` | `ElementsAreUnique`, and that value moves as in `PoolLedger`; behind `ValidateBasic`, `ZeroStaysFree` and that bytes implement `NixPool` |
| `clients` | 5 notes in two denominations that share trees of 4 leaves, one coin each, ring of 2, an owner who may register late, up to 2 messages in flight | `WindowIsKept`; `PoolLedger` under late and repeated delivery; under fairness, `EveryNoteIsSpent` |
| `messages` | 31 message types; empty, full, each field at its boundaries; whole, cut, joined, extended; and all strings of at most 4 bytes over 10 bytes, for five types that have each kind of field | `WholeIsRestored`, `CutIsNoticed`, `JoinedIsMerged`, `UnknownIsSkipped`; `AcceptedIsStable`, `TurnsTakeBytes` |
| `auditor`, `unbind`, `import`, `export` | 2 notes, 2 identities | violations, see section 5 |

**Why the bounds suffice.** The interesting events of the forest are: a ring
slot is overwritten (a tree of 4 or 8 leaves against a ring of 3), a tree is retired with its ring full or part full, a new
tree starts with the empty root another tree shares or with a different one (other
depth), a full tree gets room again (depth raised) or a part-full one is full
(depth lowered). Six insertions reach each of them, also in combination. In the
pool, trees have two leaves and a ring of one root, so each second insertion
retires a tree and each insertion evicts a root; a note of two coins can be
split into two notes of one, spent together, or merged; one note is of another
denomination. The supply (3 and 1) is below the field modulus (7), as
`SupplyAssumption` demands of the real one. Notes are finite in number because
each is inserted at most once, so no counter needs an artificial bound. In
`NixPool` and `NoteForest` `Next` always has a step (governance), so deadlock is
checked; in `WirePool`, replayed registrations and deposits are refused and a
transact without inputs remains. It is not checked in `Clients` and `Codec`,
whose runs end: a message is read, all notes are spent and nothing is in flight.

The bounds that are bounds: `MaxOddFields` (two, so that two fields of one
message can be odd at once -- both nullifiers, a nullifier and an output),
`MaxInFlight` (two messages on their way at once, one per note),
`MaxBytes` and `Alphabet` (a tag, a length and two bytes, with the bytes at which
tags, lengths and varints change their meaning), `Long` (130 bytes: the first
lengths whose varint takes two bytes). In `clients`, a ring of two roots, trees of
four leaves and five notes let a message in flight see its root evicted, kept to
the last possible moment, and kept for ever in a retired tree; the coins of two
denominations make insertions into a tree while a note in it waits. Governance
votes there for the parameters as they are: while it suspends withdrawals nobody
can promise that a note is spent. In `restart`, one coin becomes three notes, each paid
with the one before it or with the coin withdrawn again; the third leaf retires
a tree, before or after a restart.

Commitments are symmetric in `NoteForest` (no operator tells two of them
apart). They are not in `NixPool`, which gives them values and owners.

**Fairness and liveness.** The module schedules nothing: every step is a message
someone chooses to send, so `NixPool` and `NoteForest` assume no fairness. In
their place stands `UnspentIsWithdrawable`: in every state, for every unspent
note, the withdrawal of that note is *accepted now*, unless governance has
switched withdrawals off. `Clients` adds owners who do not give up, and states
what that assumes (`Persistence`): an owner whose note is unspent and who has no
message on its way sends one (weak fairness of `Prepare`, the owner's own
decision), and a message that is sent again and again is executed in the end
(strong fairness of `Arrive`: single messages may be lost, replaced or late, but
the chain does not shut one user out for ever, which is what a CometBFT mempool
with honest proposers gives). Nobody else is assumed to act. Under this
`EveryNoteIsSpent` holds, whatever other owners send in between. It relies on
registrations being finite, as the tree they go to is: each one replaces the only
registration root that is accepted, and while they came in every block a slow
prover would have no guarantee. `WindowIsKept` is the bounded counterpart that
needs no fairness: it names every reason for which a message in flight may be
refused.

Every property of a passing run is paired in `PROJECT.json` with a small change
of the code's definition (a dropped mark, a slot not scanned, a counter kept as a
set, ...) under which the run finds it violated. The changed forms stand in the
modules just before the definitions, marked as variants.

## 4. What is proved

| theorem | states | about |
|---|---|---|
| `NoteForestProofs` | | every set of commitments, ring length, default depth and set of depths |
| `TypeCorrect` | `TypeOK` | |
| `IndexIsExact`, `LookupIsScan` | `IndexExact`, `LookupMatchesScan` | |
| `LeavesStayUnique`, `HistoryOnlyGrows` | `LeavesAreUnique`, `HistoryIsAppendOnly` | |
| `IndexIsSafe`, `RebuildMakesExact` | `IndexNeverOvercounts`, `RebuildRepairs` | chains upgraded in place (`LegacySpec`) |
| `RootsStayMerkleRoots` | `RootsAreMerkleRoots` | upgraded chains, one depth |
| `ForestImplementsLookback` | `ImplementsLookback` | refinement of `RootLookback`, depths moving at will |
| `NixPoolProofs` | | every genesis with valid parameters, every set of notes, denominations and identities |
| `PoolTypeCorrect`, `PoolLeavesUnique` | `TypeOK`; `UniqueLeaves(forest)` | includes that no payout overdraws the module account |
| `AuditorDataStays` | `FinishedDataIsKept` | |
| `RegistrationStaysSound` | `RegistrationIsSound` | |
| `OnlyNotesAreEverSpent` | `OnlyNotesAreSpent` | no note is spent that was not inserted |
| `AlwaysSolvent` | `Solvent` | |
| `OutputsGoToRegistered` | `OutputsAreRegistered` | |
| `PoolImplementsLedger` | `ImplementsLedger` | refinement of `PoolLedger` |
| `UnspentStaysWithdrawable` | `UnspentIsWithdrawable` | the depth stays that of the circuit |
| `GenesisProofs` | | as `NixPoolProofs`, with restarts at any moment and either kind of store |
| `RestartsAreInvisible` | `RestartIsInvisible` | depths moving at will between restarts |
| `RestartsImplementLedger` | `ImplementsLedger` | restarts are stutters of `PoolLedger` |
| `CoinsOutliveRestarts`, `RegistrationOutlivesRestarts` | `TypeOK`, `Solvent`, `OnlyNotesAreSpent`; `RegistrationIsSound` | |
| `AuditorDataOutlivesRestarts` | `FinishedDataIsKept` | |
| `UnspentOutlivesRestarts` | `UnspentIsWithdrawable` | the depth stays that of the circuit |
| `ExportLosesLevelsAboveDepth`, `ExportMissesLevels` | `LossIsAboveDepth`, `NilsAreGaps` | exactly what an export loses, and when it holds a nil |
| `SteadyExports` | `ExportIsComplete`, `NoLevelMissing(ExportGenesis)` | the depth stays that of genesis |
| `ClientsProofs` | | every bound on the messages in flight, without fairness |
| `ClientsImplementLedger` | `ImplementsLedger` | messages lost, late, repeated, reordered |
| `WindowStaysOpen` | `WindowIsKept` | the depths stay those of the circuits |
| `WireProofs` | | every set of encodings, with `ValidateBasic` and without |
| `ElementsStayUnique` | `ElementsAreUnique` | |
| `ZeroIsNeverStored` | `ZeroStaysFree` | behind `ValidateBasic` |
| `BytesImplementPool` | `WireImplementsPool` | refinement of `NixPool`, behind `ValidateBasic` |
| `BytesImplementLedger` | `WireImplementsLedger` | refinement of `PoolLedger`, with no `ValidateBasic` needed |
| `CodecProofs` | | words of every width from 8 bits on, any of the 31 types, any alphabet and length of arbitrary strings |
| `MessagesAreStable` | `Size`, `Marshal` and `Unmarshal` agree | every value of every type, if its encoding fits in a slice |
| `EveryMessageIsRestored`, `EveryCutIsNoticed` | `WholeIsRestored`, `CutIsNoticed` | each sample, whole and cut at any place |
| `EveryTwoAreMerged`, `EveryUnknownIsSkipped` | `JoinedIsMerged`, `UnknownIsSkipped` | any two samples of a type; each unknown entry at each boundary |
| `EveryAcceptedIsStable` | `AcceptedIsStable` | while the encoding of what was read fits in a slice |
| `EveryTurnTakesBytes` | `TurnsTakeBytes` | |

**Assumptions.** The named `ASSUME`s of the modules: depths and ring lengths are
positive, notes have positive values that a `uint64` holds (`RangeAssumption`:
the circuit takes no other), genesis parameters are valid, the supply is below
the field modulus, no note commitment is an identity commitment and neither is
the element 0 (`ItemAssumption`, `ZeroAssumption`: all are Poseidon2 hashes, of
different inputs), and neither is a nullifier (`NullifierAssumption`, used for `WirePool`
alone). For the encoding: a half word has at least 8 bits and a word four more
(`WidthAssumption`), only registered types are sent (`KindsAssumption`), strings are made
of bytes (`BytesAssumption`), and an `int` counts those of two samples (`LengthAssumption`). Five theorems have a hypothesis of their own, that governance
leaves the note depth alone, because without it the code does not have the property:
run `depth_change` shows a root that is not the Merkle root of its tree, and the
notes under it have no path; runs `export` and `import` show what exports then lack.
`UnspentStaysWithdrawable` and `UnspentOutlivesRestarts` ask besides that this depth
is `CircuitDepth`, the one the circuit was built for, and `WindowStaysOpen` that the
registration tree has the depth of its circuit too, as the code's default does. Everything else holds with
the depth moving at will, and `AlwaysSolvent` and `PoolImplementsLedger` in particular
need neither the depth nor the Merkle roots to be right.

**The index.** `IndexExact` alone is not inductive: to know that writing a
slot changes one holder of the old root and one of the new, one needs that the
slot map is a function on slots of existing trees; to know that a scan of the
first `treeCount` trees misses nothing, that no slot lies beyond; to know that a
new tree's slots are empty, that ids are not reused. `Good` in
`ForestStoreProofs` is this bundle (the shape `ForestShapeOK`, plus the index
being the bag of holders), and `IInv` adds `UniqueLeaves` and `LeavesAreNotes`. That
leaves are notes is kept apart because no operator of the forest needs it, and
handlers with no `ValidateBasic` before them do store other elements. The lemmas follow the
code: what `Put` does to the set of holders of a root; that writing one slot
keeps the index the bag of holders, in the four cases of displaced and new root;
that `CreateTree`, `ForestWithRoom`, `InsertLeafIntoTree`, `InsertNote` and
`RebuildRootIndex` each keep `Good`; that an insertion guarded by the used
markers keeps leaves unique. `NoteForest` and `NixPool` then need one step per
action, and a `Transact` is two applications of the same lemma. On an upgraded
chain the same lemmas are stated with "at most" for "exactly" (`LInv`): a
displaced root that the index does not know is the case in which the code's
`RootIndexDecr` must not go below an absent entry.

**History.** `HistoryOnlyGrows` is an action property: under `IInv`, each step of the code is
shown to write only at the next index of the active tree (`InsertLeafElsewhere`)
and at slots of the active or of a new tree (`CreateTreeElsewhere`,
`RecordRootElsewhere`), so what belongs to a retired tree is where it was
(`RetiredSame`). `AuditorDataStays` needs more than that a transaction writes
under its own hash: the hash must be new. The strengthening `DataInv` says that
data is stored only under items that are in the store. An item is inserted once
(the used markers of both trees), so the first item of a later transaction has
no data yet.

**Merkle roots.** `ForestStoreProofs` first proves the climb: if the frontier holds,
at each level where the next index has a bit, the node of the complete subtree to the left
(`FrontierOK`), then the root it computes is `MerkleRoot` of the leaves with
the new one, and the frontier it leaves is right for the next index. Both are
inductions over the level. The library's induction theorems take an operator,
which the provers cannot instantiate; `NumberInduction` takes a set of numbers
instead (proved from the pigeonhole principle of `FiniteSetTheorems`), and the operators concerned are written as recursive functions.
`TreesRight` says this of every tree with the slots of its ring, and `RInv` adds it to
`LInv`; the registration tree is one more user of the same lemmas.

**The lookback.** In the refinement of `RootLookback`, `recent[tree]` is the window of the
ring. `RingOK` is what it needs: between messages no tree is empty (`CreateTree` is always
followed by an insertion in the same message), the slots in use are the first
`min(n, MaxRootHistory)`, and the current root is the slot written last, so that the slot of the
current root never adds an accepted root of its own. An insertion then moves the window by
one (`RingWindow`), also across the point where the ring starts to overwrite
(`FullTurn`), and a root is accepted exactly if some window has it (`AcceptedAreRecent`,
from `LookupIsScan`).

**Value.** That spending is safe does not follow from roots being Merkle roots, since
they need not be. The invariant `LedgerInv` says instead that every node
the forest has ever stored (frontier, roots, ring) belongs to a set of nodes closed
under children, whose single-element nodes are inserted commitments or 0
(`ForestGrown`; `RegGrown` for registration). An accepted root is such a
node, so whatever has a path to it, of any length, was inserted: `OnlyNotesAreSpent`. With
that, spent notes are inserted notes, and a `Transact` takes from the sum of unspent
values what the circuit's balance and the two payouts take from the account. `Covered`
is `Solvent` per denomination, by lemmas on sums over finite sets (in `NixPoolProofs`). `DepthInv`
adds `TreesRight` at the circuit's depth; a leaf then has a path to its
tree's current root, which is accepted, and `WithdrawalPasses` walks through every check
of `Transact` in the code's order, arithmetic bounds included.

**Messages in flight.** The lemmas about a step of `NixPool` do not use that `Next` picks
roots among those somebody could know: they are stated for `AnyStep`, where a `Transact` carries any
message of the right types (`NextIsAnyStep`). A delivery is then such a step, however old the
message is, once it is known that everything in `outbox` was planned (`SentPlanned`), and
`ClientsImplementLedger` follows from `LedgerInv`. `WindowStaysOpen` needs more:
what was true when the message was proved (`SentProven`). Leaves only ever stay
(`StepLeavesStay`), so the root that a message names is for ever the Merkle root of the first
`size` leaves of its tree (`Anchored`); until `MaxRootHistory` more have come in, a slot of the ring holds this
root, and a root in a slot is accepted because the index is exact (`AnchorIsAccepted`).
`PlanPasses` then goes through the checks of `Transact` once more; that the account can pay
is `Covered`.

**Bytes.** `WireInv` reads the store as field elements (`ForestImage`, `RegImage`) and asks
of that image what `NixPool`'s own proofs ask of the state: `Good` and `UniqueLeaves`, and
`Registers`. It is inductive because the operators of the forest commute with the image
(`InsertBytesImage`, `RegisterBytesImage`: nothing but the duplicate check reads what is in a
leaf) and the duplicate check answers for bytes what it answers for elements
(`CanInsertBytes`), which holds as long as every key in the store is canonical (`Canonical`);
`CommitmentUsedKey` and `NullifierKey` make it so. `ZeroIsNeverStored` adds
`NoZero`: `validateFieldBytes` leaves each element one encoding (`OneZero`), and the handler
skips that of 0. Without `ValidateBasic` a leaf may hold 0, once.

For `BytesImplementPool`, every transact that is tried is a writing (`IsWriting`) of a message
of `NixPool` (`IsPlan`), by `TriedArePlanned`. Behind `ValidateBasic` the byte strings that the
handler skips are exactly the dummies (`DummiesAreZero`), the keys marked so far are the
nullifiers spent so far (`MarkedElements`), and each amount is in the range in which it is its own
field element, so that what is paid is what was proved (`AmountsMap`). A deposit's amount is
bounded by the coins there are; that these are conserved is an invariant of its own (`Coins`).
`NixPool`'s operators appear here in two copies, the module's and that of its instance; the
lemmas named `Same...` equate them.

For `BytesImplementLedger` none of that may be used: 0 may be a leaf, 0 may be marked, an amount may
be a whole modulus above or below what was proved. `WireLedgerInv` therefore speaks of the notes only:
the forest's image was hashed from its leaves (`ForestGrown`), and a note whose nullifier is
marked was inserted. Among notes, a transact marks its inputs and inserts its outputs
(`BytesInputs`, `BytesOutputs`), however they are written. What makes the payout right is
that both amounts are positive or absent and that the account has the coins
(`PayoutIsProved`): there are fewer coins than field elements, so an amount that is paid cannot
have wrapped around.

**Restarts.** The loops of `ExportGenesis` and `InitGenesis` are recursive functions of the number
of turns made, so that `NumberInduction` serves for them as well: after `n` trees
the new forest has what the old one had in those trees, and its index is the bag of their
slots. `ForestComesBack` is the result: of a forest that is `Good` and `Restorable` (each tree has a
root, the slots of its ring are the first ones, as `RingOK` says) the import of the export is the
forest itself, but for the frontiers. That the index comes out the same, though it is not in
the file, is because it was the bag of all holders before and is so again. `RestartInv` adds to
`LedgerInv` that the forest is restorable and that auditor data belongs to items of the store; it outlives a restart because what
`Good`, `ForestGrown` and the rest say of frontiers is said of each level that is present, and an import
only drops levels or writes back what was there.

Which levels are dropped is exact (`LostLevels`), and so is which are nil (`NilLevels`): of the
registration tree all or none, because the first registration writes every level
(`InsertRegFull`) and `ExportInv` keeps it so. With the depth at rest every frontier has the levels below
it and no other (`SteadyInv`), and both defects are gone (`SteadyExports`), up to the one that
nobody has registered. `UnspentOutlivesRestarts` adds `TreesRight`, which reads the frontier only
through `LeftSibling` at levels in force (`RestartKeepsRight`).

**Encodings.** The loops of the generated code are recursive functions over their
turns (`after[n]` is where the loop is after n of them), as many as there are bytes:
a turn takes a byte or ends the loop. That this is so is what
`EveryTurnTakesBytes` says, and it is proved from the inside out: of the varint
(`ReadVarintForward`), of what follows a length (`AdvanceFacts`: the sum of two
offsets that left the signed range is refused), of `skip` with its groups, of packed lists,
of embedded messages, of one field (`Forward`: an error, or an offset further on in
the string). Each loop first needs that
its recursive function exists (`SkipExists`, `PackedExists`, `PlainExists`, `LoopExists`).

What is read back rests on two predicates on the bytes of one entry. `Takes(table, e, x, y)`: wherever `e` stands
in a string that fits in a slice, one turn of the loop steps over it and makes `y` of `x`. `Refuses(table, e)`:
where the string ends within `e`, the turn is an error. Both are proved
for what `MarshalToSizedBuffer` writes, from the varint (`VarintValue`, `ReadVarintAt`,
`ReadVarintBroken`; `SovIsLength`) to numbers, byte strings, packed lists and embedded
messages. A `Script` is a list of entries that takes the reader from one message to another; scripts
can be joined and taken apart (`ScriptJoin`, `ScriptSplit`), and a loop that starts in front of one ends
behind it (`ScriptLoop`). `FullScript` says that what is written of a message `m` is a
script from any message `x` to `Merged(table, x, m)`, and `RoundTrip` is that for the empty `x`. All this
is about any table of fields (`WellFormed`); that the hand-expanded `Marshal` and `Size` of each
of the 31 types write and count what its table says is one lemma per type
(`ParamsCodes` and so on, together `KindCodes`). `MessagesAreStable` follows for every value of every type.

In `Codec` the reader goes an entry a step, so an invariant has to say where it
is: `TrackInv`. Of a string that was not cut, the entries that lie ahead are a script from what was
read so far to what is meant (`Goal`: the message sent, or the merge of two). Of one
that was cut, the reader stands at the start of an entry or has refused one. An
entry put in by a later version is one more of the script, which changes nothing
(`UnknownAreSkipped`: `skip` steps over each of them, with `depth` back at 0 only
behind the outer group). `EveryAcceptedIsStable` is about any bytes, where no script is known; its
invariant `MessageInv` says that what was read so far is a message of the table's types
(`ReadFieldKeeps`: numbers are narrowed to their width, a pointer holds one message at
most), and `MessagesAreStable` does the rest. Its hypothesis is there because an encoding may be
a little longer than what was read (a number of a packed field may arrive by itself), and so
be too long for a slice where the string read was just short enough; at the width of the code that is
a string of almost 2^63 bytes.

**Only model-checked**: `EveryNoteIsSpent`; liveness under fairness is out of the
prover's reach.

## 5. Where code and documents disagree

* **`depth_change`** (`keeper/merkle.go:249`). A tree's frontier has the levels
  of the depth at which it was created. When governance raises `tree_depth`, a
  full tree is not full any more, or a part-full one is deeper; an insertion that
  comes from the right at a new level reads a missing entry as 0, and the root
  leaves out every earlier leaf of the tree. The roots then disagree with the reference
  tree that `keeper/merkle_test.go:31-33` compares with. Earlier leaves stay
  provable only until the ring has dropped the older roots. (Any depth change also parts
  the forest from the depth the circuit was built for.)
* **`unbind`** (`keeper/msg_server.go:405`). The comment at line 146 calls a
  pool that holds coins and has no chain binding unreachable. `UpdateParams`
  accepts an empty binding at any time, so it is reachable from the other side.
* **`auditor`** (`keeper/msg_server.go:93`). Auditor data is stored by
  transaction hash. Two registrations (or deposits) in one transaction overwrite
  each other's data in the store, while `README.md:30` requires data on every
  transaction for the auditor. The payload stays visible in the transaction
  itself; what is lost is the stored copy. Across transactions nothing is ever
  overwritten (`FinishedDataIsKept`, run `restart`).
* **`import`** (`keeper/genesis.go:38`, `:96`). A frontier level that was never
  stored is exported as nil and set as nil. Before the first registration that
  is every level of the registration tree; after the depth was raised, the new
  levels of the older trees. The SDK's stores panic on a nil value, so the new
  chain does not start. `keeper/rootindex_test.go:253-271` requires this import
  to succeed, and it does with the test's in-memory store. Those two are the only
  causes: `NilsAreGaps`, proved in general.
* **`export`** (`keeper/genesis.go:204`). The comment says the export is the full
  state; of the frontier it is the levels below the depth in force. If the depth
  was lowered before and is raised after, an insertion reads 0 where the old
  chain had a node. `RestartIsInvisible` and `LossIsAboveDepth` show that nothing else is
  lost, and `SteadyExports` that nothing is lost while the depth stays.

Two more are plain in the code and need no run: `TreeInfo`, which "returns the
current state of the multi-tree forest" (`keeper/query_server.go:37`), answers the
compiled-in default as the depth (line 59) while insertions use
`params.tree_depth`; and `reg_tree_depth`, listed as the depth of the registration
tree (`README.md:64`), is validated and answered by queries but never read
(`keeper/merkle.go:331` takes the default).

## 6. Not modelled

* **Command line** (`client/cli/`): parses flags and files and builds one message
  or query; no state, and no decision that the chain does not take again.
* **Client cryptography** (`crypto/`): pure functions over a library's curve and
  hash. The keeper stores what they produce as bytes and never reads it.
* **Module wiring and registration** (`module/`, `types/codec.go`, `events.go`,
  `errors.go`): tables handed to the application; nothing runs at the start or
  end of a block.
* **Generated code beyond the encoding**: getters, reflection, gRPC stubs.
* **Proof system**: UltraHonk is a library; its statements are in `Circuits`.
  Normalising verification key bytes (`verify.go:112`) is a change of format by
  that library.
* **Strings**: bech32 addresses, denomination syntax, the limbs that
  `stringToFieldElement` hashes, the prefixes of store keys.
* **Genesis files that no chain exported**, apart from the empty one, and the
  JSON form of parameters and genesis.
* Gas and events. Errors of the store itself abort the transaction like any other
  error.

## 7. Plan

Done: the forest, its index, the registration tree, the message server, genesis
export and import, queries, clients with messages in flight, encodings of field
elements and amounts, the protobuf encoding; the refinements of `RootLookback`,
`PoolLedger` and `NixPool`; for all parameters, every safety property of
`NoteForest`, `NixPool`, `Genesis`, `Clients`, `WirePool` and `Codec` that a passing run checks, their
refinements included (section 4).

Next, in this order:

1. Genesis files written by hand: what `Validate` lets through and what the
   imported chain then is.
2. Addresses and encryption (`crypto/`): that what is sent to an address is what
   its owner decrypts, for every encoding of a coordinate.
3. A chain of several modules, for coins that reach the module account by another
   way than a deposit.

## 8. Running it

    tlc -config NoteForest.cfg MCNoteForest.tla
    tlc -config Pool.cfg MCNixPool.tla
    tlc -config Restart.cfg MCGenesis.tla
    tlc -config Clients.cfg MCClients.tla
    tlapm ForestStoreProofs.tla
    tlapm NixPoolProofs.tla
    tlapm GenesisProofs.tla
    tlapm ClientsProofs.tla
    tlapm WireProofs.tla
    tlapm WireFormatProofs.tla
    tlapm CodecProofs.tla

and likewise for the other configurations and proof modules; `PROJECT.json`
pairs each configuration with its module.
