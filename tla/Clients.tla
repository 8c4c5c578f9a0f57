------------------------------- MODULE Clients -------------------------------
(***************************************************************************)
(* The pool with its clients at a distance: the owner of a note asks the   *)
(* query server, proves a transact message against the state of that       *)
(* moment and sends it; the message arrives later, when other messages     *)
(* have changed roots and registrations, or never, or twice.  A message    *)
(* that is refused changes nothing and its owner proves a new one.         *)
(***************************************************************************)
EXTENDS Queries

CONSTANT MaxInFlight    \* bound: the messages on their way at once

VARIABLE outbox    \* note -> the message sent to spend it, and what it was proved against

clientVars == <<vars, outbox>>

ClientInit == Init /\ outbox = <<>>

-----------------------------------------------------------------------------

TreeOf(note) == (CHOOSE key \in DOMAIN forest.leaf : forest.leaf[key] = note)[1]

(* The root query answers for the active tree only; that of a retired tree *)
(* the owner has computed from its leaves.                                 *)
RootFor(note) ==
    IF TreeOf(note) = TreeInfo.activeTreeId THEN Root
    ELSE MerkleRoot(LeavesOf(TreeOf(note)), CircuitDepth)

(* A withdrawal, or a payment of all or a part to registered owners; a *)
(* single payment is the first output.                                 *)
Plans(note) ==
    LET denom  == NoteDenom[note]
        owned  == {n \in Commitment : NoteOwner[n] \in Registered}
        fresh  == {n \in owned \ Notes : NoteDenom[n] = denom} \cup {Zero}
        afford == {outs \in fresh \X fresh :
                      /\ outs[1] \in {Zero, outs[2]} => outs[2] = Zero
                      /\ ValueOf(outs) <= NoteValue[note]}
    IN  {[inputs   |-> <<note, Zero>>,
          roots    |-> <<RootFor(note), EmptyRoot>>,
          outputs  |-> outs,
          regRoot  |-> RegistrationRoot,
          denom    |-> denom,
          withdraw |-> NoteValue[note] - ValueOf(outs),
          fee      |-> 0] : outs \in afford}

(* The owner finds the note unspent and sends a message.  One sent before *)
(* is given up for lost.                                                  *)
Prepare(note) ==
    /\ note \in Notes
    /\ Cardinality(DOMAIN outbox \cup {note}) <= MaxInFlight
    /\ ~NullifierStatus(NullifierOf(note))
    /\ \E msg \in Plans(note) :
          outbox' = Put(outbox, note,
                        [msg  |-> msg, tree |-> TreeOf(note),
                         size |-> TreeNextIndex(forest, TreeOf(note))])
    /\ UNCHANGED vars

Without(note) == [n \in DOMAIN outbox \ {note} |-> outbox[n]]

(* The message arrives and is accepted; it stays about and may come again. *)
Deliver(note) ==
    /\ note \in DOMAIN outbox
    /\ Transact(outbox[note].msg)
    /\ UNCHANGED outbox

(* The message arrives and is refused. *)
Refuse(note) ==
    /\ note \in DOMAIN outbox
    /\ ~CanTransact(outbox[note].msg)
    /\ outbox' = Without(note)
    /\ UNCHANGED vars

(* What else goes on, by everybody else. *)
Others ==
    /\ \/ \E identity \in Identity, chainId \in ChainIds, key \in Keys, data \in AttachData :
             Register(identity, chainId, key, data)
       \/ \E note \in Commitment, key \in Keys, data \in AttachData :
             Deposit(note, NoteValue[note], NoteDenom[note], key, data)
       \/ \E p \in ParamChoices : UpdateParams(p)
    /\ UNCHANGED outbox

ClientNext ==
    \/ \E note \in Commitment : Prepare(note) \/ Deliver(note) \/ Refuse(note)
    \/ Others

(* The steps that are Deliver(note) or Refuse(note), told by what they do  *)
(* to the nullifiers and the outbox: one of the two is always possible.    *)
Arrive(note) ==
    /\ note \in DOMAIN outbox
    /\ \/ spent' = spent \cup {NullifierOf(note)} /\ UNCHANGED outbox
       \/ outbox' = Without(note) /\ UNCHANGED spent

(* Owners send again what was refused, and messages sent again and again  *)
(* get through to the chain in the end, to be accepted or refused there.   *)
Persistence ==
    \A note \in Commitment :
        /\ WF_outbox(note \notin DOMAIN outbox /\ Prepare(note))
        /\ SF_<<spent, outbox>>(Arrive(note))

ClientSpec == ClientInit /\ [][ClientNext]_clientVars

FairSpec == ClientSpec /\ Persistence

-----------------------------------------------------------------------------
(***************************************************************************)
(* Properties.                                                             *)
(***************************************************************************)

(* A message on its way stays good however long it takes and whatever      *)
(* arrives before it, as long as its note is unspent, its outputs are not  *)
(* taken, nobody registered, withdrawals are on, and fewer than            *)
(* MaxRootHistory notes went into its tree; a retired tree sets no limit   *)
(* (Transact, insertLeafIntoTree, IsValidRootAnyTree).                     *)
WindowIsKept ==
    \A note \in DOMAIN outbox :
        LET sent == outbox[note]
        IN  /\ note \in UnspentNotes
            /\ {sent.msg.outputs[i] : i \in Real(sent.msg.outputs)} \cap Notes = {}
            /\ sent.msg.regRoot = RegistrationRoot
            /\ WithdrawalsOn(sent.msg.denom)
            /\ TreeNextIndex(forest, sent.tree) < sent.size + MaxRootHistory
            => CanTransact(sent.msg)

(* A note whose owner keeps trying is spent in the end: no eviction, no     *)
(* retired tree, no payment to the same output and no late or lost message  *)
(* makes it unspendable for good (Transact).  Registrations end, as the     *)
(* tree they go to does.                                                    *)
EveryNoteIsSpent ==
    \A note \in Commitment : note \in Notes ~> NullifierStatus(NullifierOf(note))
=============================================================================
