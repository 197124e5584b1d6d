-------------------------- MODULE ProviderOwnership --------------------------
(***************************************************************************)
(* Provider implements Ownership: the refinement mapping, and what must    *)
(* hold of the checkpoint and the call in flight for every step of an      *)
(* engine, a handler or the cloud to be one of Ownership's.                *)
(***************************************************************************)
EXTENDS ProviderInv

Life    == [i \in Ids |-> cloud[i].state]
Content == [i \in Ids |-> cloud[i].body]

Held == {r.id : r \in {cur, old} \ {NoResource}}

\* An object whose creation was answered to a handler that has not returned.
InHand ==
    IF rpc.phase = "answered" /\ rpc.op \in {"create", "replace"} THEN rpc.reply[Id] ELSE Absent

Owner == INSTANCE Ownership WITH
    Contents <- PropMaps, Nobody <- Absent,
    life     <- Life,
    content  <- Content,
    tracked  <- Held,
    hand     <- InHand,
    orphans  <- untracked

\* The handlers, the engine that calls them and whatever fails in between
\* change and delete only objects the checkpoint holds, drop one from the
\* checkpoint only when it is gone or has no DELETE endpoint, and let an
\* object they made escape only through a lost answer (Create, Update, Delete
\* and Read of provider.go).
ImplementsOwnership == Owner!Spec

\* The slots of the checkpoint while a call that fills one is in flight.
SlotsFree ==
    /\ rpc.op \in {"create", "import"} => cur = NoResource
    /\ rpc.op \in {"create", "replace", "import"} => old = NoResource
    /\ rpc.op = "replace" => cur # NoResource

HeldApart == cur # NoResource /\ old # NoResource => cur.id # old.id

HandIsNew == InHand # Absent => InHand \notin Held

DeletedIsGone ==
    rpc.op = "delete" /\ rpc.phase = "answered" => cloud[Slot(rpc.on).id].state = "gone"

ImportIsOrphan == rpc.op = "import" => rpc.target[ItemParam] \in untracked

\* Together with NoForgottenObject and OwnInv this is inductive: a replacement
\* and the object it replaces stay two, a delete that was answered is done
\* whatever happens next, and only what nobody holds is being imported.
OwnershipInv == SlotsFree /\ HeldApart /\ HandIsNew /\ DeletedIsGone /\ ImportIsOrphan

=============================================================================
