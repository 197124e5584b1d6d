------------------------------ MODULE Ownership ------------------------------
(***************************************************************************)
(* What the framework promises about the cloud's objects, seen from        *)
(* outside: it makes an object only when it holds at most the one to be    *)
(* replaced, changes and destroys only objects it holds, lets go of one    *)
(* only when it is no more or when it says so, and takes in only objects   *)
(* that nobody held.  Requests, answers, paths and property maps are not   *)
(* visible here; Provider is shown to implement it (ProviderOwnership).    *)
(***************************************************************************)
CONSTANTS
    Ids,       \* the objects there may ever be
    Contents,  \* what an object may consist of
    Nobody     \* no member of Ids

VARIABLES
    life,     \* by object: "none", "live" or "gone"
    content,  \* by object
    tracked,  \* the objects the checkpoint holds
    hand,     \* an object that was made and not yet entered in the checkpoint
    orphans   \* objects that were, at some time, nobody's

vars == <<life, content, tracked, hand, orphans>>

\* The content of nothing but object i may change.
Touch(i) ==
    /\ content' \in [Ids -> Contents]
    /\ \A j \in Ids \ {i} : content'[j] = content[j]

Make(i) ==
    /\ hand = Nobody /\ \A j, k \in tracked : j = k
    /\ life[i] = "none" /\ life' = [life EXCEPT ![i] = "live"]
    /\ hand' = i
    /\ Touch(i) /\ UNCHANGED <<tracked, orphans>>

Keep ==
    /\ hand # Nobody /\ hand' = Nobody
    /\ tracked' = tracked \cup {hand}
    /\ UNCHANGED <<life, content, orphans>>

Lose ==
    /\ hand # Nobody /\ hand' = Nobody
    /\ orphans' = orphans \cup {hand}
    /\ UNCHANGED <<life, content, tracked>>

Change(i) ==
    /\ i \in tracked /\ life[i] = "live"
    /\ Touch(i) /\ UNCHANGED <<life, tracked, hand, orphans>>

Destroy(i) ==
    /\ i \in tracked /\ life[i] = "live"
    /\ life' = [life EXCEPT ![i] = "gone"]
    /\ Touch(i) /\ UNCHANGED <<tracked, hand, orphans>>

Release(i) ==
    /\ i \in tracked /\ life[i] = "gone"
    /\ tracked' = tracked \ {i}
    /\ UNCHANGED <<life, content, hand, orphans>>

Abandon(i) ==
    /\ i \in tracked
    /\ tracked' = tracked \ {i} /\ orphans' = orphans \cup {i}
    /\ UNCHANGED <<life, content, hand>>

Adopt(i) ==
    /\ tracked = {} /\ hand = Nobody /\ i \in orphans
    /\ tracked' = {i}
    /\ UNCHANGED <<life, content, hand, orphans>>

\* Other users of the cloud.
Appear(i) ==
    /\ life[i] = "none" /\ life' = [life EXCEPT ![i] = "live"]
    /\ orphans' = orphans \cup {i}
    /\ Touch(i) /\ UNCHANGED <<tracked, hand>>

Meddle(i) ==
    /\ life[i] = "live" /\ life' \in {life, [life EXCEPT ![i] = "gone"]}
    /\ Touch(i) /\ UNCHANGED <<tracked, hand, orphans>>

Init ==
    /\ life = [i \in Ids |-> "none"]
    /\ content \in [Ids -> Contents]
    /\ tracked = {} /\ hand = Nobody /\ orphans = {}

Next ==
    \/ \E i \in Ids : \/ Make(i) \/ Change(i) \/ Destroy(i)
                      \/ Release(i) \/ Abandon(i) \/ Adopt(i)
                      \/ Appear(i) \/ Meddle(i)
    \/ Keep \/ Lose

Spec == Init /\ [][Next]_vars

=============================================================================
