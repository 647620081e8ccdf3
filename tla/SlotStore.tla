----------------------------- MODULE SlotStore -----------------------------
(***************************************************************************)
(* What the save-state store promises of its slots, without its files and  *)
(* rows: a save replaces what a slot holds in one step, or does nothing.   *)
(* Only a save that was torn, by a kill or because undoing it failed too,  *)
(* may leave the slot empty or with the state that was being saved; never  *)
(* with anything else, and never another slot.                             *)
(***************************************************************************)
CONSTANTS Slot, Image, NoImage

VARIABLES
    stored,   \* what loading each slot returns, or NoImage
    pending,  \* the save under way: its slot and image, if there is one
    torn      \* history: slots whose last save was torn

vars == <<stored, pending, torn>>

Init == stored = [s \in Slot |-> NoImage] /\ pending = {} /\ torn = {}

\* A save is admitted.
Begin(s, i) == pending = {} /\ pending' = {<<s, i>>} /\ UNCHANGED <<stored, torn>>

\* It succeeds.
Succeed(s, i) ==
    /\ pending = {<<s, i>>}
    /\ pending' = {}
    /\ stored' = [stored EXCEPT ![s] = i]
    /\ torn' = torn \ {s}

\* It returns an error, and the slot is what it was.
Fail(s, i) == pending = {<<s, i>>} /\ pending' = {} /\ UNCHANGED <<stored, torn>>

\* It is found out that it will leave a torn slot behind.
Tear(s, i) == pending = {<<s, i>>} /\ torn' = torn \cup {s} /\ UNCHANGED <<stored, pending>>

\* A torn save is over.
EndTorn(s, i) ==
    /\ pending = {<<s, i>>}
    /\ pending' = {}
    /\ torn' = torn \cup {s}
    /\ \E kept \in {NoImage, i} : stored' = [stored EXCEPT ![s] = kept]

\* Slots are emptied, while no save is under way: their rom is removed, or
\* what they held cannot be read.
Forget(slots) ==
    /\ pending = {}
    /\ stored' = [s \in Slot |-> IF s \in slots THEN NoImage ELSE stored[s]]
    /\ UNCHANGED <<pending, torn>>

Next == \/ \E s \in Slot, i \in Image :
              Begin(s, i) \/ Succeed(s, i) \/ Fail(s, i) \/ Tear(s, i) \/ EndTorn(s, i)
        \/ \E slots \in SUBSET Slot : Forget(slots)

Spec == Init /\ [][Next]_vars

=============================================================================
