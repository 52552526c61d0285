----------------------------- MODULE AtomicUpdate -----------------------------
(***************************************************************************)
(* What an integration update promises about the files and discovery       *)
(* entries it manages: an update takes effect on all of them at once or on *)
(* none, and what a user wrote meanwhile stays as the user wrote it.       *)
(***************************************************************************)
CONSTANTS
  Slots,   \* managed files and discovery entries
  Images,  \* what a slot can hold
  Edited,  \* the image of a file a user wrote
  Updates  \* the updates on offer: each a function from the slots it manages to their images

VARIABLE store

Init == store \in [Slots -> Images]

\* Every slot of the update takes its image, except one that holds a user's text.
Commit(update) ==
  /\ \A s \in DOMAIN update : store'[s] = update[s] \/ (store[s] = Edited /\ store'[s] = Edited)
  /\ store' \in [Slots -> Images]
  /\ \A s \in Slots \ DOMAIN update : store'[s] = store[s]

UserEdit(s) == store' = [store EXCEPT ![s] = Edited]

Next == (\E update \in Updates : Commit(update)) \/ (\E s \in Slots : UserEdit(s))

Spec == Init /\ [][Next]_store
=============================================================================
