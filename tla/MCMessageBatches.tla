--------------------------- MODULE MCMessageBatches ---------------------------
(***************************************************************************)
(* Instance of MessageBatches: two matches, a refresh that adds a third,   *)
(* and batches of two.                                                     *)
(***************************************************************************)
EXTENDS MessageBatches

MCSizes == <<2, 3>>
=============================================================================
