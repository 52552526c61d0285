------------------------ MODULE MCSourceReconciliation ------------------------
(***************************************************************************)
(* Instances of SourceReconciliation whose files have one name in          *)
(* different directories, as those of a session that is moved have.        *)
(***************************************************************************)
EXTENDS SourceReconciliation

MCStem == [r \in Paths |-> CHOOSE i \in Ids : TRUE]
=============================================================================
