------------------------------ MODULE Directory ------------------------------
(***************************************************************************)
(* What the tables of the plugin share: the values of their key columns.   *)
(* Rows are never removed; delete_at # 0 marks a deleted one.              *)
(***************************************************************************)
EXTENDS Integers, SequencesExt

CONSTANTS NodeId,      \* the ids that model.NewId() may hand out to nodes
          Source,      \* the external systems
          Local,       \* 'local' in source
          ExtId,       \* the ids the external systems use
          NoExt        \* '' in external_id

ASSUME DirectoryAssumption ==
    /\ Local \notin Source
    /\ NoExt \notin ExtId

Status == {"absent", "live", "deleted"}
=============================================================================
