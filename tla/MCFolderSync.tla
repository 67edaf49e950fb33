---------------------------- MODULE MCFolderSync ----------------------------
(* Instances of FolderSync for TLC. *)
EXTENDS FolderSync, TLC

MoveAndRemove == {"add", "rename", "remove"}
Everything == {"add", "edit", "rename", "remove"}
EverythingAndUndo == Everything \cup {"revert"}

Symmetry ==
  Permutations(Paths) \cup Permutations(Attachments) \cup Permutations(Docs \ Attachments)
=============================================================================
