--------------------------- MODULE MCDocumentSync ---------------------------
(* Values for the constants of DocumentSync. *)
EXTENDS DocumentSync

(* Every version has its own text. *)
Distinct == [v \in 1 .. MaxVersion |-> v]

(* The last version undoes the one before it. *)
Undone == [v \in 1 .. MaxVersion |-> IF v = MaxVersion /\ v > 2 THEN v - 2 ELSE v]
==============================================================================
