----------------------------- MODULE MCListener -----------------------------
(* Names of one byte, of the last length that fits one group, and of the    *)
(* first that needs two.                                                   *)
EXTENDS ListenerLifecycle, TLC

Short  == <<1>>
Full   == <<1, 2, 3>>
Longer == <<2, 1, 0, 3>>

CONSTANTS c1, c2

(* A folder of three documents, and one that knows of none yet. *)
SomeGuids == (c1 :> <<Short, Full, Longer>>) @@ (c2 :> <<>>)
OneType   == <<<<0, 0>>>>
SomeText  == {Short, Full, Longer, <<0, 0>>}
==============================================================================
