------------------------------ MODULE MCLayout ------------------------------
(* One window on small screens. *)
EXTENDS Layout
MCSizes == {<<4, 3>>, <<1, 1>>}
MCFloor == [w |-> 2, h |-> 2]
MCHome == Box(1, 1, 2, 2)
=============================================================================
