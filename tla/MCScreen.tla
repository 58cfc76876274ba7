------------------------------ MODULE MCScreen ------------------------------
(* A page with a region that scrolls, which may become one with room for a  *)
(* wide character and another.                                              *)
EXTENDS Screen

SizesValue == {<<2, 3>>, <<3, 2>>}
=============================================================================
