------------------------------ MODULE MCFiles ------------------------------
(* The file manager on a disk with one file at the root, one in a           *)
(* directory, and another file system.                                      *)
EXTENDS Files

AlphabetValue == <<"a", "b", "m", "h">>

HiddenValue == {"h"}

MountPointValue == <<"m">>

PlacesValue == {<<>>, <<"m">>}

DiskValue ==
  [p \in {<<>>, <<"a">>, <<"b">>, <<"b", "a">>, <<"m">>} |->
     CASE p = <<"a">> -> File(1, "whole")
       [] p = <<"b", "a">> -> File(2, "whole")
       [] OTHER -> Dir]
=============================================================================
