------------------------------ MODULE MCClaims ------------------------------
(***************************************************************************)
(* Instances of Claims for TLC: a directory claimed with and without a      *)
(* wildcard, and a file below it.                                            *)
(***************************************************************************)
EXTENDS Claims, TLC

MCLanes == {{<<"a">>}, {<<"a", "/", "*">>}}
MCFiles == {<<"a">>, <<"a", "/", "b">>}
MCLane == {{<<"a">>}}
OneRoot == [s \in Sessions |-> "r"]
OwnPids == [s \in Sessions |-> s]
Symmetry == Permutations(Sessions)
OnePid == [s \in Sessions |-> 7]
=============================================================================
