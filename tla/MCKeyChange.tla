----------------------------- MODULE MCKeyChange -----------------------------
(***************************************************************************)
(* Small instances of KeyChange for TLC: two or three verbs at once, and   *)
(* enough keys for the one in the repository, the one it replaces and a    *)
(* third.  No counter needs a bound: every verb returns to "idle".         *)
(***************************************************************************)
EXTENDS KeyChange

CONSTANTS p1, p2, p3, k1, k2, k3

TwoProcs == {p1, p2}
ThreeProcs == {p1, p2, p3}
TwoKeys == {k1, k2}
ThreeKeys == {k1, k2, k3}
=============================================================================
