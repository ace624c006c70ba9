----------------------------- MODULE MCProvision -----------------------------
(***************************************************************************)
(* A small instance of Provision: two keys serve can mint (a second look   *)
(* may mint again), two the owner may type (a right one and a wrong one),  *)
(* two identities (connect.json may be edited).                            *)
(***************************************************************************)
EXTENDS Provision

CONSTANTS m1, m2, o1, o2, i1, i2

TwoMinted == {m1, m2}
TwoOwned == {o1, o2}
TwoIdents == {i1, i2}
=============================================================================
