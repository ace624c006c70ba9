------------------------------- MODULE MCServe -------------------------------
(***************************************************************************)
(* Serve with a poll of one tick and a cap that is no power of two of it.  *)
(* The values of its constants are in the .cfg files.                      *)
(***************************************************************************)
EXTENDS Serve
=============================================================================
