-------------------------------- MODULE MCRun --------------------------------
(***************************************************************************)
(* Run, on small pipes.  The values of its constants are in the .cfg.      *)
(***************************************************************************)
EXTENDS Run
=============================================================================
