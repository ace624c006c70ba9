------------------------------ MODULE MCBackup ------------------------------
(***************************************************************************)
(* Values for the constants of Backup.                                     *)
(***************************************************************************)
EXTENDS Backup

CONSTANTS x     \* a pattern

OnePattern == {x}
NoPattern == {}
NoneAsked == {0}
FewOnly == {1}
=============================================================================
