---------------------------- MODULE MCContainer ----------------------------
(* ApiContainer with the files of the repository.                          *)
EXTENDS ApiContainer, MCMigrations
=============================================================================
