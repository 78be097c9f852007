------------------------------ MODULE MCClient ------------------------------
(* Client with its constants given in the .cfg files.                      *)
EXTENDS Client
=============================================================================
