---------------------------- MODULE MCFileStore ----------------------------
(* FileStore with its constants given in the .cfg files.                   *)
EXTENDS FileStore
=============================================================================
