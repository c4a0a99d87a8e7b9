---------------------------- MODULE MCFileWatcher ----------------------------
(***************************************************************************)
(* FileWatcher checked with two files.                                     *)
(***************************************************************************)
EXTENDS FileWatcher
=============================================================================
