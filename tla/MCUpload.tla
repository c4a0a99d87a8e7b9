------------------------------- MODULE MCUpload -------------------------------
(***************************************************************************)
(* Upload checked with every compilation of at most two small binaries.    *)
(***************************************************************************)
EXTENDS Upload
=============================================================================
