------------------------------ MODULE MCSession ------------------------------
(***************************************************************************)
(* Session on small instances; the .cfg files give the sizes and bounds.   *)
(***************************************************************************)
EXTENDS Session
=============================================================================
