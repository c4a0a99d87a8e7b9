---------------------------- MODULE MCFdbgServer ----------------------------
(***************************************************************************)
(* FdbgServer checked on small instances (the .cfg files give the sizes),  *)
(* and what the repository says of the server that TLC finds not to hold.  *)
(***************************************************************************)
EXTENDS FdbgServer

\* FaultsAreReported: TODO.md lists "Report error on incorrect instruction
\* (or other error)" as done.  Once the server has answered, an instruction
\* that failed has been reported or run_status still holds its status.
FaultsAreReported == pc = "top" /\ fault => run_status # "OK"
=============================================================================
