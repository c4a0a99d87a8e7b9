------------------------------ MODULE MCFraming ------------------------------
(***************************************************************************)
(* Framing on small sizes (the .cfg files give them), and what the         *)
(* protocol says of debug frames.                                          *)
(***************************************************************************)
EXTENDS Framing

\* DebugFramesHarmless: to-debugger.proto:88 says of the debug message "this
\* can be sent at any time".  Whatever frames precede a reply, every frame
\* that receive parses is one the server wrote.  (Only one-byte sizes here.)
DebugFramesHarmless == client = "got" => Intact
=============================================================================
