------------------------------ MODULE MCTerminal ------------------------------
(***************************************************************************)
(* The terminal with the echo program or any other computer, on screens so *)
(* small that every second or third character wraps or scrolls.            *)
(***************************************************************************)
EXTENDS SampleEmulator

MCSizes == {[columns |-> 2, lines |-> 2], [columns |-> 3, lines |-> 1]}

\* Every character, both halves of a line ending, a correction.
MCTexts == {<<c>> : c \in Char} \cup {<<CR, LF>>, <<"a", BS, "a">>}

\* A letter, Enter and a letter of one frame, two special keys of one frame.
MCFrames == {[pressed |-> {}, characters |-> <<"a">>],
             [pressed |-> {"Enter"}, characters |-> <<"a">>],
             [pressed |-> {"Enter", "Backspace"}, characters |-> <<>>]}
=============================================================================
