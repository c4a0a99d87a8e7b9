----------------------------- MODULE MCLuaClient -----------------------------
(***************************************************************************)
(* A memory of three bytes and one of a single byte; chunks of two bytes.  *)
(***************************************************************************)
EXTENDS LuaClient

MCCell == {<<0, 0>>, <<0, 1>>, <<0, 2>>, <<1, 0>>}

\* Two chunks and a part of one; above address zero; a number of 256; a byte
\* of 257; past the end of a memory.
MCWrites == {
    [nr |-> 0, pos |-> 0, data |-> <<1, 2, 1>>],
    [nr |-> 0, pos |-> 1, data |-> <<2, 4>>],
    [nr |-> 4, pos |-> 1, data |-> <<5>>],
    [nr |-> 1, pos |-> 0, data |-> <<1, 1>>]}

\* A size of 256, one above a chunk, and one at the end of a memory.
MCReads == {[nr |-> 0, pos |-> 0, sz |-> 2], [nr |-> 0, pos |-> 2, sz |-> 4],
            [nr |-> 0, pos |-> 0, sz |-> 3], [nr |-> 1, pos |-> 0, sz |-> 1]}

\* One binary, two that overlap, and one that is not loaded at zero.
MCPrograms == {<<[load_pos |-> 0, rom |-> <<1, 2, 3>>]>>,
               <<[load_pos |-> 0, rom |-> <<3, 3>>], [load_pos |-> 0, rom |-> <<0>>]>>,
               <<[load_pos |-> 1, rom |-> <<1>>]>>}
=============================================================================
