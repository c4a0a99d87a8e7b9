------------------------------ MODULE MCWindows ------------------------------
(***************************************************************************)
(* Windows with two programs: one of two files with an address listed      *)
(* twice and a line without code, and one without binaries.                *)
(***************************************************************************)
EXTENDS Windows, TLC

Line(f, n, a) == [file |-> f, line |-> n, address |-> a]

MCPrograms == {
    [files |-> 2, binaries |-> TRUE, symbols |-> {1},
     lines |-> <<Line(0, 1, 0), Line(0, 2, -1), Line(1, 1, 1), Line(1, 2, 1)>>],
    [files |-> 1, binaries |-> FALSE, symbols |-> {},
     lines |-> <<Line(0, 1, 1)>>]}

\* One page, and less than a page.
MCMemorySizes == <<2, 1>>

\* Contents of the registers are only copied and compared.
MCSymmetry == Permutations(Registers)
=============================================================================
