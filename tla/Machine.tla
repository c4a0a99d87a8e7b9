-------------------------------- MODULE Machine --------------------------------
(***************************************************************************)
(* Class Machine: a definition written in Lua, and the compiler inside it. *)
(*                                                                         *)
(* Of the Lua stack the code depends on the top alone, as every function   *)
(* reads a field of what is there: the definition, and nothing else, or    *)
(* what a throw has left above it, nil or an error message ("other").  A   *)
(* field of nil, or of the wrong type, is a Lua error outside any          *)
(* protected call, which aborts the process.                               *)
(***************************************************************************)
EXTENDS Integers

CONSTANTS Definitions      \* files: [registers, memories, flaw]

VARIABLES machine          \* [top, loaded, registers, memories, moved]

-----------------------------------------------------------------------------
\* The first mistake that load_user_definition meets in a file.
Flaws == {"none",
          "unreadable",    \* no such file, or a Lua error
          "head",          \* a field missing before the registers
          "terminal",      \* ... between the registers and the memories
          "memory",        \* ... in the last memory
          "type"}          \* a field of the wrong type

Definition == [registers : Nat, memories : Nat, flaw : Flaws]

ASSUME DefinitionsAssumption ==
    /\ Definitions \subseteq Definition
    /\ \A d \in Definitions : d.flaw = "memory" => d.memories > 0

Machine0 == [top |-> "none", loaded |-> FALSE, registers |-> 0, memories |-> 0,
             moved |-> FALSE]

Results == {"ok", "throws", "aborts"}

\* get_field(field, mandatory) of what is on the top.
LoadResult(d) ==
    CASE d.flaw = "none" -> "ok"
      [] d.flaw = "type" -> "aborts"
      [] OTHER           -> "throws"

\* How many registers and memories were pushed before the mistake.
RegistersRead(d) == IF d.flaw \in {"unreadable", "head"} THEN 0 ELSE d.registers
MemoriesRead(d) ==
    CASE d.flaw = "none"   -> d.memories
      [] d.flaw = "memory" -> d.memories - 1
      [] OTHER             -> 0

\* load_user_definition: the lists are pushed to and never cleared, and
\* user_definition_loaded_ is set at the end.
LoadDefinition(m, d) ==
    [m EXCEPT !.top = CASE d.flaw = "none" -> "definition"
                        [] d.flaw = "unreadable" -> "other"
                        [] OTHER -> "nil",
              !.registers = @ + RegistersRead(d),
              !.memories = @ + MemoriesRead(d),
              !.loaded = @ \/ d.flaw = "none"]

-----------------------------------------------------------------------------
(* Machine::compile *)

\* What the `compile` of the definition does.
Outcomes == {"binaries",       \* success
             "no_binaries",    \* success, with an empty list
             "reports",        \* no success, with an error_info
             "lacks",          \* a mandatory field is missing from the table
             "raises",         \* a Lua error
             "type"}           \* a field of the wrong type

\* The field of a string is nil, which a mandatory field may not be.
CompileResult(m, outcome) ==
    IF ~m.loaded \/ m.top = "other" THEN "throws"
    ELSE IF m.top # "definition" \/ outcome = "type" THEN "aborts"
    ELSE IF outcome \in {"lacks", "raises"} THEN "throws" ELSE "ok"

MutCompiledReport(m, outcome) ==
    IF ~m.loaded THEN m
    ELSE [m EXCEPT
            !.top = IF CompileResult(m, outcome) = "ok" /\ outcome # "reports" THEN @
                    ELSE IF m.top = "definition" /\ outcome = "raises" THEN "other" ELSE "nil",
            !.moved = @ \/ CompileResult(m, outcome) = "throws"]
MutCompiledPop(m, outcome) ==
    IF ~m.loaded THEN m
    ELSE [m EXCEPT
            !.top = IF CompileResult(m, outcome) = "ok" /\ outcome # "no_binaries" THEN @
                    ELSE IF m.top = "definition" THEN "other" ELSE "nil",
            !.moved = @ \/ CompileResult(m, outcome) = "throws"]
\* A compilation that ends normally pops its result and goes back to the
\* working directory; one that throws does neither.
Compiled(m, outcome) ==
    IF ~m.loaded THEN m
    ELSE [m EXCEPT
            !.top = IF CompileResult(m, outcome) = "ok" THEN @
                    ELSE IF m.top = "definition" /\ outcome = "raises" THEN "other" ELSE "nil",
            !.moved = @ \/ CompileResult(m, outcome) = "throws"]

MachineTypeOK ==
    machine \in [top : {"none", "definition", "other", "nil"}, loaded : BOOLEAN,
                 registers : Nat, memories : Nat, moved : BOOLEAN]
=============================================================================
