------------------------------- MODULE MCStartup -------------------------------
(***************************************************************************)
(* Startup with one path of each kind: a port that may be left empty, and  *)
(* a source file that may have a space in its path.  The words are in the  *)
(* order of std::sort.                                                     *)
(***************************************************************************)
EXTENDS Startup

MCOrder == <<"/a", "/e", "/m", "/t", "0", "1", "b", "code_window_visible",
             "connection_type", "debugging_level", "emulator", "emulator_path", "hardware",
             "machine_path", "memory0_window_visible", "serial_port", "source_file",
             "theme", "true">>
MCNumber == [w \in {"0", "1"} |-> IF w = "0" THEN 0 ELSE 1]

MCMachinePaths == {<<"/m">>}
MCSourcePaths == {<<"/a">>, <<"/a", "theme", "b">>, <<"/a", "debugging_level", "b">>}
MCChoices == {<<"debugging_level", "0">>}
MCSerialPorts == {<<>>, <<"/t">>}
MCEmulatorPaths == {<<"/e">>}
MCMemoryWindows == <<"memory0">>

A(registers, memories, flaw) == [registers |-> registers, memories |-> memories, flaw |-> flaw]
MCDefinitions == {A(1, 1, "none"), A(1, 1, "unreadable"), A(1, 1, "terminal"), A(1, 1, "type")}
Matching == {A(1, 1, "none")}

\* ReloadStarts: TODO.md:58 counts "Fix error when loading machine multiple
\* times" as done: with definitions that match the computer, the number of
\* registers never stands between the Startup window and a session.
ReloadStarts == process = "running" /\ ~ui.startup => ~Mismatch
=============================================================================
