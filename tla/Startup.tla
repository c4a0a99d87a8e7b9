-------------------------------- MODULE Startup --------------------------------
(***************************************************************************)
(* The life of a debugger process around a session: the constructors of    *)
(* main.cc, the Startup window with its settings, the machine definition,  *)
(* the compilation and the connection, and the debugging windows that a    *)
(* session opens again.                                                    *)
(*                                                                         *)
(* A click is one step, with everything that UI::run does about it.  What  *)
(* throws in a window becomes a message; what throws in Model::update, or  *)
(* in a constructor, ends the process (ui.cc:119, main.cc).  The computer, *)
(* the user, the compiler and the contents of the files are external.      *)
(***************************************************************************)
EXTENDS Config, Machine, FiniteSets

CONSTANTS
    MachinePaths, SourcePaths, SerialPorts, EmulatorPaths,   \* what a user chooses
    BoxChoices,            \* <<key, word>> of the boxes of the Configuration window
    Windows,               \* names of the debugging windows but those of memories
    MemoryWindows,         \* <<"memory0", ...>>
    ComputerRegisters,     \* registers in a reply of the computer
    MaxStarts, MaxRegisters                     \* bounds: starts, registers read

VARIABLES
    process,     \* "off", "running", "waiting" in start_emulator, "blocked" in a call
    ui,          \* [startup, message, path]: Startup visible, MessageBox, machine_path_
    model,       \* [upload, session, compiled, link]
    windows,     \* [made, visible, collapsed]
    past         \* history

lifeVars == <<process, ui, model, windows, past>>
vars == <<config_, file, machine, lifeVars>>

-----------------------------------------------------------------------------
Key(w) == w \o "_window_visible"

\* The other settings; save_config writes the first five, in this order.
ConnectKeys ==
    <<"machine_path", "connection_type", "serial_port", "emulator_path", "source_file">>

AllWindows == Windows \cup ToSet(MemoryWindows)

ASSUME BoundAssumption == MaxStarts \in Nat

\* The keys of the Configuration window; of the three only verify is no number.
OptionKeys == {"theme", "debugging_level", "verify_upload_rom"}

ASSUME NamesAssumption ==
    /\ \A v, w \in AllWindows : Key(v) = Key(w) => v = w
    /\ \A w \in AllWindows : Key(w) \notin ToSet(ConnectKeys) \cup OptionKeys
    /\ \A choice \in BoxChoices : choice[1] \in OptionKeys

\* Every word that the program writes, or a user chooses, may be read as a key
\* after a value that was odd.  The box of the theme offers numbers.
ASSUME WordsAssumption ==
    /\ ToSet(ConnectKeys) \subseteq ToSet(Order)
    /\ {Key(w) : w \in AllWindows} \cup {"emulator", "hardware", "true"} \subseteq ToSet(Order)
    /\ MachinePaths \cup SourcePaths \cup SerialPorts \cup EmulatorPaths \subseteq Values
    /\ \A choice \in BoxChoices :
        /\ choice[1] \in ToSet(Order) /\ choice[2] \in ToSet(Order)
        /\ choice[1] = "theme" => choice[2] \in DOMAIN Number

\* The windows for a machine: one for each of its memories, and the others.
WindowsFor(m) ==
    Windows \cup {MemoryWindows[i] : i \in {j \in DOMAIN MemoryWindows : j <= m.memories}}

NoUi == [startup |-> FALSE, message |-> FALSE, path |-> <<>>]

\* compiled: what the last compilation left in debug_ and in the watcher.
NoModel == [upload |-> FALSE, session |-> FALSE, compiled |-> "nothing", link |-> "none"]

NoWindows == [made |-> {}, visible |-> {}, collapsed |-> {}]

\* ending: how the last process ended.  odd: some process saved a value that
\* is not one word, or was killed in a save.  Of the present process, failed:
\* a compilation threw, or a load did, since the last good load; refused: a
\* connection failed after the compilation; hidden: windows closed while they
\* were collapsed.
NoPast == [starts |-> 0, ending |-> "none", odd |-> FALSE, failed |-> FALSE,
           refused |-> FALSE, hidden |-> {}]

Init ==
    /\ ConfigInit /\ machine = Machine0
    /\ process = "off" /\ ui = NoUi /\ model = NoModel /\ windows = NoWindows
    /\ past = NoPast

\* The process is gone.  config_ stays for the history.
Ends(why, p) ==
    /\ process' = "off" /\ ui' = NoUi /\ model' = NoModel /\ windows' = NoWindows
    /\ machine' = Machine0
    /\ past' = [p EXCEPT !.ending = why, !.hidden = {},
                         !.odd = @ \/ why = "cut" \/ ~OneWord(config_')]

\* The exception is caught by UI::run and shown, which blocks all clicks.
Shows(u) == ui' = [u EXCEPT !.message = TRUE]

-----------------------------------------------------------------------------
(* The constructors of model and ui *)

\* UI::update_theme, also called by the constructor.
ThemeThrows(config) == IntThrows(config, "theme")

\* UI::UI after the Startup window: a Memory window for each memory that the
\* machine has now, the others, and the theme.
Built(m, path, p) ==
    IF ThemeThrows(config_')
    THEN Ends("theme", p)
    ELSE /\ machine' = m
         /\ process' = "running" /\ past' = p /\ model' = NoModel
         /\ ui' = [startup |-> TRUE, message |-> FALSE, path |-> path]
         /\ windows' = [NoWindows EXCEPT !.made = WindowsFor(m)]

Fresh == [past EXCEPT !.starts = @ + 1, !.ending = "none", !.failed = FALSE,
                      !.refused = FALSE, !.hidden = {}]

StartEmpty ==
    /\ process = "off" /\ past.starts < MaxStarts
    /\ Load /\ GetStr(config_', "machine_path") = <<>>
    /\ Built(Machine0, <<>>, Fresh)

\* Model::load_machine: the debugging level is read after the definition.
LoadMachine(d, config) ==
    IF LoadResult(d) = "ok" /\ IntThrows(config, "debugging_level")
    THEN "throws" ELSE LoadResult(d)

Reading(p, d, config) ==
    [p EXCEPT !.failed = LoadMachine(d, config) # "ok"]

\* Startup::Startup clears the path of a definition that throws.
StartWith(d) ==
    /\ process = "off" /\ past.starts < MaxStarts
    /\ Load /\ GetStr(config_', "machine_path") # <<>>
    /\ LET p == Reading(Fresh, d, config_')
           result == LoadMachine(d, config_')
           m == LoadDefinition(Machine0, d)
       IN  \/ result = "aborts" /\ Ends("type", p)
           \/ result = "throws" /\ Built(m, <<>>, p)
           \/ result = "ok" /\ Built(m, GetStr(config_', "machine_path"), p)

-----------------------------------------------------------------------------
(* Windows and menu.  A message and the upload are modal. *)

Clicks == process = "running" /\ ~ui.message /\ ~model.upload

ClickOk ==
    /\ process = "running" /\ ui.message
    /\ ui' = [ui EXCEPT !.message = FALSE]
    /\ UNCHANGED <<config_, file, machine, process, model, windows, past>>

\* Startup::draw, the file browser: the path is taken before the file is read.
Browse(path, d) ==
    /\ Clicks /\ ui.startup /\ machine.registers + d.registers <= MaxRegisters
    /\ LET p == Reading(past, d, config_)
           u == [ui EXCEPT !.path = path]
           result == LoadMachine(d, config_)
       IN  \/ result = "aborts" /\ UNCHANGED configVars /\ Ends("type", p)
           \/ /\ result # "aborts" /\ past' = p
              /\ machine' = LoadDefinition(machine, d)
              /\ IF result = "throws" THEN Shows(u) ELSE ui' = u
              /\ UNCHANGED <<configVars, process, model, windows>>

\* ./findserial.py is not there once a compilation has left the directory.
AutodetectFails ==
    /\ Clicks /\ ui.startup /\ ui.path # <<>> /\ machine.moved
    /\ Shows(ui)
    /\ UNCHANGED <<config_, file, machine, process, model, windows, past>>

\* Configuration::draw, then UI::update_theme or Model::set_debugging_level.  The
\* tab with the level and verify cannot be drawn when the level is no number.
Choose(key, word) ==
    /\ Clicks /\ GetStr(config_, key) # <<word>>
    /\ key = "theme" \/ ~ IntThrows(config_, "debugging_level")
    /\ SaveAs(Set(config_, key, <<word>>))
    /\ UNCHANGED <<machine, lifeVars>>

LevelThrows ==
    /\ Clicks /\ IntThrows(config_, "debugging_level")
    /\ Shows(ui)
    /\ UNCHANGED <<config_, file, machine, process, model, windows, past>>

\* The button of a memory has no window when the machine was loaded after the
\* windows were made: windows_.at throws.
OpenWindow(w) ==
    /\ Clicks /\ model.session
    /\ w \in WindowsFor(machine)
    /\ IF w \in windows.made
       THEN /\ w \notin windows.visible
            /\ SaveAs(Set(config_, Key(w), <<"true">>))
            /\ windows' = [windows EXCEPT !.visible = @ \cup {w}]
            /\ past' = [past EXCEPT !.hidden = @ \ {w}]
            /\ UNCHANGED ui
       ELSE Shows(ui) /\ UNCHANGED <<configVars, windows, past>>
    /\ UNCHANGED <<machine, process, model>>

\* ImGui keeps whether a window is collapsed while it is closed.
Collapse(w) ==
    /\ Clicks /\ w \in windows.visible
    /\ windows' = [windows EXCEPT
         !.collapsed = IF w \in @ THEN @ \ {w} ELSE @ \cup {w}]
    /\ UNCHANGED <<config_, file, machine, process, ui, model, past>>

MutCloseWindow(w) ==
    /\ Clicks /\ w \in windows.visible
    /\ windows' = [windows EXCEPT !.visible = @ \ {w}]
    /\ UNCHANGED <<configVars, machine, process, ui, model, past>>
\* ImGui::Begin clears visible_ and, for a collapsed window, returns false:
\* save_window_closed is not called then.
CloseWindow(w) ==
    /\ Clicks /\ w \in windows.visible
    /\ windows' = [windows EXCEPT !.visible = @ \ {w}]
    /\ IF w \in windows.collapsed
       THEN past' = [past EXCEPT !.hidden = @ \cup {w}] /\ UNCHANGED configVars
       ELSE SaveAs(Without(config_, {Key(w)})) /\ UNCHANGED past
    /\ UNCHANGED <<machine, process, ui, model>>

Quit ==
    /\ process = "running" /\ UNCHANGED configVars
    /\ Ends("quit", past)

\* Killed, or a window closed by force while a call blocks it.
Kill ==
    /\ process \in {"running", "waiting", "blocked"} /\ UNCHANGED configVars
    /\ Ends("killed", past)

-----------------------------------------------------------------------------
(* Starting a session *)

\* UI::start_debugging_session: the windows whose key says so, besides those
\* that are visible.  set_visible writes the same key again.
Reopened == windows.visible \cup {w \in windows.made : GetBool(config_', Key(w))}

SessionStarts(m) ==
    /\ model' = [m EXCEPT !.session = TRUE]
    /\ windows' = [windows EXCEPT !.visible = Reopened]
    /\ past' = [past EXCEPT !.hidden = @ \ Reopened]

\* set_computer_status of the reply to reset, which may have no registers.
Mismatch == ComputerRegisters \notin {0, machine.registers}

\* Model::init_debugging_session, called by update.  Descriptor 0 stands for a
\* client that never connected: a call writes there and fails, or waits.  A
\* computer that is running, and the one with which the session started is
\* after Run, refuses the reset.
InitInUpdate(m, compiled) ==
    \/ m.link = "none" /\ process' = "blocked" /\ model' = m
       /\ machine' = compiled /\ UNCHANGED <<ui, windows, past>>
    \/ m.link \in {"none", "closed"} /\ Ends("unconnected", past)
    \/ m.link \in {"open", "acked"} /\ Ends("refused", past)
    \/ m.link \in {"open", "acked"} /\ Mismatch /\ Ends("mismatch", past)
    \/ m.link \in {"open", "acked"} /\ ~Mismatch /\ SessionStarts(m)
       /\ machine' = compiled /\ UNCHANGED <<process, ui>>

\* ... called by the Startup window, which is closed by then.
InitInWindow(m) ==
    LET u == [ui EXCEPT !.startup = FALSE] IN
    IF Mismatch
    THEN Shows(u) /\ model' = m /\ UNCHANGED <<windows, past>>
    ELSE SessionStarts(m) /\ ui' = u

MutAttach(m, link) ==
    LET opened == [m EXCEPT !.link = IF link = "unchanged" THEN @ ELSE link] IN
    /\ process' = "running"
    /\ \/ /\ link # "acked"
          /\ Shows([ui EXCEPT !.startup = FALSE]) /\ model' = opened
          /\ past' = [past EXCEPT !.refused = TRUE] /\ UNCHANGED windows
       \/ /\ link = "acked" /\ m.compiled = "binaries"
          /\ ui' = [ui EXCEPT !.startup = FALSE]
          /\ model' = [opened EXCEPT !.upload = TRUE] /\ UNCHANGED <<windows, past>>
       \/ /\ link = "acked" /\ m.compiled # "binaries" /\ InitInWindow(opened)
\* Model::connect_to_serial_port and what follows it in Startup::draw.
\* "unchanged": no port file, so that connect is not called; "closed": the
\* port does not open; "open": the computer gives no proper ack.
Attach(m, link) ==
    LET opened == [m EXCEPT !.link = IF link = "unchanged" THEN @ ELSE link] IN
    /\ process' = "running"
    /\ \/ /\ link # "acked"
          /\ Shows(ui) /\ model' = opened
          /\ past' = [past EXCEPT !.refused = TRUE] /\ UNCHANGED windows
       \/ /\ link = "acked" /\ m.compiled = "binaries"
          /\ ui' = [ui EXCEPT !.startup = FALSE]
          /\ model' = [opened EXCEPT !.upload = TRUE] /\ UNCHANGED <<windows, past>>
       \/ /\ link = "acked" /\ m.compiled # "binaries" /\ InitInWindow(opened)

Links == {"unchanged", "closed", "open", "acked"}

\* fdbg_server_init_pc in the emulator: openpty, fopen, fprintf, fclose.  What
\* get_emulator_port finds, and how an attempt with that may end: an empty file
\* gives a port without a name.
PortFile == [missing |-> {"unchanged"}, empty |-> {"closed"},
             complete |-> {"closed", "open", "acked"}]

\* Startup::save_config, as far as the k-th of its settings.
With(config, settings, k) ==
    LET keys == {ConnectKeys[i] : i \in 1 .. k}
    IN  [key \in DOMAIN config \cup keys |->
            IF key \in keys THEN settings[key] ELSE config[key]]

\* A field that is empty may be filled; one that the settings have filled is
\* left as it is (a bound).
Field(key, choices) ==
    IF GetStr(config_, key) = <<>> THEN choices ELSE {GetStr(config_, key)}

\* "hardware" also stands for a running emulator.
Settings ==
    [type : {"emulator", "hardware"},
     emulator : Field("emulator_path", EmulatorPaths),
     serial : Field("serial_port", SerialPorts),
     source : Field("source_file", SourcePaths)]

SettingsOf(s) ==
    [machine_path |-> ui.path, connection_type |-> <<s.type>>, serial_port |-> s.serial,
     emulator_path |-> s.emulator, source_file |-> s.source]

SaveSettings(s, k) == SaveAs(With(config_, SettingsOf(s), k))

\* Lua aborts over the table of the compiler, or over what is in its place.
Abort == IF machine.top = "definition" THEN "type" ELSE "abort"

Connects == Clicks /\ ui.startup /\ ui.path # <<>>

\* "Connect & Upload": save, compile, and start an emulator (fork, and 400 ms
\* of sleep), or connect.  memories.at(0) throws when there is none.
CompileFails(s, outcome) ==
    /\ Connects
    /\ SaveSettings(s, 5)
    /\ \/ /\ CompileResult(machine, outcome) = "aborts" /\ Ends(Abort, past)
       \/ /\ \/ CompileResult(machine, outcome) = "throws" \/ outcome = "reports"
             \/ machine.memories = 0
          /\ CompileResult(machine, outcome) # "aborts"
          /\ machine' = Compiled(machine, outcome)
          /\ Shows(ui)
          /\ past' = [past EXCEPT !.failed = @ \/ CompileResult(machine, outcome) = "throws"]
          /\ UNCHANGED <<process, model, windows>>

Compiles(outcome) ==
    /\ CompileResult(machine, outcome) = "ok" /\ outcome # "reports"
    /\ machine.memories > 0
    /\ machine' = Compiled(machine, outcome)

StartEmulator(s, outcome) ==
    /\ Connects /\ s.type = "emulator"
    /\ SaveSettings(s, 5) /\ Compiles(outcome)
    /\ process' = "waiting" /\ model' = [model EXCEPT !.compiled = outcome]
    /\ UNCHANGED <<ui, windows, past>>

Connect(s, outcome, link) ==
    /\ Connects /\ s.type # "emulator"
    /\ SaveSettings(s, 5) /\ Compiles(outcome)
    /\ Attach([model EXCEPT !.compiled = outcome], link)

\* After 400 ms: no file if the child is slow, has no pseudo-terminal, or could
\* not exec (it goes on as a second debugger); an empty one between fopen and
\* fclose.
EmulatorAnswers(found) ==
    /\ process = "waiting"
    /\ UNCHANGED <<configVars, machine>>
    /\ \E link \in PortFile[found] : Attach(model, link)

\* The process is killed between two settings of save_config, or within a save.
KilledInSave(s) ==
    /\ Connects
    /\ \/ \E k \in 1 .. 4 :
            SaveSettings(s, k) /\ Ends("killed", past)
       \/ SaveCut(config_) /\ Ends("cut", past)

-----------------------------------------------------------------------------
(* Model::update *)

\* The upload is over, or the computer refuses a chunk, or its binaries are
\* gone (Upload!StepUndefined).
UploadStep ==
    /\ process = "running" /\ model.upload
    /\ UNCHANGED configVars
    /\ \/ InitInUpdate([model EXCEPT !.upload = FALSE], machine)
       \/ Ends("refused", past)
       \/ model.compiled = "no_binaries" /\ Ends("undefined", past)

\* A watched file was changed: compile and upload_rom_and_start, whatever the
\* windows show, as soon as something was compiled.
Recompile(outcome) ==
    /\ process = "running" /\ model.compiled # "nothing"
    /\ UNCHANGED configVars
    /\ LET result == CompileResult(machine, outcome)
           compiled == Compiled(machine, outcome)
           m == [model EXCEPT !.compiled = outcome]
       IN  \/ result = "aborts" /\ Ends(Abort, past)
           \/ result = "throws" /\ Ends("compile", [past EXCEPT !.failed = TRUE])
           \/ outcome = "reports" /\ result = "ok" /\ Ends("compile", past)
           \/ /\ result = "ok" /\ outcome = "binaries"
              /\ model' = [m EXCEPT !.upload = TRUE] /\ machine' = compiled
              /\ UNCHANGED <<process, ui, windows, past>>
           \/ result = "ok" /\ outcome = "no_binaries" /\ InitInUpdate(m, compiled)

-----------------------------------------------------------------------------
User ==
    \/ ClickOk
    \/ \E path \in MachinePaths, d \in Definitions : Browse(path, d)
    \/ AutodetectFails
    \/ \E choice \in BoxChoices : Choose(choice[1], choice[2])
    \/ LevelThrows
    \/ \E w \in AllWindows : OpenWindow(w) \/ Collapse(w) \/ CloseWindow(w)
    \/ \E s \in Settings : KilledInSave(s)
    \/ \E s \in Settings, o \in Outcomes : CompileFails(s, o)
    \/ \E s \in Settings, o \in Outcomes : StartEmulator(s, o)
    \/ \E s \in Settings, o \in Outcomes, link \in Links : Connect(s, o, link)
    \/ Quit \/ Kill

Next ==
    \/ StartEmpty \/ \E d \in Definitions : StartWith(d)
    \/ User
    \/ \E found \in DOMAIN PortFile : EmulatorAnswers(found)
    \/ UploadStep
    \/ \E o \in Outcomes : Recompile(o)

Spec == Init /\ [][Next]_vars

-----------------------------------------------------------------------------
(* Properties *)

EndsOfProcess == {"none", "theme", "type", "abort", "compile", "refused", "undefined",
                  "unconnected", "mismatch", "quit", "killed", "cut"}

\* TypeOK: every variable keeps its type; in particular no window is visible
\* that the constructor of UI has not made.
TypeOK ==
    /\ MachineTypeOK
    /\ process \in {"off", "running", "waiting", "blocked"}
    /\ ui \in [startup : BOOLEAN, message : BOOLEAN, path : {ui.path}]
    /\ model \in [upload : BOOLEAN, session : BOOLEAN,
                  compiled : {"nothing", "binaries", "no_binaries"},
                  link : {"none", "closed", "open", "acked"}]
    /\ windows \in [made : SUBSET AllWindows, visible : SUBSET windows.made,
                    collapsed : SUBSET windows.made]
    /\ past \in [starts : 0 .. MaxStarts, ending : EndsOfProcess, odd : BOOLEAN,
                 failed : BOOLEAN, refused : BOOLEAN, hidden : SUBSET windows.made]

\* RestartRemembers: a process that starts has the settings of the last one
\* (Config::load after Config::set, remove and save), unless a value was empty
\* or had a space, or the process was killed within a save.
RestartRemembers ==
    [][process = "off" /\ (StartEmpty \/ \E d \in Definitions : StartWith(d)) /\ ~past.odd
       => config_' = config_]_vars

\* Lua aborts a process only over a field of the wrong type, or after a load or
\* a compilation that failed in the same process.
AbortFollowsFailure == past.ending = "abort" => past.failed

\* An upload without a connection comes from a source edited after a refused one.
UnconnectedFollowsRefusal ==
    past.ending = "unconnected" \/ process = "blocked" => past.refused

\* The theme keeps a process from starting only after a setting that the file
\* cannot carry.
ThemeFollowsOddValue == past.ending = "theme" => past.odd

\* Endings: what ends a debugger that nobody quits or kills has one of three
\* earlier causes, in this process or, for the theme, in another.
Endings == AbortFollowsFailure /\ UnconnectedFollowsRefusal /\ ThemeFollowsOddValue

\* SessionIsWhole: once the Startup window is closed, the definition is complete
\* and on top of the Lua stack, where the next compilation looks for it, and the
\* computer has answered, whatever failed before.
SessionIsWhole ==
    process = "running" /\ ~ui.startup =>
        machine.loaded /\ machine.top = "definition" /\ model.link = "acked"

\* NoDeadEnd: the Startup window is closed only for a session or an upload,
\* except that init_debugging_session throws over a definition that does not
\* match the computer.
NoDeadEnd ==
    process = "running" /\ ~ui.startup => model.session \/ model.upload \/ Mismatch

\* WindowsAsSaved: during a session a debugging window is visible exactly if its
\* setting says so, across restarts, recompilations and the three writers of
\* the setting, but for those closed while collapsed.
WindowsAsSaved ==
    process = "running" /\ model.session =>
        {w \in windows.made : GetBool(config_, Key(w))} = windows.visible \cup past.hidden
=============================================================================
