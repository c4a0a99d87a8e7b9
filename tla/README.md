# Fortuna Debugger: a verification project

TLA+ models of the Fortuna debugger, the TLC runs that check them on small
instances, and TLAPS proofs of what matters most.  Paths are those of the
repository (`src/...`).  `PROJECT.json` maps every definition to the lines it
models and lists the hazards, runs, mutants, findings and theorems.

## 1. The system

A *computer* (an emulator, or a board with a microcontroller) links the **debug
server**.  The **debugger**, a desktop program, talks to it over a serial line.

| component | state | operations | talks to |
|---|---|---|---|
| Debug server, `src/library/server/libfdbg-server.c` | breakpoint table, `next_bkp`, `last_pc`, event queue, `running`, `run_status` | `fdbg_server_next`: up to `run_steps` instructions when running, then at most one request; `push_event`, `fdbg_debug` from callbacks | the computer through `FdbgServerEvents`, the line through `srvcomm.c` |
| Framing, `srvcomm.c` and `libfdbg-client.cc:93-196` | bytes on the line, what a reader has of a frame | write and read a size of one or two bytes and a body | both ends |
| Client library, `src/library/client/libfdbg-client.cc` | a file descriptor | one blocking call per request; `write_memory_step` | the server |
| Model, `src/debugger/model/model.cc` | what the user sees: running, pc, breakpoints, terminal, upload | `update` once per frame, one method per command | the client library, the watcher |
| Frame loop and windows, `src/debugger/ui`, `windows` | enabled buttons, the Keypress window | draw; a click or key calls a method of the model | the model |
| File watcher, `src/debugger/filewatcher` | stored times, `updated_`, a thread | `run_verify`, `update_files`, `reset` | the file system, the model |
| Terminal screen, `terminalmodel.cc`, `windows/terminal.cc` | characters, cursor, two settings and a copy of them in the window | `add_string`, `clear`, `initialize`, `set_mode`, `set_new_line`, draw | the model, the configuration; libtmt in ANSI mode |
| Code, memory and register windows, `windows` | selected file, line to scroll to, a page of each memory | draw; choose a file, a symbol, a page | what the model keeps of the program and of the last `computer_status` |
| Machine definition, `machine.cc` | the Lua stack, the lists of registers and memories, the working directory | `load_user_definition`, `compile` | Lua, the external compiler |
| Startup window, menu and configuration, `ui.cc`, `startup.cc`, `window.cc`, `config.cc` | visible windows, a message, the settings and their file | choose, connect, compile, open and close windows, set, save, load | all of the above; `start_emulator` |
| Lua client library, `library/client/lua` | a client and a machine for one script | the functions of `client` | the client library |
| Sample emulator, `sample-emulator` | registers, one key | `IN`, `BZ`, `OUT`, `JMP`, `on_keypress`, `reset` | the server |
| Microcontroller glue, vendored code, build files | none of a session | | |

How they interact.  The debugger is one thread (plus the verify thread): a frame
runs `Model::update` and then draws the windows, and a client call blocks the
frame until its reply is read.  The server is one loop; it neither initiates
anything (except debug frames) nor remembers who asked.  So the two programs
share no state but the line, and the debugger's view of `running`, of the
breakpoints and of the pc is a copy that ages between two polls.

What is hard here:

- the computer stops by itself (breakpoint, target of Next, error) while the
  debugger believes that it runs; every command may meet a server in the other
  mode and be refused;
- an exception in a window is a message box, the same exception in `update` ends
  the program (`ui.cc:119` is outside the `try`);
- debug frames between request and reply; replies in portions; sizes of two bytes;
- texts queued in the server travel in three kinds of replies, some of which the
  model ignores; the queue is bounded and the run loop has to stop in time;
- the status of a failed run waits in the server for a reply that carries it;
- the debugger may end, be killed in a call, and be started again;
- a recompilation replaces the binaries during an upload, and the watcher's
  thread, `update_files`, `reset` and the editor act on the same times;
- what the windows show is kept in several places that change at different
  times: a line to scroll to, copies of memory, of registers and of settings,
  lists that a second session appends to;
- loading, compiling and connecting may each fail half way, and the user tries
  again in the same process or in the next one, which starts from the settings;
- a script knows of a computer that runs by itself only what its calls returned.

What makes each component correct: a run stops where it was asked to, no text is
lost, repeated or reordered, a failure is kept until told (server); each reply is
taken by the call that asked for it, the view agrees with the server, calls
return (session); a frame read is a frame written (framing); every byte of the
ROM ends in its place (upload); every edit is compiled (watcher); the cursor
stays on the screen and the screen shows the end of what was printed (terminal);
a shown line, byte or register is the computer's (windows); a session has all it
needs behind it and no failure leaves the user without a way on (startup); what a
script was told is so (Lua library).

## 2. Modules

| module | models | properties |
|---|---|---|
| `FdbgServer` | server, its computer (external), any host | `TypeOK` `StopsWhereAsked` `EventsInOrder` `NoTextRefusedWhileRunning` `FaultIsKept` |
| `Session` (extends it) | debugger, user, editor, restarts, composed with the server | `SessionTypeOK` `LockStep` `RunningAgrees` `BreakpointsAgree` `PcShown` `TerminalComplete` `NoKeyLost` `KnownEndings` `CallsReturn` `StopNoticed` `PausePauses` |
| `Framing` | the bytes of the line | `RequestsIntact` `RepliesIntact` |
| `Upload` | ROM upload and recompilation | `TypeOK` `RomWritten` `UploadEnds` |
| `FileWatcher` | watcher, verify thread, update frames, editor | `TypeOK` `NothingForgotten` `EditsAreCompiled` |
| `Sheet` | abstract specification: an endless roll of paper | |
| `TerminalModel` | screen, settings, terminal window | `TypeOK` `CursorOnScreen` `OptionsAgree` `Refines` |
| `SampleEmulator` (extends it) | keys of a frame, the echo program, the screen | `EchoedOnce` `LastKeyEchoed` |
| `Config`, `Machine` | the settings and their file; the machine definition | |
| `Startup` (extends both) | a debugger process from its start to its end | `Endings` `SessionIsWhole` `NoDeadEnd` `WindowsAsSaved` `RestartRemembers` |
| `Windows` | code, memory and register windows and what the model keeps for them | `TypeOK` `CodeShowsPc` `MemoryShown` `RegistersShown` |
| `LuaClient` | the Lua library, a script, a computer that runs by itself | `ScriptMemory` `ScriptKnows` |
| `SessionProofs` (with the server's), `FramingProofs`, `UploadProofs`, `FileWatcherProofs`, `TerminalProofs`, `StartupProofs`, `WindowsProofs`, `LuaClientProofs` | theorems and proofs | |
| `MC*` | instances for TLC, and statements of the repository that do not hold | `FaultsAreReported` `DebugFramesHarmless` `ReloadStarts` |

**FdbgServer.**  `pc` says where `fdbg_server_next` is: `top`, in the loop of
`fdbg_run_steps` (`run`), about to look for a request (`receive`), or inside a
`run_forever` callback (`forever`).  One action is one iteration of the run loop
(`RunStepFails`, `RunStepReachesNext`, `RunStepReachesBreakpoint`,
`RunStepGoesOn`), one way to leave it (`RunEnds`), or one request with its reply;
both handlers' `default` branches are `InvalidMessage`.  Nothing but the line is
shared, so a handler is atomic.  The computer is external: an instruction goes to
any address, prints up to `MaxBurst` texts and may fail; optional callbacks are a
constant.  Texts are numbered as printed, keys as typed, so that loss, repetition
and order can be seen.  The line carries whole frames; `Framing` has the bytes.
Names are the code's; `next`, `run` and so on are the arms of `ToComputer`, a
breakpoint request is split by its action and `run` by `forever`.

**Session.**  `at` is the place in the frame: `upload`, `poll` and `watch` are
the three parts of `Model::update`, `draw` the windows, `drawn` after the one
command a frame may give (a bound), `wait` a blocked `FdbgClient::receive`,
`terminated` the end of the program.  `XStep` sends a request and `XReturns` is
all that the method does with the reply; `Throws` covers every reply that
`receive` rejects, in `update` or in a window (`UpdateCalls`).  A compilation
without a binary starts the session at once (`model.cc:53-55`): in the startup
window (`AcknowledgedEmpty`), where the computer has just acknowledged and is
paused, or in `update` (`WatchEmpty`), where a running one refuses the reset; an
upload under way is then left with binaries that are gone (`Gone`,
`UploadUndefined`).  `matches` says whether the computer's registers are those of
the machine definition; if not, `set_computer_status` throws (`InitMismatch`).
`receive` accepts a reply without a message for every call
but `ack` (`libfdbg-client.cc:225`): so does `Accepts`.  `Button` and `Key`
differ because a function key of the code window works through a modal window.

**Framing.**  Every byte remembers frame and place; its value matters only when
it is read as a size.  A frame of the server is the reply to a request (`Handle`)
or one of `fdbg_debug` (`Debug`), which the callbacks call while a request is
handled and while the computer runs (`libfdbg-server.c:304`): so debug frames go
in front of a reply, right behind it, or on a line that waits for nothing.  The server reads and writes byte by byte; the client's
body read returns any number of bytes up to the *whole* size, as `read` is asked
for (`libfdbg-client.cc:179`), and its second size byte is any byte when none
has arrived (154).

**Upload.**  A byte of memory remembers compilation, binary and offset; an offset
outside the rom is the byte the code would fetch there.  `StepFull` is the
branch at `libfdbg-client.cc:360`, `StepLast` the one at 355 followed by what
`Model::update` does after it.

**FileWatcher.**  The number of modifications is a file's time and contents.
`Clear` and each `Store` are steps of `update_files`, each `ThreadLooks` an
iteration of the thread; clearing the map under a running thread is the outcome
`undefined`.  `late` names the files edited between compiler and `update_files`.

**Sheet and TerminalModel.**  `add_string` is cut into its iterations: `Character`
is one, with the wrap and the scroll at its end, so that a setting can change
between any two characters, as it can between two texts.  `initialize`, `clear`,
`reset` and the two setters are actions, and so are the steps of the Terminal
window that call them.  The rows that scroll away are kept as a history (`gone`),
with which the screen is the end of a roll of paper.  `Sheet` says what each kind
of character does under the present settings (`Write`, `Back`, `Return`,
`LineFeed`, `NewLine`, `Skip`), blanks what is shown (`Erase`), lets a setting
change nothing on the sheet (`Set`) and has no scrolling at all; `Refines` says
that the terminal implements it, mode, setting and text included.  Only in ANSI
mode, where the external libtmt writes, may the rows shown become anything
(`Paint`); a machine loaded before the session unrolls a new sheet (`Unroll`).

**SampleEmulator.**  The instructions of `emulator.c` run `rom/echo.asm` in front
of that terminal; of the server there is left the event queue with its bound, and
of the session the poll that brings the keys of a frame and takes the texts away,
and the reset that empties the queue.
`CheckForKeypress` is `check_for_keypress`: the special keys of a frame before its
characters, whatever the order in which they were typed.

**Config.**  A value is a sequence of words, since the file is cut at white space
when it is read.  `Saved` and `Loaded` are the two conversions; a value that is
empty or has a space (`odd`) shifts what follows it, and the model computes how.

**Machine.**  A definition is a number of registers and memories and its first
mistake; `LoadDefinition` leaves on the Lua stack what the code leaves, and a
`get_field` on anything but a definition aborts.  Lists are pushed to, never
cleared.

**Startup.**  One step is a click with all that `UI::run` does about it in that
frame, saves included.  A throw in a window is a message; a throw in
`Model::update` or in a constructor ends the process.  `process` also has the
places where a process waits (`start_emulator`) or hangs (a call on descriptor
zero).  A process may be killed at any step and within a save (`SaveCut`), and the next
one starts from the file.

**Windows.**  A frame is `upload`, `poll`, `watch`, `buttons`, `code`, `others`: the
order in which `Model::update` and the windows run, since the code window consumes
the line to scroll to and the memory windows are refreshed after it.  A command
returns at once or throws; the calls behind it are those of `Session`.  Each line
of a compilation is of one of its files, which the compiler has to see to.

**LuaClient.**  One action per function of the library, answered by the handler of
the server that the mode of the computer selects; between two calls the computer
executes, stores and stops as it likes.  `told`, `listed` and `believes` are what
the script learned from calls that returned.  Bytes, memory numbers and sizes are
taken modulo `UInt8`, as the library narrows them.

## 3. Runs

| run | shows | bounds |
|---|---|---|
| `server` | the server against any host | 2 slots, queue of 2, 3 addresses, 2 instructions per call, 3 texts, 2 keys, 1 frame on the line |
| `session` | the debugger's view agrees with the server | 1 slot, 3 addresses, 2 texts, 2 chunks, 2 page reads |
| `session_restart` | requests and replies in step, known endings | 1 slot, 2 addresses, 2 chunks, a debug frame, 1 edit, 1 restart |
| `session_live` | calls return (but Run forever with a computer that implements it), stops noticed, Pause pauses, keys kept | 1 slot, 2 addresses, keys that fit their field, no texts |
| `framing` | frames intact at both ends, with debug frames in front of replies, behind and between | base 4, sizes 0 to 9 on both sides of the limit, no debug frame while 2 frames wait (1.19 million states) |
| `upload` | every small binary reaches its place, uploads end | chunks of 2, two binaries of up to 4 bytes, 1 recompilation |
| `filewatcher` | edits are compiled in every order of the three actors | 2 files, 3 edits each, verify every second frame |
| `terminal` | the screen is the end of the paper; settings agree; no key twice, the last one always | screens of 2x2 and 3x1, 4 characters, 2 key presses, queue of 2 (447,129 states) |
| `startup` | endings, sessions, windows and settings across processes | 3 starts, one path of each kind and two with spaces, an empty port, definitions without a flaw, unreadable, cut short and of a wrong type (235,237 states) |
| `windows` | what the windows show is what the computer has | 2 programs, pages of 2 bytes read 1 at a time, 2 memories, 1 recompilation, 1 store (1.39 million states) |
| `lua` | what a script was told is so | bytes below 4, chunks of 2, memories of 3 and 1 bytes, 1 slot (175,000 states) |
| `roms` | violated: a full chunk loaded above zero | chunks of 2, sizes to 5, positions to 3 |

Why the bounds are enough.  *Server*: two slots let a breakpoint be found in the
first, the last or none, and a freed slot lie before a used one; three addresses
give zero, an ordinary one and `NO_BREAKPOINT`; the queue fills (two texts) while
more than one instruction per call remains, and a reply can carry fewer events
than are queued.  *Session*: one call is outstanding at a time, so one frame in
each direction is all the line holds; two chunks and two page reads reach the
first, a middle and the last step.  Runs are split by question (view, restarts
and debug frames, keys and liveness), because their product is out of reach: each
bounds at zero what its question does not involve; the Keypress window opens only
while a key can still be typed, so it is part of `session_live` alone.  *Framing*: base 4 stands for
128; the sizes include 0, the largest of one byte, the smallest of two, and a
multiple of the base; a debug frame is shorter or longer than the limit; frame
numbers repeat after three, and no more than three frames wait for the client.  *Upload*: sizes below, at and above one and two chunks.
*FileWatcher*: an edit before, during and after a compilation, and another file.
*Terminal*: on these screens every second or third character wraps or scrolls; the
texts have each character, both halves of a line ending and a correction, and the
frames two keys of one frame.  *Startup*: the first process writes the file that
the second reads and saves again for the third; the two odd paths put a harmless
and a meaningful key into the file.  *Windows*: a page of two reads shows a read
that fails half way; one memory is smaller than a page; one program lists an
address twice and has a line without code, the other has no binaries; the two
register contents are only copied and compared, so that the symmetry over them is
sound.  *Lua*: writes and reads of zero, one and two chunks, above zero, past the
end, and with a number and a size that wrap.

`CHECK_DEADLOCK FALSE` everywhere: the debugger may end, a computer may run for
ever, histories reach their bounds, and a user may do nothing.

**Fairness.**  `WF(ServerNext)`: the program calls `fdbg_server_next` in an
endless loop.  `WF(Debugger)`: the frame loop goes on and a blocked `receive`
keeps polling.  `WF(Main)`, `WF(Thread)`: both threads are scheduled.  In
`Upload`, the step of `update` that the state allows is taken in the end.  In
`SampleEmulator`, the emulator executes when its queue has room, the debugger
polls, and `add_string` finishes its text.  There is none on the user, the editor,
the debug frames, the compiler or a computer that refuses; `Startup`, `Windows`
and `LuaClient` state none.

**The run that fails** is a finding: a binary has a `load_pos`
(`sample-emulator.lua:87`), but a full chunk is read at host pointer plus load
address (`libfdbg-client.cc:361`), and `upload_context.next` is kept for the next
binary (`model.cc:86-89`).

Four more statements of the repository do not hold either.  Each has a config that
shows a counterexample (`tlc -config <cfg> <module>`):

| config, module | statement | code |
|---|---|---|
| `FaultsAreReported.cfg`, `MCFdbgServer` | `TODO.md:174` counts error reports as done | the status of an instruction executed by Next is overwritten (`libfdbg-server.c:171-173`, 80) |
| `CallsReturn.cfg`, `MCSession` | "Response not received in 2 seconds" (`libfdbg-client.cc:145`) | the clock starts again at each poll (140), and a keypress text of eight bytes or more is a request the server ignores |
| `DebugFramesHarmless.cfg`, `MCFraming` | a debug message "can be sent at any time" (`to-debugger.proto:88`) | a body read may run into the next frame (`libfdbg-client.cc:179`) |
| `ReloadStarts.cfg`, `MCStartup` | "[x] Fix error when loading machine multiple times" (`TODO.md:58`) | `machine.cc:133-144` appends to lists that are never cleared, and `model.cc:257-258` compares their length |

Properties that pass say in their comments what they exclude; each exclusion is a
behaviour of the code seen while modelling:

- *Session*: a restart does not learn the table or an old fault; a recompilation
  resets the computer but not `last_pc`; `next` and `pause` drop texts; a cycle at
  address zero brings no pc (`model.cc:160`); F7, F8 and F2 work while `running_`
  is still true (`code.cc:25`, 28, 51), so that a reset drops the queued texts
  (`libfdbg-server.c:145`), a step those beyond `MAX_EVENTS_STEP`, and the next
  poll brings a pc that neither has changed (143, `model.cc:98`); Run forever on a
  computer with the callback `run_forever` blocks the window for good, because the
  server never answers (158-159) and `receive` starts its two seconds again at
  each poll (`libfdbg-client.cc:140`); a debugger killed in a call leaves an answer
  that the next one may take for its own.
- *Framing*: two cases in which `receive` loses the boundary of a frame: the
  second size byte is not there when it is read, or the size of the next frame is
  when the rest of a body is read, which debug frames behind a reply make possible.
- *Session*, endings: an edit that leaves no binary ends the debugger when the
  computer runs, or an upload does; registers that do not match end it at the
  first session that `update` starts.
- *FileWatcher*: an edit between the compiler and `update_files` is late.
- *Windows*: a page above zero shows the bytes of `page * 64` under the label
  `page << 8`; memory windows are not refreshed by a step; registers are those of
  before after a Next that stays, a cycle or an interrupt; `files_cstr_` is not
  cleared by a recompilation, so that older entries point into freed strings; files
  are drawn up to the first line that is missing, and an address listed for a
  repeated line is not highlighted; a session moves the pc without scrolling to it.
- *Startup*: an empty or spaced value shifts the settings; a window closed while
  collapsed stays "visible" in the settings (`TODO.md:166`); an edit after a
  refused connection uploads to a descriptor that is closed or zero;
  `connection_type` "emulator" is not restored.
- *LuaClient*: whole chunks above zero and binaries with a load position go
  elsewhere; against the interface in `README.md:37-64`, `pause` returns nothing, `step` and
  `run_status` drop the texts, `autodetect_usb_serial_port` returns its argument,
  `write_memory` takes the table for its verify flag, `compile_and_write_memory`
  has no memory number and takes its third argument for the flag, and a read of
  256 bytes reads none.

Seen beside the models: `sample-emulator.lua:77` documents `error` where
`machine.cc:225` wants `error_info`; `libfdbg-client.cc:321-322` and 435-436 are
unreachable; for a register of 64 bits `registers.cc:29` ends the text beyond `unknown`; a stack larger than received is drawn to its full size; an
upload of zero bytes divides by zero in its progress bar; a failed `exec` of the
emulator leaves a second debugger.

## 4. Proofs

Every safety invariant and every action property that a run checks is also a
theorem of TLAPS, for every value of the constants under the assumptions that the
modules name.  TLC evaluates the assumptions with every instance; two theorems
about `Session` have one more hypothesis, stated with them.

**SessionProofs**, the server alone.  `TypeCorrect`, `RunsStopWhereAsked`,
`RunsRefuseNoText`, `FaultsAreKept`, `TextsStayInOrder`.

- `TypeOK` and `StopsWhereAsked` are inductive as they stand.  The history
  `stepped` is what makes the second so: a run that has executed an instruction
  was compared with the table and `next_bkp` *as they are now*, because only the
  handlers of a paused computer change them and every one that sets `running`
  starts a new run.
- `FaultIsKept` and `NoTextRefusedWhileRunning` are about steps and use `TypeOK`
  alone.  `RunsRefuseNoText` assumes that an instruction prints at most one text
  (`MaxBurst <= 1`): with two, the guard at line 301 passes with one place left.
- `EventsInOrder` rests on `Delivery`: the texts on the line and then those in the
  queue are increasing, and none is above the number of the last one printed.

**SessionProofs**, debugger and server together.

- `SessionTypesCorrect` adds `Calling`: which call can be outstanding where.
- `CallsAlternate` (`LockStep`) rests on `InStep`: between two calls nothing is on
  the line, and during one there is either the request (`Asked`) or its reply
  (`Answered`), never both.  Only a process that is killed in a call (`orphan`)
  leaves something behind, and the property excludes it.
- `ServedWith` says once what all handlers do as far as a debugger can tell:
  which reply, status, pc, table, texts and keys each request leaves.  The rest of
  the proofs uses this contract and no handler.
- `EndingsAreKnown` needs `Matched` (the request on the line is that of the call
  which waits, and only the user's keys can make it undecodable), `Edited` (only an
  edit brings a recompilation, and with it binaries that are gone) and `Endings`: a reset that follows an acknowledgement
  or the last chunk finds the computer paused, so that only an edit lets one be
  refused.
- `PausedMeansPaused`, `MarksMatchTheTable`, `PausedLineIsRight` and `NoTextIsLost`
  are about a view that is wrong *during* a call.  What is invariant is what the
  view will be once the reply on the line is read: the operators `...After` take a
  reply as `XReturns` does, and `Agreed`, `PcFollows` and `TextFollows` compare
  their results with the server for each place a call can have reached.
- `KeysReachTheComputer` rests on `KeysSafe`: a key is in the window, in `next_tx`,
  on the line or with the computer, and a request that may be refused carries only
  keys that the computer has already.
- `NoTextIsLost` assumes `MaxBurst <= 1`, as above.  `KeysReachTheComputer`
  assumes `KeysReach`: the computer implements `on_keypress`, which is optional,
  and a frame brings fewer keys than the field of a request holds; with more, the
  server cannot decode the request (`CallsReturn.cfg` shows what follows).

**FramingProofs.**  `SizeRoundTrip`: for every base and every size that fits,
`SizeOf` inverts `SizeBytes`, and a reader sees the second byte when there is one.
`RequestsArrive` and `RepliesArrive` follow from `FramesAddUp`: in each direction,
what the reader has taken, what is on the line and what the writer has still to
write are, in this order, the bytes of the frames that are due (`Upward`,
`Downward`): one request, but any number of frames of the server, which `Laid`
sets out one behind the other behind the one that is being read.  A read for the
rest of a body that meets no size byte stays within that frame.  Of the two cases
that `calm` excepts, a late second size byte breaks the sum for one direction
(`Misread`: the body then begins with a size byte), and a read into the next frame
keeps it, with a body that is too long; the server's direction holds all the same.

**UploadProofs.**  `TypeCorrect`, and `RomIsWritten`: for every chunk size, number
and size of binaries and recompilations, a finished upload of well-placed binaries
has put every byte in its place.  The invariant adds `Progress`: while an upload is
under way, the binaries before the current one are in memory and so are the first
`next` chunks of the current one, unless the latest compilation has no binary;
disjointness keeps a later write from spoiling an earlier one.

**FileWatcherProofs.**  `TypeCorrect`, `EditsAreNotForgotten`, and
`EditsStayNoticeable`, which says of a file that is not noticed yet that the thread
will see it.  `Owed` gives each place of `Model::update` its debt: before `clear`,
a file read and not late is compiled at its present time; while `store`, one stored
has at most the time compiled, one not stored has it on disk; `ThreadAway` keeps
the thread out of the map meanwhile.

**TerminalProofs.**  `CursorStays`, `OptionsStay`, and `TerminalImplementsSheet`
(`Spec => Refines`), for every size of screen, every text and every order of
settings.  `CursorOnScreen` is not inductive: within a character the cursor may
leave the screen for the wrap and the scroll to bring it back, and before a machine
is loaded there is no screen.  The invariant is `TypeOK` with `Phases` (when there
is a screen), `CursorInside`, `OptionsAgree` and the types of the emulator.  The
refinement maps each branch of `Character` to the step of `Sheet` for that character
under the setting in force, with the one cell it may change; the work is in a row
that scrolls, which is the same row of the paper.  `KeysAreEchoedOnce`:
keys pass from `typed` to `next_char`, to `a` and to the terminal, and at each of
these steps the chain of what is echoed and held stays a selection of what was
typed, whether the key is kept, dropped or overwritten (`Selected`).

**StartupProofs.**  `TypeCorrect`, `SessionsAreWhole`, `NoDeadEnds`,
`WindowsAreAsSaved`, `EndingsHaveCauses`, `RestartsRemember`.  The invariant is
`TypeOK` with `Causes` (what has to be in `past` for the process to be as it is),
`Behind` (what a link, a compilation and a session have behind them in the
definition and on the Lua stack) and `Shown` (windows against settings, with the
windows hidden by a collapsed close).  Nothing is assumed of the definitions but
the types.  `EndingsHaveCauses` and `RestartsRemember` need `Stored` besides: as
long as nothing odd was saved, the file has the settings that the process has, and
their theme is a number.  That rests on `LoadInvertsSave`, for every configuration
whose values are one word each; the words that are in play (`Order`) include all
that the program and the user can write (`WordsAssumption`).

**WindowsProofs.**  `TypeCorrect`, `CodeFollowsPc`, `MemoryIsShown`,
`RegistersAreShown`.  The list of files only grows, by all the files of each
compilation, so that an index stays in it (`FilesGrow`).  A paused computer's pc has a row in the selected file, or in
the file of the line that waits to be scrolled to (`PcListed`); a byte of page 0
carries its address, and the computer's value unless the byte was stored since
(`BytesShown`); while the computer runs, no register is shown
(`NothingShownRunning`), so that what changes them cannot be seen.

**LuaClientProofs.**  `BeliefsHold` (`ScriptMemory`) and `KnowledgeHolds`
(`ScriptKnows`).  A memory that is written under a belief is a memory of a computer
that the script has let run: `BelievesOnlyPaused` makes it inductive.

The step proofs have one step per action and one per conjunct it can disturb;
facts used in several places are lemmas.  Where a fact goes by induction over the
length of a sequence (`LoadInvertsSave`, the pages of `WindowsProofs`), the proof
takes the least length for which it would fail: the library's well-founded order
on finite sets gives that a set of numbers has a least one (`Least`), which needs
no theorem with an operator as its parameter.

Model-checked only: the liveness properties `CallsReturn`, `StopNoticed`,
`PausePauses`, `UploadEnds`, `EditsAreCompiled` and `LastKeyEchoed`, which need
fairness and `ENABLED`.

## 5. Plan

Done: the server, the session, framing, upload and watcher; the terminal and its
refinement; the start of a process, its settings and machine; the windows; the Lua
library; and a proof of every safety property of these.

What is left, in this order:

1. An abstract request/reply channel that `Session` implements, on `InStep` and
   `ServedWith`, and the refinement as a theorem.
2. The safety parts of the liveness arguments: what decreases while an upload, a
   read in pages or a wait for a stop goes on.
3. The hazards without a property, should the code decide what it promises
   there (`PROJECT.json` says what it does).

## 6. Not modelled

ImGui, OpenGL and the layout of windows, colours, columns and single rows; the
window of debug texts and the upload window, which draw what the model holds;
`fmt_addr`; the wire format of protobuf; libtmt; Lua itself and the compilers; the
script that finds serial ports; printing; the baud rate and the pid of a running
emulator (`fdbg_die_if_parent_dies` only asks whether the parent is process 1);
the sizes that `set_computer_status` and `cycle` check besides the number of
registers; short writes, serial errors, the three-second limit of a body and an
`errno` left by another call (`libfdbg-client.cc:142`); what happens after a frame
was misread; a computer without a `read_memory` callback, for which the server
answers zeros (`libfdbg-server.c:222-223`), where `Windows` and `LuaClient` compare
bytes; the board start-up around `fdbg_server_next`.  `PROJECT.json` gives
the reason for each component.  An `events->reset` is taken to set the computer to
address zero.
