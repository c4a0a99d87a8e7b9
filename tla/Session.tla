------------------------------- MODULE Session -------------------------------
(***************************************************************************)
(* A debugging session: the debugger (src/debugger/model/model.cc, driven  *)
(* by the frames of ui.cc and the windows, over libfdbg-client.cc) and the *)
(* server of FdbgServer at the two ends of the serial line.                *)
(*                                                                         *)
(* The debugger is one thread.  A frame runs Model::update and then draws  *)
(* the windows; a call of the client library sends a request and blocks    *)
(* the frame until its reply is read.  What update throws ends the         *)
(* program (ui.cc:119); what a window throws is shown in a message box.    *)
(* Bound: the user gives at most one command per frame.                    *)
(***************************************************************************)
EXTENDS FdbgServer

CONSTANTS
    ChunkCount,     \* calls of write_memory_step that upload the ROM
    PageReads,      \* read_memory requests that load a memory page (4)
    KeysPerFrame,   \* bound: keys typed during one frame
    MaxEdits,       \* bound: modifications of the watched source files
    MaxRestarts     \* bound: times the debugger is started again

ASSUME SessionAssumption ==
    /\ ChunkCount \in Nat \ {0} /\ PageReads \in Nat \ {0}
    /\ KeysPerFrame \in Nat /\ MaxEdits \in Nat /\ MaxRestarts \in Nat

VARIABLES
    at,            \* the frame: "upload", "poll", "watch" (update), "draw",
                   \* "drawn" once its command is done, "wait" inside
                   \* FdbgClient::receive, or "terminated"
    call,          \* the client call that waits for its reply, or "none"
    connected,     \* the startup window has connected, closed, and is done
                   \* with upload_rom_and_start
    started,       \* debugging_session_started_
    upload_,       \* write_memory_step calls left; 0 when there is no upload;
                   \* Gone when a recompilation took its binaries away
    reads,         \* read_memory replies the page being loaded still needs
    running_, breakpoints_, pc_,
    registers_,    \* computer_status_: "unknown", "current" or "outdated"
    updated,       \* file_watcher_.updated()
    popup,         \* the Keypress window is open
    keys,          \* InputQueueCharacters of this frame
    next_tx,       \* terminal_model_.next_tx, <<>> when not set
    shown,         \* texts given to the terminal, in order
    typed,         \* history: keys typed so far
    discarded,     \* history: keys the user took back from next_tx
    ignored,       \* history: texts were lost, in a reply whose texts the
                   \* model ignores or by a key pressed before the poll
    displaced,     \* history: the computer moved and pc_ was not told: the
                   \* reply of interrupt has no pc, that of cycle cannot
                   \* say zero, that of a failed step is thrown away; or
                   \* a step or reset overtook the poll of a stop
    cause,         \* history: the call that ended the debugger, its status
    orphan,        \* history: it was killed while a call waited
    edits, restarts,
    matches        \* the computer sends as many registers and flags as the
                   \* machine definition has, or none

frame == <<at, call>>
model == <<connected, started, upload_, reads, running_, breakpoints_, pc_,
           registers_, updated, popup, keys, next_tx, shown>>
past  == <<typed, discarded, ignored, displaced, cause, orphan, edits, restarts, matches>>
uiVars == <<frame, model, past>>
vars  == <<serverVars, uiVars>>
Line == <<rx, tx>>
serverSide == <<loop, server, computer, history>>

Gone == -1

\* init_debugging_session is called by Model::update, or by the startup window
\* when the first compilation has no binaries.
InitCalls == {"init_reset", "init_read"}

\* The calls made by Model::update; all others are made by windows.
UpdateCalls == {"upload", "poll"} \cup IF connected THEN InitCalls ELSE {}

\* The request of a call, and the message_type the client expects back.
RequestOf ==
    [ack |-> "ack", upload |-> "write_memory", init_reset |-> "reset",
     init_read |-> "read_memory", poll |-> "get_run_status", step |-> "step",
     next |-> "next", pause |-> "pause", run |-> "run",
     run_forever |-> "run_forever", reset |-> "reset",
     bkp_add |-> "bkp_add", bkp_remove |-> "bkp_remove",
     bkp_clear |-> "bkp_clear", cycle |-> "cycle", page |-> "read_memory",
     interrupt |-> "interrupt"]

Calls == DOMAIN RequestOf

ExpectedOf ==
    [ack |-> "ack_response", upload |-> "write_memory_response",
     init_reset |-> "computer_status", init_read |-> "read_memory_response",
     poll |-> "run_status", step |-> "computer_status", next |-> "run_status",
     pause |-> "computer_status", run |-> "none", run_forever |-> "none",
     reset |-> "computer_status", bkp_add |-> "breakpoint_list",
     bkp_remove |-> "breakpoint_list", bkp_clear |-> "breakpoint_list",
     cycle |-> "cycle_response", page |-> "read_memory_response",
     interrupt |-> "none"]

-----------------------------------------------------------------------------
(* FdbgClient::send and receive *)

Send(c, request) ==
    /\ rx' = Append(rx, request)
    /\ call' = c
    /\ at' = "wait"
    /\ UNCHANGED <<tx, serverSide>>

Send0(c) == Send(c, Ask(RequestOf[c]))

\* receive accepts any reply without a message; ack looks for the id in it.
Accepts(c, reply) ==
    /\ reply.status = "OK"
    /\ \/ reply.which = ExpectedOf[c]
       \/ reply.which = "none" /\ c # "ack"

\* The frame read is taken for the reply of call c.
Returns(c) ==
    /\ at = "wait" /\ call = c /\ tx # <<>>
    /\ Accepts(c, Head(tx))
    /\ tx' = Tail(tx)

\* A call made by a window has returned.
EndsCommand ==
    /\ at' = "drawn" /\ call' = "none"
    /\ UNCHANGED <<rx, serverSide>>

\* A debug frame is shown, and receive waits for the next frame.
MutReceiveDebug ==
    /\ at = "wait" /\ tx # <<>> /\ Head(tx).which = "debug"
    /\ tx' = Tail(tx)
    /\ EndsCommand
    /\ UNCHANGED <<model, past>>
ReceiveDebug ==
    /\ at = "wait" /\ tx # <<>> /\ Head(tx).which = "debug"
    /\ tx' = Tail(tx)
    /\ UNCHANGED <<frame, model, past, rx, serverSide>>

\* receive throws on an error status or an unexpected message.  In update
\* nothing catches the exception; in a window UI::run shows a message box.
Throws ==
    /\ at = "wait" /\ tx # <<>>
    /\ Head(tx).which # "debug" /\ ~ Accepts(call, Head(tx))
    /\ tx' = Tail(tx)
    /\ IF call \in UpdateCalls
       THEN at' = "terminated" /\ cause' = <<call, Head(tx).status>>
       ELSE at' = "drawn" /\ UNCHANGED cause
    /\ connected' = (connected \/ call \in InitCalls)
    /\ ignored' = (ignored \/ Head(tx).events # <<>>)
    /\ displaced' = (displaced \/ call = "step")
    /\ call' = "none"
    /\ UNCHANGED <<started, upload_, reads, running_, breakpoints_, pc_, registers_, updated,
                   popup, keys, next_tx, shown, typed, discarded, orphan, edits, restarts,
                   matches, rx, serverSide>>

-----------------------------------------------------------------------------
(* Model::update *)

\* write_memory_step, one request per frame while a ROM is uploaded
UploadStep ==
    /\ at = "upload" /\ upload_ # Gone
    /\ IF upload_ > 0 THEN Send0("upload")
       ELSE at' = "poll" /\ UNCHANGED <<call, Line, serverSide>>
    /\ UNCHANGED <<model, past>>

\* debug_.binaries is empty and is read all the same: undefined, and taken
\* for the end of the program.
UploadUndefined ==
    /\ at = "upload" /\ upload_ = Gone
    /\ at' = "terminated" /\ cause' = <<"upload", "UNDEFINED">>
    /\ UNCHANGED <<call, Line, serverSide, model, typed, discarded, ignored, displaced,
                   orphan, edits, restarts, matches>>

\* init_debugging_session begins with a reset.
BeginsSession ==
    rx' = Append(rx, Ask("reset")) /\ call' = "init_reset" /\ at' = "wait"

\* After the last step the session begins.
UploadReturns ==
    /\ Returns("upload")
    /\ upload_' = upload_ - 1
    /\ IF upload_ = 1
       THEN BeginsSession /\ UNCHANGED serverSide
       ELSE at' = "poll" /\ call' = "none" /\ UNCHANGED <<rx, serverSide>>
    /\ UNCHANGED <<connected, started, reads, running_, breakpoints_, pc_, registers_,
                   updated, popup, keys, next_tx, shown, past>>

\* set_computer_status throws before it takes anything from the reply.
InitMismatch ==
    /\ Returns("init_reset") /\ ~ matches
    /\ IF connected THEN at' = "terminated" /\ cause' = <<"init_reset", "OK">>
                    ELSE at' = "drawn" /\ UNCHANGED cause
    /\ connected' = TRUE /\ call' = "none"
    /\ UNCHANGED <<rx, serverSide, started, upload_, reads, running_, breakpoints_, pc_,
                   registers_, updated, popup, keys, next_tx, shown, typed, discarded,
                   ignored, displaced, orphan, edits, restarts, matches>>

\* init_debugging_session: the reply to reset, then the first memory page.
InitReset ==
    /\ Returns("init_reset") /\ matches
    /\ pc_' = Head(tx).pc /\ registers_' = "current" /\ displaced' = FALSE
    /\ reads' = PageReads
    /\ rx' = Append(rx, Ask("read_memory"))
    /\ call' = "init_read"
    /\ UNCHANGED <<at, serverSide, connected, started, upload_, running_, breakpoints_,
                   updated, popup, keys, next_tx, shown,
                   typed, discarded, ignored, cause, orphan, edits, restarts, matches>>

\* update returns after init_debugging_session, without polling; the startup
\* window has used its frame for its one command.
InitRead ==
    /\ Returns("init_read")
    /\ reads' = reads - 1
    /\ IF reads > 1
       THEN /\ rx' = Append(rx, Ask("read_memory"))
            /\ UNCHANGED <<frame, connected, started, serverSide>>
       ELSE /\ connected' = TRUE /\ started' = TRUE
            /\ at' = IF connected THEN "draw" ELSE "drawn"
            /\ call' = "none"
            /\ UNCHANGED <<rx, serverSide>>
    /\ UNCHANGED <<upload_, running_, breakpoints_, pc_, registers_, updated,
                   popup, keys, next_tx, shown, past>>

\* get_user_events: next_tx and, while running, the keys of this frame.
\* next_tx and the keys travel as two texts.
MutUserEvents == next_tx
UserEvents == next_tx \o (IF running_ THEN keys ELSE <<>>)
LongestText ==
    IF running_ /\ Len(keys) > Len(next_tx) THEN Len(keys) ELSE Len(next_tx)

PollStep ==
    /\ at = "poll" /\ running_
    /\ Send("poll", [Ask("get_run_status") EXCEPT !.keys = UserEvents,
                                                 !.longest = LongestText])
    /\ next_tx' = <<>>
    /\ UNCHANGED <<connected, started, upload_, reads, running_, breakpoints_, pc_,
                   registers_, updated, popup, keys, shown, past>>

PollSkipped ==
    /\ at = "poll" /\ ~ running_
    /\ at' = "watch"
    /\ UNCHANGED <<call, model, past, Line, serverSide>>

MutPollReturns ==
    /\ Returns("poll")
    /\ running_' = Head(tx).running
    /\ pc_' = Head(tx).pc
    /\ shown' = IF Head(tx).running THEN shown \o Head(tx).events ELSE shown
    /\ at' = "watch" /\ call' = "none"
    /\ UNCHANGED <<rx, serverSide, connected, started, upload_, reads,
                   breakpoints_, registers_, updated, popup, keys, next_tx, past>>
MutPollKeepsRunning ==
    /\ Returns("poll")
    /\ pc_' = Head(tx).pc
    /\ shown' = shown \o Head(tx).events
    /\ at' = "watch" /\ call' = "none"
    /\ UNCHANGED <<rx, serverSide, connected, started, upload_, reads, running_,
                   breakpoints_, registers_, updated, popup, keys, next_tx, past>>
PollReturns ==
    /\ Returns("poll")
    /\ running_' = Head(tx).running
    /\ pc_' = Head(tx).pc
    /\ shown' = shown \o Head(tx).events
    /\ at' = "watch" /\ call' = "none"
    /\ UNCHANGED <<rx, serverSide, connected, started, upload_, reads,
                   breakpoints_, registers_, updated, popup, keys, next_tx, past>>

\* The watched files changed: compile throws, or the new ROM is uploaded.
WatchStep ==
    /\ at = "watch"
    /\ \/ /\ ~ updated
          /\ at' = "draw"
          /\ UNCHANGED <<upload_, updated, cause>>
       \/ /\ updated
          /\ at' = "draw"
          /\ updated' = FALSE /\ upload_' = ChunkCount
          /\ UNCHANGED cause
       \/ /\ updated
          /\ at' = "terminated" /\ cause' = <<"compile", "OK">>
          /\ UNCHANGED <<upload_, updated>>
    /\ UNCHANGED <<call, Line, serverSide, connected, started, reads, running_,
                   breakpoints_, pc_, registers_, popup, keys, next_tx, shown,
                   typed, discarded, ignored, displaced, orphan, edits, restarts, matches>>

\* Without a binary the session begins at once, by a reset that the computer
\* refuses if it runs; an upload under way is not called off.
WatchEmpty ==
    /\ at = "watch" /\ updated
    /\ updated' = FALSE
    /\ upload_' = IF upload_ = 0 THEN 0 ELSE Gone
    /\ BeginsSession
    /\ UNCHANGED <<tx, serverSide, connected, started, reads, running_,
                   breakpoints_, pc_, registers_, popup, keys, next_tx, shown, past>>

-----------------------------------------------------------------------------
(* The windows: commands of the user *)

\* A window button needs no modal window over it; a function key of the code
\* window works through one.
Key    == at = "draw" /\ started
Button == Key /\ upload_ = 0 /\ ~ popup

\* Startup, "Connect & Upload": connect clears the line, then ack.
Connect ==
    /\ at = "draw" /\ ~ connected
    /\ tx' = <<>>
    /\ rx' = Append(rx, Ask("ack"))
    /\ call' = "ack" /\ at' = "wait"
    /\ UNCHANGED <<serverSide, model, past>>

Acknowledged ==
    /\ Returns("ack")
    /\ connected' = TRUE
    /\ upload_' = ChunkCount
    /\ EndsCommand
    /\ UNCHANGED <<started, reads, running_, breakpoints_, pc_, registers_, updated,
                   popup, keys, next_tx, shown, past>>

\* upload_rom_and_start without a binary: the session begins in the window.
AcknowledgedEmpty ==
    /\ Returns("ack")
    /\ BeginsSession
    /\ UNCHANGED <<serverSide, model, past>>

\* draw_buttons, draw_footer, cycles.cc, memory.cc and interrupt.cc.  While
\* running_ the buttons are disabled, but the keys F8 and F2 (and F7) are not;
\* F9 is Run or Pause.
Command ==
    /\ \/ \E c \in {"next", "reset"} : Key /\ Send0(c)
       \/ \E c \in {"run_forever", "cycle"} : Button /\ ~ running_ /\ Send0(c)
       \/ Key /\ Send0(IF running_ THEN "pause" ELSE "run")
       \/ Button /\ Send0("interrupt")
    /\ UNCHANGED <<model, past>>

\* memory.cc: another page is loaded.
ChangePage ==
    /\ Button /\ ~ running_
    /\ Send0("page")
    /\ reads' = PageReads
    /\ UNCHANGED <<connected, started, upload_, running_, breakpoints_, pc_, registers_,
                   updated, popup, keys, next_tx, shown, past>>

Step_ ==
    /\ Key
    /\ Send("step", [Ask("step") EXCEPT !.keys = UserEvents, !.longest = LongestText])
    /\ next_tx' = <<>>
    /\ UNCHANGED <<connected, started, upload_, reads, running_, breakpoints_, pc_,
                   registers_, updated, popup, keys, shown, past>>

\* A click on an address toggles its breakpoint; "Clear bkps" forgets the
\* model's set before it asks the server.
ToggleBreakpoint ==
    /\ Button /\ ~ running_
    /\ \E addr \in Addr :
         LET c == IF addr \in breakpoints_ THEN "bkp_remove" ELSE "bkp_add"
         IN  Send(c, [Ask(c) EXCEPT !.addr = addr])
    /\ UNCHANGED <<model, past>>

ClearBreakpoints ==
    /\ Button /\ ~ running_
    /\ Send0("bkp_clear")
    /\ breakpoints_' = {}
    /\ UNCHANGED <<connected, started, upload_, reads, running_, pc_, registers_, updated,
                   popup, keys, next_tx, shown, past>>

-----------------------------------------------------------------------------
(* What the commands make of their replies *)

\* set_computer_status; step also prints the texts, reset and pause ignore
\* them.  A reset also empties the server's queue: the last texts of a
\* computer that stopped before F2, and was still shown running, are lost;
\* before F7, those that do not fit in a computer_status.  And neither F2
\* nor F7 changes the last_pc that the next poll will show.
ResetReturns ==
    /\ Returns("reset")
    /\ pc_' = Head(tx).pc /\ registers_' = "current" /\ displaced' = running_
    /\ ignored' = (ignored \/ running_)
    /\ EndsCommand
    /\ UNCHANGED <<connected, started, upload_, reads, running_, breakpoints_, updated,
                   popup, keys, next_tx, shown,
                   typed, discarded, cause, orphan, edits, restarts, matches>>

StepReturns ==
    /\ Returns("step")
    /\ shown' = shown \o Head(tx).events
    /\ pc_' = Head(tx).pc /\ registers_' = "current" /\ displaced' = running_
    /\ ignored' = (ignored \/ (running_ /\ Len(Head(tx).events) = MaxEventsStep))
    /\ EndsCommand
    /\ UNCHANGED <<connected, started, upload_, reads, running_, breakpoints_, updated,
                   popup, keys, next_tx, typed, discarded, cause, orphan, edits, restarts, matches>>

PauseReturns ==
    /\ Returns("pause")
    /\ pc_' = Head(tx).pc /\ registers_' = "current" /\ displaced' = FALSE
    /\ running_' = FALSE
    /\ ignored' = (ignored \/ Head(tx).events # <<>>)
    /\ EndsCommand
    /\ UNCHANGED <<connected, started, upload_, reads, breakpoints_, updated, popup,
                   keys, next_tx, shown, typed, discarded, cause, orphan, edits, restarts, matches>>

RunReturns ==
    /\ Returns("run") \/ Returns("run_forever")
    /\ running_' = TRUE /\ registers_' = "unknown" /\ displaced' = FALSE
    /\ EndsCommand
    /\ UNCHANGED <<connected, started, upload_, reads, breakpoints_, pc_, updated, popup,
                   keys, next_tx, shown, typed, discarded, ignored, cause, orphan, edits, restarts, matches>>

\* Model::next: either the computer runs to the return of the subroutine, or
\* it has executed one instruction and only the pc is brought up to date.
MutNextReturns ==
    /\ Returns("next")
    /\ pc_' = Head(tx).pc
    /\ registers_' = IF registers_ = "current" THEN "outdated" ELSE registers_
    /\ displaced' = FALSE
    /\ ignored' = (ignored \/ Head(tx).events # <<>>)
    /\ EndsCommand
    /\ UNCHANGED <<connected, started, upload_, reads, running_, breakpoints_, updated,
                   popup, keys, next_tx, shown, typed, discarded, cause, orphan, edits, restarts, matches>>
NextReturns ==
    /\ Returns("next")
    /\ IF Head(tx).running
       THEN running_' = TRUE /\ registers_' = "unknown" /\ UNCHANGED pc_
       ELSE /\ pc_' = Head(tx).pc
            /\ registers_' = IF registers_ = "current" THEN "outdated" ELSE registers_
            /\ UNCHANGED running_
    /\ displaced' = FALSE
    /\ ignored' = (ignored \/ Head(tx).events # <<>>)
    /\ EndsCommand
    /\ UNCHANGED <<connected, started, upload_, reads, breakpoints_, updated, popup, keys,
                   next_tx, shown, typed, discarded, cause, orphan, edits, restarts, matches>>

BreakpointReturns ==
    /\ \/ /\ Returns("bkp_add") \/ Returns("bkp_remove")
          /\ breakpoints_' = Head(tx).list
       \/ Returns("bkp_clear") /\ UNCHANGED breakpoints_
    /\ EndsCommand
    /\ UNCHANGED <<connected, started, upload_, reads, running_, pc_, registers_, updated,
                   popup, keys, next_tx, shown, past>>

MutPageReturns ==
    /\ Returns("page")
    /\ reads' = reads - 1
    /\ IF reads > 0
       THEN rx' = Append(rx, Ask("read_memory")) /\ UNCHANGED <<frame, serverSide>>
       ELSE EndsCommand
    /\ UNCHANGED <<connected, started, upload_, running_, breakpoints_, pc_, registers_,
                   updated, popup, keys, next_tx, shown, past>>
PageReturns ==
    /\ Returns("page")
    /\ reads' = reads - 1
    /\ IF reads > 1
       THEN rx' = Append(rx, Ask("read_memory")) /\ UNCHANGED <<frame, serverSide>>
       ELSE EndsCommand
    /\ UNCHANGED <<connected, started, upload_, running_, breakpoints_, pc_, registers_,
                   updated, popup, keys, next_tx, shown, past>>

\* Model::cycle takes a pc of zero for one the computer did not send.
CycleReturns ==
    /\ Returns("cycle")
    /\ pc_' = IF Head(tx).pc # 0 THEN Head(tx).pc ELSE pc_
    /\ displaced' = (Head(tx).pc = 0)
    /\ EndsCommand
    /\ UNCHANGED <<connected, started, upload_, reads, running_, breakpoints_, registers_,
                   updated, popup, keys, next_tx, shown, typed, discarded, ignored,
                   cause, orphan, edits, restarts, matches>>

InterruptReturns ==
    /\ Returns("interrupt")
    /\ displaced' = TRUE
    /\ EndsCommand
    /\ UNCHANGED <<model, typed, discarded, ignored, cause, orphan, edits, restarts, matches>>

-----------------------------------------------------------------------------
(* The terminal window and the keyboard *)

KeysIn(s) == {s[i] : i \in 1 .. Len(s)}

\* Bound: not opened when no key will be typed any more.
OpenKeypress ==
    /\ Button /\ ~ running_ /\ next_tx = <<>> /\ typed < MaxInput
    /\ popup' = TRUE
    /\ at' = "drawn"
    /\ UNCHANGED <<call, Line, serverSide, connected, started, upload_, reads, running_,
                   breakpoints_, pc_, registers_, updated, keys, next_tx, shown, past>>

\* "Cancel" in the Keypress window (a key of the same frame still counts)
CancelKeypress ==
    /\ at = "draw" /\ popup /\ keys = <<>>
    /\ popup' = FALSE
    /\ at' = "drawn"
    /\ UNCHANGED <<call, Line, serverSide, connected, started, upload_, reads, running_,
                   breakpoints_, pc_, registers_, updated, keys, next_tx, shown, past>>

\* "Clear" beside the key to send next
ClearNextTx ==
    /\ Button /\ ~ running_ /\ next_tx # <<>>
    /\ next_tx' = <<>>
    /\ discarded' = discarded \cup KeysIn(next_tx)
    /\ at' = "drawn"
    /\ UNCHANGED <<call, Line, serverSide, connected, started, upload_, reads, running_,
                   breakpoints_, pc_, registers_, updated, popup, keys, shown, typed,
                   ignored, displaced, cause, orphan, edits, restarts, matches>>

\* KeyPress::draw reads the keys of the frame, even if a poll has sent them.
Keypress ==
    /\ at \in {"draw", "drawn"} /\ popup /\ keys # <<>>
    /\ popup' = FALSE
    /\ next_tx' = keys
    /\ UNCHANGED <<frame, Line, serverSide, connected, started, upload_, reads, running_,
                   breakpoints_, pc_, registers_, updated, keys, shown, past>>

\* The next frame begins with the keys typed meanwhile.  Keys nobody will
\* read are left out.
EndFrame ==
    /\ at \in {"draw", "drawn"} /\ ~ (popup /\ keys # <<>>)
    /\ at' = "upload"
    /\ \E n \in 0 .. Lesser(KeysPerFrame, MaxInput - typed) :
         /\ n > 0 => running_ \/ popup
         /\ keys' = [k \in 1 .. n |-> typed + k]
         /\ typed' = typed + n
    /\ UNCHANGED <<call, Line, serverSide, connected, started, upload_, reads, running_,
                   breakpoints_, pc_, registers_, updated, popup, next_tx, shown,
                   discarded, ignored, displaced, cause, orphan, edits, restarts, matches>>

-----------------------------------------------------------------------------
(* The world outside *)

\* The file watcher notices a modification (FileWatcher has the details).
Edit ==
    /\ connected /\ edits < MaxEdits /\ at # "terminated"
    /\ updated' = TRUE
    /\ edits' = edits + 1
    /\ UNCHANGED <<frame, Line, serverSide, connected, started, upload_, reads, running_,
                   breakpoints_, pc_, registers_, popup, keys, next_tx, shown,
                   typed, discarded, ignored, displaced, cause, orphan, restarts, matches>>

\* The debugger has ended, or the user quits it, perhaps while a call waits;
\* it is started again while the computer goes on.
Restart ==
    /\ restarts < MaxRestarts
    /\ restarts' = restarts + 1
    /\ orphan' = (orphan \/ at = "wait")
    /\ at' = "draw" /\ call' = "none"
    /\ connected' = FALSE /\ started' = FALSE
    /\ upload_' = 0 /\ reads' = 0
    /\ running_' = FALSE /\ breakpoints_' = {} /\ pc_' = 0
    /\ registers_' = "unknown"
    /\ updated' = FALSE /\ popup' = FALSE
    /\ keys' = <<>> /\ next_tx' = <<>> /\ shown' = <<>>
    /\ ignored' = FALSE /\ displaced' = FALSE /\ cause' = <<"none", "OK">>
    /\ matches' \in BOOLEAN
    /\ UNCHANGED <<Line, serverSide, typed, discarded, edits>>

-----------------------------------------------------------------------------
SessionInit ==
    /\ Init
    /\ at = "draw" /\ call = "none"
    /\ connected = FALSE /\ started = FALSE
    /\ upload_ = 0 /\ reads = 0
    /\ running_ = FALSE /\ breakpoints_ = {} /\ pc_ = 0
    /\ registers_ = "unknown"
    /\ updated = FALSE /\ popup = FALSE
    /\ keys = <<>> /\ next_tx = <<>> /\ shown = <<>>
    /\ typed = 0 /\ discarded = {} /\ ignored = FALSE /\ displaced = FALSE
    /\ cause = <<"none", "OK">>
    /\ orphan = FALSE /\ edits = 0 /\ restarts = 0 /\ matches \in BOOLEAN

Update == \/ UploadStep \/ UploadUndefined \/ UploadReturns
          \/ InitMismatch \/ InitReset \/ InitRead
          \/ PollStep \/ PollSkipped \/ PollReturns \/ WatchStep \/ WatchEmpty

UserCommand == \/ Connect \/ Command \/ ChangePage \/ Step_ \/ ToggleBreakpoint
               \/ ClearBreakpoints \/ OpenKeypress
               \/ CancelKeypress \/ ClearNextTx

CommandReturns == \/ Acknowledged \/ AcknowledgedEmpty \/ ResetReturns \/ StepReturns \/ PauseReturns
                  \/ RunReturns \/ NextReturns \/ BreakpointReturns
                  \/ PageReturns \/ CycleReturns \/ InterruptReturns

Debugger == Update \/ CommandReturns \/ ReceiveDebug \/ Throws \/ Keypress \/ EndFrame

SessionNext ==
    \/ ServerNext /\ UNCHANGED uiVars
    \/ Len(tx) < MaxPending /\ Debug /\ UNCHANGED uiVars
    \/ Debugger
    \/ UserCommand
    \/ Edit
    \/ Restart

\* Both programs keep running; nothing makes the user act.
SessionSpec ==
    /\ SessionInit /\ [][SessionNext]_vars
    /\ WF_vars(ServerNext /\ UNCHANGED uiVars)
    /\ WF_vars(Debugger)

-----------------------------------------------------------------------------
(* Properties *)

\* SessionTypeOK: the debugger's variables keep their types.
SessionTypeOK ==
    /\ at \in {"upload", "poll", "watch", "draw", "drawn", "wait", "terminated"}
    /\ call \in Calls \cup {"none"}
    /\ connected \in BOOLEAN /\ started \in BOOLEAN /\ running_ \in BOOLEAN
    /\ upload_ \in 0 .. ChunkCount \cup {Gone} /\ reads \in 0 .. PageReads
    /\ breakpoints_ \subseteq Addr /\ pc_ \in Addr
    /\ registers_ \in {"unknown", "current", "outdated"}
    /\ updated \in BOOLEAN /\ popup \in BOOLEAN
    /\ ignored \in BOOLEAN /\ displaced \in BOOLEAN /\ orphan \in BOOLEAN
    /\ matches \in BOOLEAN
    /\ keys \in Seq(Nat) /\ next_tx \in Seq(Nat) /\ shown \in Seq(Nat)
    /\ typed \in Nat /\ discarded \subseteq Nat /\ edits \in Nat /\ restarts \in Nat

\* LockStep: a request is on the line, or its reply is, exactly while the
\* debugger waits; so no call can read the reply of an earlier one, not even
\* after an error status, a message that was refused, or a restart between
\* two frames.  (A stale ack can answer the ack of a debugger that replaces
\* one killed in a call.)
Replies == {i \in 1 .. Len(tx) : tx[i].which # "debug"}
LockStep ==
    ~ orphan =>
        /\ Len(rx) + Cardinality(Replies) <= 1
        /\ at # "wait" => rx = <<>> /\ Replies = {}

\* RunningAgrees: outside a call, a debugger that shows the computer paused
\* is right.  (The other way round it may be wrong until the next poll.)  A
\* debugger started again may be wrong: a fault its predecessor never heard of
\* is still in run_status, and the reply of Next carries it with the computer
\* set running.
RunningAgrees == restarts = 0 /\ at # "wait" /\ running => running_

\* BreakpointsAgree: outside a call, the marked lines are the server's table,
\* also after a refused ADD and after address zero.
BreakpointsAgree ==
    at # "wait" /\ restarts = 0 => breakpoints_ = Listed(breakpoints)

\* PcShown: when the computer is shown paused, the highlighted line is where
\* the computer stands, however it was stopped, unless an interrupt, a
\* failed step, a cycle that ends at address zero, or F7 or F2 before the poll
\* that learns of a stop has moved it since.  (A
\* recompilation may spoil it: the reset of an upload leaves last_pc, which
\* the next poll shows.)
PcShown ==
    /\ started /\ ~ running_ /\ at \notin {"wait", "terminated"}
    /\ ~ displaced /\ edits = 0 /\ restarts = 0
    => pc_ = cpu_pc

\* TerminalComplete: outside a call, the terminal shows every text printed
\* so far, in order, up to those still queued in the server; unless a pause,
\* a next or a failed step was given texts, which the model ignores, or a
\* function key came before the poll that learns of a stop: a reset drops the
\* texts queued, a step those that do not fit in its reply.
TerminalComplete ==
    at # "wait" /\ ~ ignored /\ edits = 0 /\ restarts = 0 =>
        shown \o event_queue = [i \in 1 .. out |-> i]

\* NoKeyLost: when a frame begins, every key typed in an earlier one is with
\* the computer, waits in next_tx or was taken back by the user.
NoKeyLost ==
    at = "upload" /\ edits = 0 /\ restarts = 0 =>
        1 .. typed = KeysIn(input) \cup KeysIn(next_tx) \cup KeysIn(keys) \cup discarded

\* KnownEndings: races between the user's commands and a computer that stops
\* by itself never end the debugger.  Without a recompilation only a CPU error
\* found by a poll, an upload that the server refuses or cannot write, and
\* registers that are not those of the machine definition do.  A recompilation
\* may fail, may have no binaries while the computer runs and refuses the reset,
\* or while an upload goes on that needs them.
KnownEndings ==
    at = "terminated" /\ ~ orphan =>
        \/ cause \in {<<"poll", "CPU_INVALID_INSTRUCTION">>,
                     <<"upload", "INVALID_MESSAGE">>, <<"upload", "ERR_WRITING_MEMORY">>}
        \/ cause = <<"init_reset", "OK">> /\ ~ matches
        \/ /\ edits > 0
           /\ cause \in {<<"compile", "OK">>, <<"init_reset", "INVALID_MESSAGE">>,
                        <<"upload", "UNDEFINED">>}

\* CallsReturn: no call blocks the window for ever, except Run forever with a
\* computer that implements it: its callback never returns, the server does not
\* answer, and receive starts its two seconds again each time it polls the line.
CallsReturn ==
    at = "wait" ~> at # "wait" \/ (call = "run_forever" /\ pc = "forever")

\* StopNoticed: when the computer stops by itself the debugger comes to show
\* it as stopped (or ends, on an error), unless F8 has set it running again.
StopNoticed == running_ /\ ~ running ~> ~ running_ \/ running \/ at = "terminated"

\* PausePauses: Pause leads to a paused computer even when the computer
\* stops first and the server refuses the request.
PausePauses ==
    at = "wait" /\ call = "pause" ~> ~ running_ \/ at = "terminated"
=============================================================================
