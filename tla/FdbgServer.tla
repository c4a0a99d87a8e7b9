----------------------------- MODULE FdbgServer -----------------------------
(***************************************************************************)
(* The debug server linked into an emulator or a board                     *)
(* (src/library/server/libfdbg-server.c).  The program calls               *)
(* fdbg_server_next in an endless loop.  A call executes a bounded number  *)
(* of instructions when the computer is running, then polls the serial     *)
(* line for one request and answers it.                                    *)
(*                                                                         *)
(* The computer itself (the callbacks of FdbgServerEvents) is external:    *)
(* an instruction may go to any address, print up to MaxBurst texts, and   *)
(* fail.  Its prints are numbered 1, 2, ... so that order and loss show.   *)
(* The serial line carries whole frames here; Framing models its bytes.    *)
(***************************************************************************)
EXTENDS Integers, Sequences, FiniteSets

CONSTANTS
    MaxBreakpoints,    \* slots of the breakpoint table (16)
    MaxEventsStatus,   \* size of event_queue (36)
    MaxEventsStep,     \* events a computer_status can carry (4)
    RunSteps,          \* instructions per call of fdbg_server_next (512)
    AddrCount,         \* number of values of ADDR_TYPE (2^64, 2^16, ...)
    KeyTextSize,       \* bytes of a keypress text, its NUL included (8)
    Callbacks,         \* the optional callbacks this computer implements
    MaxBurst,          \* bound: texts printed by one instruction
    MaxOut,            \* bound: texts printed in a behaviour
    MaxInput,          \* bound: keys typed in a behaviour
    MaxPending         \* bound: frames on the line when one is added

OptionalCallbacks ==
    {"cycle", "write_memory", "read_memory", "run_forever",
     "on_keypress", "interrupt"}

ASSUME SizesAssumption ==
    /\ MaxBreakpoints \in Nat \ {0}
    /\ MaxEventsStatus \in Nat /\ MaxEventsStatus > 1
    /\ MaxEventsStep \in Nat \ {0} /\ MaxEventsStep < MaxEventsStatus
    /\ RunSteps \in Nat \ {0}
    /\ AddrCount \in Nat /\ AddrCount > 1
    /\ KeyTextSize \in Nat \ {0}
    /\ MaxBurst \in Nat /\ MaxOut \in Nat /\ MaxInput \in Nat /\ MaxPending \in Nat

ASSUME CallbacksAssumption == Callbacks \subseteq OptionalCallbacks

VARIABLES
    pc,            \* where fdbg_server_next is: "top", "run", "receive",
                   \* or "forever" inside the run_forever callback
    steps,         \* iterations left of the loop of fdbg_run_steps
    breakpoints, next_bkp, last_pc, event_queue, running, run_status,
    rx, tx,        \* request and reply frames on the serial line
    cpu_pc,        \* the computer's own program counter
    out,           \* texts the computer has printed so far
    input,         \* keys handed to on_keypress, in order
    stepped,       \* history: an instruction ran since running became true
    fault          \* history: an instruction failed and no reply has said so

loop     == <<pc, steps>>
server   == <<breakpoints, next_bkp, last_pc, event_queue, running, run_status>>
computer == <<cpu_pc, out, input>>
history  == <<stepped, fault>>
serverVars == <<pc, steps, breakpoints, next_bkp, last_pc, event_queue,
                running, run_status, rx, tx, cpu_pc, out, input, stepped, fault>>

-----------------------------------------------------------------------------
Addr == 0 .. AddrCount - 1

NO_BREAKPOINT == AddrCount - 1       \* ((ADDR_TYPE) -1)

Slots == 1 .. MaxBreakpoints

QueueCap == MaxEventsStatus - 1

Status == {"OK", "ERR_WRITING_MEMORY", "TOO_MANY_BREAKPOINTS",
           "INVALID_MESSAGE", "CPU_INVALID_INSTRUCTION",
           "METHOD_NOT_IMPLEMENTED"}

\* What events->step makes of the status it is given.
CpuStatus == {"OK", "CPU_INVALID_INSTRUCTION"}

\* The arms of ToComputer; a Breakpoint is named with its action and a Run
\* with forever = true is named run_forever.
RequestType ==
    {"ack", "reset", "write_memory", "read_memory", "cycle", "step",
     "bkp_add", "bkp_remove", "bkp_clear", "run", "run_forever", "next",
     "get_run_status", "pause", "interrupt"}

\* `keys` are the keys of all its user events, `longest` the length of the
\* longest text among them.
Request == [type : RequestType, addr : Addr, keys : Seq(Nat), longest : Nat]

ReplyType ==
    {"none", "ack_response", "write_memory_response", "read_memory_response",
     "computer_status", "breakpoint_list", "cycle_response", "run_status",
     "debug"}

Reply == [which : ReplyType, status : Status, running : BOOLEAN, pc : Addr,
          events : Seq(Nat), list : SUBSET Addr]

\* fdbg_ToDebugger_init_default: status OK, no message.
EmptyReply == [which |-> "none", status |-> "OK", running |-> FALSE, pc |-> 0,
               events |-> <<>>, list |-> {}]

Ask(t) == [type |-> t, addr |-> 0, keys |-> <<>>, longest |-> 0]

-----------------------------------------------------------------------------
(* Helpers of the handlers *)

Lesser(m, n) == IF m < n THEN m ELSE n

\* The event queue q after fdbg_server_push_event of n texts numbered after
\* `out`: a text that finds MaxEventsStatus - 1 queued is refused.
Pushed(q, n) ==
    q \o [k \in 1 .. Lesser(n, QueueCap - Len(q)) |-> out + k]

Bursts == {n \in 0 .. MaxBurst : out + n <= MaxOut}

\* fdbg_add_computer_status: the first MaxEventsStep events of q travel.
ComputerStatus(q, status, at) ==
    [EmptyReply EXCEPT !.which = "computer_status", !.status = status,
        !.pc = at, !.events = SubSeq(q, 1, Lesser(Len(q), MaxEventsStep))]

\* fdbg_build_run_status_message
RunStatusReply(q, isRunning, at) ==
    [EmptyReply EXCEPT !.which = "run_status", !.status = run_status,
        !.running = isRunning, !.pc = at, !.events = q]

\* A reply with this status tells the host of the fault, if it is an error.
Told(status) == fault' = (fault /\ status = "OK")

\* fdbg_execute_user_events
ExecuteUserEvents(keys) ==
    input' = IF "on_keypress" \in Callbacks THEN input \o keys ELSE input

\* pb_decode of the request: a keypress text longer than its field fails.
Decodable(r) == r.longest < KeyTextSize

\* comm_receive_next_message found request type t, complete and parsed.
Got(t) ==
    /\ pc = "receive"
    /\ rx # <<>> /\ Decodable(Head(rx)) /\ Head(rx).type = t
    /\ rx' = Tail(rx)

\* comm_send_message, then fdbg_server_next returns to the program's loop.
Answer(reply) ==
    /\ tx' = Append(tx, reply)
    /\ pc' = "top"
    /\ UNCHANGED steps

First(S) == CHOOSE i \in S : \A j \in S : i <= j

-----------------------------------------------------------------------------
(* fdbg_server_next *)

\* fdbg_server_init
Init ==
    /\ pc = "top" /\ steps = 0
    /\ breakpoints = [i \in Slots |-> NO_BREAKPOINT]
    /\ next_bkp = NO_BREAKPOINT
    /\ last_pc = 0
    /\ event_queue = <<>>
    /\ running = FALSE
    /\ run_status = "OK"
    /\ rx = <<>> /\ tx = <<>>
    /\ cpu_pc = 0 /\ out = 0 /\ input = <<>>
    /\ stepped = FALSE /\ fault = FALSE

Enter ==
    /\ pc = "top"
    /\ pc' = IF running THEN "run" ELSE "receive"
    /\ steps' = RunSteps
    /\ UNCHANGED <<server, rx, tx, computer, history>>

\* The events->step callback: the computer executes one instruction, which
\* moves to address p and prints n texts.
Instruction(p, n) ==
    /\ cpu_pc' = p
    /\ event_queue' = Pushed(event_queue, n)
    /\ out' = out + n
    /\ UNCHANGED input

AtBreakpoint(p) == \E j \in Slots : breakpoints[j] = p

MutStepsGuard ==
    pc = "run" /\ Len(event_queue) # QueueCap
MutPendingGuard ==
    pc = "run" /\ steps > 0 /\ Len(event_queue) # MaxEventsStatus
\* The loop of fdbg_run_steps goes on: iterations left, queue not full.
LoopGuard ==
    pc = "run" /\ steps > 0 /\ Len(event_queue) # QueueCap

\* The instruction fails: the server stops and keeps the status for later.
RunStepFails(p, n) ==
    /\ LoopGuard
    /\ Instruction(p, n)
    /\ last_pc' = p
    /\ running' = FALSE
    /\ run_status' = "CPU_INVALID_INSTRUCTION"
    /\ pc' = "receive" /\ stepped' = TRUE /\ fault' = TRUE
    /\ UNCHANGED <<steps, breakpoints, next_bkp, rx, tx>>

\* The target of Next is reached.
RunStepReachesNext(p, n) ==
    /\ LoopGuard
    /\ Instruction(p, n)
    /\ last_pc' = p
    /\ p = next_bkp
    /\ next_bkp' = NO_BREAKPOINT
    /\ running' = FALSE
    /\ pc' = "receive" /\ stepped' = TRUE
    /\ UNCHANGED <<steps, breakpoints, run_status, rx, tx, fault>>

\* A breakpoint of the table is reached; next_bkp is left as it is.
MutRunStepReachesBreakpoint(p, n) ==
    /\ LoopGuard
    /\ Instruction(p, n)
    /\ p # next_bkp /\ AtBreakpoint(p)
    /\ running' = FALSE
    /\ pc' = "receive" /\ stepped' = TRUE
    /\ UNCHANGED <<steps, breakpoints, next_bkp, last_pc, run_status, rx, tx, fault>>
RunStepReachesBreakpoint(p, n) ==
    /\ LoopGuard
    /\ Instruction(p, n)
    /\ last_pc' = p
    /\ p # next_bkp /\ AtBreakpoint(p)
    /\ running' = FALSE
    /\ pc' = "receive" /\ stepped' = TRUE
    /\ UNCHANGED <<steps, breakpoints, next_bkp, run_status, rx, tx, fault>>

MutRunStepGoesOn(p, n) ==
    /\ LoopGuard
    /\ Instruction(p, n)
    /\ last_pc' = p
    /\ p # next_bkp /\ ~ (\E j \in Slots \ {MaxBreakpoints} : breakpoints[j] = p)
    /\ steps' = steps - 1 /\ stepped' = TRUE
    /\ UNCHANGED <<pc, breakpoints, next_bkp, running, run_status, rx, tx, fault>>
RunStepGoesOn(p, n) ==
    /\ LoopGuard
    /\ Instruction(p, n)
    /\ last_pc' = p
    /\ p # next_bkp /\ ~ AtBreakpoint(p)
    /\ steps' = steps - 1 /\ stepped' = TRUE
    /\ UNCHANGED <<pc, breakpoints, next_bkp, running, run_status, rx, tx, fault>>

\* The loop ends: all iterations done, or the event queue is full.
RunEnds ==
    /\ pc = "run"
    /\ steps = 0 \/ Len(event_queue) = QueueCap
    /\ pc' = "receive"
    /\ UNCHANGED <<steps, server, rx, tx, computer, history>>

ReceiveNothing ==
    /\ pc = "receive" /\ rx = <<>>
    /\ pc' = "top"
    /\ UNCHANGED <<steps, server, rx, tx, computer, history>>

\* pb_decode fails: fdbg_server_next ignores the request and answers nothing.
ReceiveUndecodable ==
    /\ pc = "receive" /\ rx # <<>> /\ ~ Decodable(Head(rx))
    /\ rx' = Tail(rx)
    /\ pc' = "top"
    /\ UNCHANGED <<steps, server, tx, computer, history>>

-----------------------------------------------------------------------------
(* Requests answered whether the computer runs or not *)

MutGetRunStatus ==
    /\ Got("get_run_status")
    /\ ExecuteUserEvents(Head(rx).keys)
    /\ Answer(RunStatusReply(event_queue, running, last_pc))
    /\ run_status' = "OK" /\ Told(run_status)
    /\ UNCHANGED <<breakpoints, next_bkp, last_pc, event_queue, running, cpu_pc, out, stepped>>
GetRunStatus ==
    /\ Got("get_run_status")
    /\ ExecuteUserEvents(Head(rx).keys)
    /\ Answer(RunStatusReply(event_queue, running, last_pc))
    /\ event_queue' = <<>>
    /\ run_status' = "OK" /\ Told(run_status)
    /\ UNCHANGED <<breakpoints, next_bkp, last_pc, running, cpu_pc, out, stepped>>

\* The default branches of the two handlers.
MutInvalidMessage ==
    /\ \E t \in RequestType :
          /\ Got(t)
          /\ running # (t \in {"pause", "get_run_status"})
    /\ Answer([EmptyReply EXCEPT !.status = "INVALID_MESSAGE"])
    /\ UNCHANGED <<server, computer, history>>
MutInvalidSilent ==
    /\ \E t \in RequestType \ {"get_run_status"} :
          /\ Got(t)
          /\ running # (t = "pause")
    /\ pc' = "top"
    /\ UNCHANGED <<tx, steps, server, computer, history>>
InvalidMessage ==
    /\ \E t \in RequestType \ {"get_run_status"} :
          /\ Got(t)
          /\ running # (t = "pause")
    /\ Answer([EmptyReply EXCEPT !.status = "INVALID_MESSAGE"])
    /\ UNCHANGED <<server, computer, history>>

\* fdbg_handle_msg_running, pause
Pause ==
    /\ running /\ Got("pause")
    /\ running' = FALSE
    /\ next_bkp' = NO_BREAKPOINT
    /\ Answer(ComputerStatus(event_queue, "OK", cpu_pc))
    /\ event_queue' = <<>>
    /\ UNCHANGED <<breakpoints, last_pc, run_status, computer, history>>

-----------------------------------------------------------------------------
(* fdbg_handle_msg_paused *)

Ack ==
    /\ ~ running /\ Got("ack")
    /\ Answer([EmptyReply EXCEPT !.which = "ack_response"])
    /\ UNCHANGED <<server, computer, history>>

Reset ==
    /\ ~ running /\ Got("reset")
    /\ cpu_pc' = 0
    /\ Answer(ComputerStatus(<<>>, "OK", 0))
    /\ event_queue' = <<>>
    /\ UNCHANGED <<breakpoints, next_bkp, last_pc, running, run_status, out, input, history>>

\* The address step returns is dropped: last_pc keeps its value.
Step(p, n, status) ==
    /\ ~ running /\ Got("step")
    /\ ExecuteUserEvents(Head(rx).keys)
    /\ cpu_pc' = p
    /\ out' = out + n
    /\ Answer(ComputerStatus(Pushed(event_queue, n), status, p))
    /\ event_queue' = <<>>
    /\ UNCHANGED <<breakpoints, next_bkp, last_pc, running, run_status, history>>

MutRun ==
    /\ ~ running
    /\ Got("run") \/ (Got("run_forever") /\ "run_forever" \notin Callbacks)
    /\ running' = TRUE /\ stepped' = FALSE
    /\ run_status' = "OK"
    /\ Answer(EmptyReply)
    /\ UNCHANGED <<breakpoints, next_bkp, last_pc, event_queue, computer, fault>>
Run ==
    /\ ~ running
    /\ Got("run") \/ (Got("run_forever") /\ "run_forever" \notin Callbacks)
    /\ running' = TRUE /\ stepped' = FALSE
    /\ Answer(EmptyReply)
    /\ UNCHANGED <<breakpoints, next_bkp, last_pc, event_queue, run_status, computer, fault>>

\* run_forever takes the processor and does not return.
RunForever ==
    /\ ~ running /\ Got("run_forever") /\ "run_forever" \in Callbacks
    /\ pc' = "forever"
    /\ UNCHANGED <<steps, server, tx, computer, history>>

\* next_instruction says that a subroutine call is next, to return to addr.
NextOver(addr) ==
    /\ ~ running /\ Got("next")
    /\ next_bkp' = addr
    /\ running' = TRUE /\ stepped' = FALSE
    /\ Answer(RunStatusReply(event_queue, TRUE, last_pc))
    /\ event_queue' = <<>>
    /\ run_status' = "OK" /\ Told(run_status)
    /\ UNCHANGED <<breakpoints, last_pc, computer>>

\* Any other instruction is executed at once.  If it fails, the status it
\* leaves in the reply is replaced by run_status.
NextInto(p, n, status) ==
    /\ ~ running /\ Got("next")
    /\ cpu_pc' = p
    /\ last_pc' = p
    /\ out' = out + n
    /\ Answer(RunStatusReply(Pushed(event_queue, n), FALSE, p))
    /\ event_queue' = <<>>
    /\ run_status' = "OK"
    /\ fault' = (run_status = "OK" /\ (fault \/ status # "OK"))
    /\ UNCHANGED <<breakpoints, next_bkp, running, input, stepped>>

\* cycle, read_memory, write_memory and interrupt touch only the computer;
\* a clock cycle may take it to another address p.
Cycle(p) ==
    /\ ~ running /\ Got("cycle")
    /\ p # cpu_pc => "cycle" \in Callbacks
    /\ cpu_pc' = p
    /\ Answer([EmptyReply EXCEPT !.which = "cycle_response", !.pc = p,
                  !.status = IF "cycle" \in Callbacks THEN "OK"
                             ELSE "METHOD_NOT_IMPLEMENTED"])
    /\ UNCHANGED <<server, out, input, history>>

WriteMemory(written) ==
    /\ ~ running /\ Got("write_memory")
    /\ written => "write_memory" \in Callbacks
    /\ Answer([EmptyReply EXCEPT !.which = "write_memory_response",
                  !.status = IF written THEN "OK" ELSE "ERR_WRITING_MEMORY"])
    /\ UNCHANGED <<server, computer, history>>

ReadMemory ==
    /\ ~ running /\ Got("read_memory")
    /\ Answer([EmptyReply EXCEPT !.which = "read_memory_response"])
    /\ UNCHANGED <<server, computer, history>>

\* The interrupt callback may send the computer to a handler at p.
Interrupt(p) ==
    /\ ~ running /\ Got("interrupt")
    /\ p # cpu_pc => "interrupt" \in Callbacks
    /\ cpu_pc' = p
    /\ Answer([EmptyReply EXCEPT !.status =
                  IF "interrupt" \in Callbacks THEN "OK" ELSE "METHOD_NOT_IMPLEMENTED"])
    /\ UNCHANGED <<server, out, input, history>>

-----------------------------------------------------------------------------
(* The breakpoint table *)

Listed(table) == {table[i] : i \in Slots} \ {NO_BREAKPOINT}

\* After every breakpoint request the table becomes `table` and is listed.
MutAnswerTable(table, status) ==
    /\ breakpoints' = table
    /\ Answer([EmptyReply EXCEPT !.which = "breakpoint_list",
                  !.status = status, !.list = Listed(breakpoints)])
    /\ UNCHANGED <<next_bkp, last_pc, event_queue, running, run_status, computer, history>>
AnswerTable(table, status) ==
    /\ breakpoints' = table
    /\ Answer([EmptyReply EXCEPT !.which = "breakpoint_list",
                  !.status = status, !.list = Listed(table)])
    /\ UNCHANGED <<next_bkp, last_pc, event_queue, running, run_status, computer, history>>

\* Slots where the loop of ADD stops: a slot that holds zero is passed over.
AddSlots(addr) ==
    {i \in Slots : breakpoints[i] # 0 /\ breakpoints[i] \in {addr, NO_BREAKPOINT}}

BreakpointAdd ==
    /\ ~ running /\ Got("bkp_add")
    /\ LET addr == Head(rx).addr IN
       IF AddSlots(addr) = {}
       THEN AnswerTable(breakpoints, "TOO_MANY_BREAKPOINTS")
       ELSE AnswerTable([breakpoints EXCEPT ![First(AddSlots(addr))] = addr], "OK")

\* Only the first slot that holds the address is freed.
BreakpointRemove ==
    /\ ~ running /\ Got("bkp_remove")
    /\ LET held == {i \in Slots : breakpoints[i] = Head(rx).addr} IN
       IF held = {}
       THEN AnswerTable(breakpoints, "OK")
       ELSE AnswerTable([breakpoints EXCEPT ![First(held)] = NO_BREAKPOINT], "OK")

BreakpointClearAll ==
    /\ ~ running /\ Got("bkp_clear")
    /\ AnswerTable([i \in Slots |-> NO_BREAKPOINT], "OK")

-----------------------------------------------------------------------------
\* One call of fdbg_run_steps executes one instruction.
RunStep(p, n) ==
    \/ RunStepFails(p, n)
    \/ RunStepReachesNext(p, n)
    \/ RunStepReachesBreakpoint(p, n)
    \/ RunStepGoesOn(p, n)

Handle ==
    /\ pc = "receive" /\ rx # <<>>
    /\ \/ GetRunStatus \/ InvalidMessage \/ Pause
       \/ Ack \/ Reset \/ Run \/ RunForever \/ ReadMemory
       \/ BreakpointAdd \/ BreakpointRemove \/ BreakpointClearAll
       \/ \E written \in BOOLEAN : WriteMemory(written)
       \/ \E p \in Addr : Cycle(p) \/ Interrupt(p) \/ NextOver(p)
       \/ \E p \in Addr, n \in Bursts, status \in CpuStatus :
             Step(p, n, status) \/ NextInto(p, n, status)

ServerNext ==
    \/ Enter \/ RunEnds \/ ReceiveNothing \/ ReceiveUndecodable \/ Handle
    \/ \E p \in Addr, n \in Bursts : RunStep(p, n)

\* fdbg_debug, called by any callback: a frame nobody asked for.
Debug ==
    /\ pc \in {"run", "receive"}
    /\ tx' = Append(tx, [EmptyReply EXCEPT !.which = "debug"])
    /\ UNCHANGED <<loop, server, rx, computer, history>>

-----------------------------------------------------------------------------
(* Any program at the other end of the line *)

InFlight == Len(rx) + Len(tx)

\* The keys of a request, numbered in the order they are typed.
Typed == {[k \in 1 .. n |-> Len(input) + k] : n \in 0 .. MaxInput - Len(input)}

HostSends ==
    /\ InFlight < MaxPending
    /\ \E t \in RequestType, a \in Addr, keys \in Typed :
          /\ a # 0 => t \in {"bkp_add", "bkp_remove"}
          /\ keys # <<>> => t \in {"step", "get_run_status"}
          /\ rx' = Append(rx, [type |-> t, addr |-> a, keys |-> keys,
                                longest |-> Len(keys)])
    /\ UNCHANGED <<loop, server, tx, computer, history>>

HostReceives ==
    /\ tx # <<>>
    /\ tx' = Tail(tx)
    /\ UNCHANGED <<loop, server, rx, computer, history>>

Next ==
    \/ ServerNext
    \/ InFlight < MaxPending /\ Debug
    \/ HostSends
    \/ HostReceives

\* The program calls fdbg_server_next in an endless loop.
Spec == Init /\ [][Next]_serverVars /\ WF_serverVars(ServerNext)

-----------------------------------------------------------------------------
(* Properties *)

\* TypeOK: every variable of the server, of the line and of the computer
\* keeps its type, and the event queue never outgrows its array.
TypeOK ==
    /\ pc \in {"top", "run", "receive", "forever"}
    /\ steps \in 0 .. RunSteps
    /\ breakpoints \in [Slots -> Addr]
    /\ next_bkp \in Addr /\ last_pc \in Addr /\ cpu_pc \in Addr
    /\ event_queue \in Seq(Nat) /\ Len(event_queue) <= QueueCap
    /\ running \in BOOLEAN /\ stepped \in BOOLEAN /\ fault \in BOOLEAN
    /\ run_status \in CpuStatus
    /\ rx \in Seq(Request) /\ tx \in Seq(Reply)
    /\ out \in Nat /\ input \in Seq(Nat)

\* StopsWhereAsked: a running computer is never past a breakpoint.  Once a
\* run has executed an instruction, the address it stands at is the one the
\* server compared, and it is neither in the table nor the target of Next.
\* (fdbg_run_steps; only a paused computer's table changes.)
StopsWhereAsked ==
    running /\ stepped =>
        /\ last_pc = cpu_pc
        /\ last_pc # next_bkp
        /\ \A i \in Slots : breakpoints[i] # last_pc

\* EventsInOrder: no text is delivered twice or overtakes another, over the
\* replies still on the line and the queue behind them.
Increasing(s) == \A i, j \in 1 .. Len(s) : i < j => s[i] < s[j]
Before(s, t) == \A i \in 1 .. Len(s), j \in 1 .. Len(t) : s[i] < t[j]
InOrder(line, q) ==
    /\ Increasing(q)
    /\ \A i \in 1 .. Len(line) :
          Increasing(line[i].events) /\ Before(line[i].events, q)
    /\ \A i, j \in 1 .. Len(line) :
          i < j => Before(line[i].events, line[j].events)
EventsInOrder == InOrder(tx, event_queue)

\* NoTextRefusedWhileRunning: fdbg_run_steps stops before the queue can
\* refuse a text, so a run loses none (the guards at lines 301 and 346 agree)
\* when an instruction prints at most one.
NoTextRefusedWhileRunning ==
    [][pc = "run" => Len(event_queue') - Len(event_queue) = out' - out]_serverVars

\* FaultIsKept: the status of the failure that ended a run stays in
\* run_status until a reply carries it, whatever requests come in between.
FaultIsKept ==
    [][run_status # "OK" /\ run_status' # run_status =>
         Len(tx') > Len(tx) /\ tx'[Len(tx')].status = run_status]_serverVars
=============================================================================
