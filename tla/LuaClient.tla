------------------------------ MODULE LuaClient ------------------------------
(***************************************************************************)
(* A Lua script that drives a computer through fdbg_client                 *)
(* (src/library/client/lua/lua-client.cc): its calls, each of which        *)
(* returns before the next, against a computer that runs by itself between *)
(* them, and what the script may believe of the computer.                  *)
(*                                                                         *)
(* The server's part of a call is told by which of its two handlers        *)
(* answers (libfdbg-server.c:92 while running, :126 while paused); a call  *)
(* that is refused, or whose arguments are, raises an error that the       *)
(* script may catch, and changes nothing unless an action says so.  The    *)
(* program of the computer, its memory callbacks, the compiler and the     *)
(* script are external.                                                    *)
(***************************************************************************)
EXTENDS Integers, Sequences, FiniteSetsExt

CONSTANTS
    Cell,              \* <<memory, address>>: the memories of the computer
    UInt8,             \* 256: a byte, a memory number and a size are taken modulo it
    Chunk,             \* MAX_MEMORY_TRANSFER (64)
    Addresses,         \* addresses of breakpoints; not zero
    MaxBreakpoints,    \* slots of the server's table
    Writes,            \* what a script writes: [nr, pos, data]
    Reads,             \* what a script reads: [nr, pos, sz]
    Programs           \* what the compiler returns, without an error:
                       \* sequences of [load_pos, rom]

Byte == 0 .. UInt8 - 1

ASSUME SizesAssumption ==
    /\ Cell \subseteq Nat \X Nat
    /\ UInt8 \in Nat \ {0} /\ Chunk \in 1 .. UInt8 - 1
    /\ MaxBreakpoints \in Nat /\ 0 \notin Addresses

ASSUME CallsAssumption ==
    /\ Writes \subseteq [nr : Nat, pos : Nat, data : Seq(Int)]
    /\ Reads \subseteq [nr : Nat, pos : Nat, sz : Nat]
    /\ Programs \subseteq Seq([load_pos : Nat, rom : Seq(Byte)])

VARIABLES
    script,        \* "runs", "blocked" in a call for ever, or "ended"
    link,          \* fd_: "none" (zero, the standard input), "lost", "open"
    definition,    \* the machine definition is loaded
    running, breakpoints, memory,      \* the computer and its server
    told,          \* history: the last the script was told of running
    listed,        \* history: the last list of breakpoints, or Unheard
    believes       \* history: what the script wrote or read last, or Unknown

computer == <<running, breakpoints, memory>>
beliefs  == <<told, listed, believes>>
vars == <<script, link, definition, computer, beliefs>>

Unknown == -1
Unheard == {Unknown}
Nothing == [c \in Cell |-> Unknown]

\* client.new zeroes the object, so fd_ is not -1.  The computer may have
\* been left by another client, or by the debugger.
Init ==
    /\ script = "runs" /\ link = "none" /\ definition = FALSE
    /\ running \in BOOLEAN
    /\ breakpoints \in {{}} \cup {{a} : a \in Addresses}
    /\ memory = [c \in Cell |-> 0]
    /\ told = "unknown" /\ listed = Unheard /\ believes = Nothing

-----------------------------------------------------------------------------
(* The script and its connection *)

\* A definition that throws raises.
LoadUserDefinition ==
    /\ script = "runs"
    /\ definition' = TRUE
    /\ UNCHANGED <<script, link, computer, beliefs>>

\* A connection that fails takes the one before with it.
Connect ==
    /\ script = "runs"
    /\ link' \in {"open", "lost"}
    /\ UNCHANGED <<script, definition, computer, beliefs>>

\* Before connect, a call waits for a reply on the standard input.
Blocks ==
    /\ script = "runs" /\ link = "none"
    /\ script' = "blocked"
    /\ UNCHANGED <<link, definition, computer, beliefs>>

\* What autodetect throws is not caught, and ends the process; a port it
\* finds is not returned.
Autodetect ==
    /\ script = "runs"
    /\ script' = "ended"
    /\ UNCHANGED <<link, definition, computer, beliefs>>

\* __gc: the computer goes on as it is.
Collect ==
    /\ script = "runs"
    /\ script' = "ended" /\ link' = "none"
    /\ UNCHANGED <<definition, computer, beliefs>>

Call    == script = "runs" /\ link = "open"
Paused  == Call /\ ~ running           \* the handler for a paused computer
InCall  == UNCHANGED <<script, link, definition>>

-----------------------------------------------------------------------------
(* Running *)

\* What a program may do to the memory: one byte, a bound.
Stores == {memory} \cup {[memory EXCEPT ![c] = b] : c \in Cell, b \in Byte}

\* A breakpoint, an error of the CPU or the end of a subroutine stops it.
ComputerRuns ==
    /\ running
    /\ memory' \in Stores
    /\ running' \in BOOLEAN
    /\ UNCHANGED <<script, link, definition, breakpoints, beliefs>>

\* ack and reset are answered only by a paused computer.
AckOrReset ==
    /\ Paused
    /\ told' = "paused"
    /\ InCall /\ UNCHANGED <<computer, listed, believes>>

\* An instruction that fails raises.
Step ==
    /\ Paused
    /\ memory' \in Stores
    /\ told' \in {"paused", told} /\ believes' = Nothing
    /\ InCall /\ UNCHANGED <<running, breakpoints, listed>>

\* A callback run_forever is not expected to return, and there is no reply.
Run ==
    /\ Paused
    /\ believes' = Nothing
    /\ \/ running' = TRUE /\ told' = "running" /\ UNCHANGED script
       \/ script' = "blocked" /\ told' = "unknown" /\ UNCHANGED running
    /\ UNCHANGED <<link, definition, breakpoints, memory, listed>>

\* The reply, which says whether the computer is running, is not returned.
NextInstruction ==
    /\ Paused
    /\ \/ running' = TRUE /\ UNCHANGED memory
       \/ running' = FALSE /\ memory' \in Stores
    /\ told' = "unknown" /\ believes' = Nothing
    /\ InCall /\ UNCHANGED <<breakpoints, listed>>

\* The error of a run that failed raises instead.
RunStatus ==
    /\ Call
    /\ told' = IF running THEN "running" ELSE "paused"
    /\ InCall /\ UNCHANGED <<computer, listed, believes>>

\* A computer that has stopped by itself refuses a pause.
MutPause ==
    /\ Call /\ running
    /\ told' = "paused"
    /\ InCall /\ UNCHANGED <<computer, listed, believes>>
Pause ==
    /\ Call /\ running
    /\ running' = FALSE
    /\ told' = "paused"
    /\ InCall /\ UNCHANGED <<breakpoints, memory, listed, believes>>

\* Module FdbgServer has the slots of the table.
AddBreakpoint(address) ==
    /\ Paused
    /\ address \in breakpoints \/ Cardinality(breakpoints) < MaxBreakpoints
    /\ breakpoints' = breakpoints \cup {address}
    /\ listed' = breakpoints' /\ told' = "paused"
    /\ InCall /\ UNCHANGED <<running, memory, believes>>

RemoveBreakpoint(address) ==
    /\ Paused
    /\ breakpoints' = breakpoints \ {address}
    /\ listed' = breakpoints' /\ told' = "paused"
    /\ InCall /\ UNCHANGED <<running, memory, believes>>

-----------------------------------------------------------------------------
(* Memory *)

\* The cells of n bytes, of which cell c takes number Nth(pos, c).
At(nr, pos, n) == {c \in Cell : c[1] = nr /\ c[2] - pos \in 0 .. n - 1}
Nth(pos, c)    == c[2] - pos + 1

\* write_memory_step: a whole chunk comes from the data at its address, the
\* remainder from where it is.  What lies behind the data may be anything.
Whole(data)          == (Len(data) \div Chunk) * Chunk
Source(pos, data, i) == IF i <= Whole(data) THEN pos + i ELSE i

Sent(pos, data) ==
    {s \in [DOMAIN data -> Byte] :
        \A i \in DOMAIN data :
            LET j == Source(pos, data, i) IN j \in DOMAIN data => s[i] = data[j]}

\* write_memory_full stops at the first chunk that is refused: n bytes got to
\* the computer.  The table is always taken for a true "verify".
WriteMemory(w) ==
    /\ Paused
    /\ \E returns \in BOOLEAN : \E n \in 0 .. Len(w.data) :
         LET nr    == w.nr % UInt8
             data  == [i \in DOMAIN w.data |-> w.data[i] % UInt8]
             cells == At(nr, w.pos, Len(data))
         IN  /\ returns => n = Len(data) /\ Cardinality(cells) = n
             /\ \E s \in Sent(w.pos, data) :
                  memory' = [c \in Cell |-> IF c \in At(nr, w.pos, n) THEN s[Nth(w.pos, c)]
                                                                      ELSE memory[c]]
             /\ believes' = [c \in Cell |->
                  IF c \notin cells THEN believes[c]
                  ELSE IF returns /\ (w.pos = 0 \/ Nth(w.pos, c) > Whole(data))
                       THEN data[Nth(w.pos, c)] ELSE Unknown]
             /\ told' = IF returns THEN "paused" ELSE told
    /\ InCall /\ UNCHANGED <<running, breakpoints, listed>>

\* A size of 256 reads nothing.  "sequences" is sent, and not looked at.  The
\* computer has a read_memory callback: without one the bytes are zeros.
MutReadMemory(r) ==
    /\ Call
    /\ r.sz % UInt8 <= Chunk
    /\ believes' = [c \in Cell |->
            IF c \in At(r.nr % UInt8, r.pos, r.sz % UInt8) THEN memory[c] ELSE believes[c]]
    /\ told' = told
    /\ InCall /\ UNCHANGED <<computer, listed>>
ReadMemory(r) ==
    /\ Paused
    /\ r.sz % UInt8 <= Chunk
    /\ believes' = [c \in Cell |->
            IF c \in At(r.nr % UInt8, r.pos, r.sz % UInt8) THEN memory[c] ELSE believes[c]]
    /\ told' = "paused"
    /\ InCall /\ UNCHANGED <<computer, listed>>

\* FdbgClient::compile_and_write_memory passes the position as the number of
\* the memory and its own nr, which is zero, as the position.
Targets(b, c) == c[1] = b.load_pos % UInt8 /\ c[2] \in 0 .. Len(b.rom) - 1
LoadedBy(p, k, c) == {i \in 1 .. k : Targets(p[i], c)}

Loaded(m, p, k) ==
    [c \in Cell |-> IF LoadedBy(p, k, c) = {} THEN m[c]
                    ELSE p[Max(LoadedBy(p, k, c))].rom[Nth(0, c)]]

\* k binaries are written, and then n bytes of another, if one is refused.
CompileAndWriteMemory(p) ==
    /\ Paused /\ definition
    /\ \E k \in 0 .. Len(p) :
         LET returns == k = Len(p)
             cut == IF returns THEN <<>> ELSE p[k + 1].rom
         IN  /\ returns => \A i \in 1 .. k :
                    Cardinality({c \in Cell : Targets(p[i], c)}) = Len(p[i].rom)
             /\ \E n \in 0 .. Len(cut) :
                  memory' = [c \in Cell |->
                      IF n > 0 /\ c \in At(p[k + 1].load_pos % UInt8, 0, n)
                      THEN cut[Nth(0, c)] ELSE Loaded(memory, p, k)[c]]
             /\ believes' = IF returns /\ \A i \in 1 .. k : p[i].load_pos = 0
                            THEN Loaded(believes, p, k) ELSE Nothing
             /\ told' = IF returns THEN "paused" ELSE told
    /\ InCall /\ UNCHANGED <<running, breakpoints, listed>>

Next ==
    \/ LoadUserDefinition \/ Connect \/ Blocks \/ Autodetect \/ Collect
    \/ ComputerRuns \/ AckOrReset \/ Step \/ Run \/ NextInstruction \/ RunStatus \/ Pause
    \/ \E a \in Addresses : AddBreakpoint(a) \/ RemoveBreakpoint(a)
    \/ \E w \in Writes : WriteMemory(w)
    \/ \E r \in Reads : ReadMemory(r)
    \/ \E p \in Programs : CompileAndWriteMemory(p)

Spec == Init /\ [][Next]_vars

-----------------------------------------------------------------------------
(* Properties *)

\* ScriptMemory: a byte that a script has written by a call that returned, or
\* has read, is in the memory until the script lets the computer execute
\* something: over the chunks of a write, over writes that were cut short,
\* and whatever a run left behind.  (Whole chunks of a write above address
\* zero, and binaries with a load position, are elsewhere; a computer that
\* cannot be read answers zeros.)
ScriptMemory == \A c \in Cell : believes[c] # Unknown => memory[c] = believes[c]

\* ScriptKnows: when the last thing a script learned of the computer, be it
\* only by a call that was not refused, is that it is paused, then it is; and
\* the last list of breakpoints it was given is that of the server.
ScriptKnows ==
    /\ told = "paused" => ~ running
    /\ listed # Unheard => listed = breakpoints

\* What makes ScriptMemory inductive: nothing is believed of the memory of a
\* computer that is running.
BelievesOnlyPaused == running => believes = Nothing
=============================================================================
