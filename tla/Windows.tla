------------------------------- MODULE Windows -------------------------------
(***************************************************************************)
(* What the code window, the memory windows and the windows of registers   *)
(* and cycles show (src/debugger/windows/code.cc, memory.cc, registers.cc, *)
(* cycles.cc) of the program, the memories and the computer_status that    *)
(* Model keeps, from the first session to the sessions that a              *)
(* recompilation starts.                                                   *)
(*                                                                         *)
(* The computer is external: an instruction goes to any address, may       *)
(* change its registers and store one byte.  Session has the calls behind  *)
(* each command; here a command returns at once or throws.  Upload has the *)
(* chunks of an upload; here its bytes come with the last one.             *)
(***************************************************************************)
EXTENDS Integers, Sequences, FiniteSetsExt

CONSTANTS
    Programs,      \* what the compiler may return
    MemorySizes,   \* sizes of machine().memories, a sequence
    PageSize,      \* PAGE_SZ (256)
    Block,         \* bytes of one read_memory (64)
    Addr,          \* addresses of instructions
    Registers,     \* contents of the registers, the flags and the stack
    Cleared,       \* none of them, in a computer_status without them
    MaxEdits,      \* bound: recompilations
    MaxStores      \* bound: bytes stored by the program

\* The lines in the order of the compiler's list, each of one of its files.
\* A line without code has the address NO_ADDRESS, which is outside Addr.
ASSUME ProgramsAssumption ==
    \A p \in Programs :
        /\ p.files \in Nat /\ p.binaries \in BOOLEAN
        /\ p.symbols \subseteq Addr
        /\ p.lines \in Seq([file : 0 .. p.files - 1, line : Nat, address : Int])

ASSUME MemoryAssumption ==
    /\ MemorySizes \in Seq(Nat) /\ 0 \in Addr /\ Addr \subseteq Nat
    /\ Block \in Nat \ {0} /\ PageSize \in Nat \ {0} /\ PageSize % Block = 0
    /\ PageSize <= 65536
    /\ Cleared \notin Registers
    /\ MaxEdits \in Nat /\ MaxStores \in Nat

VARIABLES
    at,              \* the frame: "upload", "poll", "watch" (update),
                     \* "buttons", "code" (the code window), "others" (the
                     \* windows drawn after it), or "terminated"
    program,         \* debug_, the result of the last compilation
    files_cstr_,     \* how many names the file list holds
    connected,       \* the startup window has connected
    started,         \* debugging_session_started_
    upload_,         \* an upload is under way
    running_, pc_,
    scroll_to_line_, \* a source line, or NoLine
    selected_file_,
    open,            \* the code window is open, and not collapsed
    memories,        \* Model::memories
    memory,          \* external: the memories of the computer
    alive,           \* the server is running the computer
    registers,       \* external: those of the computer
    shown,           \* those of computer_status_, or Cleared
    behind,          \* history: the computer has changed its registers by
                     \* something whose reply did not tell them
    follows,         \* history: the last thing the code window was told to
                     \* do is to scroll to the pc
    stored,          \* history: addresses stored since a window read them
    edits, stores

code  == <<program, files_cstr_, scroll_to_line_, selected_file_, open, follows>>
bytes == <<memories, memory, stored, stores>>
status == <<alive, registers, shown, behind>>
state == <<connected, started, upload_, running_, pc_, edits>>
vars  == <<at, code, bytes, status, state>>

-----------------------------------------------------------------------------
(* The source: DebugInfo::source_lines and DebugInfo::addresses *)

NoLine == [file |-> -1, line |-> -1]

Place(entry) == [file |-> entry.file, line |-> entry.line]

At(p, address) == {i \in DOMAIN p.lines : p.lines[i].address = address}
Of(p, place)   == {i \in DOMAIN p.lines : Place(p.lines[i]) = place}

LinesWithCode(p) == {a \in Addr : At(p, a) # {}}

\* Of the entries for an address, or for a line, the last one stays.
LineOf(p, address) == Place(p.lines[Max(At(p, address))])

RowAddress(p, file, n) == p.lines[Max(Of(p, [file |-> file, line |-> n]))].address

\* draw_code lists the lines of a file from 1 up to the first gap.
Row(p, file, n) ==
    n > 0 /\ \A m \in 1 .. n : Of(p, [file |-> file, line |-> m]) # {}

\* Model::scroll_to_pc, with the pc just set: nothing happens when no line
\* has code at the pc.
Target(p, pc) == IF pc \in LinesWithCode(p) THEN LineOf(p, pc) ELSE scroll_to_line_

ScrollToPc == scroll_to_line_' = Target(program, pc_') /\ follows' = TRUE

-----------------------------------------------------------------------------
(* The memory windows *)

NoByte  == [addr |-> -1, value |-> -1]     \* an empty std::optional

Memories == DOMAIN MemorySizes

Unread == [k \in 0 .. PageSize - 1 |-> NoByte]

NewMemory(nr) ==
    [pages |-> MemorySizes[nr] \div PageSize, current_page |-> 0, data |-> Unread]

\* The page that change_memory_page goes to.
Page(w, page) ==
    LET known == IF page >= w.pages THEN 0 ELSE page
    IN  IF known < 0 THEN w.pages - 1 ELSE known

\* The computer has a read_memory callback (without one the server answers
\* zeros, whatever the memory).  What it returns for an address outside the
\* memory is up to it; it is no byte of the memory.
ByteAt(nr, a) ==
    IF a \in DOMAIN memory'[nr] THEN [addr |-> a, value |-> memory'[nr][a]]
                                ELSE [addr |-> a, value |-> -1]

\* change_memory_page: n blocks are read, block i from (page + i) * Block.
PageRead(w, nr, page, n) ==
    LET p == Page(w, page)
    IN  [w EXCEPT
          !.current_page = p,
          !.data = [k \in 0 .. PageSize - 1 |->
              IF k < n * Block
              THEN ByteAt(nr, (p + (k \div Block)) * Block + (k % Block))
              ELSE NoByte]]

Blocks == PageSize \div Block

\* draw_memory_table: the address (a uint16_t) written beside byte k.
Label(w, k) == (w.current_page * PageSize + k) % 65536

-----------------------------------------------------------------------------
(* Registers *)

\* Registers::draw and draw_stack: "????", "Not up to date" and an empty
\* stack when computer_status_ has none.
DrawnRegisters == IF shown = Cleared THEN {} ELSE {shown}

\* set_computer_status
Tells == registers' \in Registers /\ shown' = registers' /\ behind' = FALSE

\* The computer executes something and tells, of all this, only the pc.
Executes ==
    /\ registers' \in Registers
    /\ behind' = (behind \/ registers' # registers)
    /\ UNCHANGED shown

-----------------------------------------------------------------------------
(* Sessions *)

Init ==
    /\ at = "others"
    /\ program = [files |-> 0, lines |-> <<>>, symbols |-> {}, binaries |-> FALSE]
    /\ files_cstr_ = 0 /\ scroll_to_line_ = NoLine /\ selected_file_ = 0
    /\ open = FALSE /\ follows = TRUE
    /\ connected = FALSE /\ started = FALSE /\ upload_ = FALSE
    /\ running_ = FALSE /\ pc_ = 0
    /\ memories = <<>>
    /\ memory = [nr \in Memories |-> [a \in 0 .. MemorySizes[nr] - 1 |-> 0]]
    /\ alive = FALSE /\ registers \in Registers /\ shown = Cleared /\ behind = FALSE
    /\ stored = {} /\ edits = 0 /\ stores = 0

\* init_debugging_session, which a running computer refuses: the reset tells
\* the status, without a scroll; the
\* memories are appended, and those with the numbers 0, 1, ... go to page 0.
\* UI::start_debugging_session may open the code window.
MutInitSession(scrolled) ==
    LET n == Len(memories)
        all == memories \o [nr \in Memories |-> NewMemory(nr)]
    IN  /\ ~ alive /\ pc_' \in Addr /\ Tells
        /\ memories' = [i \in DOMAIN all |->
               IF i > n THEN PageRead(all[i], i - n, 0, Blocks) ELSE all[i]]
        /\ stored' = {}
        /\ started' = TRUE
        /\ open' \in {open, TRUE}
        /\ follows' = (scrolled /\ pc_' = pc_)
InitSession(scrolled) ==
    LET all == memories \o [nr \in Memories |-> NewMemory(nr)]
    IN  /\ ~ alive /\ pc_' \in Addr /\ Tells
        /\ memories' = [i \in DOMAIN all |->
               IF i \in Memories THEN PageRead(all[i], i, 0, Blocks) ELSE all[i]]
        /\ stored' = {}
        /\ started' = TRUE
        /\ open' \in {open, TRUE}
        /\ follows' = (scrolled /\ pc_' = pc_)

\* Model::compile scrolls to the pc as it was, and upload_rom_and_start
\* begins the upload, or the session of a program without binaries.  The
\* names of files compiled before stay in the list.
MutCompile(p) ==
    /\ program' = p
    /\ files_cstr_' = p.files
    /\ scroll_to_line_' = Target(p, pc_)
    /\ UNCHANGED <<selected_file_, memory, stores, running_, alive>>
    /\ IF p.binaries
       THEN /\ upload_' = TRUE /\ follows' = TRUE
            /\ UNCHANGED <<started, open, pc_, memories, stored, registers, shown, behind>>
       ELSE InitSession(TRUE) /\ UNCHANGED upload_
Compile(p) ==
    /\ program' = p
    /\ files_cstr_' = files_cstr_ + p.files
    /\ scroll_to_line_' = Target(p, pc_)
    /\ UNCHANGED <<selected_file_, memory, stores, running_, alive>>
    /\ IF p.binaries
       THEN /\ upload_' = TRUE /\ follows' = TRUE
            /\ UNCHANGED <<started, open, pc_, memories, stored, registers, shown, behind>>
       ELSE InitSession(TRUE) /\ UNCHANGED upload_

\* Startup, "Connect & Upload" (module Startup has what may fail)
Connect ==
    /\ at = "others" /\ ~ connected
    /\ connected' = TRUE
    /\ \E p \in Programs : Compile(p)
    /\ at' = "upload"
    /\ UNCHANGED edits

-----------------------------------------------------------------------------
(* Model::update *)

\* The last chunk of the upload, then the session; update returns.
UploadEnds ==
    /\ at = "upload" /\ upload_ /\ program.binaries
    /\ upload_' = FALSE
    /\ memory' = [memory EXCEPT ![1] = [a \in DOMAIN @ |-> 1 - @[a]]]
    /\ InitSession(follows)
    /\ at' = "buttons"
    /\ UNCHANGED <<program, files_cstr_, scroll_to_line_, selected_file_,
                   stores, alive, connected, running_, edits>>

\* Chunks remain, or there is no upload; no poll; no modification.
Passes ==
    /\ \/ at = "upload" /\ (upload_ => ~ alive /\ program.binaries) /\ at' = "poll"
       \/ at = "poll" /\ ~ running_ /\ at' = "watch"
       \/ at = "watch" /\ at' = "buttons"
    /\ UNCHANGED <<code, bytes, status, state>>

\* The program stores a byte, or it does not.
MayStore ==
    \/ UNCHANGED <<memory, stored, stores>>
    \/ /\ stores < MaxStores
       /\ \E nr \in Memories : \E a \in DOMAIN memory[nr] :
            /\ memory' = [memory EXCEPT ![nr][a] = 1 - @]
            /\ stored' = stored \cup {<<nr, a>>}
       /\ stores' = stores + 1

\* It runs by itself, and may stop, at any time; it is enough to let it
\* between steps that notice.
ComputerRuns ==
    /\ alive /\ at \in {"watch", "buttons", "others"}
    /\ alive' \in BOOLEAN /\ registers' \in Registers
    /\ MayStore
    /\ UNCHANGED <<at, code, memories, shown, behind, state>>

\* Only when the computer has stopped does the code window scroll.
MutPoll ==
    /\ at = "poll" /\ running_
    /\ pc_' \in Addr
    /\ running_' = alive
    /\ UNCHANGED <<scroll_to_line_, follows>>
    /\ at' = "watch"
    /\ UNCHANGED <<program, files_cstr_, selected_file_, open, bytes, status,
                   connected, started, upload_, edits>>
Poll ==
    /\ at = "poll" /\ running_
    /\ pc_' \in Addr
    /\ running_' = alive
    /\ IF running_' THEN UNCHANGED <<scroll_to_line_, follows>> ELSE ScrollToPc
    /\ at' = "watch"
    /\ UNCHANGED <<program, files_cstr_, selected_file_, open, bytes, status,
                   connected, started, upload_, edits>>

\* The watched files changed.
Recompile ==
    /\ at = "watch" /\ connected /\ edits < MaxEdits
    /\ edits' = edits + 1
    /\ \E p \in Programs : Compile(p)
    /\ at' = "buttons"
    /\ UNCHANGED connected

\* A running computer refuses the upload and the reset, a run ends with an
\* error, and the compiler may fail: nothing catches what update throws.  An
\* upload of the program before a recompilation that has no binaries is
\* undefined.
UpdateThrows ==
    /\ \/ at = "upload" /\ upload_ /\ (alive \/ ~ program.binaries)
       \/ at = "poll" /\ running_ /\ ~ alive
       \/ at = "watch" /\ connected /\ edits < MaxEdits
    /\ at' = "terminated"
    /\ UNCHANGED <<code, bytes, status, state>>

-----------------------------------------------------------------------------
(* The windows, in the order in which they are drawn: the buttons of the   *)
(* code window, its lines, and all others.  Bound: one command each.       *)

\* Function keys of the code window work through the window of an upload.
Key    == at = "buttons" /\ started /\ open
Button == started /\ ~ upload_ /\ ~ running_
Drawn  == at' = IF at = "buttons" THEN "code" ELSE "upload"

Same == UNCHANGED <<program, files_cstr_, selected_file_, open, memories,
                    connected, started, upload_, edits>>

\* Step and Reset, whose keys also work when the computer has stopped and the
\* next poll will tell; "Simple step" below the lines
Step ==
    /\ Key \/ (at = "others" /\ Button)
    /\ ~ alive
    /\ MayStore
    /\ pc_' \in Addr /\ Tells
    /\ ScrollToPc
    /\ Drawn
    /\ UNCHANGED <<running_, alive>> /\ Same

Pause ==
    /\ Key /\ running_ /\ alive
    /\ alive' = FALSE /\ running_' = FALSE
    /\ pc_' \in Addr /\ Tells /\ registers' = registers
    /\ ScrollToPc
    /\ Drawn
    /\ UNCHANGED <<memory, stored, stores>> /\ Same

\* Next, when it stays at one instruction
NextInstruction ==
    /\ Key /\ ~ alive
    /\ MayStore
    /\ pc_' \in Addr /\ Executes
    /\ ScrollToPc
    /\ Drawn
    /\ UNCHANGED <<running_, alive>> /\ Same

\* The Cycles window; a cycle that ends at zero is taken for one without a pc.
Cycle ==
    /\ at = "others" /\ Button /\ ~ alive
    /\ MayStore
    /\ \E pc \in Addr : pc_' = IF pc = 0 THEN pc_ ELSE pc
    /\ Executes
    /\ ScrollToPc
    /\ Drawn
    /\ UNCHANGED <<running_, alive>> /\ Same

\* The Interrupt window is not disabled while running.
Interrupt ==
    /\ at = "others" /\ started /\ ~ upload_ /\ ~ alive
    /\ MayStore
    /\ Executes
    /\ Drawn
    /\ UNCHANGED <<code, memories, state, alive>>

\* Run, Run forever, a Next that runs to the end of a subroutine
MutRuns ==
    /\ Key \/ (at = "others" /\ Button)
    /\ ~ alive /\ alive' = TRUE
    /\ running_' = TRUE
    /\ UNCHANGED <<shown, behind>>
    /\ Drawn
    /\ UNCHANGED <<code, bytes, registers, connected, started, upload_, pc_, edits>>
Runs ==
    /\ Key \/ (at = "others" /\ Button)
    /\ ~ alive /\ alive' = TRUE
    /\ running_' = TRUE
    /\ shown' = Cleared /\ behind' = FALSE
    /\ Drawn
    /\ UNCHANGED <<code, bytes, registers, connected, started, upload_, pc_, edits>>

\* A command that is refused, or a step that fails: a message box, and what
\* is left of the window is not drawn.
CommandThrows ==
    /\ Key \/ (at = "others" /\ started /\ ~ upload_)
    /\ \/ UNCHANGED <<memory, stored, stores, registers, shown, behind>>
       \/ ~ alive /\ MayStore /\ Executes
    /\ at' = IF at = "buttons" THEN "others" ELSE "upload"
    /\ UNCHANGED <<code, memories, state, alive>>

\* The lists of files and symbols are not disabled while running.
ChooseFile ==
    /\ Key /\ ~ upload_ /\ files_cstr_ > 0
    /\ selected_file_' \in 0 .. files_cstr_ - 1
    /\ follows' = FALSE
    /\ at' = "code"
    /\ UNCHANGED <<program, files_cstr_, scroll_to_line_, open, bytes, status, state>>

\* After a recompilation the list also holds pointers to names that are
\* gone: such an entry may read as any symbol.
ChooseSymbol ==
    /\ Key /\ ~ upload_
    /\ \E s \in program.symbols \cap LinesWithCode(program) :
         scroll_to_line_' = LineOf(program, s)
    /\ follows' = FALSE
    /\ at' = "code"
    /\ UNCHANGED <<program, files_cstr_, selected_file_, open, bytes, status, state>>

NoButton ==
    /\ at = "buttons"
    /\ at' = "code"
    /\ UNCHANGED <<code, bytes, status, state>>

\* draw_code: the file of the line to scroll to is selected, the line is
\* brought into view and forgotten.
DrawCode ==
    /\ at = "code"
    /\ at' = "others"
    /\ IF open
       THEN /\ selected_file_' = IF scroll_to_line_ # NoLine THEN scroll_to_line_.file
                                                             ELSE selected_file_
            /\ scroll_to_line_' = NoLine
       ELSE UNCHANGED <<selected_file_, scroll_to_line_>>
    /\ UNCHANGED <<program, files_cstr_, open, follows, bytes, status, state>>

\* memory.cc: a page is typed, or an arrow is clicked; a read may throw after
\* n blocks.
ChangePage ==
    /\ at = "others" /\ Button
    /\ UNCHANGED <<memory, stores>>
    /\ \E nr \in Memories : \E n \in 0 .. Blocks :
         LET w == memories[nr]
         IN  /\ \E page \in 0 .. w.pages \cup {w.current_page - 1, w.current_page + 1} :
                  memories' = [memories EXCEPT ![nr] = PageRead(w, nr, page, n)]
             /\ stored' = {s \in stored : s[1] # nr}
    /\ at' = "upload"
    /\ UNCHANGED <<code, status, state>>

\* The menu opens the code window; its cross or a collapse closes it.
OpenOrClose ==
    /\ at = "others" /\ started /\ ~ upload_
    /\ open' = ~ open
    /\ at' = "upload"
    /\ UNCHANGED <<program, files_cstr_, scroll_to_line_, selected_file_, follows,
                   bytes, status, state>>

EndFrame ==
    /\ at = "others"
    /\ at' = "upload"
    /\ UNCHANGED <<code, bytes, status, state>>

Next ==
    \/ Connect \/ UploadEnds \/ Passes \/ Poll \/ Recompile \/ UpdateThrows
    \/ ComputerRuns \/ Step \/ Pause \/ NextInstruction \/ Cycle \/ Interrupt \/ Runs
    \/ CommandThrows \/ ChooseFile \/ ChooseSymbol \/ NoButton \/ DrawCode
    \/ ChangePage \/ OpenOrClose \/ EndFrame

Spec == Init /\ [][Next]_vars

-----------------------------------------------------------------------------
(* Properties *)

\* The indices of the code window are those of names in the list, which holds
\* the files of the last compilation behind those of all before.  With no
\* file at all, entry zero of an empty list is selected.
FilesListed ==
    /\ files_cstr_ \in Nat /\ program.files <= files_cstr_
    /\ selected_file_ \in 0 .. files_cstr_ - 1 \cup {0}
    /\ \/ scroll_to_line_ = NoLine
       \/ scroll_to_line_ \in [file : 0 .. files_cstr_ - 1, line : Nat]

\* TypeOK: the file selected, and that of a line to scroll to, are in the
\* list of files, also when they were chosen before a recompilation that has
\* other files; and a memory window is on a page of its memory, also after a
\* wrap at either end: only a memory smaller than a page may get to "page -1".
TypeOK ==
    /\ at \in {"upload", "poll", "watch", "buttons", "code", "others", "terminated"}
    /\ {connected, started, upload_, running_, open, follows, alive, behind}
           \subseteq BOOLEAN
    /\ pc_ \in Addr /\ registers \in Registers /\ shown \in Registers \cup {Cleared}
    /\ FilesListed
    /\ \A i \in DOMAIN memories :
         LET w == memories[i]
         IN  IF w.pages = 0 THEN w.current_page \in {0, -1}
                            ELSE w.current_page \in 0 .. w.pages - 1

\* Each line is listed once, and the lines of a file are 1, 2, ...
Complete(p) ==
    \A i \in DOMAIN p.lines :
        /\ Of(p, Place(p.lines[i])) = {i}
        /\ Row(p, p.lines[i].file, p.lines[i].line)

\* CodeShowsPc: when the computer is shown paused, the line of the pc is
\* among the lines listed, or will be once the window is drawn: however the
\* computer was stopped, while the window was closed, after a command that
\* threw and after a recompilation.  Exceptions are a file or symbol chosen
\* since, and the reset of a session that moves the pc.
CodeShowsPc ==
    /\ started /\ ~ running_ /\ at # "terminated" /\ follows
    /\ Complete(program) /\ pc_ \in LinesWithCode(program)
    => LET file == IF scroll_to_line_ = NoLine THEN selected_file_ ELSE scroll_to_line_.file
       IN  \E i \in DOMAIN program.lines :
               LET n == program.lines[i].line
               IN  Row(program, file, n) /\ RowAddress(program, file, n) = pc_

\* MemoryShown: on page 0 every byte in a memory window is what the computer
\* has at the address written beside it, unless the program has stored there
\* since the page was read; also after a recompilation, which appends the
\* memories once more, and after a read that failed.  (Above page 0 the bytes
\* are those of another address, and a computer that cannot be read shows
\* zeros.)
MemoryShown ==
    started /\ ~ upload_ /\ at # "terminated" =>
        \A nr \in Memories : \A k \in 0 .. PageSize - 1 :
            LET w == memories[nr]
                a == Label(w, k)
            IN  w.current_page = 0 /\ w.data[k] # NoByte /\ <<nr, a>> \notin stored =>
                    /\ w.data[k].addr = a
                    /\ a \in DOMAIN memory[nr] => w.data[k].value = memory[nr][a]

\* RegistersShown: registers, flags and a stack that are drawn are those of
\* the computer: never those from before a run, not while it is running, nor
\* after it was stepped, paused or reset, or has stopped by itself, by
\* whichever of the two the debugger learned it.  Only a Next that stays, a
\* cycle, an interrupt and a command that failed leave those of before.
RegistersShown == ~ behind => DrawnRegisters \subseteq {registers}
=============================================================================
