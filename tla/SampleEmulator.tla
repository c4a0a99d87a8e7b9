---------------------------- MODULE SampleEmulator ----------------------------
(***************************************************************************)
(* The sample computer (sample-emulator/emulator.c) with its echo program, *)
(* typed to and watched in the terminal.  The server between them (module  *)
(* FdbgServer) is reduced to its event queue: it runs the computer while   *)
(* the queue has room, and a poll of the running debugger brings the key   *)
(* of the frame and takes the queue away.                                  *)
(*                                                                         *)
(* Any other computer prints the texts of TerminalModel.                   *)
(***************************************************************************)
EXTENDS TerminalModel, SequencesExt

CONSTANTS
    Frames,        \* what the keyboard brings in a frame
    EventsMax,     \* texts the event queue takes
    MaxKeys,       \* bound: key presses
    NUL            \* the byte zero

KeyTranslation ==
    [Escape |-> <<Other>>, Enter |-> <<CR, LF>>, Backspace |-> <<BS>>]

ASSUME EmulatorAssumption ==
    /\ Frames \subseteq [pressed : SUBSET DOMAIN KeyTranslation, characters : Seq(Char)]
    /\ NUL \notin Char
    /\ EventsMax \in Nat \ {0} /\ MaxKeys \in Nat

VARIABLES
    computer,      \* "echo", or any "other"
    pc, a, next_char,
    queue,         \* texts, of one character each, that wait for a poll
    typed, echoed, \* history: first characters of the keys; characters the
                   \* program has output
    lost           \* history: a reset came between IN and OUT, or before a
                   \* poll took what was output

emulator == <<pc, a, next_char, queue, typed, echoed, lost>>
vars == <<terminal, emulator, computer>>

-----------------------------------------------------------------------------
\* rom/echo.asm, the binary that sample-emulator.lua returns.
Ram == <<1, 2, 0, 3, 4, 0>>
Byte(address) == Ram[address + 1]

EchoInit ==
    /\ Init
    /\ computer \in {"echo", "other"}
    /\ pc = 0 /\ a = NUL /\ next_char = NUL
    /\ queue = <<>> /\ typed = <<>> /\ echoed = <<>> /\ lost = FALSE

\* The run loop of the server executes an instruction.
Executes(opcode) ==
    /\ at = "session" /\ computer = "echo"
    /\ Len(queue) < EventsMax
    /\ Byte(pc) = opcode
    /\ UNCHANGED <<terminal, computer, typed, lost>>

MutIn ==
    /\ Executes(1)
    /\ a' = next_char
    /\ pc' = pc + 1
    /\ UNCHANGED <<next_char, queue, echoed>>
In ==
    /\ Executes(1)
    /\ a' = next_char /\ next_char' = NUL
    /\ pc' = pc + 1
    /\ UNCHANGED <<queue, echoed>>

BranchIfZero ==
    /\ Executes(2)
    /\ pc' = IF a = NUL THEN Byte(pc + 1) ELSE pc + 2
    /\ UNCHANGED <<a, next_char, queue, echoed>>

Out ==
    /\ Executes(3)
    /\ IF a # NUL THEN queue' = Append(queue, a) /\ echoed' = Append(echoed, a)
                  ELSE UNCHANGED <<queue, echoed>>
    /\ a' = NUL
    /\ pc' = pc + 1
    /\ UNCHANGED next_char

MutJump ==
    /\ Executes(4)
    /\ pc' = Byte(pc)
    /\ UNCHANGED <<a, next_char, queue, echoed>>
Jump ==
    /\ Executes(4)
    /\ pc' = Byte(pc + 1)
    /\ UNCHANGED <<a, next_char, queue, echoed>>

Instruction == In \/ BranchIfZero \/ Out \/ Jump

\* The reply of a poll: its events are printed as one text would be.
Reply ==
    /\ Idle /\ computer = "echo"
    /\ queue' = <<>>
    /\ IF queue = <<>> THEN UNCHANGED terminal
                       ELSE AddString(queue) \/ AddAnsiString(queue)
    /\ UNCHANGED <<computer, pc, a, echoed, lost>>

Poll == Reply /\ UNCHANGED <<next_char, typed>>

\* check_for_keypress puts the keys of the table, in any order, in front of
\* the characters of the frame: what its text begins with.
CheckForKeypress(frame) ==
    IF frame.pressed # {} THEN {KeyTranslation[key][1] : key \in frame.pressed}
                          ELSE {c \in Char : IsPrefix(<<c>>, frame.characters)}

\* on_keypress keeps the first character, whether or not the last one was read.
PollWithKey(frame) ==
    /\ Len(typed) < MaxKeys
    /\ Reply
    /\ \E c \in CheckForKeypress(frame) :
         next_char' = c /\ typed' = Append(typed, c)

\* The reset callback changes pc only; the server empties its event queue.
ResetComputer ==
    /\ Idle /\ computer = "echo" /\ (pc # 0 \/ queue # <<>>)
    /\ pc' = 0 /\ queue' = <<>>
    /\ lost' = (lost \/ a # NUL \/ queue # <<>>)
    /\ UNCHANGED <<terminal, computer, a, next_char, typed, echoed>>

EchoNext ==
    \/ (User \/ Character) /\ UNCHANGED <<emulator, computer>>
    \/ computer = "other" /\ Computer /\ UNCHANGED <<emulator, computer>>
    \/ Instruction \/ Poll \/ ResetComputer
    \/ \E frame \in Frames : PollWithKey(frame)

\* The run loop, the frames and the loop of add_string go on; the user does
\* what he likes.
EchoSpec ==
    /\ EchoInit /\ [][EchoNext]_vars
    /\ WF_vars(Instruction)
    /\ WF_vars(Poll)
    /\ WF_vars(Character /\ UNCHANGED <<emulator, computer>>)

-----------------------------------------------------------------------------
(* Properties *)

\* s is t with some of its elements left out.
Subsequence(s, t) ==
    \E place \in [1 .. Len(s) -> 1 .. Len(t)] :
        /\ \A i \in 1 .. Len(s) : s[i] = t[place[i]]
        /\ \A i, j \in 1 .. Len(s) : i < j => place[i] < place[j]

\* The keys the computer holds: the one it has read, the one it has not.
InHand(c) == IF c = NUL THEN <<>> ELSE <<c>>
Held == InHand(a) \o InHand(next_char)

\* EchoedOnce: what was output, with the characters the computer still
\* holds, is a selection of the keys in the order in which they were typed:
\* none is echoed twice or overtakes another.
EchoedOnce == Subsequence(echoed \o Held, typed)

\* LastKeyEchoed: of keys that come faster than the program reads them the
\* last one is echoed, and the terminal gets it, unless a reset takes it out of
\* the computer's hands or out of the event queue.
LastKeyEchoed ==
    \A n \in 1 .. MaxKeys :
        Len(typed) = n ~>
            \/ Len(typed) > n \/ lost
            \/ /\ Held = <<>> /\ queue = <<>>
               /\ echoed # <<>> /\ Last(echoed) = Last(typed)
=============================================================================
