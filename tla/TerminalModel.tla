----------------------------- MODULE TerminalModel -----------------------------
(***************************************************************************)
(* The terminal of the debugger: the screen and its cursor (TerminalModel) *)
(* and the window that shows it and changes its settings (Terminal).       *)
(*                                                                         *)
(* add_string goes through a text one character at a time, which is one    *)
(* action here.  In ANSI mode libtmt, which is external, changes the screen*)
(* and moves the cursor as it likes.                                       *)
(***************************************************************************)
EXTENDS Integers, Sequences

CONSTANTS
    Printable,       \* characters from 32 to 126
    Blank,           \* the space, one of them
    BS, CR, LF,      \* characters 8, 13 and 10
    Other,           \* any other, bytes above 127 included: char is signed
    Sizes,           \* terminal sizes of machine definitions
    Texts,           \* texts of a terminal_print event
    MaxChars         \* bound: characters printed

Char == Printable \cup {BS, CR, LF, Other}

ASSUME TerminalAssumption ==
    /\ Blank \in Printable
    /\ Printable \cap {BS, CR, LF, Other} = {}
    /\ BS \notin {CR, LF, Other} /\ CR \notin {LF, Other} /\ LF # Other
    /\ \A s \in Sizes : /\ s = [columns |-> s.columns, lines |-> s.lines]
                        /\ s.columns \in Nat \ {0} /\ s.lines \in Nat \ {0}
    /\ Texts \subseteq Seq(Char)
    /\ MaxChars \in Nat

VARIABLES
    columns, lines, buffer, cursor, mode, new_line,    \* TerminalModel
    settings,        \* terminal_mode and terminal_newline in the configuration
    window,          \* mode_ and new_line_ of the Terminal window
    at,              \* "starting" the program, "startup" window, "session"
    preloaded,       \* history: the window was made after a machine was loaded
    text,            \* what add_string has still to print
    printed,         \* history: characters printed
    scrolled, gone   \* history: the rows that have left the screen

screen == <<columns, lines, buffer, cursor, scrolled, gone>>
options == <<mode, new_line, settings, window>>
terminal == <<screen, options, at, preloaded, text, printed>>

Mode == {"M_ANSI", "M_RAW"}
NewLineSetting == {"NL_CR", "NL_LF", "NL_CRLF"}
Options == [mode : Mode, new_line : NewLineSetting]

-----------------------------------------------------------------------------
BlankRow(n) == [x \in 0 .. n - 1 |-> Blank]
BlankScreen(m, n) == [y \in 0 .. n - 1 |-> BlankRow(m)]

Init ==
    /\ columns = 0 /\ lines = 0 /\ buffer = BlankScreen(0, 0)
    /\ cursor = [x |-> 0, y |-> 0]
    /\ mode = "M_ANSI" /\ new_line = "NL_CR"
    /\ settings \in Options
    /\ window = [mode |-> "M_ANSI", new_line |-> "NL_CR"]
    /\ at = "starting" /\ preloaded = FALSE
    /\ text = <<>> /\ printed = 0
    /\ scrolled = 0 /\ gone = [y \in {} |-> BlankRow(0)]

-----------------------------------------------------------------------------
(* The startup window *)

\* TerminalModel::initialize takes the options from the configuration, and
\* leaves the cursor where it is.
Initialize(size) ==
    /\ columns' = size.columns /\ lines' = size.lines
    /\ buffer' = BlankScreen(size.columns, size.lines)
    /\ mode' = settings.mode /\ new_line' = settings.new_line
    /\ UNCHANGED <<cursor, settings, scrolled, gone>>

\* Model::load_machine: the machine of the last session as the program
\* starts, another one from the startup window.
LoadMachine(size) ==
    /\ at \in {"starting", "startup"}
    /\ Initialize(size)
    /\ at' = "startup"
    /\ IF at = "starting" THEN window' = settings /\ preloaded' = TRUE
                          ELSE UNCHANGED <<window, preloaded>>
    /\ UNCHANGED <<text, printed>>

\* The window is made without a machine, from the default options.
NoMachine ==
    /\ at = "starting"
    /\ at' = "startup"
    /\ UNCHANGED <<screen, options, preloaded, text, printed>>

StartSession ==
    /\ at = "startup" /\ columns > 0
    /\ at' = "session"
    /\ UNCHANGED <<screen, options, preloaded, text, printed>>

-----------------------------------------------------------------------------
(* TerminalModel::add_string *)

Idle == at = "session" /\ text = <<>>

Screen == [0 .. lines - 1 -> [0 .. columns - 1 -> Printable]]

\* In raw mode, the loop over the characters of s begins.
AddString(s) ==
    /\ Idle /\ mode = "M_RAW"
    /\ text' = s
    /\ printed' = printed + Len(s)
    /\ UNCHANGED <<screen, options, at, preloaded>>

\* libtmt reports the rows that changed and the cursor.
AddAnsiString(s) ==
    /\ Idle /\ mode = "M_ANSI"
    /\ \E rows \in Screen : buffer' = rows
    /\ \E c \in [x : 0 .. columns - 1, y : 0 .. lines - 1] : cursor' = c
    /\ printed' = printed + Len(s)
    /\ UNCHANGED <<columns, lines, scrolled, gone, options, at, preloaded, text>>

ScrollUp(rows) ==
    [y \in 0 .. lines - 1 |->
        IF y < lines - 1 THEN rows[y + 1] ELSE BlankRow(columns)]

MutWrap(p) == IF p.x > columns THEN [x |-> 0, y |-> p.y + 1] ELSE p
Wrap(p) == IF p.x >= columns THEN [x |-> 0, y |-> p.y + 1] ELSE p

\* The end of an iteration: the cursor, moved to p, is brought back to the
\* screen, of which the last row may have to be freed.
Finish(p, rows) ==
    /\ text' = Tail(text)
    /\ IF Wrap(p).y >= lines
       THEN /\ buffer' = ScrollUp(rows)
            /\ cursor' = [Wrap(p) EXCEPT !.y = @ - 1]
            /\ scrolled' = scrolled + 1
            /\ gone' = [y \in 0 .. scrolled |->
                            IF y < scrolled THEN gone[y] ELSE rows[0]]
       ELSE /\ buffer' = rows
            /\ cursor' = Wrap(p)
            /\ UNCHANGED <<scrolled, gone>>
    /\ UNCHANGED <<columns, lines, options, at, preloaded, printed>>

NextChar == Head(text)

Mark ==
    /\ text # <<>> /\ NextChar \in Printable
    /\ Finish([cursor EXCEPT !.x = @ + 1],
              [buffer EXCEPT ![cursor.y] = [@ EXCEPT ![cursor.x] = NextChar]])

Backspace ==
    /\ text # <<>> /\ NextChar = BS /\ cursor.x > 0
    /\ Finish([cursor EXCEPT !.x = @ - 1], buffer)

MutEndsLine(c) ==
    <<c, new_line>> \in {<<CR, "NL_CR">>, <<LF, "NL_LF">>, <<LF, "NL_CRLF">>}
EndsLine(c) == <<c, new_line>> \in {<<CR, "NL_CR">>, <<LF, "NL_LF">>}

NewLine ==
    /\ text # <<>> /\ EndsLine(NextChar)
    /\ Finish([x |-> 0, y |-> cursor.y + 1], buffer)

CarriageReturn ==
    /\ text # <<>> /\ NextChar = CR /\ new_line = "NL_CRLF"
    /\ Finish([cursor EXCEPT !.x = 0], buffer)

LineFeed ==
    /\ text # <<>> /\ NextChar = LF /\ new_line = "NL_CRLF"
    /\ Finish([cursor EXCEPT !.y = @ + 1], buffer)

\* A backspace in the first column, the half of a line ending that is not
\* the one set, or a character without a mark.
Ignored ==
    /\ text # <<>>
    /\ \/ NextChar = Other
       \/ NextChar = BS /\ cursor.x = 0
       \/ NextChar \in {CR, LF} /\ new_line # "NL_CRLF" /\ ~ EndsLine(NextChar)
    /\ Finish(cursor, buffer)

Character == Mark \/ Backspace \/ NewLine \/ CarriageReturn \/ LineFeed \/ Ignored

-----------------------------------------------------------------------------
(* The Terminal window *)

MutChooseMode(m) ==
    /\ Idle /\ m # window.mode
    /\ window' = [window EXCEPT !.mode = m]
    /\ mode' = m
    /\ UNCHANGED <<settings, new_line, screen, at, preloaded, text, printed>>
\* set_mode stores the choice in the configuration as well.
ChooseMode(m) ==
    /\ Idle /\ m # window.mode
    /\ window' = [window EXCEPT !.mode = m]
    /\ mode' = m /\ settings' = [settings EXCEPT !.mode = m]
    /\ UNCHANGED <<new_line, screen, at, preloaded, text, printed>>

ChooseNewLine(n) ==
    /\ Idle /\ window.mode = "M_RAW" /\ n # window.new_line
    /\ window' = [window EXCEPT !.new_line = n]
    /\ new_line' = n /\ settings' = [settings EXCEPT !.new_line = n]
    /\ UNCHANGED <<mode, screen, at, preloaded, text, printed>>

\* clear is initialize with the size that the screen has.
Clear ==
    /\ Idle /\ window.mode = "M_RAW"
    /\ Initialize([columns |-> columns, lines |-> lines])
    /\ UNCHANGED <<window, at, preloaded, text, printed>>

\* The button of a window in ANSI mode; the model may be in the other one.
Reset ==
    /\ Idle /\ window.mode = "M_ANSI"
    /\ IF mode = "M_ANSI"
       THEN buffer' = BlankScreen(columns, lines) /\ cursor' = [x |-> 0, y |-> 0]
       ELSE UNCHANGED <<buffer, cursor>>
    /\ UNCHANGED <<columns, lines, scrolled, gone, options, at, preloaded, text, printed>>

\* Terminal::draw goes through the rows and columns of the screen, and marks
\* the cell that has the cursor.
DrawnCursor ==
    {cell \in [x : 0 .. columns - 1, y : 0 .. lines - 1] : cell = cursor}

User ==
    \/ \E size \in Sizes : LoadMachine(size)
    \/ NoMachine \/ StartSession \/ Clear \/ Reset
    \/ \E m \in Mode : ChooseMode(m)
    \/ \E n \in NewLineSetting : ChooseNewLine(n)

Computer ==
    \E s \in Texts :
        printed + Len(s) <= MaxChars /\ (AddString(s) \/ AddAnsiString(s))

Next == User \/ Computer \/ Character

Spec == Init /\ [][Next]_terminal

-----------------------------------------------------------------------------
(* Properties *)

\* TypeOK: the types, and a screen that has the size of the last machine.
TypeOK ==
    /\ columns \in Nat /\ lines \in Nat /\ buffer \in Screen
    /\ cursor \in [x : Nat, y : Nat]
    /\ mode \in Mode /\ new_line \in NewLineSetting
    /\ settings \in Options /\ window \in Options /\ preloaded \in BOOLEAN
    /\ at \in {"starting", "startup", "session"}
    /\ text \in Seq(Char) /\ printed \in Nat
    /\ scrolled \in Nat
    /\ gone \in [0 .. scrolled - 1 -> [0 .. columns - 1 -> Printable]]

\* CursorOnScreen: whatever is printed, cleared or set in between, the next
\* character has a cell, so that buffer_.at(y).at(x) does not throw in
\* add_string, and the window draws the cursor there.
CursorOnScreen == at = "session" => DrawnCursor # {}

\* Refines: with the rows that have left it, the screen is the end of a roll
\* of paper.  In raw mode each character of a text changes the one cell it is
\* written to, or none, and moves the cursor as it should; scrolling loses,
\* repeats and moves nothing; clear blanks what is shown and nothing else; and
\* the settings only change what later characters do.  In ANSI mode, where
\* libtmt writes, nothing is said of the screen, only that the rows that have
\* left it stay.
Paper == INSTANCE Sheet WITH
    paper  <- [y \in 0 .. scrolled + lines - 1 |->
                  IF y < scrolled THEN gone[y] ELSE buffer[y - scrolled]],
    height <- scrolled + lines,
    place  <- [x |-> cursor.x, y |-> scrolled + cursor.y]
Refines == Paper!Spec

\* OptionsAgree: what the model uses is what the configuration will bring
\* back, also after clear, which reads it again; and it is what the window
\* says, whose copies (terminal.cc:9) are taken when the window is made, if a
\* machine was loaded by then.
OptionsAgree ==
    /\ columns > 0 => [mode |-> mode, new_line |-> new_line] = settings
    /\ preloaded => window = settings
=============================================================================
