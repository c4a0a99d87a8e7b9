--------------------------------- MODULE Sheet ---------------------------------
(***************************************************************************)
(* What the terminal promises: a roll of paper on which nothing moves.  In *)
(* raw mode every character of a text has one effect: it is written under  *)
(* the cursor, which then advances, it moves the cursor, or it is passed   *)
(* over; a row is added when the cursor leaves the last one; the screen    *)
(* shows the last `lines` rows.  There is no scrolling here: TerminalModel,*)
(* which scrolls, is shown to implement this.                              *)
(***************************************************************************)
EXTENDS Integers, Sequences

CONSTANTS
    Printable,     \* characters that leave a mark
    Blank,         \* the space
    BS, CR, LF,    \* characters that move the cursor
    Other,         \* a character that does nothing
    Sizes          \* sizes of a screen

VARIABLES
    columns, lines,
    mode,          \* "M_RAW", or "M_ANSI" where programs control the screen
    new_line,      \* what ends a line in raw mode
    text,          \* what is still to be printed, in raw mode
    paper,         \* rows from the first one ever shown
    height,        \* how many
    place          \* the cursor: column x of row y of the paper

sheet == <<columns, lines, mode, new_line, text, paper, height, place>>

-----------------------------------------------------------------------------
Char == Printable \cup {BS, CR, LF, Other}
Mode == {"M_ANSI", "M_RAW"}
NewLineSetting == {"NL_CR", "NL_LF", "NL_CRLF"}

Home == [x |-> 0, y |-> 0]

BlankRow(n) == [x \in 0 .. n - 1 |-> Blank]

Init ==
    /\ columns = 0 /\ lines = 0
    /\ mode \in Mode /\ new_line \in NewLineSetting /\ text = <<>>
    /\ paper = [y \in {} |-> BlankRow(0)] /\ height = 0
    /\ place = Home

-----------------------------------------------------------------------------
(* Raw mode *)

\* Nothing is seen of a text before its characters are.
NewText ==
    /\ mode = "M_RAW" /\ text = <<>>
    /\ text' \in Seq(Char)
    /\ UNCHANGED <<columns, lines, mode, new_line, paper, height, place>>

\* The cursor goes to p, on a row of `rows` or on a new one below them.
Advance(p, rows) ==
    /\ place' = p
    /\ height' = IF p.y = height THEN height + 1 ELSE height
    /\ paper' = [y \in 0 .. height' - 1 |->
                    IF y < height THEN rows[y] ELSE BlankRow(columns)]
    /\ UNCHANGED <<columns, lines, mode, new_line>>

\* The next character, one of `chars`, does this.
Take(chars, p, rows) ==
    /\ text # <<>> /\ Head(text) \in chars
    /\ text' = Tail(text)
    /\ Advance(p, rows)

Write ==
    Take(Printable,
         IF place.x + 1 = columns THEN [x |-> 0, y |-> place.y + 1]
                                  ELSE [place EXCEPT !.x = @ + 1],
         [paper EXCEPT ![place.y] = [@ EXCEPT ![place.x] = Head(text)]])

Back == place.x > 0 /\ Take({BS}, [place EXCEPT !.x = @ - 1], paper)

Return == new_line = "NL_CRLF" /\ Take({CR}, [place EXCEPT !.x = 0], paper)

LineFeed == new_line = "NL_CRLF" /\ Take({LF}, [place EXCEPT !.y = @ + 1], paper)

LineEnd ==
    CASE new_line = "NL_CR" -> {CR} [] new_line = "NL_LF" -> {LF} [] OTHER -> {}

NewLine == Take(LineEnd, [x |-> 0, y |-> place.y + 1], paper)

\* The half of a line ending that is not the one set, a backspace with
\* nothing behind it, a character that does nothing.
Skip ==
    \/ Take({Other}, place, paper)
    \/ place.x = 0 /\ Take({BS}, place, paper)
    \/ new_line # "NL_CRLF" /\ Take({CR, LF} \ LineEnd, place, paper)

-----------------------------------------------------------------------------
(* Between two texts *)

Shown == {y \in 0 .. height - 1 : height - lines <= y}

\* The rows shown are blanked; the cursor stays.
Erase ==
    /\ text = <<>>
    /\ paper' = [y \in 0 .. height - 1 |->
                    IF y \in Shown THEN BlankRow(columns) ELSE paper[y]]
    /\ UNCHANGED <<columns, lines, mode, new_line, text, height, place>>

\* A program that controls the whole screen: rows that have left it stay.
Paint ==
    /\ mode = "M_ANSI" /\ text = <<>>
    /\ paper' \in [0 .. height - 1 -> [0 .. columns - 1 -> Printable]]
    /\ \A y \in (0 .. height - 1) \ Shown : paper'[y] = paper[y]
    /\ place' \in [x : 0 .. columns - 1, y : Shown]
    /\ UNCHANGED <<columns, lines, mode, new_line, text, height>>

\* The settings say what later characters do, and change nothing on the sheet.
Set ==
    /\ text = <<>>
    /\ mode' \in Mode /\ new_line' \in NewLineSetting
    /\ UNCHANGED <<columns, lines, text, paper, height, place>>

\* A new sheet, of any size, before anything was written.
Unroll ==
    /\ place = Home /\ height = lines /\ text = <<>>
    /\ \E size \in Sizes :
          /\ columns' = size.columns /\ lines' = size.lines
          /\ height' = size.lines
          /\ paper' = [y \in 0 .. size.lines - 1 |-> BlankRow(size.columns)]
    /\ mode' \in Mode /\ new_line' \in NewLineSetting
    /\ UNCHANGED <<text, place>>

Next ==
    \/ NewText \/ Write \/ Back \/ Return \/ LineFeed \/ NewLine \/ Skip
    \/ Erase \/ Paint \/ Set \/ Unroll

Spec == Init /\ [][Next]_sheet
=============================================================================
