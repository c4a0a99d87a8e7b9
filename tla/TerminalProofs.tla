---------------------------- MODULE TerminalProofs ----------------------------
(***************************************************************************)
(* Proofs about the terminal, for screens of every size, every text and    *)
(* every key, with the sample computer or any other:                       *)
(*   - the types, and the cursor on the screen (CursorOnScreen);           *)
(*   - the options of model, window and configuration (OptionsAgree);      *)
(*   - the terminal implements a roll of paper (module Sheet);             *)
(*   - the echo program prints each key at most once (EchoedOnce).         *)
(*                                                                         *)
(* CursorOnScreen is not inductive: that a new machine may be loaded       *)
(* although initialize does not move the cursor rests on the cursor being  *)
(* at home, and nothing scrolled, until the session begins.                *)
(***************************************************************************)
EXTENDS SampleEmulator, SequenceTheorems, TLAPS

Home == [x |-> 0, y |-> 0]

\* Before the session nothing was printed; a session has a screen.
Phases ==
    /\ columns = 0 => lines = 0 /\ at # "session" /\ ~ preloaded
    /\ columns > 0 => lines > 0
    /\ at = "starting" => columns = 0
    /\ at # "session" => cursor = Home /\ scrolled = 0 /\ text = <<>>

EmulatorTypes ==
    /\ a \in Char \cup {NUL} /\ next_char \in Char \cup {NUL}
    /\ queue \in Seq(Char)

CursorInside == at = "session" => cursor.x < columns /\ cursor.y < lines

IInv == TypeOK /\ Phases /\ CursorInside /\ OptionsAgree /\ EmulatorTypes

-----------------------------------------------------------------------------
\* A screen of blanks is a screen.
LEMMA BlankScreenType ==
    ASSUME NEW m \in Nat, NEW n \in Nat
    PROVE  BlankScreen(m, n) \in [0 .. n - 1 -> [0 .. m - 1 -> Printable]]
BY TerminalAssumption DEF BlankScreen, BlankRow

LEMMA InitIInv == EchoInit => IInv
<1> SUFFICES ASSUME EchoInit PROVE IInv
  OBVIOUS
<1>1. buffer \in Screen
  BY BlankScreenType DEF EchoInit, Init, Screen
<1>2. gone \in [0 .. scrolled - 1 -> [0 .. columns - 1 -> Printable]]
  BY DEF EchoInit, Init, BlankRow
<1>3. window \in Options /\ mode \in Mode /\ new_line \in NewLineSetting
  BY DEF EchoInit, Init, Options, Mode, NewLineSetting
<1>4. /\ columns \in Nat /\ lines \in Nat /\ scrolled \in Nat /\ printed \in Nat
      /\ cursor \in [x : Nat, y : Nat] /\ text \in Seq(Char)
  BY DEF EchoInit, Init
<1>5. TypeOK
  BY <1>1, <1>2, <1>3, <1>4 DEF EchoInit, Init, TypeOK
<1>6. Phases /\ CursorInside /\ OptionsAgree
  BY DEF EchoInit, Init, Phases, Home, CursorInside, OptionsAgree
<1>7. EmulatorTypes
  BY DEF EchoInit, EmulatorTypes
<1>8. QED
  BY <1>5, <1>6, <1>7 DEF IInv

LEMMA Loads ==
    ASSUME IInv, UNCHANGED emulator, NEW size \in Sizes, LoadMachine(size)
    PROVE  IInv'
<1>1. size.columns \in Nat \ {0} /\ size.lines \in Nat \ {0}
  BY TerminalAssumption
<1>2. buffer' \in Screen'
  BY <1>1, BlankScreenType DEF LoadMachine, Initialize, Screen
<1>3. mode' \in Mode /\ new_line' \in NewLineSetting
  BY DEF IInv, TypeOK, Options, LoadMachine, Initialize
<1>4. [mode |-> mode', new_line |-> new_line'] = settings'
  BY DEF IInv, TypeOK, Options, LoadMachine, Initialize
<1>5. gone' \in [0 .. scrolled' - 1 -> [0 .. columns' - 1 -> Printable]]
  BY DEF IInv, TypeOK, Phases, LoadMachine, Initialize
<1>6. TypeOK'
  BY <1>1, <1>2, <1>3, <1>5 DEF IInv, TypeOK, LoadMachine, Initialize
<1>7. Phases' /\ CursorInside'
  BY <1>1 DEF IInv, TypeOK, Phases, CursorInside, LoadMachine, Initialize
<1>8. OptionsAgree'
  BY <1>1, <1>4 DEF IInv, OptionsAgree, LoadMachine, Initialize
<1>9. QED
  BY <1>6, <1>7, <1>8 DEF IInv, EmulatorTypes, emulator

\* The actions of the user that change neither the size nor the text.
LEMMA UserKeepsIInv ==
    ASSUME IInv, UNCHANGED emulator, User
    PROVE  IInv'
<1> USE DEF emulator
<1>1. ASSUME NEW size \in Sizes, LoadMachine(size) PROVE IInv'
  BY <1>1, Loads
<1>2. CASE NoMachine
  BY <1>2 DEF IInv, TypeOK, Phases, CursorInside, OptionsAgree, EmulatorTypes,
              NoMachine, screen, options, Screen
<1>3. CASE StartSession
  <2>1. CursorInside'
    BY <1>3 DEF IInv, TypeOK, Phases, CursorInside, Home, StartSession, screen
  <2>2. QED
    BY <1>3, <2>1 DEF IInv, TypeOK, Phases, OptionsAgree, EmulatorTypes,
                      StartSession, screen, options, Screen
<1>4. CASE Clear
  <2>1. columns \in Nat /\ lines \in Nat
    BY DEF IInv, TypeOK
  <2>2. buffer' \in Screen'
    BY <1>4, <2>1, BlankScreenType DEF Clear, Initialize, Screen
  <2>3. columns' = columns /\ lines' = lines
    BY <1>4 DEF Clear, Initialize
  <2>4. settings \in Options
    BY DEF IInv, TypeOK
  <2>5. /\ mode' \in Mode /\ new_line' \in NewLineSetting
        /\ [mode |-> mode', new_line |-> new_line'] = settings'
    BY <1>4, <2>4 DEF Clear, Initialize, Options
  <2>6. TypeOK'
    BY <1>4, <2>2, <2>3, <2>5 DEF IInv, TypeOK, Clear, Initialize
  <2>7. Phases' /\ CursorInside' /\ OptionsAgree' /\ EmulatorTypes'
    BY <1>4, <2>3, <2>5
       DEF IInv, Phases, CursorInside, OptionsAgree, EmulatorTypes, Clear,
           Initialize
  <2>8. QED
    BY <2>6, <2>7 DEF IInv
<1>5. CASE Reset
  <2>1. columns \in Nat /\ lines \in Nat
    BY DEF IInv, TypeOK
  <2>2. columns' = columns /\ lines' = lines /\ at' = at /\ at = "session"
    BY <1>5 DEF Reset, Idle
  <2>3. buffer' \in Screen'
    <3>1. Screen' = Screen /\ buffer \in Screen
      BY <2>2 DEF Screen, IInv, TypeOK
    <3>2. BlankScreen(columns, lines) \in Screen
      BY <2>1, BlankScreenType DEF Screen
    <3>3. buffer' = BlankScreen(columns, lines) \/ buffer' = buffer
      BY <1>5 DEF Reset
    <3>4. QED
      BY <3>1, <3>2, <3>3
  <2>4. columns > 0 /\ lines > 0
    BY <2>1, <2>2 DEF IInv, Phases
  <2>5. cursor' \in [x : Nat, y : Nat] /\ CursorInside'
    BY <1>5, <2>1, <2>2, <2>4 DEF IInv, TypeOK, CursorInside, Reset
  <2>6. QED
    BY <1>5, <2>2, <2>3, <2>5
       DEF IInv, TypeOK, Phases, OptionsAgree, EmulatorTypes, Reset, options
<1>6. ASSUME NEW m \in Mode, ChooseMode(m) PROVE IInv'
  <2>1. TypeOK'
    BY <1>6 DEF IInv, TypeOK, ChooseMode, screen, Screen, Options
  <2>2. OptionsAgree'
    BY <1>6 DEF IInv, TypeOK, OptionsAgree, ChooseMode, screen, Options
  <2>3. Phases' /\ CursorInside' /\ EmulatorTypes'
    BY <1>6 DEF IInv, Phases, CursorInside, EmulatorTypes, ChooseMode, screen
  <2>4. QED
    BY <2>1, <2>2, <2>3 DEF IInv
<1>7. ASSUME NEW n \in NewLineSetting, ChooseNewLine(n) PROVE IInv'
  <2>1. TypeOK'
    BY <1>7 DEF IInv, TypeOK, ChooseNewLine, screen, Screen, Options
  <2>2. OptionsAgree'
    BY <1>7 DEF IInv, TypeOK, OptionsAgree, ChooseNewLine, screen, Options
  <2>3. Phases' /\ CursorInside' /\ EmulatorTypes'
    BY <1>7 DEF IInv, Phases, CursorInside, EmulatorTypes, ChooseNewLine, screen
  <2>4. QED
    BY <2>1, <2>2, <2>3 DEF IInv
<1>8. QED
  BY <1>1, <1>2, <1>3, <1>4, <1>5, <1>6, <1>7 DEF User

-----------------------------------------------------------------------------
(* Texts *)

\* What the end of an iteration needs: a screen with the character on it and
\* a cursor that has moved by one column or one row.
Moved(p, rows) ==
    /\ rows \in Screen
    /\ p \in [x : Nat, y : Nat]
    /\ p.x <= columns /\ p.y <= lines
    /\ p.x = columns => p.y < lines

LEMMA FinishKeeps ==
    ASSUME IInv, UNCHANGED emulator, at = "session", text # <<>>,
           NEW p, NEW rows, Moved(p, rows), Finish(p, rows)
    PROVE  IInv'
<1> DEFINE w == Wrap(p)
<1>1. /\ columns \in Nat /\ lines \in Nat /\ columns > 0 /\ lines > 0
      /\ scrolled \in Nat
  BY DEF IInv, TypeOK, Phases
<1>2. /\ w \in [x : Nat, y : Nat]
      /\ w.x < columns /\ w.y <= lines
  BY <1>1 DEF Moved, Wrap
<1>3. /\ columns' = columns /\ lines' = lines /\ at' = at /\ preloaded' = preloaded
      /\ printed' = printed /\ UNCHANGED options
  BY DEF Finish
<1>4. text' \in Seq(Char)
  BY DEF Finish, IInv, TypeOK
<1>5. CASE w.y >= lines
  <2>1. cursor' = [w EXCEPT !.y = @ - 1] /\ buffer' = ScrollUp(rows)
        /\ scrolled' = scrolled + 1
        /\ gone' = [y \in 0 .. scrolled |->
                        IF y < scrolled THEN gone[y] ELSE rows[0]]
    BY <1>5 DEF Finish
  <2>2. cursor' \in [x : Nat, y : Nat] /\ cursor'.x < columns /\ cursor'.y < lines
    BY <1>1, <1>2, <1>5, <2>1
  <2>3. buffer' \in Screen
    BY <1>1, <2>1, TerminalAssumption DEF Moved, Screen, ScrollUp, BlankRow
  <2>4. gone' \in [0 .. scrolled' - 1 -> [0 .. columns - 1 -> Printable]]
    <3>1. rows[0] \in [0 .. columns - 1 -> Printable]
      BY <1>1 DEF Moved, Screen
    <3>2. gone \in [0 .. scrolled - 1 -> [0 .. columns - 1 -> Printable]]
      BY DEF IInv, TypeOK
    <3>3. QED
      BY <1>1, <2>1, <3>1, <3>2
  <2>5. TypeOK'
    <3>1. Screen' = Screen
      BY <1>3 DEF Screen
    <3>2. scrolled' \in Nat
      BY <1>1, <2>1
    <3>3. QED
      BY <1>3, <1>4, <2>2, <2>3, <2>4, <3>1, <3>2 DEF IInv, TypeOK, options
  <2>6. Phases' /\ CursorInside' /\ OptionsAgree' /\ EmulatorTypes'
    BY <1>1, <1>3, <2>2
       DEF IInv, Phases, CursorInside, OptionsAgree, EmulatorTypes, options,
           emulator
  <2>7. QED
    BY <2>5, <2>6 DEF IInv
<1>6. CASE ~ (w.y >= lines)
  <2>1. cursor' = w /\ buffer' = rows /\ UNCHANGED <<scrolled, gone>>
    BY <1>6 DEF Finish
  <2>2. cursor'.x < columns /\ cursor'.y < lines
    BY <1>1, <1>2, <1>6, <2>1
  <2>3. QED
    BY <1>1, <1>2, <1>3, <1>4, <2>1, <2>2
       DEF IInv, TypeOK, Phases, CursorInside, OptionsAgree, EmulatorTypes,
           Screen, options, emulator, Moved
<1>7. QED
  BY <1>5, <1>6

LEMMA CharacterKeepsIInv ==
    ASSUME IInv, UNCHANGED emulator, Character
    PROVE  IInv'
<1>1. /\ columns \in Nat /\ lines \in Nat /\ columns > 0 /\ lines > 0
      /\ buffer \in Screen /\ cursor \in [x : Nat, y : Nat]
  BY DEF IInv, TypeOK, Phases, Character, Mark, Backspace, NewLine,
         CarriageReturn, LineFeed, Ignored
<1>2. text # <<>> /\ at = "session"
  BY DEF IInv, TypeOK, Phases, Character, Mark, Backspace, NewLine,
         CarriageReturn, LineFeed, Ignored
<1>3. cursor.x < columns /\ cursor.y < lines
  BY <1>2 DEF IInv, CursorInside
<1>4. CASE Mark
  <2> DEFINE p == [cursor EXCEPT !.x = @ + 1]
             row == [buffer[cursor.y] EXCEPT ![cursor.x] = NextChar]
             rows == [buffer EXCEPT ![cursor.y] = row]
  <2>1. row \in [0 .. columns - 1 -> Printable]
    BY <1>1, <1>3, <1>4 DEF Mark, Screen
  <2>2. rows \in Screen
    BY <1>1, <1>3, <2>1 DEF Screen
  <2>3. Moved(p, rows)
    BY <1>1, <1>3, <2>2 DEF Moved
  <2>4. Finish(p, rows)
    BY <1>4 DEF Mark
  <2>5. QED
    BY <1>2, <2>3, <2>4, FinishKeeps
<1>5. CASE Backspace
  <2>1. Moved([cursor EXCEPT !.x = @ - 1], buffer)
    BY <1>1, <1>3, <1>5 DEF Moved, Backspace
  <2>2. QED
    BY <1>2, <1>5, <2>1, FinishKeeps DEF Backspace
<1>6. CASE NewLine
  <2>1. Moved([x |-> 0, y |-> cursor.y + 1], buffer)
    BY <1>1, <1>3 DEF Moved
  <2>2. QED
    BY <1>2, <1>6, <2>1, FinishKeeps DEF NewLine
<1>7. CASE CarriageReturn
  <2>1. Moved([cursor EXCEPT !.x = 0], buffer)
    BY <1>1, <1>3 DEF Moved
  <2>2. QED
    BY <1>2, <1>7, <2>1, FinishKeeps DEF CarriageReturn
<1>8. CASE LineFeed
  <2>1. Moved([cursor EXCEPT !.y = @ + 1], buffer)
    BY <1>1, <1>3 DEF Moved
  <2>2. QED
    BY <1>2, <1>8, <2>1, FinishKeeps DEF LineFeed
<1>9. CASE Ignored
  <2>1. Moved(cursor, buffer)
    BY <1>1, <1>3 DEF Moved
  <2>2. QED
    BY <1>2, <1>9, <2>1, FinishKeeps DEF Ignored
<1>10. QED
  BY <1>4, <1>5, <1>6, <1>7, <1>8, <1>9 DEF Character

\* A text begins, or libtmt draws it.
LEMMA AddKeepsIInv ==
    ASSUME IInv, EmulatorTypes', NEW s \in Seq(Char),
           AddString(s) \/ AddAnsiString(s)
    PROVE  IInv'
<1>1. CASE AddString(s)
  <2>1. printed' \in Nat
    BY <1>1 DEF AddString, IInv, TypeOK
  <2>2. QED
    BY <1>1, <2>1
       DEF IInv, TypeOK, Phases, CursorInside, OptionsAgree, AddString,
           Idle, screen, options, Screen
<1>2. CASE AddAnsiString(s)
  <2>1. printed' \in Nat
    BY <1>2 DEF AddAnsiString, IInv, TypeOK
  <2>2. columns \in Nat /\ lines \in Nat /\ buffer \in Screen
    BY DEF IInv, TypeOK
  <2>3. buffer' \in Screen
    BY <1>2 DEF AddAnsiString
  <2>4. cursor' \in [x : 0 .. columns - 1, y : 0 .. lines - 1]
    BY <1>2 DEF AddAnsiString
  <2>5. cursor' \in [x : Nat, y : Nat] /\ cursor'.x < columns /\ cursor'.y < lines
    BY <2>2, <2>4
  <2>6. Screen' = Screen
    BY <1>2 DEF AddAnsiString, Screen
  <2>7. TypeOK'
    BY <1>2, <2>1, <2>3, <2>5, <2>6
       DEF IInv, TypeOK, AddAnsiString, options
  <2>8. Phases' /\ CursorInside' /\ OptionsAgree'
    BY <1>2, <2>5
       DEF IInv, Phases, CursorInside, OptionsAgree, AddAnsiString, Idle, options
  <2>9. QED
    BY <2>7, <2>8 DEF IInv
<1>3. QED
  BY <1>1, <1>2

LEMMA NextIInv == IInv /\ [EchoNext]_vars => IInv'
<1> SUFFICES ASSUME IInv, [EchoNext]_vars PROVE IInv'
  OBVIOUS
<1>1. CASE User /\ UNCHANGED <<emulator, computer>>
  BY <1>1, UserKeepsIInv
<1>2. CASE Character /\ UNCHANGED <<emulator, computer>>
  BY <1>2, CharacterKeepsIInv
<1>3. CASE Computer /\ UNCHANGED <<emulator, computer>>
  <2>1. EmulatorTypes'
    BY <1>3 DEF IInv, EmulatorTypes, emulator
  <2>2. PICK s \in Texts : AddString(s) \/ AddAnsiString(s)
    BY <1>3 DEF Computer
  <2>3. s \in Seq(Char)
    BY TerminalAssumption
  <2>4. QED
    BY <2>1, <2>2, <2>3, AddKeepsIInv
<1>4. CASE Instruction \/ ResetComputer
  <2>1. UNCHANGED terminal
    BY <1>4 DEF Instruction, In, BranchIfZero, Out, Jump, Executes, ResetComputer
  <2>2. EmulatorTypes'
    <3>1. CASE In \/ BranchIfZero \/ Jump \/ ResetComputer
      <4>1. <<>> \in Seq(Char)
        OBVIOUS
      <4> QED
        BY <3>1, <4>1
           DEF IInv, EmulatorTypes, In, BranchIfZero, Jump, ResetComputer
    <3>2. CASE Out /\ a = NUL
      BY <3>2 DEF IInv, EmulatorTypes, Out
    <3>3. CASE Out /\ a # NUL
      <4>1. a \in Char /\ queue \in Seq(Char)
        BY <3>3 DEF IInv, EmulatorTypes
      <4>2. Append(queue, a) \in Seq(Char)
        BY <4>1
      <4>3. QED
        BY <3>3, <4>2 DEF IInv, EmulatorTypes, Out
    <3>4. QED
      BY <1>4, <3>1, <3>2, <3>3 DEF Instruction
  <2>3. QED
    BY <2>1, <2>2 DEF IInv, TypeOK, Phases, CursorInside, OptionsAgree,
                      terminal, screen, options, Screen
<1>5. ASSUME Reply, next_char' \in Char \cup {NUL} PROVE IInv'
  <2>1. EmulatorTypes'
    BY <1>5 DEF IInv, EmulatorTypes, Reply
  <2>2. CASE UNCHANGED terminal
    BY <2>1, <2>2 DEF IInv, TypeOK, Phases, CursorInside, OptionsAgree,
                      terminal, screen, options, Screen
  <2>3. CASE AddString(queue) \/ AddAnsiString(queue)
    <3>1. queue \in Seq(Char)
      BY DEF IInv, EmulatorTypes
    <3>2. QED
      BY <2>1, <2>3, <3>1, AddKeepsIInv
  <2>4. QED
    BY <1>5, <2>2, <2>3 DEF Reply
<1>6. CASE Poll
  BY <1>5, <1>6 DEF Poll, IInv, EmulatorTypes
<1>7. ASSUME NEW frame \in Frames, PollWithKey(frame) PROVE IInv'
  <2>1. CheckForKeypress(frame) \subseteq Char
    <3>1. \A key \in DOMAIN KeyTranslation : KeyTranslation[key][1] \in Char
      BY DEF KeyTranslation, Char
    <3>2. frame.pressed \subseteq DOMAIN KeyTranslation
      BY EmulatorAssumption
    <3>3. QED
      BY <3>1, <3>2 DEF CheckForKeypress
  <2>2. PICK c \in CheckForKeypress(frame) : next_char' = c
    BY <1>7 DEF PollWithKey
  <2>3. next_char' \in Char
    BY <2>1, <2>2
  <2>4. QED
    BY <1>5, <1>7, <2>3 DEF PollWithKey
<1>8. CASE UNCHANGED vars
  BY <1>8 DEF vars, emulator, IInv, TypeOK, Phases, CursorInside,
              OptionsAgree, EmulatorTypes, terminal, screen, options, Screen
<1>9. QED
  BY <1>1, <1>2, <1>3, <1>4, <1>6, <1>7, <1>8 DEF EchoNext

\* The inductive invariant holds.
THEOREM Invariant == EchoSpec => []IInv
BY InitIInv, NextIInv, PTL DEF EchoSpec

\* Types, for every size of screen.
THEOREM TypeCorrect == EchoSpec => []TypeOK
<1>1. IInv => TypeOK
  BY DEF IInv
<1>2. QED
  BY <1>1, Invariant, PTL

\* The cursor never leaves the screen: add_string always has a cell.
THEOREM CursorStays == EchoSpec => []CursorOnScreen
<1>1. IInv => CursorOnScreen
  <2>1. SUFFICES ASSUME IInv, at = "session" PROVE DrawnCursor # {}
    BY DEF CursorOnScreen
  <2>2. /\ cursor \in [x : Nat, y : Nat] /\ columns \in Nat /\ lines \in Nat
        /\ cursor.x < columns /\ cursor.y < lines
    BY <2>1 DEF IInv, TypeOK, CursorInside
  <2>3. cursor \in [x : 0 .. columns - 1, y : 0 .. lines - 1]
    BY <2>2
  <2>4. QED
    BY <2>3 DEF DrawnCursor
<1>2. QED
  BY <1>1, Invariant, PTL

\* Model, window and configuration have the same options.
THEOREM OptionsStay == EchoSpec => []OptionsAgree
<1>1. IInv => OptionsAgree
  BY DEF IInv
<1>2. QED
  BY <1>1, Invariant, PTL

-----------------------------------------------------------------------------
(* The terminal implements Sheet *)

\* The roll of paper of a screen with these rows.
Roll(rows) ==
    [y \in 0 .. scrolled + lines - 1 |->
        IF y < scrolled THEN gone[y] ELSE rows[y - scrolled]]

Advances(q, rows) ==
    Paper!Advance([x |-> q.x, y |-> scrolled + q.y], Roll(rows))

\* The end of an iteration, seen on the paper: the cursor advances to where
\* it was moved, without wrapping around or scrolling anything.
LEMMA FinishAdvances ==
    ASSUME IInv, NEW p, NEW rows, Moved(p, rows) /\ Finish(p, rows),
           columns > 0 /\ lines > 0
    PROVE  Advances(Wrap(p), rows)
<1> DEFINE w == Wrap(p)
           Above(y) == IF y < scrolled' THEN gone'[y] ELSE buffer'[y - scrolled']
           Below(y) == IF y < scrolled + lines THEN Roll(rows)[y]
                                               ELSE Paper!BlankRow(columns)
<1>1. columns \in Nat /\ lines \in Nat /\ scrolled \in Nat
  BY DEF IInv, TypeOK
<1>2. w \in [x : Nat, y : Nat] /\ w.y <= lines
  BY <1>1 DEF Moved, Wrap
<1>3. columns' = columns /\ lines' = lines
  BY DEF Finish
<1>0. UNCHANGED <<mode, new_line>>
  BY DEF Finish, options
<1>4. CASE w.y >= lines
  <2>1. cursor' = [w EXCEPT !.y = @ - 1] /\ buffer' = ScrollUp(rows)
        /\ scrolled' = scrolled + 1
        /\ gone' = [y \in 0 .. scrolled |->
                        IF y < scrolled THEN gone[y] ELSE rows[0]]
    BY <1>4 DEF Finish
  <2>2. w.y = lines
    BY <1>1, <1>2, <1>4
  <2>3. [x |-> cursor'.x, y |-> scrolled' + cursor'.y]
            = [x |-> w.x, y |-> scrolled + w.y]
    BY <1>1, <1>2, <2>1
  <2>4. scrolled' + lines' = scrolled + lines + 1
    BY <1>1, <1>3, <2>1
  <2>5. ASSUME NEW y \in 0 .. scrolled' + lines' - 1
        PROVE  Above(y) = Below(y)
    <3>1. y \in 0 .. scrolled + lines
      BY <1>1, <1>3, <2>1
    <3>2. CASE y < scrolled + 1
      BY <1>1, <2>1, <3>1, <3>2 DEF Roll
    <3>3. CASE ~ (y < scrolled + 1)
      <4>1. y - scrolled' \in 0 .. lines - 1 /\ y - scrolled' + 1 = y - scrolled
        BY <1>1, <2>1, <3>1, <3>3
      <4>2. buffer'[y - scrolled'] = IF y - scrolled' < lines - 1
                                     THEN rows[y - scrolled' + 1]
                                     ELSE BlankRow(columns)
        BY <2>1, <4>1 DEF ScrollUp
      <4>3. QED
        BY <1>1, <2>1, <3>1, <3>3, <4>1, <4>2 DEF Roll, BlankRow, Paper!BlankRow
    <3>4. QED
      BY <3>2, <3>3
  <2>6. [y \in 0 .. scrolled' + lines' - 1 |-> Above(y)]
          = [y \in 0 .. scrolled' + lines' - 1 |-> Below(y)]
    <3> HIDE DEF Above, Below
    <3>1. QED
      BY <2>5
  <2>7. [x |-> w.x, y |-> scrolled + w.y].y = scrolled + lines
    BY <2>2
  <2>8. (IF [x |-> w.x, y |-> scrolled + w.y].y = scrolled + lines
            THEN scrolled + lines + 1 ELSE scrolled + lines) = scrolled' + lines'
    BY <2>4, <2>7
  <2>9. Roll(buffer)' = [y \in 0 .. (scrolled + lines)' - 1 |-> Below(y)]
    <3>1. Roll(buffer)' = [y \in 0 .. scrolled' + lines' - 1 |-> Above(y)]
      BY DEF Roll
    <3>2. 0 .. (scrolled + lines)' - 1 = 0 .. scrolled' + lines' - 1
      BY <1>1, <1>3, <2>1
    <3> HIDE DEF Above, Below
    <3>3. QED
      BY <2>6, <3>1, <3>2, Zenon
  <2>10. (scrolled + lines)' =
            IF scrolled + w.y = scrolled + lines THEN scrolled + lines + 1
                                                 ELSE scrolled + lines
    BY <2>2, <2>4
  <2>11. QED
    BY <1>0, <1>3, <2>3, <2>9, <2>10, Zenon DEF Advances, Paper!Advance, Roll
<1>5. CASE ~ (w.y >= lines)
  <2>1. cursor' = w /\ buffer' = rows /\ UNCHANGED <<scrolled, gone>>
    BY <1>5 DEF Finish
  <2>2. w.y < lines
    BY <1>1, <1>2, <1>5
  <2>3. QED
    BY <1>0, <1>1, <1>2, <1>3, <2>1, <2>2 DEF Advances, Paper!Advance, Roll
<1>6. QED
  BY <1>4, <1>5

\* Where the cursor does not leave its column, it advances to p.
LEMMA Stays ==
    ASSUME NEW p, p.x \in Nat, columns \in Nat, p.x < columns
    PROVE  Wrap(p) = p
BY DEF Wrap

LEMMA CharacterImplements ==
    ASSUME IInv, Character
    PROVE  [Paper!Next]_(Paper!sheet)
<1>1. /\ columns \in Nat /\ lines \in Nat /\ columns > 0 /\ lines > 0
      /\ scrolled \in Nat
      /\ buffer \in Screen /\ cursor \in [x : Nat, y : Nat]
  BY DEF IInv, TypeOK, Phases, Character, Mark, Backspace, NewLine,
         CarriageReturn, LineFeed, Ignored
<1>2. cursor.x < columns /\ cursor.y < lines
  BY DEF IInv, TypeOK, Phases, CursorInside, Character, Mark, Backspace, NewLine,
         CarriageReturn, LineFeed, Ignored
<1>0. text # <<>> /\ text' = Tail(text)
  BY DEF Character, Mark, Backspace, NewLine, CarriageReturn, LineFeed, Ignored, Finish
<1> DEFINE place == [x |-> cursor.x, y |-> scrolled + cursor.y]
<1>3. CASE Mark
  <2> DEFINE row == [buffer[cursor.y] EXCEPT ![cursor.x] = NextChar]
  <2>0. PICK p, rows : /\ p = [cursor EXCEPT !.x = @ + 1]
                       /\ rows = [buffer EXCEPT ![cursor.y] = row]
    OBVIOUS
  <2>1. NextChar \in Printable /\ Finish(p, rows)
    BY <1>3, <2>0 DEF Mark
  <2>2. Moved(p, rows)
    <3>1. row \in [0 .. columns - 1 -> Printable]
      BY <1>1, <1>2, <2>1 DEF Screen
    <3>2. rows \in Screen
      BY <1>1, <1>2, <2>0, <3>1 DEF Screen
    <3>3. QED
      BY <1>1, <1>2, <2>0, <3>2 DEF Moved
  <2>3. Advances(Wrap(p), rows)
    BY <1>1, <2>1, <2>2, FinishAdvances
  <2>4. [x |-> Wrap(p).x, y |-> scrolled + Wrap(p).y]
          = IF place.x + 1 = columns THEN [x |-> 0, y |-> place.y + 1]
                                     ELSE [place EXCEPT !.x = @ + 1]
    BY <1>1, <1>2, <2>0 DEF Wrap
  <2>5. Roll(rows) = [Roll(buffer) EXCEPT
                        ![place.y] = [@ EXCEPT ![place.x] = NextChar]]
    <3>1. ASSUME NEW y \in 0 .. scrolled + lines - 1
          PROVE  Roll(rows)[y] = IF y = place.y
                    THEN [Roll(buffer)[y] EXCEPT ![place.x] = NextChar]
                    ELSE Roll(buffer)[y]
      <4>1. CASE y = place.y
        <5>1. Roll(buffer)[y] = buffer[cursor.y] /\ Roll(rows)[y] = rows[cursor.y]
          BY <1>1, <1>2, <4>1 DEF Roll
        <5>2. rows[cursor.y] = row
          <6>1. cursor.y \in 0 .. lines - 1 /\ DOMAIN buffer = 0 .. lines - 1
            BY <1>1, <1>2 DEF Screen
          <6> HIDE DEF row
          <6>2. QED
            BY <2>0, <6>1
        <5>3. QED
          BY <4>1, <5>1, <5>2
      <4>2. CASE y # place.y
        BY <1>1, <1>2, <2>0, <4>2 DEF Roll, Screen
      <4>3. QED
        BY <4>1, <4>2
    <3>2. /\ DOMAIN Roll(rows) = 0 .. scrolled + lines - 1
          /\ DOMAIN Roll(buffer) = 0 .. scrolled + lines - 1
          /\ Roll(rows) = [y \in 0 .. scrolled + lines - 1 |-> Roll(rows)[y]]
      BY DEF Roll
    <3>3. QED
      BY <3>1, <3>2, Zenon
  <2>6. Paper!Write
    BY <1>3, <1>0, <2>1, <2>3, <2>4, <2>5
       DEF Advances, Mark, NextChar, Paper!Write, Paper!Take, Paper!Advance, Roll
  <2>7. QED
    BY <2>1, <2>6 DEF Paper!Next
<1>4. CASE Backspace
  <2>0. PICK p, rows : p = [cursor EXCEPT !.x = @ - 1] /\ rows = buffer
    OBVIOUS
  <2>1. cursor.x > 0 /\ Finish(p, rows)
    BY <1>4, <2>0 DEF Backspace
  <2>2. Moved(p, rows) /\ Wrap(p) = p
    BY <1>1, <1>2, <2>0, <2>1 DEF Moved, Wrap
  <2>3. Advances(Wrap(p), rows)
    BY <1>1, <2>1, <2>2, FinishAdvances
  <2>4. [x |-> Wrap(p).x, y |-> scrolled + Wrap(p).y] = [place EXCEPT !.x = @ - 1]
    BY <1>1, <2>0, <2>2
  <2>7. NextChar = BS
    BY <1>4 DEF Backspace
  <2>8. Paper!Advance([place EXCEPT !.x = @ - 1], Roll(buffer))
    BY <2>0, <2>1, <2>3, <2>4 DEF Advances, Paper!Advance, Roll
  <2>9. Paper!Take({BS}, [place EXCEPT !.x = @ - 1], Roll(buffer))
    BY <1>0, <2>7, <2>8 DEF Paper!Take, NextChar
  <2>5. Paper!Back
    BY <2>1, <2>9 DEF Paper!Back, Roll
  <2>6. QED
    BY <2>5 DEF Paper!Next
<1>5. CASE NewLine
  <2>0. PICK p, rows : p = [x |-> 0, y |-> cursor.y + 1] /\ rows = buffer
    OBVIOUS
  <2>1. Finish(p, rows)
    BY <1>5, <2>0 DEF NewLine
  <2>2. Moved(p, rows) /\ Wrap(p) = p
    BY <1>1, <1>2, <2>0 DEF Moved, Wrap
  <2>3. Advances(Wrap(p), rows)
    BY <1>1, <2>1, <2>2, FinishAdvances
  <2>4. [x |-> Wrap(p).x, y |-> scrolled + Wrap(p).y] = [x |-> 0, y |-> place.y + 1]
    BY <1>1, <2>0, <2>2
  <2>7. NextChar \in Paper!LineEnd
    BY <1>5 DEF NewLine, NextChar, EndsLine, Paper!LineEnd
  <2>8. Paper!Advance([x |-> 0, y |-> place.y + 1], Roll(buffer))
    BY <2>0, <2>3, <2>4 DEF Advances, Paper!Advance, Roll
  <2>9. Paper!Take(Paper!LineEnd, [x |-> 0, y |-> place.y + 1], Roll(buffer))
    BY <1>0, <2>7, <2>8 DEF Paper!Take, NextChar
  <2>5. Paper!NewLine
    BY <2>9 DEF Paper!NewLine, Roll
  <2>6. QED
    BY <2>5 DEF Paper!Next
<1>6. CASE CarriageReturn
  <2>0. PICK p, rows : p = [cursor EXCEPT !.x = 0] /\ rows = buffer
    OBVIOUS
  <2>1. Finish(p, rows)
    BY <1>6, <2>0 DEF CarriageReturn
  <2>2. Moved(p, rows) /\ Wrap(p) = p
    BY <1>1, <1>2, <2>0 DEF Moved, Wrap
  <2>3. Advances(Wrap(p), rows)
    BY <1>1, <2>1, <2>2, FinishAdvances
  <2>4. [x |-> Wrap(p).x, y |-> scrolled + Wrap(p).y] = [place EXCEPT !.x = 0]
    BY <1>1, <2>0, <2>2
  <2>7. NextChar = CR /\ new_line = "NL_CRLF"
    BY <1>6 DEF CarriageReturn
  <2>8. Paper!Advance([place EXCEPT !.x = 0], Roll(buffer))
    BY <2>0, <2>3, <2>4 DEF Advances, Paper!Advance, Roll
  <2>9. Paper!Take({CR}, [place EXCEPT !.x = 0], Roll(buffer))
    BY <1>0, <2>7, <2>8 DEF Paper!Take, NextChar
  <2>5. Paper!Return
    BY <2>7, <2>9 DEF Paper!Return, Roll
  <2>6. QED
    BY <2>5 DEF Paper!Next
<1>7. CASE LineFeed
  <2>0. PICK p, rows : p = [cursor EXCEPT !.y = @ + 1] /\ rows = buffer
    OBVIOUS
  <2>1. Finish(p, rows)
    BY <1>7, <2>0 DEF LineFeed
  <2>2. Moved(p, rows) /\ Wrap(p) = p
    BY <1>1, <1>2, <2>0 DEF Moved, Wrap
  <2>3. Advances(Wrap(p), rows)
    BY <1>1, <2>1, <2>2, FinishAdvances
  <2>4. [x |-> Wrap(p).x, y |-> scrolled + Wrap(p).y] = [place EXCEPT !.y = @ + 1]
    BY <1>1, <2>0, <2>2
  <2>7. NextChar = LF /\ new_line = "NL_CRLF"
    BY <1>7 DEF LineFeed
  <2>8. Paper!Advance([place EXCEPT !.y = @ + 1], Roll(buffer))
    BY <2>0, <2>3, <2>4 DEF Advances, Paper!Advance, Roll
  <2>9. Paper!Take({LF}, [place EXCEPT !.y = @ + 1], Roll(buffer))
    BY <1>0, <2>7, <2>8 DEF Paper!Take, NextChar
  <2>5. Paper!LineFeed
    BY <2>7, <2>9 DEF Paper!LineFeed, Roll
  <2>6. QED
    BY <2>5 DEF Paper!Next
<1>8. CASE Ignored
  <2>1. Wrap(cursor) = cursor /\ Finish(cursor, buffer)
    BY <1>1, <1>2, <1>8, Stays DEF Ignored
  <2>0. PICK p, rows : p = cursor /\ rows = buffer
    OBVIOUS
  <2>2. Moved(p, rows) /\ Wrap(p) = p /\ Finish(p, rows)
    BY <1>1, <1>2, <2>0, <2>1 DEF Moved
  <2>7. Advances(Wrap(p), rows)
    BY <1>1, <2>2, FinishAdvances
  <2>8. [x |-> Wrap(p).x, y |-> scrolled + Wrap(p).y] = place
    BY <1>1, <2>0, <2>2
  <2>3. Paper!Advance(place, Roll(buffer))
    BY <2>0, <2>7, <2>8 DEF Advances, Paper!Advance, Roll
  <2>4. CASE NextChar = Other
    <3>1. Paper!Take({Other}, place, Roll(buffer))
      BY <1>0, <2>3, <2>4 DEF Paper!Take, NextChar
    <3> QED
      BY <3>1 DEF Paper!Next, Paper!Skip, Roll
  <2>5. CASE NextChar = BS /\ cursor.x = 0
    <3>1. Paper!Take({BS}, place, Roll(buffer)) /\ place.x = 0
      BY <1>0, <2>3, <2>5 DEF Paper!Take, NextChar
    <3> QED
      BY <3>1 DEF Paper!Next, Paper!Skip, Roll
  <2>6. CASE NextChar \in {CR, LF} /\ new_line # "NL_CRLF" /\ ~ EndsLine(NextChar)
    <3>1. NextChar \in {CR, LF} \ Paper!LineEnd
      BY <2>6 DEF EndsLine, Paper!LineEnd
    <3>2. Paper!Take({CR, LF} \ Paper!LineEnd, place, Roll(buffer))
      BY <1>0, <2>3, <3>1 DEF Paper!Take, NextChar
    <3> QED
      BY <2>6, <3>2 DEF Paper!Next, Paper!Skip, Roll
  <2> QED
    BY <1>8, <2>4, <2>5, <2>6 DEF Ignored
<1>9. QED
  BY <1>3, <1>4, <1>5, <1>6, <1>7, <1>8 DEF Character

\* Whatever changes only the rows of the screen paints on the paper.
LEMMA Paints ==
    ASSUME IInv, buffer' \in Screen,
           cursor' \in [x : 0 .. columns - 1, y : 0 .. lines - 1],
           UNCHANGED <<columns, lines, scrolled, gone>>,
           mode = "M_ANSI", text = <<>>, UNCHANGED <<mode, new_line, text>>
    PROVE  Paper!Paint
<1>1. columns \in Nat /\ lines \in Nat /\ scrolled \in Nat
  BY DEF IInv, TypeOK
<1>2. gone \in [0 .. scrolled - 1 -> [0 .. columns - 1 -> Printable]]
  BY DEF IInv, TypeOK
<1>3. Roll(buffer)' \in [0 .. (scrolled + lines) - 1 -> [0 .. columns - 1 -> Printable]]
  BY <1>1, <1>2 DEF Roll, Screen
<1>4. ASSUME NEW y \in (0 .. (scrolled + lines) - 1) \ Paper!Shown
      PROVE  Roll(buffer)'[y] = Roll(buffer)[y]
  BY <1>1 DEF Roll, Paper!Shown
<1>5. [x |-> cursor'.x, y |-> scrolled' + cursor'.y]
        \in [x : 0 .. columns - 1, y : Paper!Shown]
  BY <1>1 DEF Paper!Shown
<1>6. UNCHANGED <<columns, lines, scrolled + lines>>
  OBVIOUS
<1>7. QED
  BY <1>3, <1>4, <1>5, <1>6, Zenon DEF Paper!Paint, Roll

LEMMA UserImplements ==
    ASSUME IInv, User
    PROVE  [Paper!Next]_(Paper!sheet)
<1>1. columns \in Nat /\ lines \in Nat /\ scrolled \in Nat
  BY DEF IInv, TypeOK
<1>0. settings \in Options /\ mode \in Mode /\ new_line \in NewLineSetting
  BY DEF IInv, TypeOK
<1>2. ASSUME NEW size \in Sizes, LoadMachine(size) PROVE Paper!Unroll
  <2>1. /\ cursor = Home /\ scrolled = 0 /\ size.lines \in Nat
        /\ UNCHANGED <<cursor, scrolled, gone>>
    BY <1>2, TerminalAssumption DEF IInv, Phases, LoadMachine, Initialize
  <2>2. columns' = size.columns /\ lines' = size.lines
        /\ buffer' = BlankScreen(size.columns, size.lines)
    BY <1>2 DEF LoadMachine, Initialize
  <2>3. Roll(buffer)' = [y \in 0 .. size.lines - 1 |-> Paper!BlankRow(size.columns)]
    BY <2>1, <2>2 DEF Roll, BlankScreen, BlankRow, Paper!BlankRow
  <2>5. /\ text = <<>> /\ text' = text
        /\ mode' \in Paper!Mode /\ new_line' \in Paper!NewLineSetting
    BY <1>0, <1>2
       DEF IInv, Phases, LoadMachine, Initialize, Options, Mode, NewLineSetting,
           Paper!Mode, Paper!NewLineSetting
  <2>4. QED
    BY <1>1, <2>1, <2>2, <2>3, <2>5 DEF Paper!Unroll, Roll, Home, Paper!Home
<1>3. CASE Clear
  <2>1. UNCHANGED <<columns, lines, cursor, scrolled, gone>>
        /\ buffer' = BlankScreen(columns, lines)
    BY <1>3 DEF Clear, Initialize
  <2>2. Roll(buffer)' = [y \in 0 .. (scrolled + lines) - 1 |->
                            IF y \in Paper!Shown THEN Paper!BlankRow(columns)
                                                 ELSE Roll(buffer)[y]]
    <3>1. ASSUME NEW y \in 0 .. (scrolled + lines) - 1
          PROVE  y \in Paper!Shown <=> ~ (y < scrolled)
      BY <1>1 DEF Paper!Shown
    <3>2. ASSUME NEW y \in 0 .. (scrolled + lines) - 1, ~ (y < scrolled)
          PROVE  buffer'[y - scrolled] = Paper!BlankRow(columns)
      <4>1. y - scrolled \in 0 .. lines - 1
        BY <1>1, <3>2
      <4>2. QED
        BY <2>1, <4>1 DEF BlankScreen, BlankRow, Paper!BlankRow
    <3>3. Roll(buffer)' = [y \in 0 .. (scrolled + lines) - 1 |->
              IF y < scrolled THEN gone[y] ELSE buffer'[y - scrolled]]
      BY <1>1, <2>1 DEF Roll
    <3>4. ASSUME NEW y \in 0 .. (scrolled + lines) - 1, y < scrolled
          PROVE  Roll(buffer)[y] = gone[y]
      BY <1>1, <3>4 DEF Roll
    <3>5. QED
      BY <3>1, <3>2, <3>3, <3>4
  <2>3. UNCHANGED <<columns, lines, scrolled + lines,
                    [x |-> cursor.x, y |-> scrolled + cursor.y]>>
    BY <2>1
  <2>6. text = <<>> /\ UNCHANGED <<mode, new_line, text>>
    <3>1. columns > 0
      BY <1>1, <1>3 DEF IInv, Phases, Clear, Idle
    <3>2. mode = settings.mode /\ new_line = settings.new_line
      BY <3>1 DEF IInv, OptionsAgree
    <3> QED
      BY <1>3, <3>2 DEF Clear, Idle, Initialize
  <2>4. Paper!Erase
    BY <2>2, <2>3, <2>6, Zenon DEF Paper!Erase, Roll
  <2>5. QED
    BY <2>4 DEF Paper!Next
<1>4. CASE Reset
  <2>1. CASE mode = "M_ANSI"
    <3>1. UNCHANGED <<columns, lines, scrolled, gone>>
          /\ buffer' = BlankScreen(columns, lines) /\ cursor' = [x |-> 0, y |-> 0]
      BY <1>4, <2>1 DEF Reset
    <3>2. columns > 0 /\ lines > 0
      BY <1>1, <1>4 DEF IInv, Phases, Reset, Idle
    <3>3. buffer' \in Screen
      BY <1>1, <3>1, BlankScreenType DEF Screen
    <3>4. cursor' \in [x : 0 .. columns - 1, y : 0 .. lines - 1]
      BY <1>1, <3>1, <3>2
    <3>5. QED
      BY <1>4, <2>1, <3>1, <3>3, <3>4, Paints DEF Reset, Idle, options, Paper!Next
  <2>2. CASE mode # "M_ANSI"
    BY <1>4, <2>2 DEF Reset, options, Paper!sheet
  <2>3. QED
    BY <2>1, <2>2
<1>5. CASE NoMachine \/ StartSession
  BY <1>5 DEF NoMachine, StartSession, screen, options, Paper!sheet
<1>6. ASSUME UNCHANGED <<screen, text>>, text = <<>>,
             mode' \in Mode, new_line' \in NewLineSetting
      PROVE  Paper!Set
  BY <1>6 DEF screen, Paper!Set, Paper!Mode, Paper!NewLineSetting, Mode, NewLineSetting
<1>7. ASSUME NEW m \in Mode, ChooseMode(m) PROVE Paper!Set
  BY <1>0, <1>6, <1>7 DEF ChooseMode, Idle
<1>8. ASSUME NEW n \in NewLineSetting, ChooseNewLine(n) PROVE Paper!Set
  BY <1>0, <1>6, <1>8 DEF ChooseNewLine, Idle
<1>9. QED
  BY <1>2, <1>3, <1>4, <1>5, <1>7, <1>8 DEF User, Paper!Next

\* A text in raw mode begins without a change; in ANSI mode it paints.
LEMMA AddImplements ==
    ASSUME IInv, NEW s \in Seq(Char), AddString(s) \/ AddAnsiString(s)
    PROVE  [Paper!Next]_(Paper!sheet)
<1>1. CASE AddString(s)
  <2>1. s \in Seq(Paper!Char)
    BY DEF Char, Paper!Char
  <2>2. Paper!NewText
    BY <1>1, <2>1 DEF AddString, Idle, screen, options, Paper!NewText
  <2>3. QED
    BY <2>2 DEF Paper!Next
<1>2. CASE AddAnsiString(s)
  <2>1. buffer \in Screen /\ columns \in Nat /\ lines \in Nat
    BY DEF IInv, TypeOK
  <2>2. buffer' \in Screen
    BY <1>2 DEF AddAnsiString
  <2>3. QED
    BY <1>2, <2>2, Paints DEF AddAnsiString, Idle, options, Paper!Next
<1>3. QED
  BY <1>1, <1>2

LEMMA StepImplements == IInv /\ [EchoNext]_vars => [Paper!Next]_(Paper!sheet)
<1> SUFFICES ASSUME IInv, [EchoNext]_vars PROVE [Paper!Next]_(Paper!sheet)
  OBVIOUS
<1>1. CASE UNCHANGED terminal
  BY <1>1 DEF terminal, screen, options, Paper!sheet
<1>2. CASE Computer
  BY <1>2, AddImplements, TerminalAssumption DEF Computer
<1>3. CASE Instruction \/ ResetComputer \/ UNCHANGED vars
  BY <1>1, <1>3 DEF Instruction, In, BranchIfZero, Out, Jump, Executes,
                    ResetComputer, vars
<1>4. CASE Reply
  BY <1>1, <1>4, AddImplements DEF Reply, IInv, EmulatorTypes
<1>5. QED
  BY <1>2, <1>3, <1>4, UserImplements, CharacterImplements
     DEF EchoNext, Poll, PollWithKey

\* The terminal implements a roll of paper (Refines): for every size of
\* screen, every text and every order of the user's steps, each character in
\* raw mode does what the setting of the new line says and nothing else, the
\* settings change nothing on the screen, clear only what is shown, and
\* scrolling and wrapping lose, repeat and move no character.
THEOREM TerminalImplementsSheet == EchoSpec => Refines
<1>1. EchoInit => Paper!Init
  BY DEF EchoInit, Init, Paper!Init, BlankRow, Paper!BlankRow, Paper!Home,
         Paper!Mode, Paper!NewLineSetting
<1>2. QED
  BY <1>1, Invariant, StepImplements, PTL DEF EchoSpec, Refines, Paper!Spec

-----------------------------------------------------------------------------
(* The echo program prints every key at most once and in order.             *)

\* The places of the keys s among the keys t.
Places(p, s, t) ==
    /\ p \in [1 .. Len(s) -> 1 .. Len(t)]
    /\ \A i \in 1 .. Len(s) : s[i] = t[p[i]]
    /\ \A i, j \in 1 .. Len(s) : i < j => p[i] < p[j]

LEMMA SubsequencePlaces ==
    ASSUME NEW s, NEW t
    PROVE  Subsequence(s, t) <=> \E p : Places(p, s, t)
  BY DEF Subsequence, Places

\* A key that is typed and held at once comes last in both.
LEMMA OneMoreKey ==
    ASSUME NEW s \in Seq(Char), NEW t \in Seq(Char), NEW c \in Char, Subsequence(s, t)
    PROVE  Subsequence(Append(s, c), Append(t, c))
<1>1. PICK p : Places(p, s, t)
  BY SubsequencePlaces
<1> DEFINE n == Len(s)
           m == Len(t)
           q == [i \in 1 .. n + 1 |-> IF i = n + 1 THEN m + 1 ELSE p[i]]
<1>2. n \in Nat /\ m \in Nat
  OBVIOUS
<1>3. /\ Len(Append(s, c)) = n + 1 /\ Len(Append(t, c)) = m + 1
      /\ \A i \in 1 .. n : Append(s, c)[i] = s[i]
      /\ \A i \in 1 .. m : Append(t, c)[i] = t[i]
      /\ Append(s, c)[n + 1] = c /\ Append(t, c)[m + 1] = c
  OBVIOUS
<1>4. /\ p \in [1 .. n -> 1 .. m]
      /\ \A i \in 1 .. n : s[i] = t[p[i]]
      /\ \A i, j \in 1 .. n : i < j => p[i] < p[j]
  BY <1>1 DEF Places
<1> HIDE DEF n, m
<1>5. q \in [1 .. n + 1 -> 1 .. m + 1]
  BY <1>2, <1>4
<1>6. \A i \in 1 .. n + 1 : Append(s, c)[i] = Append(t, c)[q[i]]
  <2> TAKE i \in 1 .. n + 1
  <2>1. CASE i = n + 1
    BY <1>2, <1>3, <2>1
  <2>2. CASE i # n + 1
    <3>1. i \in 1 .. n /\ q[i] = p[i] /\ p[i] \in 1 .. m
      BY <1>2, <1>4, <2>2
    <3> QED
      BY <1>3, <1>4, <3>1
  <2> QED
    BY <2>1, <2>2
<1>7. \A i, j \in 1 .. n + 1 : i < j => q[i] < q[j]
  <2> SUFFICES ASSUME NEW i \in 1 .. n + 1, NEW j \in 1 .. n + 1, i < j PROVE q[i] < q[j]
    OBVIOUS
  <2>1. i \in 1 .. n /\ q[i] = p[i] /\ p[i] \in 1 .. m
    BY <1>2, <1>4
  <2>2. CASE j = n + 1
    BY <1>2, <2>1, <2>2
  <2>3. CASE j # n + 1
    <3>1. j \in 1 .. n /\ q[j] = p[j]
      BY <1>2, <2>3
    <3> QED
      BY <1>4, <2>1, <3>1
  <2> QED
    BY <2>2, <2>3
<1> HIDE DEF q
<1>8. Places(q, Append(s, c), Append(t, c))
  BY <1>3, <1>5, <1>6, <1>7 DEF Places
<1> QED
  BY <1>8, SubsequencePlaces

\* A key that is dropped, the last one or the last but one.
LEMMA LastDropped ==
    ASSUME NEW s \in Seq(Char), NEW t \in Seq(Char), NEW c \in Char,
           Subsequence(Append(s, c), t)
    PROVE  Subsequence(s, t)
<1>1. PICK p : Places(p, Append(s, c), t)
  BY SubsequencePlaces
<1> DEFINE n == Len(s)
           q == [i \in 1 .. n |-> p[i]]
<1>2. n \in Nat /\ Len(Append(s, c)) = n + 1 /\ \A i \in 1 .. n : Append(s, c)[i] = s[i]
  OBVIOUS
<1>3. /\ p \in [1 .. n + 1 -> 1 .. Len(t)]
      /\ \A i \in 1 .. n + 1 : Append(s, c)[i] = t[p[i]]
      /\ \A i, j \in 1 .. n + 1 : i < j => p[i] < p[j]
  BY <1>1, <1>2 DEF Places
<1> HIDE DEF n
<1>4. \A i \in 1 .. n : i \in 1 .. n + 1 /\ q[i] = p[i]
  BY <1>2
<1>5. q \in [1 .. n -> 1 .. Len(t)]
  BY <1>3, <1>4
<1>6. Places(q, s, t)
  <2>1. \A i \in 1 .. n : s[i] = t[q[i]]
    BY <1>2, <1>3, <1>4
  <2>2. \A i, j \in 1 .. n : i < j => q[i] < q[j]
    BY <1>3, <1>4
  <2> HIDE DEF q
  <2> QED
    BY <1>5, <2>1, <2>2 DEF Places, n
<1> QED
  BY <1>6, SubsequencePlaces

LEMMA LastButOneDropped ==
    ASSUME NEW s \in Seq(Char), NEW t \in Seq(Char), NEW b \in Char, NEW c \in Char,
           Subsequence(Append(Append(s, b), c), t)
    PROVE  Subsequence(Append(s, c), t)
<1> DEFINE n == Len(s)
           long == Append(Append(s, b), c)
           short == Append(s, c)
<1>1. PICK p : Places(p, long, t)
  BY SubsequencePlaces
<1> DEFINE q == [i \in 1 .. n + 1 |-> IF i = n + 1 THEN p[n + 2] ELSE p[i]]
<1>2. /\ n \in Nat /\ Len(long) = n + 2 /\ Len(short) = n + 1
      /\ \A i \in 1 .. n : long[i] = s[i] /\ short[i] = s[i]
      /\ long[n + 2] = c /\ short[n + 1] = c
  OBVIOUS
<1> HIDE DEF n, long, short
<1>3. /\ p \in [1 .. n + 2 -> 1 .. Len(t)]
      /\ \A i \in 1 .. n + 2 : long[i] = t[p[i]]
      /\ \A i, j \in 1 .. n + 2 : i < j => p[i] < p[j]
  BY <1>1, <1>2 DEF Places
<1>4. q[n + 1] = p[n + 2] /\ \A i \in 1 .. n + 1 : i # n + 1 => i \in 1 .. n /\ q[i] = p[i]
  BY <1>2
<1>5. q \in [1 .. n + 1 -> 1 .. Len(t)]
  BY <1>2, <1>3
<1> HIDE DEF q
<1>6. \A i \in 1 .. n + 1 : short[i] = t[q[i]]
  <2> TAKE i \in 1 .. n + 1
  <2>1. CASE i = n + 1
    BY <1>2, <1>3, <1>4, <2>1
  <2>2. CASE i # n + 1
    BY <1>2, <1>3, <1>4, <2>2
  <2> QED
    BY <2>1, <2>2
<1>7. \A i, j \in 1 .. n + 1 : i < j => q[i] < q[j]
  <2> SUFFICES ASSUME NEW i \in 1 .. n + 1, NEW j \in 1 .. n + 1, i < j PROVE q[i] < q[j]
    OBVIOUS
  <2>1. i \in 1 .. n /\ q[i] = p[i]
    BY <1>2, <1>4
  <2>2. CASE j = n + 1
    BY <1>2, <1>3, <1>4, <2>1, <2>2
  <2>3. CASE j # n + 1
    BY <1>2, <1>3, <1>4, <2>1, <2>3
  <2> QED
    BY <2>2, <2>3
<1>8. Places(q, short, t)
  BY <1>2, <1>5, <1>6, <1>7 DEF Places
<1> QED
  BY <1>8, SubsequencePlaces DEF short

\* What was printed and what is held, with the key c read and n not yet read.
Chain(e, c, n) ==
    LET read == IF c = NUL THEN e ELSE Append(e, c)
    IN  IF n = NUL THEN read ELSE Append(read, n)

LEMMA TwoMore ==
    ASSUME NEW e \in Seq(Char), NEW c \in Char, NEW n \in Char
    PROVE  e \o (<<c>> \o <<n>>) = Append(Append(e, c), n)
<1>1. <<c>> \in Seq(Char) /\ <<n>> \in Seq(Char) /\ Append(e, c) \in Seq(Char)
  OBVIOUS
<1>2. (e \o <<c>>) \o <<n>> = e \o (<<c>> \o <<n>>)
  BY <1>1, ConcatAssociative
<1>3. e \o <<c>> = Append(e, c)
  BY AppendIsConcat
<1>4. Append(e, c) \o <<n>> = Append(Append(e, c), n)
  BY <1>1, AppendIsConcat
<1> QED
  BY <1>2, <1>3, <1>4

LEMMA ChainIs ==
    ASSUME NEW e \in Seq(Char), NEW c \in Char \cup {NUL}, NEW n \in Char \cup {NUL}
    PROVE  e \o (InHand(c) \o InHand(n)) = Chain(e, c, n)
<1>1. CASE c = NUL /\ n = NUL
  BY <1>1 DEF InHand, Chain
<1>2. CASE c = NUL /\ n # NUL
  BY <1>2 DEF InHand, Chain
<1>3. CASE c # NUL /\ n = NUL
  BY <1>3 DEF InHand, Chain
<1>4. CASE c # NUL /\ n # NUL
  <2>1. c \in Char /\ n \in Char
    BY <1>4
  <2>2. InHand(c) = <<c>> /\ InHand(n) = <<n>>
    BY <1>4 DEF InHand
  <2>3. e \o (<<c>> \o <<n>>) = Append(Append(e, c), n)
    BY <2>1, TwoMore
  <2> QED
    BY <1>4, <2>2, <2>3 DEF Chain
<1> QED
  BY <1>1, <1>2, <1>3, <1>4

Selected ==
    /\ typed \in Seq(Char) /\ echoed \in Seq(Char)
    /\ Subsequence(Chain(echoed, a, next_char), typed)

LEMMA SelectedInit == EchoInit => Selected
<1> SUFFICES ASSUME EchoInit PROVE Selected
  OBVIOUS
<1>1. typed = <<>> /\ echoed = <<>> /\ Chain(echoed, a, next_char) = <<>>
  BY DEF EchoInit, Chain
<1>2. <<>> \in Seq(Char) /\ Len(<<>>) = 0
  OBVIOUS
<1>3. Places([i \in 1 .. 0 |-> 0], <<>>, <<>>)
  BY <1>2 DEF Places
<1>4. Subsequence(<<>>, <<>>)
  BY <1>3, SubsequencePlaces
<1> QED
  BY <1>1, <1>2, <1>4 DEF Selected

\* A key lost by the computer: next_char is written over, or a by IN.
LEMMA KeyOverwritten ==
    ASSUME NEW e \in Seq(Char), NEW t \in Seq(Char), NEW c \in Char \cup {NUL},
           NEW n \in Char \cup {NUL}, Subsequence(Chain(e, c, n), t)
    PROVE  /\ Subsequence(Chain(e, c, NUL), t)
           /\ Subsequence(Chain(e, n, NUL), t)
<1>1. Subsequence(Chain(e, c, NUL), t)
  <2>1. CASE n = NUL
    BY <2>1
  <2>2. CASE n # NUL
    <3>1. Chain(e, c, n) = Append(Chain(e, c, NUL), n) /\ n \in Char
      BY <2>2 DEF Chain
    <3>2. Chain(e, c, NUL) \in Seq(Char)
      <4>1. c # NUL => Append(e, c) \in Seq(Char)
        OBVIOUS
      <4> QED
        BY <4>1 DEF Chain
    <3> QED
      BY <3>1, <3>2, LastDropped
  <2> QED
    BY <2>1, <2>2
<1>2. Subsequence(Chain(e, n, NUL), t)
  <2>1. CASE c = NUL
    BY <2>1 DEF Chain
  <2>2. CASE c # NUL /\ n = NUL
    <3>1. Chain(e, c, n) = Append(e, c) /\ Chain(e, n, NUL) = e /\ c \in Char
      BY <2>2 DEF Chain
    <3> QED
      BY <3>1, LastDropped
  <2>3. CASE c # NUL /\ n # NUL
    <3>1. /\ Chain(e, c, n) = Append(Append(e, c), n) /\ Chain(e, n, NUL) = Append(e, n)
          /\ c \in Char /\ n \in Char
      BY <2>3 DEF Chain
    <3> QED
      BY <3>1, LastButOneDropped
  <2> QED
    BY <2>1, <2>2, <2>3
<1> QED
  BY <1>1, <1>2

LEMMA SelectedNext == IInv /\ Selected /\ [EchoNext]_vars => Selected'
<1> SUFFICES ASSUME IInv, Selected, [EchoNext]_vars PROVE Selected'
  OBVIOUS
<1>1. a \in Char \cup {NUL} /\ next_char \in Char \cup {NUL} /\ NUL \notin Char
  BY EmulatorAssumption DEF IInv, EmulatorTypes
<1>2. ASSUME UNCHANGED <<typed, echoed, a, next_char>> PROVE Selected'
  BY <1>2 DEF Selected
<1>3. CASE In
  <2>1. UNCHANGED <<typed, echoed>> /\ a' = next_char /\ next_char' = NUL
    BY <1>3 DEF In, Executes
  <2> QED
    BY <1>1, <2>1, KeyOverwritten DEF Selected
<1>4. CASE Out
  <2>1. UNCHANGED <<typed, next_char>> /\ a' = NUL
    BY <1>4 DEF Out, Executes
  <2>2. echoed' = IF a # NUL THEN Append(echoed, a) ELSE echoed
    BY <1>4 DEF Out
  <2>3. echoed' \in Seq(Char)
    BY <1>1, <2>2 DEF Selected
  <2>4. Chain(echoed', a', next_char') = Chain(echoed, a, next_char)
    BY <2>1, <2>2 DEF Chain
  <2> QED
    BY <2>1, <2>3, <2>4 DEF Selected
<1>5. ASSUME NEW frame \in Frames, PollWithKey(frame) PROVE Selected'
  <2>1. PICK c \in CheckForKeypress(frame) : next_char' = c /\ typed' = Append(typed, c)
    BY <1>5 DEF PollWithKey
  <2>2. UNCHANGED <<a, echoed>>
    BY <1>5 DEF PollWithKey, Reply
  <2>3. c \in Char
    <3>1. \A key \in DOMAIN KeyTranslation : KeyTranslation[key][1] \in Char
      BY TerminalAssumption DEF KeyTranslation, Char
    <3>2. frame.pressed \subseteq DOMAIN KeyTranslation
      BY EmulatorAssumption
    <3> QED
      BY <2>1, <3>1, <3>2 DEF CheckForKeypress
  <2>4. Subsequence(Chain(echoed, a, NUL), typed)
    BY <1>1, KeyOverwritten DEF Selected
  <2>5. Chain(echoed, a, NUL) \in Seq(Char)
    <3>1. a # NUL => Append(echoed, a) \in Seq(Char)
      BY <1>1 DEF Selected
    <3> QED
      BY <3>1 DEF Chain, Selected
  <2>6. Chain(echoed', a', next_char') = Append(Chain(echoed, a, NUL), c)
    <3>1. c # NUL
      BY <1>1, <2>3
    <3> QED
      BY <2>1, <2>2, <3>1 DEF Chain
  <2>7. Subsequence(Append(Chain(echoed, a, NUL), c), Append(typed, c))
    BY <2>3, <2>4, <2>5, OneMoreKey DEF Selected
  <2>8. typed' \in Seq(Char)
    BY <2>1, <2>3 DEF Selected
  <2> QED
    BY <2>1, <2>2, <2>6, <2>7, <2>8 DEF Selected
<1>6. CASE BranchIfZero \/ Jump \/ Poll \/ ResetComputer
  BY <1>2, <1>6 DEF BranchIfZero, Jump, Poll, ResetComputer, Executes, Reply
<1>7. CASE \/ (User \/ Character) /\ UNCHANGED <<emulator, computer>>
           \/ computer = "other" /\ Computer /\ UNCHANGED <<emulator, computer>>
           \/ UNCHANGED vars
  BY <1>2, <1>7 DEF emulator, vars
<1> QED
  BY <1>3, <1>4, <1>5, <1>6, <1>7 DEF EchoNext, Instruction

\* KeysAreEchoedOnce: for every number of keys, every speed of typing and every
\* reset, the sample emulator's program (rom/echo.asm on emulator.c's
\* instructions) echoes no key twice and none before an earlier one: it only
\* leaves keys out.
THEOREM KeysAreEchoedOnce == EchoSpec => []EchoedOnce
<1>1. IInv /\ Selected => EchoedOnce
  BY ChainIs DEF IInv, EmulatorTypes, Selected, EchoedOnce, Held
<1> QED
  BY <1>1, SelectedInit, SelectedNext, Invariant, PTL DEF EchoSpec
=============================================================================
