----------------------------- MODULE WindowsProofs -----------------------------
(***************************************************************************)
(* What the windows show, for every program, memory, page and number of    *)
(* recompilations.                                                         *)
(***************************************************************************)
EXTENDS Windows, FiniteSetTheorems, WellFoundedInduction, TLAPS

NoProgram == [files |-> 0, lines |-> <<>>, symbols |-> {}, binaries |-> FALSE]

MemoryWindow ==
    {w \in [pages : Nat, current_page : Int, data : [0 .. PageSize - 1 -> [addr : Int, value : Int]]] :
        IF w.pages = 0 THEN w.current_page \in {0, -1} ELSE w.current_page \in 0 .. w.pages - 1}

MemoryType ==
    /\ DOMAIN memory = Memories
    /\ \A nr \in Memories : \A a \in DOMAIN memory[nr] : memory[nr][a] \in Int

Types ==
    /\ TypeOK
    /\ program \in Programs \cup {NoProgram}
    /\ memories \in Seq(MemoryWindow)
    /\ started => Len(memories) >= Len(MemorySizes)
    /\ MemoryType

\* The code window is as it should be even before the session and during an
\* upload; only a running computer moves away from the line listed.
PcListed ==
    /\ ~ running_ /\ follows
    /\ Complete(program) /\ pc_ \in LinesWithCode(program)
    => LET file == IF scroll_to_line_ = NoLine THEN selected_file_ ELSE scroll_to_line_.file
       IN  \E i \in DOMAIN program.lines :
               LET n == program.lines[i].line
               IN  Row(program, file, n) /\ RowAddress(program, file, n) = pc_

ByteShown(nr, k) ==
    LET w == memories[nr]
        a == Label(w, k)
    IN  w.current_page = 0 /\ w.data[k] # NoByte /\ <<nr, a>> \notin stored =>
            /\ w.data[k].addr = a
            /\ a \in DOMAIN memory[nr] => w.data[k].value = memory[nr][a]

BytesShown == started => \A nr \in Memories : \A k \in 0 .. PageSize - 1 : ByteShown(nr, k)

\* A running computer changes registers of which nothing is shown.
NothingShownRunning == alive => shown = Cleared

IInv == Types /\ PcListed /\ BytesShown /\ NothingShownRunning /\ RegistersShown
-----------------------------------------------------------------------------
(* Numbers *)

\* The least-number principle, from the finite intervals below the elements.
LEMMA Least ==
    ASSUME NEW T \in SUBSET Nat, T # {}
    PROVE  \E x \in T : \A y \in T : x <= y
<1> DEFINE Intervals == {0 .. n : n \in T}
<1>1. Intervals \subseteq FiniteSubsetsOf(Nat)
  <2>1. \A n \in T : IsFiniteSet(0 .. n) /\ 0 .. n \subseteq Nat
    BY FS_Interval
  <2> QED
    BY <2>1 DEF FiniteSubsetsOf
<1>2. PICK s \in Intervals : \A t \in Intervals : <<t, s>> \notin StrictSubsetOrdering(Nat)
  <2>1. Intervals # {}
    OBVIOUS
  <2> HIDE DEF Intervals
  <2> QED
    BY <1>1, <2>1, WFMin, FS_StrictSubsetOrderingWellFounded
<1>3. PICK x \in T : s = 0 .. x
  OBVIOUS
<1>4. ASSUME NEW y \in T, y < x
      PROVE  FALSE
  <2>1. /\ 0 .. y \in Intervals
        /\ 0 .. y \subseteq 0 .. x /\ 0 .. y # 0 .. x
        /\ 0 .. y \subseteq Nat /\ 0 .. x \subseteq Nat
    BY <1>4
  <2> QED
    BY <1>2, <1>3, <2>1 DEF StrictSubsetOrdering
<1> QED
  BY <1>4

LEMMA Largest ==
    ASSUME NEW n \in Nat, NEW S \in SUBSET (1 .. n), S # {}
    PROVE  Max(S) \in S
<1> DEFINE T == {n - x : x \in S}
<1>1. T \subseteq Nat /\ T # {}
  <2>1. \A x \in S : x \in Nat /\ n - x \in Nat
    OBVIOUS
  <2> QED
    BY <2>1
<1>2. PICK y \in T : \A z \in T : y <= z
  <2> HIDE DEF T
  <2> QED
    BY <1>1, Least
<1>3. PICK x \in S : y = n - x
  OBVIOUS
<1>4. ASSUME NEW z \in S
      PROVE  x >= z
  <2>1. n - z \in T /\ x \in Nat /\ z \in Nat
    OBVIOUS
  <2>2. n - x <= n - z
    BY <1>2, <1>3, <2>1
  <2> QED
    BY <2>1, <2>2
<1>5. \E m \in S : \A z \in S : m >= z
  BY <1>4
<1> QED
  BY <1>5 DEF Max

\* Block divides the offset of a byte into a block and a place in it.
LEMMA Division ==
    ASSUME NEW k \in 0 .. PageSize - 1
    PROVE  /\ k \div Block \in Nat /\ k % Block \in Nat
           /\ (k \div Block) * Block + (k % Block) = k
  BY MemoryAssumption

LEMMA PagesType ==
    ASSUME NEW nr \in Memories
    PROVE  MemorySizes[nr] \div PageSize \in Nat
<1>1. MemorySizes[nr] \in Nat /\ PageSize \in Nat \ {0}
  BY MemoryAssumption DEF Memories
<1> QED
  BY <1>1

-----------------------------------------------------------------------------
(* The code window *)

LEMMA SeqElements ==
    ASSUME NEW R, NEW s \in Seq(R)
    PROVE  /\ Len(s) \in Nat /\ DOMAIN s = 1 .. Len(s)
           /\ \A i \in DOMAIN s : s[i] \in R
  OBVIOUS

LEMMA ProgramType ==
    ASSUME NEW p \in Programs \cup {NoProgram}
    PROVE  /\ p.files \in Nat
           /\ p.lines \in Seq([file : 0 .. p.files - 1, line : Nat, address : Int])
<1>1. CASE p \in Programs
  BY <1>1, ProgramsAssumption
<1>2. CASE p = NoProgram
  <2>1. p.files = 0 /\ p.lines = <<>>
    BY <1>2 DEF NoProgram
  <2> QED
    BY <2>1
<1> QED
  BY <1>1, <1>2

\* The line of an address is one of those listed for it, in a file of the
\* program.
LEMMA LineOfEntry ==
    ASSUME NEW p \in Programs \cup {NoProgram}, NEW a \in LinesWithCode(p)
    PROVE  /\ LineOf(p, a) \in [file : 0 .. p.files - 1, line : Nat]
           /\ \E i \in DOMAIN p.lines : p.lines[i].address = a /\ LineOf(p, a) = Place(p.lines[i])
<1>1. /\ Len(p.lines) \in Nat /\ DOMAIN p.lines = 1 .. Len(p.lines)
      /\ \A i \in DOMAIN p.lines :
            p.lines[i] \in [file : 0 .. p.files - 1, line : Nat, address : Int]
  <2>1. p.lines \in Seq([file : 0 .. p.files - 1, line : Nat, address : Int])
    BY ProgramType
  <2> QED
    BY <2>1, SeqElements
<1>2. At(p, a) \subseteq 1 .. Len(p.lines) /\ At(p, a) # {}
  BY <1>1 DEF At, LinesWithCode
<1>3. Max(At(p, a)) \in At(p, a)
  BY <1>1, <1>2, Largest
<1> DEFINE i == Max(At(p, a))
<1>4. i \in DOMAIN p.lines /\ p.lines[i].address = a
  BY <1>3 DEF At
<1>5. LineOf(p, a) = Place(p.lines[i])
  BY DEF LineOf
<1> HIDE DEF i
<1> QED
  BY <1>1, <1>4, <1>5 DEF Place

LEMMA TargetType ==
    ASSUME FilesListed, NEW p \in Programs \cup {NoProgram}, NEW a \in Addr,
           NEW n \in Nat, p.files <= n, files_cstr_ <= n
    PROVE  Target(p, a) = NoLine \/ Target(p, a) \in [file : 0 .. n - 1, line : Nat]
<1>1. CASE a \in LinesWithCode(p)
  <2>1. LineOf(p, a) \in [file : 0 .. p.files - 1, line : Nat] /\ p.files \in Nat
    BY <1>1, LineOfEntry, ProgramType
  <2>2. 0 .. p.files - 1 \subseteq 0 .. n - 1
    BY <2>1
  <2> QED
    BY <1>1, <2>1, <2>2 DEF Target
<1>2. CASE a \notin LinesWithCode(p)
  <2>1. 0 .. files_cstr_ - 1 \subseteq 0 .. n - 1
    BY DEF FilesListed
  <2> QED
    BY <1>2, <2>1 DEF Target, FilesListed
<1> QED
  BY <1>1, <1>2

\* A line of the program that is listed last may be scrolled to.
LEMMA FilesScroll ==
    ASSUME FilesListed, program \in Programs \cup {NoProgram}, NEW a \in Addr,
           scroll_to_line_' \in {scroll_to_line_, Target(program, a)},
           UNCHANGED <<program, files_cstr_, selected_file_>>
    PROVE  FilesListed'
<1>1. files_cstr_ \in Nat /\ program.files <= files_cstr_
  BY DEF FilesListed
<1>2. \/ Target(program, a) = NoLine
      \/ Target(program, a) \in [file : 0 .. files_cstr_ - 1, line : Nat]
  BY <1>1, TargetType
<1> QED
  BY <1>2 DEF FilesListed

\* The list grows with each compilation, so that every index stays in it.
LEMMA FilesGrow ==
    ASSUME FilesListed, NEW p \in Programs, NEW a \in Addr,
           program' = p, files_cstr_' = files_cstr_ + p.files,
           scroll_to_line_' = Target(p, a), selected_file_' = selected_file_
    PROVE  FilesListed'
<1>1. p.files \in Nat /\ files_cstr_ \in Nat /\ files_cstr_' \in Nat
  <2>1. p.files \in Nat
    BY ProgramType
  <2>2. files_cstr_ \in Nat
    BY DEF FilesListed
  <2> QED
    BY <2>1, <2>2
<1>2. p.files <= files_cstr_' /\ files_cstr_ <= files_cstr_'
  BY <1>1
<1>3. \/ scroll_to_line_' = NoLine
      \/ scroll_to_line_' \in [file : 0 .. files_cstr_' - 1, line : Nat]
  <2> DEFINE n == files_cstr_ + p.files
  <2>1. n \in Nat /\ p.files <= n /\ files_cstr_ <= n
    BY <1>1
  <2> HIDE DEF n
  <2>2. Target(p, a) = NoLine \/ Target(p, a) \in [file : 0 .. n - 1, line : Nat]
    BY <2>1, TargetType
  <2> QED
    BY <2>2 DEF n
<1>4. selected_file_' \in 0 .. files_cstr_' - 1 \cup {0}
  BY <1>1, <1>2 DEF FilesListed
<1> QED
  BY <1>1, <1>2, <1>3, <1>4 DEF FilesListed

\* A line chosen by its address is drawn with that address, in a list of
\* lines without gaps and repetitions.
LEMMA LineOfListed ==
    ASSUME NEW p \in Programs \cup {NoProgram}, Complete(p), NEW a \in LinesWithCode(p)
    PROVE  \E i \in DOMAIN p.lines :
               LET n == p.lines[i].line
               IN  Row(p, LineOf(p, a).file, n) /\ RowAddress(p, LineOf(p, a).file, n) = a
<1>1. PICK i \in DOMAIN p.lines : p.lines[i].address = a /\ LineOf(p, a) = Place(p.lines[i])
  BY LineOfEntry
<1>2. LineOf(p, a).file = p.lines[i].file
  BY <1>1 DEF Place
<1>3. Of(p, Place(p.lines[i])) = {i} /\ Row(p, p.lines[i].file, p.lines[i].line)
  BY DEF Complete
<1>4. RowAddress(p, p.lines[i].file, p.lines[i].line) = a
  <2>1. i \in 1 .. Len(p.lines) /\ Len(p.lines) \in Nat
    BY ProgramType
  <2>2. Max({i}) \in {i}
    BY <2>1, Largest
  <2>3. Max({i}) = i
    BY <2>2
  <2> QED
    BY <1>1, <1>3, <2>3 DEF RowAddress, Place
<1> QED
  BY <1>2, <1>3, <1>4

\* Every command that scrolls brings the line of its pc.
LEMMA ScrollListed ==
    ASSUME program' \in Programs \cup {NoProgram},
           scroll_to_line_' = Target(program', pc_')
    PROVE  PcListed'
<1> SUFFICES ASSUME Complete(program'), pc_' \in LinesWithCode(program')
             PROVE  \E i \in DOMAIN program'.lines :
                       LET f == IF scroll_to_line_' = NoLine THEN selected_file_'
                                                             ELSE scroll_to_line_'.file
                           n == program'.lines[i].line
                       IN  Row(program', f, n) /\ RowAddress(program', f, n) = pc_'
  BY DEF PcListed, Complete, LinesWithCode, Row, RowAddress, At, Of, Place
<1>1. scroll_to_line_' = LineOf(program', pc_')
  BY DEF Target
<1>2. scroll_to_line_' # NoLine
  <2>1. scroll_to_line_' \in [file : 0 .. program'.files - 1, line : Nat]
    BY <1>1, LineOfEntry
  <2> QED
    BY <2>1 DEF NoLine
<1> QED
  BY <1>1, <1>2, LineOfListed
-----------------------------------------------------------------------------
(* The memory windows *)

LEMMA ByteAtType ==
    ASSUME MemoryType', NEW nr \in Memories, NEW a \in Int
    PROVE  /\ ByteAt(nr, a) \in [addr : Int, value : Int] /\ ByteAt(nr, a).addr = a
           /\ a \in DOMAIN memory'[nr] => ByteAt(nr, a).value = memory'[nr][a]
  BY DEF ByteAt, MemoryType

\* Whatever page is asked for, the window is on one of its pages, and byte k
\* of what was read comes from where the code reads it.
LEMMA PageReadType ==
    ASSUME MemoryType', NEW w \in MemoryWindow, NEW nr \in Memories, NEW page \in Int, NEW n \in Nat
    PROVE  LET v == PageRead(w, nr, page, n)
               p == Page(w, page)
           IN  /\ v \in MemoryWindow /\ v.current_page = p
               /\ \A k \in 0 .. PageSize - 1 :
                     v.data[k] = NoByte \/ v.data[k] = ByteAt(nr, (p + (k \div Block)) * Block + (k % Block))
<1> DEFINE p == Page(w, page)
           from(k) == (p + (k \div Block)) * Block + (k % Block)
           data == [k \in 0 .. PageSize - 1 |-> IF k < n * Block THEN ByteAt(nr, from(k)) ELSE NoByte]
<1>1. /\ w \in [pages : Nat, current_page : Int,
                data : [0 .. PageSize - 1 -> [addr : Int, value : Int]]]
      /\ w.pages \in Nat
  BY DEF MemoryWindow
<1>2. p \in Int /\ IF w.pages = 0 THEN p \in {0, -1} ELSE p \in 0 .. w.pages - 1
  BY <1>1 DEF Page
<1>3. ASSUME NEW k \in 0 .. PageSize - 1
      PROVE  from(k) \in Int /\ ByteAt(nr, from(k)) \in [addr : Int, value : Int]
  <2>1. k \div Block \in Nat /\ k % Block \in Nat
    BY Division
  <2>2. from(k) \in Int
    BY <1>2, <2>1, MemoryAssumption
  <2> HIDE DEF from
  <2> QED
    BY <2>2, ByteAtType
<1>4. PageRead(w, nr, page, n) = [w EXCEPT !.current_page = p, !.data = data]
  BY DEF PageRead
<1> HIDE DEF p, from
<1>5. data \in [0 .. PageSize - 1 -> [addr : Int, value : Int]]
  BY <1>3 DEF NoByte
<1>6. \A k \in 0 .. PageSize - 1 : data[k] = NoByte \/ data[k] = ByteAt(nr, from(k))
  OBVIOUS
<1> HIDE DEF data
<1>7. /\ PageRead(w, nr, page, n).current_page = p
      /\ PageRead(w, nr, page, n).data = data
      /\ PageRead(w, nr, page, n).pages = w.pages
      /\ PageRead(w, nr, page, n) \in [pages : Nat, current_page : Int,
                data : [0 .. PageSize - 1 -> [addr : Int, value : Int]]]
  BY <1>1, <1>2, <1>4, <1>5
<1>8. PageRead(w, nr, page, n) \in MemoryWindow
  BY <1>2, <1>7 DEF MemoryWindow
<1> QED
  BY <1>6, <1>7, <1>8 DEF p, from

\* On page 0 block and label agree, so that a page just read is shown right.
LEMMA PageReadShown ==
    ASSUME MemoryType', NEW w \in MemoryWindow, NEW nr \in Memories, NEW page \in Int, NEW n \in Nat,
           memories'[nr] = PageRead(w, nr, page, n),
           NEW k \in 0 .. PageSize - 1
    PROVE  ByteShown(nr, k)'
<1> DEFINE v == PageRead(w, nr, page, n)
<1> SUFFICES ASSUME v.current_page = 0, v.data[k] # NoByte
             PROVE  /\ Label(v, k) = k /\ v.data[k].addr = k
                    /\ k \in DOMAIN memory'[nr] => v.data[k].value = memory'[nr][k]
  BY DEF ByteShown, Label
<1>1. v.data[k] = ByteAt(nr, (0 + (k \div Block)) * Block + (k % Block))
  <2>1. /\ v.current_page = Page(w, page)
        /\ v.data[k] = NoByte \/ v.data[k] = ByteAt(nr, (Page(w, page) + (k \div Block)) * Block + (k % Block))
    BY PageReadType
  <2> HIDE DEF v
  <2>2. Page(w, page) = 0
    BY <2>1
  <2> QED
    BY <2>1, <2>2
<1> HIDE DEF v
<1>2. (0 + (k \div Block)) * Block + (k % Block) = k
  <2>1. k \div Block \in Nat
    BY Division
  <2>2. 0 + (k \div Block) = k \div Block
    BY <2>1
  <2> QED
    BY <2>2, Division
<1>3. v.data[k] = ByteAt(nr, k)
  BY <1>1, <1>2
<1>4. Label(v, k) = k
  <2>1. 0 * PageSize = 0 /\ k \in 0 .. 65535
    BY MemoryAssumption
  <2> QED
    BY <2>1 DEF Label
<1>5. k \in Int
  OBVIOUS
<1> QED
  BY <1>3, <1>4, <1>5, ByteAtType

LEMMA NewMemoryType ==
    ASSUME NEW nr \in Memories
    PROVE  NewMemory(nr) \in MemoryWindow
<1>1. Unread \in [0 .. PageSize - 1 -> [addr : Int, value : Int]]
  BY DEF Unread, NoByte
<1>2. MemorySizes[nr] \div PageSize \in Nat
  BY PagesType
<1> QED
  BY <1>1, <1>2 DEF NewMemory, MemoryWindow

\* A byte that the program stores is remembered in `stored`.
LEMMA MayStoreKeeps ==
    ASSUME Types, BytesShown, MayStore, UNCHANGED <<memories, started>>
    PROVE  BytesShown' /\ MemoryType'
<1>1. CASE UNCHANGED <<memory, stored, stores>>
  BY <1>1 DEF Types, MemoryType, BytesShown, ByteShown, Label
<1>2. CASE \E nr \in Memories : \E a \in DOMAIN memory[nr] :
              /\ memory' = [memory EXCEPT ![nr][a] = 1 - @]
              /\ stored' = stored \cup {<<nr, a>>}
  <2>0. PICK nr \in Memories :
           \E a \in DOMAIN memory[nr] :
              /\ memory' = [memory EXCEPT ![nr][a] = 1 - @]
              /\ stored' = stored \cup {<<nr, a>>}
    BY <1>2
  <2>1. PICK a \in DOMAIN memory[nr] :
              /\ memory' = [memory EXCEPT ![nr][a] = 1 - @]
              /\ stored' = stored \cup {<<nr, a>>}
    BY <2>0
  <2>2. DOMAIN memory = Memories
    BY DEF Types, MemoryType
  <2>3. /\ DOMAIN memory' = Memories
        /\ \A i \in Memories \ {nr} : memory'[i] = memory[i]
        /\ DOMAIN memory'[nr] = DOMAIN memory[nr]
        /\ \A b \in DOMAIN memory[nr] : memory'[nr][b] = IF b = a THEN 1 - memory[nr][a] ELSE memory[nr][b]
    BY <2>1, <2>2
  <2>4. ASSUME NEW i \in Memories
        PROVE  \A b \in DOMAIN memory'[i] : memory'[i][b] \in Int
    <3>1. CASE i = nr
      BY <2>3, <3>1 DEF Types, MemoryType
    <3>2. CASE i # nr
      BY <2>3, <3>2 DEF Types, MemoryType
    <3> QED
      BY <3>1, <3>2
  <2>5. ASSUME started', NEW i \in Memories, NEW k \in 0 .. PageSize - 1
        PROVE  ByteShown(i, k)'
    <3> DEFINE b == Label(memories[i], k)
    <3>1. ByteShown(i, k)
      BY <2>5 DEF BytesShown
    <3>2. Label(memories'[i], k) = b
      BY DEF Label
    <3>3. <<i, b>> \notin stored' => <<i, b>> \notin stored /\ ~ (i = nr /\ b = a)
      BY <2>1
    <3> HIDE DEF b
    <3>4. <<i, b>> \notin stored' /\ b \in DOMAIN memory'[i] =>
              b \in DOMAIN memory[i] /\ memory'[i][b] = memory[i][b]
      <4>1. CASE i = nr
        BY <2>3, <3>3, <4>1
      <4>2. CASE i # nr
        BY <2>3, <4>2
      <4> QED
        BY <4>1, <4>2
    <3> USE DEF b
    <3> QED
      BY <3>1, <3>2, <3>3, <3>4 DEF ByteShown
  <2> QED
    BY <2>3, <2>4, <2>5 DEF BytesShown, MemoryType
<1> QED
  BY <1>1, <1>2 DEF MayStore

\* A session reads page 0 of every memory that has a window.
LEMMA InitSessionShows ==
    ASSUME Types, NEW scrolled, InitSession(scrolled), MemoryType'
    PROVE  /\ memories' \in Seq(MemoryWindow)
           /\ Len(memories') >= Len(MemorySizes)
           /\ BytesShown'
<1> DEFINE new == [nr \in Memories |-> NewMemory(nr)]
           all == memories \o new
           m == Len(MemorySizes)
<1>1. m \in Nat /\ Memories = 1 .. m
  BY MemoryAssumption, SeqElements DEF Memories
<1>2. new \in Seq(MemoryWindow) /\ Len(new) = m
  <2>1. \A nr \in 1 .. m : NewMemory(nr) \in MemoryWindow
    BY <1>1, NewMemoryType
  <2> QED
    BY <1>1, <2>1
<1>3. /\ all \in Seq(MemoryWindow)
      /\ Len(all) = Len(memories) + m /\ Len(memories) \in Nat
      /\ DOMAIN all = 1 .. Len(all) /\ \A i \in DOMAIN all : all[i] \in MemoryWindow
  <2>1. memories \in Seq(MemoryWindow)
    BY DEF Types
  <2> HIDE DEF new
  <2>2. all \in Seq(MemoryWindow) /\ Len(all) = Len(memories) + m /\ Len(memories) \in Nat
    BY <1>1, <1>2, <2>1
  <2> HIDE DEF all
  <2> QED
    BY <2>2, SeqElements
<1>4. memories' = [i \in DOMAIN all |->
          IF i \in Memories THEN PageRead(all[i], i, 0, Blocks) ELSE all[i]]
  BY DEF InitSession
<1> HIDE DEF all, new
<1>5. Blocks \in Nat
  BY MemoryAssumption DEF Blocks
<1>6. ASSUME NEW i \in DOMAIN all
      PROVE  memories'[i] \in MemoryWindow
  <2>1. CASE i \in Memories
    BY <1>3, <1>4, <1>5, <2>1, PageReadType
  <2>2. CASE i \notin Memories
    BY <1>3, <1>4, <2>2
  <2> QED
    BY <2>1, <2>2
<1>7. memories' \in Seq(MemoryWindow) /\ Len(memories') = Len(memories) + m
  <2>1. memories' \in [1 .. Len(memories) + m -> MemoryWindow]
    BY <1>3, <1>4, <1>6
  <2> QED
    BY <1>1, <1>3, <2>1
<1>8. ASSUME NEW nr \in Memories, NEW k \in 0 .. PageSize - 1
      PROVE  ByteShown(nr, k)'
  <2>1. nr \in DOMAIN all
    BY <1>1, <1>3
  <2>2. memories'[nr] = PageRead(all[nr], nr, 0, Blocks)
    BY <1>4, <2>1
  <2> QED
    BY <1>3, <1>5, <2>1, <2>2, PageReadShown
<1> QED
  BY <1>1, <1>3, <1>7, <1>8 DEF BytesShown
-----------------------------------------------------------------------------
(* The steps.  Frames: what leaves code, bytes and status alone keeps all  *)
(* but the type of `at`.                                                   *)

Places == {"upload", "poll", "watch", "buttons", "code", "others", "terminated"}

LEMMA PcStays ==
    ASSUME PcListed,
           UNCHANGED <<running_, follows, program, pc_, scroll_to_line_, selected_file_>>
    PROVE  PcListed'
<1>1. /\ Complete(program)' = Complete(program)
      /\ LinesWithCode(program)' = LinesWithCode(program)
  BY DEF Complete, LinesWithCode, Row, At, Of, Place
<1>2. \A file, n : /\ Row(program, file, n)' = Row(program, file, n)
                   /\ RowAddress(program, file, n)' = RowAddress(program, file, n)
  BY DEF Row, RowAddress, Of
<1> QED
  BY <1>1, <1>2 DEF PcListed

LEMMA BytesStay ==
    ASSUME BytesShown, UNCHANGED <<started, memories, memory, stored>>
    PROVE  BytesShown'
  BY DEF BytesShown, ByteShown, Label

LEMMA FrameStep ==
    ASSUME IInv, at' \in Places, UNCHANGED <<code, bytes, status, state>>
    PROVE  IInv'
<1> USE DEF IInv, code, bytes, status, state
<1>1. Types'
  BY DEF Types, TypeOK, FilesListed, Places, MemoryType
<1>2. PcListed' /\ BytesShown'
  BY PcStays, BytesStay
<1>3. NothingShownRunning' /\ RegistersShown'
  BY DEF NothingShownRunning, RegistersShown, DrawnRegisters
<1> QED
  BY <1>1, <1>2, <1>3

LEMMA InitIInv == Init => IInv
<1> SUFFICES ASSUME Init PROVE IInv
  OBVIOUS
<1> USE DEF Init
<1>1. MemoryType
  <2>1. \A nr \in Memories : memory[nr] = [a \in 0 .. MemorySizes[nr] - 1 |-> 0]
    OBVIOUS
  <2>2. DOMAIN memory = Memories
    OBVIOUS
  <2> QED
    BY <2>1, <2>2 DEF MemoryType
<1>2. Types
  <2>1. program = NoProgram
    BY DEF NoProgram
  <2>2. memories \in Seq(MemoryWindow) /\ \A i \in DOMAIN memories : FALSE
    OBVIOUS
  <2>3. {connected, started, upload_, running_, open, follows, alive, behind} \subseteq BOOLEAN
    OBVIOUS
  <2>4. pc_ \in Addr /\ FilesListed
    BY MemoryAssumption DEF FilesListed
  <2>5. TypeOK
    BY <2>2, <2>3, <2>4 DEF TypeOK
  <2> QED
    BY <1>1, <2>1, <2>2, <2>5, MemoryAssumption DEF Types
<1>3. PcListed
  <2>1. At(program, pc_) = {}
    BY DEF At
  <2> QED
    BY <2>1 DEF PcListed, LinesWithCode
<1>4. BytesShown /\ NothingShownRunning /\ RegistersShown
  BY DEF BytesShown, NothingShownRunning, RegistersShown, DrawnRegisters
<1> QED
  BY <1>2, <1>3, <1>4 DEF IInv

\* What set_computer_status shows is the computer's.
LEMMA TellsStatus ==
    ASSUME Tells, ~ alive'
    PROVE  /\ NothingShownRunning' /\ RegistersShown'
           /\ registers' \in Registers /\ shown' \in Registers \cup {Cleared} /\ behind' \in BOOLEAN
  BY DEF Tells, NothingShownRunning, RegistersShown, DrawnRegisters

\* A command of a paused computer whose reply does not tell the registers
\* sets `behind` when it changes them.
LEMMA ExecutesStatus ==
    ASSUME IInv, Executes, ~ alive, ~ alive'
    PROVE  /\ NothingShownRunning' /\ RegistersShown'
           /\ registers' \in Registers /\ shown' \in Registers \cup {Cleared} /\ behind' \in BOOLEAN
  BY DEF IInv, Executes, NothingShownRunning, RegistersShown, DrawnRegisters, Types, TypeOK

\* The page of each window is one of its memory.
LEMMA PagesOf ==
    ASSUME NEW all \in Seq(MemoryWindow)
    PROVE  \A i \in DOMAIN all :
              IF all[i].pages = 0 THEN all[i].current_page \in {0, -1}
                                  ELSE all[i].current_page \in 0 .. all[i].pages - 1
<1>1. \A i \in DOMAIN all : all[i] \in MemoryWindow
  BY SeqElements
<1> QED
  BY <1>1 DEF MemoryWindow

\* Compilation, in the startup window or after a modification.
LEMMA CompileStep ==
    ASSUME IInv, NEW p \in Programs, Compile(p), at' \in Places, connected' \in BOOLEAN
    PROVE  IInv'
<1> USE DEF IInv
<1>1. /\ program' = p /\ p \in Programs \cup {NoProgram} /\ p.files \in Nat
      /\ files_cstr_' = files_cstr_ + p.files /\ scroll_to_line_' = Target(p, pc_)
      /\ UNCHANGED <<selected_file_, memory, stores, running_, alive>>
  BY ProgramType DEF Compile
<1>2. FilesListed'
  <2>1. FilesListed /\ pc_ \in Addr
    BY DEF Types, TypeOK
  <2> QED
    BY <1>1, <2>1, FilesGrow
<1>3. MemoryType'
  BY <1>1 DEF Types, MemoryType
<1>4. CASE p.binaries
  <2>1. /\ upload_' = TRUE /\ follows' = TRUE
        /\ UNCHANGED <<started, open, pc_, memories, stored, registers, shown, behind>>
    BY <1>4 DEF Compile
  <2>2. TypeOK'
    BY <1>1, <1>2, <2>1 DEF Types, TypeOK, Places
  <2>3. Types'
    BY <1>1, <1>3, <2>1, <2>2 DEF Types
  <2>4. PcListed'
    BY <1>1, <2>1, ScrollListed
  <2>5. BytesShown'
    BY <1>1, <2>1, BytesStay
  <2>6. NothingShownRunning' /\ RegistersShown'
    BY <1>1, <2>1 DEF NothingShownRunning, RegistersShown, DrawnRegisters
  <2> QED
    BY <2>3, <2>4, <2>5, <2>6
<1>5. CASE ~ p.binaries
  <2>1. InitSession(TRUE) /\ UNCHANGED upload_
    BY <1>5 DEF Compile
  <2>2. /\ memories' \in Seq(MemoryWindow) /\ Len(memories') >= Len(MemorySizes)
        /\ BytesShown'
    BY <1>3, <2>1, InitSessionShows
  <2>3. /\ ~ alive /\ pc_' \in Addr /\ Tells /\ started' = TRUE /\ open' \in {open, TRUE}
        /\ follows' \in BOOLEAN /\ (follows' => pc_' = pc_)
    BY <2>1 DEF InitSession
  <2>4. NothingShownRunning' /\ RegistersShown'
        /\ registers' \in Registers /\ shown' \in Registers \cup {Cleared} /\ behind' \in BOOLEAN
    BY <1>1, <2>3, TellsStatus
  <2>5. TypeOK'
    <3>1. \A i \in DOMAIN memories' :
              IF memories'[i].pages = 0 THEN memories'[i].current_page \in {0, -1}
                                        ELSE memories'[i].current_page \in 0 .. memories'[i].pages - 1
      BY <2>2, PagesOf
    <3>2. {connected', started', upload_', running_', open', follows', alive', behind'} \subseteq BOOLEAN
      BY <1>1, <2>1, <2>3, <2>4 DEF Types, TypeOK
    <3> QED
      BY <1>2, <2>3, <2>4, <3>1, <3>2 DEF TypeOK, Places
  <2>6. Types'
    BY <1>1, <1>3, <2>2, <2>5 DEF Types
  <2>7. PcListed'
    <3>1. CASE follows'
      BY <1>1, <2>3, <3>1, ScrollListed
    <3>2. CASE ~ follows'
      BY <3>2 DEF PcListed
    <3> QED
      BY <3>1, <3>2
  <2> QED
    BY <2>2, <2>4, <2>6, <2>7
<1> QED
  BY <1>4, <1>5

LEMMA UploadEndsStep == IInv /\ UploadEnds => IInv'
<1> SUFFICES ASSUME IInv, UploadEnds PROVE IInv'
  OBVIOUS
<1> USE DEF IInv
<1>1. /\ InitSession(follows) /\ at' = "buttons" /\ upload_' = FALSE
      /\ memory' = [memory EXCEPT ![1] = [a \in DOMAIN @ |-> 1 - @[a]]]
      /\ UNCHANGED <<program, files_cstr_, scroll_to_line_, selected_file_,
                     stores, alive, connected, running_, edits>>
  BY DEF UploadEnds
<1>2. MemoryType'
  <2>1. DOMAIN memory' = Memories
    BY <1>1 DEF Types, MemoryType
  <2>2. ASSUME NEW nr \in Memories
        PROVE  \A a \in DOMAIN memory'[nr] : memory'[nr][a] \in Int
    <3>1. CASE nr = 1
      BY <1>1, <3>1 DEF Types, MemoryType
    <3>2. CASE nr # 1
      BY <1>1, <3>2 DEF Types, MemoryType
    <3> QED
      BY <3>1, <3>2
  <2> QED
    BY <2>1, <2>2 DEF MemoryType
<1>3. /\ memories' \in Seq(MemoryWindow) /\ Len(memories') >= Len(MemorySizes)
      /\ BytesShown'
  BY <1>1, <1>2, InitSessionShows
<1>4. /\ ~ alive /\ pc_' \in Addr /\ Tells /\ started' = TRUE /\ open' \in {open, TRUE}
      /\ follows' \in BOOLEAN /\ (follows' => follows /\ pc_' = pc_)
  BY <1>1 DEF InitSession
<1>5. NothingShownRunning' /\ RegistersShown'
      /\ registers' \in Registers /\ shown' \in Registers \cup {Cleared} /\ behind' \in BOOLEAN
  BY <1>1, <1>4, TellsStatus
<1>6. TypeOK'
  <2>1. \A i \in DOMAIN memories' :
            IF memories'[i].pages = 0 THEN memories'[i].current_page \in {0, -1}
                                      ELSE memories'[i].current_page \in 0 .. memories'[i].pages - 1
    BY <1>3, PagesOf
  <2>2. {connected', started', upload_', running_', open', follows', alive', behind'} \subseteq BOOLEAN
    BY <1>1, <1>4, <1>5 DEF Types, TypeOK
  <2> QED
    BY <1>1, <1>4, <1>5, <2>1, <2>2 DEF Types, TypeOK, FilesListed
<1>7. Types'
  BY <1>1, <1>2, <1>3, <1>6 DEF Types
<1>8. PcListed'
  <2>1. CASE follows'
    BY <1>1, <1>4, <2>1, PcStays
  <2>2. CASE ~ follows'
    BY <2>2 DEF PcListed
  <2> QED
    BY <2>1, <2>2
<1> QED
  BY <1>3, <1>5, <1>7, <1>8

\* The computer runs, and only Runs, which clears what is shown, starts it.
LEMMA ComputerRunsStep == IInv /\ ComputerRuns => IInv'
<1> SUFFICES ASSUME IInv, ComputerRuns PROVE IInv'
  OBVIOUS
<1> USE DEF IInv
<1>1. /\ alive /\ alive' \in BOOLEAN /\ registers' \in Registers /\ MayStore
      /\ UNCHANGED <<at, code, memories, shown, behind, state>>
  BY DEF ComputerRuns
<1>2. BytesShown' /\ MemoryType'
  BY <1>1, MayStoreKeeps DEF state
<1>3. Types'
  BY <1>1, <1>2 DEF Types, TypeOK, FilesListed, code, state
<1>4. PcListed'
  BY <1>1, PcStays DEF code, state
<1>5. NothingShownRunning' /\ RegistersShown'
  BY <1>1 DEF NothingShownRunning, RegistersShown, DrawnRegisters
<1> QED
  BY <1>2, <1>3, <1>4, <1>5

LEMMA PollStep == IInv /\ Poll => IInv'
<1> SUFFICES ASSUME IInv, Poll PROVE IInv'
  OBVIOUS
<1> USE DEF IInv
<1>1. /\ pc_' \in Addr /\ running_' = alive /\ at' = "watch"
      /\ UNCHANGED <<program, files_cstr_, selected_file_, open, bytes, status,
                     connected, started, upload_, edits>>
  BY DEF Poll
<1>2. PcListed' /\ (scroll_to_line_' = scroll_to_line_ \/ scroll_to_line_' = Target(program, pc_'))
      /\ follows' \in BOOLEAN
  <2>1. CASE running_'
    BY <2>1 DEF Poll, PcListed, Types, TypeOK
  <2>2. CASE ~ running_'
    <3>1. scroll_to_line_' = Target(program, pc_') /\ follows' = TRUE
      BY <2>2 DEF Poll, ScrollToPc
    <3> QED
      BY <1>1, <3>1, ScrollListed DEF Types
  <2> QED
    BY <2>1, <2>2
<1>3. FilesListed'
  <2> DEFINE a == pc_'
  <2>1. a \in Addr /\ scroll_to_line_' \in {scroll_to_line_, Target(program, a)}
    BY <1>1, <1>2
  <2> HIDE DEF a
  <2> QED
    BY <1>1, <2>1, FilesScroll DEF Types, TypeOK
<1>4. Types'
  BY <1>1, <1>2, <1>3 DEF Types, TypeOK, bytes, status, MemoryType
<1>5. BytesShown' /\ NothingShownRunning' /\ RegistersShown'
  BY <1>1, BytesStay DEF bytes, status, NothingShownRunning, RegistersShown, DrawnRegisters
<1> QED
  BY <1>2, <1>4, <1>5

\* A command that scrolls to the pc it was told, and leaves the list alone.
LEMMA ScrollingStep ==
    ASSUME IInv, ScrollToPc, pc_' \in Addr, Drawn, Same,
           MayStore, running_' \in BOOLEAN, ~ alive', alive' \in BOOLEAN,
           Tells \/ (Executes /\ ~ alive)
    PROVE  IInv'
<1> USE DEF IInv
<1>1. /\ NothingShownRunning' /\ RegistersShown'
      /\ registers' \in Registers /\ shown' \in Registers \cup {Cleared} /\ behind' \in BOOLEAN
  BY TellsStatus, ExecutesStatus
<1>2. /\ scroll_to_line_' = Target(program, pc_') /\ follows' = TRUE
      /\ UNCHANGED <<program, files_cstr_, selected_file_, open, memories,
                     connected, started, upload_, edits>>
  BY DEF ScrollToPc, Same
<1>3. BytesShown' /\ MemoryType'
  BY <1>2, MayStoreKeeps
<1>4. PcListed'
  BY <1>2, ScrollListed DEF Types
<1>5. FilesListed'
  <2> DEFINE a == pc_'
  <2>1. a \in Addr /\ scroll_to_line_' \in {scroll_to_line_, Target(program, a)}
    BY <1>2
  <2> HIDE DEF a
  <2> QED
    BY <1>2, <2>1, FilesScroll DEF Types, TypeOK
<1>6. at' \in Places
  BY DEF Drawn, Places
<1>7. TypeOK'
  BY <1>1, <1>2, <1>5, <1>6 DEF Types, TypeOK, Places
<1>8. Types'
  BY <1>2, <1>3, <1>7 DEF Types
<1> QED
  BY <1>1, <1>3, <1>4, <1>8

LEMMA CommandStep == IInv /\ (Step \/ Pause \/ NextInstruction \/ Cycle) => IInv'
<1> SUFFICES ASSUME IInv, Step \/ Pause \/ NextInstruction \/ Cycle PROVE IInv'
  OBVIOUS
<1>1. /\ alive \in BOOLEAN /\ running_ \in BOOLEAN /\ pc_ \in Addr
  BY DEF IInv, Types, TypeOK
<1>2. CASE Step
  BY <1>1, <1>2, ScrollingStep DEF Step
<1>3. CASE Pause
  <2>1. MayStore
    BY <1>3 DEF Pause, MayStore
  <2> QED
    BY <1>1, <1>3, <2>1, ScrollingStep DEF Pause
<1>4. CASE NextInstruction
  BY <1>1, <1>4, ScrollingStep DEF NextInstruction
<1>5. CASE Cycle
  <2>1. pc_' \in Addr
    BY <1>1, <1>5 DEF Cycle
  <2> QED
    BY <1>1, <1>5, <2>1, ScrollingStep DEF Cycle
<1> QED
  BY <1>2, <1>3, <1>4, <1>5

\* An interrupt, and a command that throws, leave pc and code window alone.
LEMMA QuietStep == IInv /\ (Interrupt \/ CommandThrows) => IInv'
<1> SUFFICES ASSUME IInv, Interrupt \/ CommandThrows PROVE IInv'
  OBVIOUS
<1>1. /\ UNCHANGED <<code, memories, state, alive>>
      /\ at' \in Places
      /\ \/ UNCHANGED <<memory, stored, stores, registers, shown, behind>>
         \/ ~ alive /\ MayStore /\ Executes
  BY DEF Interrupt, CommandThrows, Drawn, Places
<1>2. CASE UNCHANGED <<memory, stored, stores, registers, shown, behind>>
  BY <1>1, <1>2, FrameStep DEF bytes, status
<1>3. CASE ~ alive /\ MayStore /\ Executes
  <2> USE DEF IInv
  <2>1. /\ NothingShownRunning' /\ RegistersShown'
        /\ registers' \in Registers /\ shown' \in Registers \cup {Cleared} /\ behind' \in BOOLEAN
    BY <1>1, <1>3, ExecutesStatus
  <2>2. BytesShown' /\ MemoryType'
    BY <1>1, <1>3, MayStoreKeeps DEF state
  <2>3. PcListed'
    BY <1>1, PcStays DEF code, state
  <2>4. Types'
    BY <1>1, <1>3, <2>1, <2>2 DEF Types, TypeOK, FilesListed, code, state, Places
  <2> QED
    BY <2>1, <2>2, <2>3, <2>4
<1> QED
  BY <1>1, <1>2, <1>3

LEMMA RunsStep == IInv /\ Runs => IInv'
<1> SUFFICES ASSUME IInv, Runs PROVE IInv'
  OBVIOUS
<1> USE DEF IInv
<1>1. /\ alive' = TRUE /\ running_' = TRUE /\ shown' = Cleared /\ behind' = FALSE
      /\ UNCHANGED <<code, bytes, registers, connected, started, upload_, pc_, edits>>
      /\ at' \in Places
  BY DEF Runs, Drawn, Places
<1>2. NothingShownRunning' /\ RegistersShown' /\ PcListed'
  BY <1>1 DEF NothingShownRunning, RegistersShown, DrawnRegisters, PcListed
<1>3. BytesShown'
  BY <1>1, BytesStay DEF bytes
<1>4. Types'
  BY <1>1 DEF Types, TypeOK, FilesListed, MemoryType, code, bytes, Places
<1> QED
  BY <1>2, <1>3, <1>4

\* The user looks elsewhere in the code, or opens and closes the window.
LEMMA ChooseStep == IInv /\ (ChooseFile \/ ChooseSymbol \/ OpenOrClose) => IInv'
<1> SUFFICES ASSUME IInv, ChooseFile \/ ChooseSymbol \/ OpenOrClose PROVE IInv'
  OBVIOUS
<1> USE DEF IInv
<1>1. UNCHANGED <<program, files_cstr_, bytes, status, state>> /\ at' \in Places
  BY DEF ChooseFile, ChooseSymbol, OpenOrClose, Places
<1>2. BytesShown' /\ NothingShownRunning' /\ RegistersShown'
  BY <1>1, BytesStay DEF bytes, status, state, NothingShownRunning, RegistersShown, DrawnRegisters
<1>3. FilesListed' /\ open' \in BOOLEAN /\ follows' \in BOOLEAN
  <2>1. CASE ChooseFile
    <3>1. /\ selected_file_' \in 0 .. files_cstr_ - 1 /\ follows' = FALSE
          /\ UNCHANGED <<open, scroll_to_line_>>
      BY <2>1 DEF ChooseFile
    <3>2. FilesListed'
      BY <1>1, <3>1 DEF Types, TypeOK, FilesListed
    <3> QED
      BY <3>1, <3>2 DEF Types, TypeOK
  <2>2. CASE ChooseSymbol
    <3>1. PICK s \in program.symbols \cap LinesWithCode(program) :
              scroll_to_line_' = LineOf(program, s)
      BY <2>2 DEF ChooseSymbol
    <3>2. scroll_to_line_' = Target(program, s) /\ s \in Addr
      BY <3>1 DEF Target, LinesWithCode
    <3>3. FilesListed'
      BY <1>1, <2>2, <3>2, FilesScroll DEF ChooseSymbol, Types, TypeOK
    <3> QED
      BY <2>2, <3>3 DEF ChooseSymbol, Types, TypeOK
  <2>3. CASE OpenOrClose
    <3>1. open' = ~ open /\ UNCHANGED <<scroll_to_line_, selected_file_, follows>>
      BY <2>3 DEF OpenOrClose
    <3>2. open' \in BOOLEAN
      BY <3>1
    <3>3. FilesListed'
      BY <1>1, <3>1 DEF Types, TypeOK, FilesListed
    <3> QED
      BY <3>1, <3>2, <3>3 DEF Types, TypeOK
  <2> QED
    BY <2>1, <2>2, <2>3
<1>4. Types'
  BY <1>1, <1>3 DEF Types, TypeOK, MemoryType, bytes, status, state, Places
<1>5. PcListed'
  <2>1. CASE ChooseFile \/ ChooseSymbol
    BY <2>1 DEF ChooseFile, ChooseSymbol, PcListed
  <2>2. CASE OpenOrClose
    BY <2>2, PcStays DEF OpenOrClose, state
  <2> QED
    BY <2>1, <2>2
<1> QED
  BY <1>2, <1>4, <1>5

\* Drawing the code selects the file of the line, which is then forgotten.
LEMMA DrawCodeStep == IInv /\ DrawCode => IInv'
<1> SUFFICES ASSUME IInv, DrawCode PROVE IInv'
  OBVIOUS
<1> USE DEF IInv
<1>1. UNCHANGED <<program, files_cstr_, open, follows, bytes, status, state>> /\ at' \in Places
  BY DEF DrawCode, Places
<1>2. BytesShown' /\ NothingShownRunning' /\ RegistersShown'
  BY <1>1, BytesStay DEF bytes, status, state, NothingShownRunning, RegistersShown, DrawnRegisters
<1>3. CASE UNCHANGED <<selected_file_, scroll_to_line_>>
  BY <1>1, <1>3, FrameStep DEF code
<1>4. CASE /\ selected_file_' = IF scroll_to_line_ # NoLine THEN scroll_to_line_.file
                                                           ELSE selected_file_
           /\ scroll_to_line_' = NoLine
  <2>1. Types'
    <3>1. FilesListed'
      BY <1>1, <1>4 DEF Types, TypeOK, FilesListed
    <3> QED
      BY <1>1, <3>1 DEF Types, TypeOK, MemoryType, bytes, status, state, Places
  <2>2. (IF scroll_to_line_' = NoLine THEN selected_file_' ELSE scroll_to_line_'.file)
        = (IF scroll_to_line_ = NoLine THEN selected_file_ ELSE scroll_to_line_.file)
    BY <1>4
  <2>3. /\ Complete(program)' = Complete(program)
        /\ LinesWithCode(program)' = LinesWithCode(program)
    BY <1>1 DEF Complete, LinesWithCode, Row, At, Of, Place
  <2>4. \A file, n : /\ Row(program, file, n)' = Row(program, file, n)
                     /\ RowAddress(program, file, n)' = RowAddress(program, file, n)
    BY <1>1 DEF Row, RowAddress, Of
  <2>5. PcListed'
    BY <1>1, <2>2, <2>3, <2>4 DEF PcListed, state
  <2> QED
    BY <1>2, <2>1, <2>5
<1> QED
  BY <1>3, <1>4 DEF DrawCode

\* A page is read, or a part of it.
LEMMA ChangePageStep == IInv /\ ChangePage => IInv'
<1> SUFFICES ASSUME IInv, ChangePage PROVE IInv'
  OBVIOUS
<1> USE DEF IInv
<1>1. /\ started /\ at' \in Places
      /\ UNCHANGED <<memory, stores, code, status, state>>
  BY DEF ChangePage, Button, Places
<1>2. PICK nr \in Memories, n \in 0 .. Blocks :
        /\ \E page \in 0 .. memories[nr].pages \cup {memories[nr].current_page - 1, memories[nr].current_page + 1} :
              memories' = [memories EXCEPT ![nr] = PageRead(memories[nr], nr, page, n)]
        /\ stored' = {s \in stored : s[1] # nr}
  BY DEF ChangePage
<1>3. PICK page \in 0 .. memories[nr].pages \cup {memories[nr].current_page - 1, memories[nr].current_page + 1} :
         memories' = [memories EXCEPT ![nr] = PageRead(memories[nr], nr, page, n)]
  BY <1>2
<1>4. /\ DOMAIN memories = 1 .. Len(memories) /\ Len(memories) \in Nat
      /\ Memories \subseteq DOMAIN memories
      /\ \A i \in DOMAIN memories : memories[i] \in MemoryWindow
  <2>1. Memories = 1 .. Len(MemorySizes) /\ Len(MemorySizes) \in Nat
    BY MemoryAssumption, SeqElements DEF Memories
  <2>2. memories \in Seq(MemoryWindow)
    BY DEF Types
  <2>3. Len(memories) >= Len(MemorySizes)
    BY <1>1 DEF Types
  <2>4. /\ DOMAIN memories = 1 .. Len(memories) /\ Len(memories) \in Nat
        /\ \A i \in DOMAIN memories : memories[i] \in MemoryWindow
    BY <2>2, SeqElements
  <2> QED
    BY <2>1, <2>3, <2>4
<1> DEFINE w == memories[nr]
<1>5. w \in MemoryWindow /\ page \in Int /\ n \in Nat
  <2>1. w \in MemoryWindow
    BY <1>4
  <2>2. w.pages \in Nat /\ w.current_page \in Int
    BY <2>1 DEF MemoryWindow
  <2> QED
    BY <1>3, <2>1, <2>2
<1>6. MemoryType'
  BY <1>1 DEF Types, MemoryType
<1>7. /\ memories'[nr] = PageRead(w, nr, page, n)
      /\ \A i \in DOMAIN memories \ {nr} : memories'[i] = memories[i]
      /\ DOMAIN memories' = DOMAIN memories
  BY <1>3, <1>4
<1>8. PageRead(w, nr, page, n) \in MemoryWindow
  BY <1>5, <1>6, PageReadType
<1>9. memories' \in Seq(MemoryWindow) /\ Len(memories') = Len(memories)
  <2>1. memories \in Seq(MemoryWindow) /\ nr \in 1 .. Len(memories)
    BY <1>4 DEF Types
  <2> QED
    BY <1>3, <1>8, <2>1
<1>10. ASSUME NEW i \in Memories, NEW k \in 0 .. PageSize - 1
       PROVE  ByteShown(i, k)'
  <2>1. CASE i = nr
    BY <1>5, <1>6, <1>7, <2>1, PageReadShown
  <2>2. CASE i # nr
    <3>1. ByteShown(i, k) /\ memories'[i] = memories[i] /\ memory'[i] = memory[i]
      BY <1>1, <1>4, <1>7, <2>2 DEF BytesShown
    <3>2. Label(memories[i], k)' = Label(memories[i], k)
      BY <3>1 DEF Label
    <3>3. \A a : <<i, a>> \in stored => <<i, a>> \in stored'
      BY <1>2, <2>2
    <3> QED
      BY <3>1, <3>2, <3>3 DEF ByteShown
  <2> QED
    BY <2>1, <2>2
<1>11. Types'
  <2>1. \A i \in DOMAIN memories' :
            IF memories'[i].pages = 0 THEN memories'[i].current_page \in {0, -1}
                                      ELSE memories'[i].current_page \in 0 .. memories'[i].pages - 1
    BY <1>9, PagesOf
  <2> QED
    BY <1>1, <1>6, <1>9, <2>1 DEF Types, TypeOK, FilesListed, code, status, state, Places
<1>12. PcListed' /\ NothingShownRunning' /\ RegistersShown'
  BY <1>1, PcStays DEF code, status, state, NothingShownRunning, RegistersShown, DrawnRegisters
<1> QED
  BY <1>10, <1>11, <1>12 DEF BytesShown

LEMMA NextIInv == IInv /\ [Next]_vars => IInv'
<1> SUFFICES ASSUME IInv, [Next]_vars PROVE IInv'
  OBVIOUS
<1>1. at \in Places /\ connected \in BOOLEAN
  BY DEF IInv, Types, TypeOK, Places
<1>2. CASE Connect \/ Recompile
  <2>1. /\ \E p \in Programs : Compile(p)
        /\ at' \in Places /\ connected' \in BOOLEAN
    BY <1>1, <1>2 DEF Connect, Recompile, Places
  <2> QED
    BY <2>1, CompileStep
<1>3. CASE Passes \/ UpdateThrows \/ NoButton \/ EndFrame \/ UNCHANGED vars
  <2>1. at' \in Places /\ UNCHANGED <<code, bytes, status, state>>
    BY <1>1, <1>3 DEF Passes, UpdateThrows, NoButton, EndFrame, vars, Places
  <2> QED
    BY <2>1, FrameStep
<1> QED
  BY <1>2, <1>3, UploadEndsStep, ComputerRunsStep, PollStep, CommandStep, QuietStep,
     RunsStep, ChooseStep, DrawCodeStep, ChangePageStep DEF Next

\* The inductive invariant, of which the four theorems below are parts.
THEOREM Invariant == Spec => []IInv
  BY InitIInv, NextIInv, PTL DEF Spec

-----------------------------------------------------------------------------
\* TypeCorrect: a selected file, a line to scroll to and a page are always
\* ones that exist, for all sizes of memories and pages.
THEOREM TypeCorrect == Spec => []TypeOK
<1>1. IInv => TypeOK
  BY DEF IInv, Types
<1> QED
  BY <1>1, Invariant, PTL

\* CodeFollowsPc: for every program whose lines are listed once and without
\* gaps, the line of the pc of a paused computer is, or will be, in the list.
THEOREM CodeFollowsPc == Spec => []CodeShowsPc
<1>1. IInv => CodeShowsPc
  BY DEF IInv, PcListed, CodeShowsPc
<1> QED
  BY <1>1, Invariant, PTL

\* MemoryIsShown: on page 0 a byte is drawn beside its address, for every
\* size of page and block (model.cc:130 against memory.cc:81).
THEOREM MemoryIsShown == Spec => []MemoryShown
<1>1. IInv => MemoryShown
  BY DEF IInv, BytesShown, ByteShown, MemoryShown
<1> QED
  BY <1>1, Invariant, PTL

\* RegistersAreShown: no registers are drawn that are not the computer's.
THEOREM RegistersAreShown == Spec => []RegistersShown
<1>1. IInv => RegistersShown
  BY DEF IInv
<1> QED
  BY <1>1, Invariant, PTL
=============================================================================
