--------------------------- MODULE LuaClientProofs ---------------------------
(***************************************************************************)
(* A script may believe what it wrote, read and was told (LuaClient).  The *)
(* invariant adds that nothing is believed of a computer that is running.  *)
(***************************************************************************)
EXTENDS LuaClient, TLAPS

Domains == DOMAIN memory = Cell /\ DOMAIN believes = Cell

Inv == Domains /\ ScriptMemory /\ ScriptKnows /\ BelievesOnlyPaused

-----------------------------------------------------------------------------

\* When a write lands where it was meant to, the byte that arrives is the one
\* that was passed (write_memory_step).
LEMMA ByteArrives ==
    ASSUME NEW pos \in Nat, NEW data \in Seq(Int), NEW s \in Sent(pos, data),
           NEW i \in 1 .. Len(data), pos = 0 \/ i > Whole(data)
    PROVE  s[i] = data[i]
  <1>1. Whole(data) \in Int
    <2>1. Chunk \in Nat \ {0} /\ Len(data) \in Nat
      BY SizesAssumption
    <2>2. Len(data) \div Chunk \in Int
      BY <2>1
    <2> QED
      BY <2>1, <2>2 DEF Whole
  <1>2. Source(pos, data, i) = i
    BY <1>1 DEF Source
  <1> QED
    BY <1>2 DEF Sent

\* A write that returns leaves the bytes that the script may believe.
LEMMA WriteKeeps ==
    ASSUME Inv, NEW w \in Writes, WriteMemory(w)
    PROVE  Inv'
  <1> USE SizesAssumption, CallsAssumption
  <1>w. w.nr \in Nat /\ w.pos \in Nat /\ w.data \in Seq(Int)
    OBVIOUS
  <1> DEFINE nr    == w.nr % UInt8
             data  == [i \in DOMAIN w.data |-> w.data[i] % UInt8]
             cells == At(nr, w.pos, Len(data))
  <1>1. PICK returns \in BOOLEAN, n \in 0 .. Len(w.data) :
          /\ returns => n = Len(data)
          /\ \E s \in Sent(w.pos, data) :
               memory' = [c \in Cell |-> IF c \in At(nr, w.pos, n) THEN s[Nth(w.pos, c)]
                                                                   ELSE memory[c]]
          /\ believes' = [c \in Cell |->
               IF c \notin cells THEN believes[c]
               ELSE IF returns /\ (w.pos = 0 \/ Nth(w.pos, c) > Whole(data))
                    THEN data[Nth(w.pos, c)] ELSE Unknown]
          /\ told' = IF returns THEN "paused" ELSE told
    BY DEF WriteMemory
  <1>2. PICK s \in Sent(w.pos, data) :
          memory' = [c \in Cell |-> IF c \in At(nr, w.pos, n) THEN s[Nth(w.pos, c)]
                                                              ELSE memory[c]]
    BY <1>1
  <1>3. data \in Seq(Int) /\ Len(data) = Len(w.data)
    BY <1>w
  <1>4. ~ running /\ UNCHANGED <<running, breakpoints, listed>>
    BY DEF WriteMemory, Paused
  <1> HIDE DEF nr, data, cells
  <1>5. ScriptMemory'
    <2> SUFFICES ASSUME NEW c \in Cell, believes'[c] # Unknown
                 PROVE  memory'[c] = believes'[c]
      BY DEF ScriptMemory, Unknown
    <2>0. c[2] \in Nat /\ n \in Int /\ n <= Len(data)
      BY <1>3
    <2>1. CASE c \in cells
      <3>1. /\ returns /\ n = Len(data) /\ (w.pos = 0 \/ Nth(w.pos, c) > Whole(data))
            /\ believes'[c] = data[Nth(w.pos, c)]
        BY <1>1, <2>1
      <3>2. c \in At(nr, w.pos, n)
        BY <2>1, <3>1 DEF cells
      <3>3. Nth(w.pos, c) \in 1 .. Len(data)
        BY <1>w, <1>3, <2>0, <2>1 DEF cells, At, Nth
      <3>4. s[Nth(w.pos, c)] = data[Nth(w.pos, c)]
        BY <1>w, <1>3, <3>1, <3>3, ByteArrives
      <3> QED
        BY <1>2, <3>1, <3>2, <3>4
    <2>2. CASE c \notin cells
      <3>1. c \notin At(nr, w.pos, n)
        BY <1>w, <2>0, <2>2, <1>3 DEF cells, At
      <3>2. believes'[c] = believes[c] /\ memory'[c] = memory[c]
        BY <1>1, <1>2, <2>2, <3>1
      <3> QED
        BY <3>2 DEF Inv, ScriptMemory
    <2> QED
      BY <2>1, <2>2
  <1>6. Domains' /\ ScriptKnows' /\ BelievesOnlyPaused'
    BY <1>1, <1>2, <1>4 DEF Inv, Domains, ScriptKnows, BelievesOnlyPaused
  <1> QED
    BY <1>5, <1>6 DEF Inv

\* compile_and_write_memory of binaries that are loaded at zero.
LEMMA CompileKeeps ==
    ASSUME Inv, NEW p \in Programs, CompileAndWriteMemory(p)
    PROVE  Inv'
  <1> DEFINE cut(k) == IF k = Len(p) THEN <<>> ELSE p[k + 1].rom
  <1>1. PICK k \in 0 .. Len(p) :
          /\ \E n \in 0 .. Len(cut(k)) :
               memory' = [c \in Cell |->
                   IF n > 0 /\ c \in At(p[k + 1].load_pos % UInt8, 0, n)
                   THEN cut(k)[Nth(0, c)] ELSE Loaded(memory, p, k)[c]]
          /\ believes' = IF k = Len(p) /\ \A i \in 1 .. k : p[i].load_pos = 0
                         THEN Loaded(believes, p, k) ELSE Nothing
          /\ told' = IF k = Len(p) THEN "paused" ELSE told
    BY DEF CompileAndWriteMemory
  <1>2. PICK n \in 0 .. Len(cut(k)) :
          memory' = [c \in Cell |->
              IF n > 0 /\ c \in At(p[k + 1].load_pos % UInt8, 0, n)
              THEN cut(k)[Nth(0, c)] ELSE Loaded(memory, p, k)[c]]
    BY <1>1
  <1>3. ~ running /\ UNCHANGED <<running, breakpoints, listed>>
    BY DEF CompileAndWriteMemory, Paused
  <1>4. ScriptMemory'
    <2> SUFFICES ASSUME NEW c \in Cell, believes'[c] # Unknown
                 PROVE  memory'[c] = believes'[c]
      BY DEF ScriptMemory, Unknown
    <2>1. k = Len(p) /\ believes' = Loaded(believes, p, k)
      BY <1>1 DEF Nothing
    <2>2. n = 0
      BY <1>2, <2>1
    <2>3. memory'[c] = Loaded(memory, p, k)[c]
      BY <1>2, <2>2
    <2>4. CASE LoadedBy(p, k, c) = {}
      BY <2>1, <2>3, <2>4 DEF Loaded, Inv, ScriptMemory
    <2>5. CASE LoadedBy(p, k, c) # {}
      BY <2>1, <2>3, <2>5 DEF Loaded
    <2> QED
      BY <2>4, <2>5
  <1>5. DOMAIN memory' = Cell
    BY <1>2
  <1>6. DOMAIN believes' = Cell
    BY <1>1 DEF Loaded, Nothing
  <1>7. ScriptKnows' /\ BelievesOnlyPaused'
    BY <1>1, <1>3 DEF Inv, ScriptKnows, BelievesOnlyPaused
  <1> QED
    BY <1>4, <1>5, <1>6, <1>7 DEF Inv, Domains

\* Every other call, and what the computer does between them.
LEMMA Keeps ==
    ASSUME Inv, [Next]_vars
    PROVE  Inv'
  <1> USE DEF Inv, Domains, ScriptMemory, ScriptKnows, BelievesOnlyPaused, computer, beliefs
  <1>1. CASE LoadUserDefinition \/ Connect \/ Blocks \/ Autodetect \/ Collect
    BY <1>1 DEF LoadUserDefinition, Connect, Blocks, Autodetect, Collect
  <1>2. CASE ComputerRuns
    BY <1>2 DEF ComputerRuns, Stores, Nothing
  <1>3. CASE AckOrReset \/ RunStatus \/ Pause
    BY <1>3 DEF AckOrReset, RunStatus, Pause, Paused, Call
  <1>4. CASE Step
    BY <1>4 DEF Step, Paused, Stores, Nothing
  <1>5. CASE Run
    BY <1>5 DEF Run, Nothing
  <1>6. CASE NextInstruction
    BY <1>6 DEF NextInstruction, Stores, Nothing
  <1>7. CASE \E a \in Addresses : AddBreakpoint(a) \/ RemoveBreakpoint(a)
    BY <1>7 DEF AddBreakpoint, RemoveBreakpoint, Paused
  <1>8. CASE \E w \in Writes : WriteMemory(w)
    BY <1>8, WriteKeeps
  <1>9. CASE \E r \in Reads : ReadMemory(r)
    BY <1>9 DEF ReadMemory, Paused
  <1>10. CASE \E p \in Programs : CompileAndWriteMemory(p)
    BY <1>10, CompileKeeps
  <1>11. CASE UNCHANGED vars
    BY <1>11 DEF vars
  <1> QED
    BY <1>1, <1>2, <1>3, <1>4, <1>5, <1>6, <1>7, <1>8, <1>9, <1>10, <1>11 DEF Next

LEMMA Invariant == Spec => []Inv
  <1>1. Init => Inv
    BY DEF Init, Inv, Domains, ScriptMemory, ScriptKnows, BelievesOnlyPaused, Nothing
  <1>2. Inv /\ [Next]_vars => Inv'
    BY Keeps
  <1> QED
    BY <1>1, <1>2, PTL DEF Spec

-----------------------------------------------------------------------------

\* BeliefsHold: for memories, chunks, programs and calls of any size, what a
\* script wrote or read is in the memory until it lets the computer execute.
THEOREM BeliefsHold == Spec => []ScriptMemory
  <1>1. Inv => ScriptMemory
    BY DEF Inv
  <1> QED
    BY <1>1, Invariant, PTL

\* KnowledgeHolds: a computer that a script was told is paused is paused, and
\* the list of breakpoints it was given is that of the server.
THEOREM KnowledgeHolds == Spec => []ScriptKnows
  <1>1. Inv => ScriptKnows
    BY DEF Inv
  <1> QED
    BY <1>1, Invariant, PTL
=============================================================================
