-------------------------------- MODULE Upload --------------------------------
(***************************************************************************)
(* How the binaries of a compilation reach the memory of the computer:     *)
(* Model::upload_rom_and_start, the upload part of Model::update, and      *)
(* FdbgClient::write_memory_step, which writes one chunk per frame.        *)
(*                                                                         *)
(* The memory is external.  A byte in it remembers where it was read: the  *)
(* compilation, the binary and the offset in its rom.  An offset beyond    *)
(* the rom is a byte outside the vector, whatever it holds.                *)
(***************************************************************************)
EXTENDS Integers, Sequences

CONSTANTS
    Chunk,         \* MAX_MEMORY_TRANSFER (64)
    MaxBinaries,   \* bound: binaries of a compilation
    MaxSize,       \* bound: bytes of a rom
    MaxPos,        \* bound: load_pos
    MaxEdits       \* bound: recompilations

ASSUME UploadAssumption ==
    /\ Chunk \in Nat \ {0}
    /\ MaxBinaries \in Nat /\ MaxSize \in Nat /\ MaxPos \in Nat /\ MaxEdits \in Nat

VARIABLES
    binaries,      \* debug_.binaries
    version,       \* history: compilations so far
    upload_,       \* binary_idx (from 1) and upload_context.next, or NoUpload
    at,            \* "update", "terminated" by an exception, "undefined"
    memory

vars == <<binaries, version, upload_, at, memory>>

-----------------------------------------------------------------------------
Addr == 0 .. MaxPos + MaxSize - 1

Binary == [size : 0 .. MaxSize, load_pos : 0 .. MaxPos]

Compilations == UNION {[1 .. n -> Binary] : n \in 0 .. MaxBinaries}

NoUpload == [binary_idx |-> 0, next |-> 0]

\* upload_rom_and_start, with the first binary
Fresh == [binary_idx |-> 1, next |-> 0]

Rom(i, offset) == [version |-> version, binary |-> i, offset |-> offset]

Init ==
    /\ binaries \in Compilations
    /\ version = 1
    /\ upload_ = IF binaries = <<>> THEN NoUpload ELSE Fresh
    /\ at = "update"
    /\ memory = [a \in Addr |-> [version |-> 0, binary |-> 0, offset |-> 0]]

-----------------------------------------------------------------------------
(* FdbgClient::write_memory_step *)

Uploading ==
    /\ at = "update" /\ upload_ # NoUpload
    /\ upload_.binary_idx <= Len(binaries)

Current == binaries[upload_.binary_idx]
Skipped == upload_.next * Chunk                \* bytes of the rom passed over
InitialPos == Current.load_pos + Skipped

\* n bytes of the rom, from this offset, go to the memory at InitialPos.
Write(n, offset) ==
    memory' = [a \in Addr |->
        IF InitialPos <= a /\ a < InitialPos + n
        THEN Rom(upload_.binary_idx, offset + (a - InitialPos))
        ELSE memory[a]]

MutStepFull ==
    /\ Uploading /\ Skipped + Chunk <= Current.size
    /\ Write(Chunk, InitialPos)
    /\ UNCHANGED <<binaries, version, at, upload_>>
\* A whole chunk is left.  The code adds InitialPos, an address of the
\* computer, to the start of the rom.
StepFull ==
    /\ Uploading /\ Skipped + Chunk <= Current.size
    /\ Write(Chunk, InitialPos)
    /\ upload_' = [upload_ EXCEPT !.next = @ + 1]
    /\ UNCHANGED <<binaries, version, at>>

MutStepLast ==
    /\ Uploading /\ Skipped + Chunk > Current.size
    /\ Skipped <= Current.size
    /\ Write(Current.size - Skipped, Skipped)
    /\ upload_' = NoUpload
    /\ UNCHANGED <<binaries, version, at>>
MutStepLastIndex ==
    /\ Uploading /\ Skipped + Chunk > Current.size
    /\ Skipped <= Current.size
    /\ Write(Current.size - Skipped, Skipped)
    /\ upload_' = IF upload_.binary_idx <= Len(binaries)
                  THEN [upload_ EXCEPT !.binary_idx = @ + 1]
                  ELSE NoUpload
    /\ UNCHANGED <<binaries, version, at>>
\* Less than a chunk is left.  Model::update goes on to the next binary and
\* leaves upload_context as it is, or the upload is complete.
StepLast ==
    /\ Uploading /\ Skipped + Chunk > Current.size
    /\ Skipped <= Current.size
    /\ Write(Current.size - Skipped, Skipped)
    /\ upload_' = IF upload_.binary_idx < Len(binaries)
                  THEN [upload_ EXCEPT !.binary_idx = @ + 1]
                  ELSE NoUpload
    /\ UNCHANGED <<binaries, version, at>>

\* next is past the end of this rom: the span has a negative length, which
\* write_memory takes for one that is too large.
StepThrows ==
    /\ Uploading /\ Skipped > Current.size
    /\ at' = "terminated"
    /\ UNCHANGED <<binaries, version, upload_, memory>>

\* The computer could not write all of it.
StepRefused ==
    /\ Uploading /\ Skipped <= Current.size
    /\ \E n \in 0 .. Chunk :
         \/ Skipped + Chunk <= Current.size /\ Write(n, InitialPos)
         \/ Skipped + n <= Current.size /\ Current.size < Skipped + Chunk
            /\ Write(n, Skipped)
    /\ at' = "terminated"
    /\ UNCHANGED <<binaries, version, upload_>>

\* debug_.binaries[binary_idx] of a compilation that has no binary.
StepUndefined ==
    /\ at = "update" /\ upload_.binary_idx > Len(binaries)
    /\ at' = "undefined"
    /\ UNCHANGED <<binaries, version, upload_, memory>>

\* The watched files changed: compile, then upload_rom_and_start, which
\* leaves an upload under way alone when there is nothing to upload.
Recompile ==
    /\ at = "update" /\ version <= MaxEdits
    /\ binaries' \in Compilations
    /\ version' = version + 1
    /\ upload_' = IF binaries' = <<>> THEN upload_ ELSE Fresh
    /\ UNCHANGED <<at, memory>>

Step == StepFull \/ StepLast \/ StepThrows \/ StepRefused \/ StepUndefined

Next == Step \/ Recompile

\* Model::update runs in every frame; nothing makes the computer refuse.
Spec ==
    /\ Init /\ [][Next]_vars
    /\ WF_vars(StepFull \/ StepLast \/ StepThrows \/ StepUndefined)

-----------------------------------------------------------------------------
(* Properties *)

\* TypeOK: the upload stays within the bounds of the compilation that
\* started it, or of one without binaries.
TypeOK ==
    /\ binaries \in Compilations
    /\ version \in 1 .. MaxEdits + 1
    /\ at \in {"update", "terminated", "undefined"}
    /\ upload_ \in {NoUpload} \cup [binary_idx : 1 .. MaxBinaries, next : Nat]
    /\ memory \in [Addr -> [version : 0 .. MaxEdits + 1,
                            binary : 0 .. MaxBinaries, offset : Nat]]

Place(b) == b.load_pos .. b.load_pos + b.size - 1

Disjoint == \A i, j \in 1 .. Len(binaries) :
    i # j => Place(binaries[i]) \cap Place(binaries[j]) = {}

\* What write_memory_step and update get right: only a binary loaded at zero
\* may fill a chunk, and only the last one.
WellPlaced ==
    \A i \in 1 .. Len(binaries) :
        binaries[i].size >= Chunk => i = Len(binaries) /\ binaries[i].load_pos = 0

InMemory(i, k) == memory[binaries[i].load_pos + k] = Rom(i, k)

Uploaded == at = "update" /\ upload_ = NoUpload

AllInMemory ==
    \A i \in 1 .. Len(binaries) : \A k \in 0 .. binaries[i].size - 1 : InMemory(i, k)

\* RomWritten: when the upload is over, every byte of every binary is in the
\* memory at its place, although the upload advances one chunk per frame and
\* a recompilation may restart it at any chunk.
RomWritten == Uploaded /\ Disjoint /\ WellPlaced => AllInMemory

\* RomsWritten: sample-emulator.lua:87 has `binaries` as a list in which each
\* rom has its own load_pos: the same for any compilation.
RomsWritten == Uploaded /\ Disjoint => AllInMemory

\* UploadEnds: an upload is not repeated for ever, whatever its sizes.
UploadEnds == upload_ # NoUpload ~> upload_ = NoUpload \/ at # "update"
=============================================================================
