----------------------------- MODULE UploadProofs -----------------------------
(***************************************************************************)
(* Upload for every chunk size, number of binaries, size and position: the *)
(* rom is written where the code can write it.                             *)
(***************************************************************************)
EXTENDS Upload, TLAPS

\* The bytes of binary i below offset n are in the memory.
Below(i, n) == \A k \in 0 .. binaries[i].size - 1 : k < n => InMemory(i, k)

Complete(i) == \A k \in 0 .. binaries[i].size - 1 : InMemory(i, k)

\* Where an upload stands that WellPlaced allows: the binaries before the
\* current one are complete, and so is this one up to the next chunk.
Underway ==
    /\ upload_.binary_idx \in 1 .. Len(binaries)
    /\ Skipped <= Current.size
    /\ upload_.binary_idx < Len(binaries) => upload_.next = 0
    /\ \A i \in 1 .. upload_.binary_idx - 1 : Complete(i)
    /\ Below(upload_.binary_idx, Skipped)

Progress ==
    at = "update" /\ Disjoint /\ WellPlaced =>
        \/ upload_ = NoUpload /\ AllInMemory
        \/ binaries = <<>>
        \/ Underway

IndInv == TypeOK /\ Progress

-----------------------------------------------------------------------------
LEMMA CompilationType ==
    ASSUME binaries \in Compilations
    PROVE  /\ Len(binaries) \in 0 .. MaxBinaries
           /\ \A i \in 1 .. Len(binaries) :
                 /\ binaries[i].size \in 0 .. MaxSize
                 /\ binaries[i].load_pos \in 0 .. MaxPos
  BY UploadAssumption DEF Compilations, Binary

LEMMA SkippedType ==
    ASSUME TypeOK
    PROVE  Skipped \in Nat
<1>1. upload_.next \in Nat
  BY DEF TypeOK, NoUpload
<1> QED
  BY <1>1, UploadAssumption DEF Skipped

LEMMA CurrentType ==
    ASSUME TypeOK, Uploading
    PROVE  /\ upload_.binary_idx \in 1 .. Len(binaries)
           /\ Current.size \in 0 .. MaxSize /\ Current.load_pos \in 0 .. MaxPos
           /\ Skipped \in Nat
<1>1. binaries \in Compilations /\ upload_ \in [binary_idx : 1 .. MaxBinaries, next : Nat]
  BY DEF TypeOK, Uploading
<1>2. upload_.binary_idx \in 1 .. MaxBinaries /\ upload_.binary_idx <= Len(binaries)
  BY <1>1 DEF Uploading
<1>3. upload_.binary_idx \in 1 .. Len(binaries)
  BY <1>1, <1>2, CompilationType, UploadAssumption
<1> QED
  BY <1>1, <1>3, CompilationType, SkippedType DEF Current

\* The place of a byte of a rom is an address of the memory, and a write
\* somewhere else leaves it alone.
LEMMA WritePlace ==
    ASSUME TypeOK, Uploading, NEW n \in Nat, NEW offset \in Nat, Write(n, offset),
           UNCHANGED <<binaries, version>>,
           NEW i \in 1 .. Len(binaries), NEW k \in 0 .. binaries[i].size - 1,
           NEW a, a = binaries[i].load_pos + k
    PROVE  /\ a \in Addr
           /\ ~ (InitialPos <= a /\ a < InitialPos + n) =>
                 (InMemory(i, k) => InMemory(i, k)')
<1>1. a \in Addr /\ a \in Nat
  <2>1. binaries \in Compilations
    BY DEF TypeOK
  <2>2. /\ binaries[i].size \in 0 .. MaxSize
        /\ binaries[i].load_pos \in 0 .. MaxPos
    BY <2>1, CompilationType
  <2>3. k \in Nat /\ k < MaxSize
    BY <2>2, UploadAssumption
  <2>4. a = binaries[i].load_pos + k
    OBVIOUS
  <2>5. a \in Nat /\ a <= MaxPos + MaxSize - 1
    BY <2>2, <2>3, <2>4, UploadAssumption
  <2> QED
    BY <2>5, UploadAssumption DEF Addr
<1>2. memory'[a] = IF InitialPos <= a /\ a < InitialPos + n
                   THEN Rom(upload_.binary_idx, offset + (a - InitialPos))
                   ELSE memory[a]
  BY <1>1 DEF Write
<1>3. binaries' = binaries /\ Rom(i, k)' = Rom(i, k)
  BY DEF Rom
<1> QED
  BY <1>1, <1>2, <1>3 DEF InMemory

-----------------------------------------------------------------------------
(* Type correctness *)

LEMMA FreshType ==
    ASSUME binaries \in Compilations
    PROVE  binaries # <<>> => Fresh \in [binary_idx : 1 .. MaxBinaries, next : Nat]
<1>1. binaries # <<>> => Len(binaries) >= 1
  BY UploadAssumption DEF Compilations
<1> QED
  BY <1>1, CompilationType, UploadAssumption DEF Fresh

LEMMA WriteType ==
    ASSUME TypeOK, Uploading, NEW n \in Nat, NEW offset \in Nat, Write(n, offset)
    PROVE  memory' \in [Addr -> [version : 0 .. MaxEdits + 1,
                                 binary : 0 .. MaxBinaries, offset : Nat]]
<1>1. InitialPos \in Nat
  BY CurrentType, UploadAssumption DEF InitialPos
<1>2. ASSUME NEW a \in Addr, InitialPos <= a
      PROVE  Rom(upload_.binary_idx, offset + (a - InitialPos))
                \in [version : 0 .. MaxEdits + 1, binary : 0 .. MaxBinaries, offset : Nat]
  <2>1. upload_.binary_idx \in 0 .. MaxBinaries
    BY CurrentType, CompilationType, UploadAssumption DEF TypeOK
  <2>2. version \in 0 .. MaxEdits + 1
    BY UploadAssumption DEF TypeOK
  <2>3. offset + (a - InitialPos) \in Nat
    BY <1>1, <1>2, UploadAssumption DEF Addr
  <2> QED
    BY <2>1, <2>2, <2>3 DEF Rom
<1> QED
  BY <1>2 DEF Write, TypeOK

LEMMA TypeInit == Init => TypeOK
<1> SUFFICES ASSUME Init PROVE TypeOK
  OBVIOUS
<1>1. upload_ \in {NoUpload} \cup [binary_idx : 1 .. MaxBinaries, next : Nat]
  BY FreshType DEF Init
<1>2. memory \in [Addr -> [version : 0 .. MaxEdits + 1,
                           binary : 0 .. MaxBinaries, offset : Nat]]
  BY UploadAssumption DEF Init
<1> QED
  BY <1>1, <1>2, UploadAssumption DEF Init, TypeOK

LEMMA TypeNext == TypeOK /\ [Next]_vars => TypeOK'
<1> SUFFICES ASSUME TypeOK, [Next]_vars PROVE TypeOK'
  OBVIOUS
<1>1. CASE StepFull
  <2>1. memory' \in [Addr -> [version : 0 .. MaxEdits + 1,
                              binary : 0 .. MaxBinaries, offset : Nat]]
    <3>1. InitialPos \in Nat
      BY <1>1, CurrentType, UploadAssumption DEF StepFull, InitialPos
    <3> QED
      BY <1>1, <3>1, WriteType, UploadAssumption DEF StepFull
  <2>2. upload_' \in [binary_idx : 1 .. MaxBinaries, next : Nat]
    BY <1>1 DEF StepFull, Uploading, TypeOK
  <2> QED
    BY <1>1, <2>1, <2>2 DEF StepFull, TypeOK
<1>2. CASE StepLast
  <2>1. memory' \in [Addr -> [version : 0 .. MaxEdits + 1,
                              binary : 0 .. MaxBinaries, offset : Nat]]
    <3>1. Current.size - Skipped \in Nat /\ Skipped \in Nat
      BY <1>2, CurrentType, UploadAssumption DEF StepLast
    <3> QED
      BY <1>2, <3>1, WriteType DEF StepLast
  <2>2. upload_' \in {NoUpload} \cup [binary_idx : 1 .. MaxBinaries, next : Nat]
    <3>1. /\ upload_ \in [binary_idx : 1 .. MaxBinaries, next : Nat]
          /\ Len(binaries) \in 0 .. MaxBinaries
      BY <1>2, CompilationType DEF StepLast, Uploading, TypeOK
    <3> QED
      BY <1>2, <3>1, UploadAssumption DEF StepLast
  <2> QED
    BY <1>2, <2>1, <2>2 DEF StepLast, TypeOK
<1>3. CASE StepThrows
  BY <1>3 DEF StepThrows, TypeOK
<1>4. CASE StepRefused
  <2>1. memory' \in [Addr -> [version : 0 .. MaxEdits + 1,
                              binary : 0 .. MaxBinaries, offset : Nat]]
    <3>1. InitialPos \in Nat /\ Skipped \in Nat
      BY <1>4, CurrentType, UploadAssumption DEF StepRefused, InitialPos
    <3>2. PICK n \in 0 .. Chunk : Write(n, InitialPos) \/ Write(n, Skipped)
      BY <1>4 DEF StepRefused
    <3>3. n \in Nat
      BY UploadAssumption
    <3> QED
      BY <1>4, <3>1, <3>2, <3>3, WriteType DEF StepRefused
  <2> QED
    BY <1>4, <2>1 DEF StepRefused, TypeOK
<1>5. CASE StepUndefined
  BY <1>5 DEF StepUndefined, TypeOK
<1>6. CASE Recompile
  <2>1. binaries' \in Compilations /\ version' \in 1 .. MaxEdits + 1
    BY <1>6, UploadAssumption DEF Recompile, TypeOK
  <2>2. upload_' \in {NoUpload} \cup [binary_idx : 1 .. MaxBinaries, next : Nat]
    <3>1. binaries' # <<>> => Fresh \in [binary_idx : 1 .. MaxBinaries, next : Nat]
      <4>1. binaries' # <<>> => Len(binaries') \in 1 .. MaxBinaries
        BY <2>1, UploadAssumption DEF Compilations
      <4> QED
        BY <4>1, UploadAssumption DEF Fresh
    <3> QED
      BY <1>6, <3>1 DEF Recompile, TypeOK
  <2> QED
    BY <1>6, <2>1, <2>2 DEF Recompile, TypeOK
<1>7. CASE UNCHANGED vars
  BY <1>7 DEF vars, TypeOK
<1> QED
  BY <1>1, <1>2, <1>3, <1>4, <1>5, <1>6, <1>7 DEF Next, Step

-----------------------------------------------------------------------------
(* The upload gets on *)

\* Writing the n bytes at Skipped of binary j keeps what is in the memory
\* and adds these bytes.
LEMMA WriteProgress ==
    ASSUME TypeOK, Disjoint, Uploading, Underway,
           NEW j, j = upload_.binary_idx,
           NEW n \in Nat, Skipped + n <= Current.size, Write(n, Skipped),
           UNCHANGED <<binaries, version>>
    PROVE  /\ \A i \in 1 .. j - 1 : Complete(i)'
           /\ \A k \in 0 .. binaries[j].size - 1 : k < Skipped + n => InMemory(j, k)'
<1> USE UploadAssumption
<1>1. /\ j \in 1 .. Len(binaries) /\ Len(binaries) \in Nat
      /\ Current = binaries[j]
      /\ binaries[j].size \in Nat /\ binaries[j].load_pos \in Nat
      /\ InitialPos = binaries[j].load_pos + Skipped
  BY CurrentType, CompilationType DEF Current, InitialPos, TypeOK
<1>2. PICK p \in Nat, s \in Nat, q \in Nat :
        p = binaries[j].load_pos /\ s = binaries[j].size /\ q = Skipped
  BY <1>1, SkippedType
<1>3. InitialPos = p + q /\ q + n <= s
  BY <1>1, <1>2
<1>4. \A i \in 1 .. j - 1 : Complete(i)'
  <2>1. SUFFICES ASSUME NEW i \in 1 .. j - 1, NEW k \in 0 .. binaries[i].size - 1
                 PROVE  InMemory(i, k)'
    BY DEF Complete
  <2>2. i \in 1 .. Len(binaries) /\ i # j
    BY <1>1, <2>1
  <2>3. PICK p1 \in Nat, s1 \in Nat :
          p1 = binaries[i].load_pos /\ s1 = binaries[i].size
    BY <2>2, CompilationType DEF TypeOK
  <2>4. InMemory(i, k)
    BY <2>1 DEF Underway, Complete
  <2>5. k \in 0 .. s1 - 1
    BY <2>1, <2>3
  <2>6. PICK a : a = p1 + k
    OBVIOUS
  <2>7. a \in p1 .. p1 + s1 - 1
    BY <2>5, <2>6
  <2>8. (p1 .. p1 + s1 - 1) \cap (p .. p + s - 1) = {}
    BY <1>1, <1>2, <2>2, <2>3 DEF Place, Disjoint
  <2>9. a \notin p .. p + s - 1
    BY <2>7, <2>8
  <2>10. ~ (p + q <= a /\ a < p + q + n)
    BY <1>3, <2>7, <2>9
  <2>11. a = binaries[i].load_pos + k /\ ~ (InitialPos <= a /\ a < InitialPos + n)
    BY <1>3, <2>3, <2>6, <2>10
  <2> QED
    BY <2>2, <2>4, <2>11, SkippedType, WritePlace
<1>5. ASSUME NEW k \in 0 .. binaries[j].size - 1, k < Skipped + n
      PROVE  InMemory(j, k)'
  <2>1. k \in 0 .. s - 1 /\ k < q + n
    BY <1>2, <1>5
  <2>2. PICK a : a = p + k
    OBVIOUS
  <2>3. a \in Nat
    BY <2>1, <2>2
  <2>4. CASE k < q
    <3>1. InMemory(j, k)
      BY <1>2, <2>4 DEF Underway, Below
    <3>2. ~ (InitialPos <= a) /\ a = binaries[j].load_pos + k
      BY <1>2, <1>3, <2>1, <2>2, <2>4
    <3> QED
      BY <1>1, <3>1, <3>2, SkippedType, WritePlace
  <2>5. CASE q <= k
    <3>1. /\ InitialPos <= a /\ a < InitialPos + n
          /\ a = binaries[j].load_pos + k
      BY <1>2, <1>3, <2>1, <2>2, <2>5
    <3>2. a \in Addr
      BY <1>1, <3>1, SkippedType, WritePlace
    <3>3. k = Skipped + (a - InitialPos)
      BY <1>2, <1>3, <2>1, <2>2
    <3>4. memory'[a] = Rom(j, k)
      BY <3>1, <3>2, <3>3 DEF Write
    <3>5. binaries' = binaries /\ Rom(j, k)' = Rom(j, k)
      BY DEF Rom
    <3> QED
      BY <3>1, <3>4, <3>5 DEF InMemory
  <2> QED
    BY <2>1, <2>4, <2>5
<1> QED
  BY <1>4, <1>5

LEMMA ProgressInit == Init => Progress
<1> SUFFICES ASSUME Init, binaries # <<>> PROVE Underway
  BY DEF Progress
<1>1. binaries \in Compilations /\ upload_ = Fresh
  BY DEF Init
<1>2. Len(binaries) \in Nat /\ Len(binaries) >= 1
  BY <1>1, UploadAssumption DEF Compilations
<1>3. Skipped = 0 /\ Current.size \in Nat
  BY <1>1, <1>2, CompilationType, UploadAssumption DEF Skipped, Current, Fresh
<1> QED
  BY <1>1, <1>2, <1>3 DEF Underway, Fresh, Below

LEMMA ProgressNext == IndInv /\ [Next]_vars => Progress'
<1> SUFFICES ASSUME IndInv, [Next]_vars,
                    at' = "update", Disjoint', WellPlaced'
             PROVE  \/ upload_' = NoUpload /\ AllInMemory'
                    \/ binaries' = <<>>
                    \/ Underway'
  BY DEF Progress
<1> USE UploadAssumption
<1>1. ASSUME Uploading, UNCHANGED <<binaries, version, at>>
      PROVE  Disjoint /\ WellPlaced /\ Underway
  <2>1. Disjoint /\ WellPlaced
    BY <1>1 DEF Disjoint, WellPlaced
  <2>2. binaries # <<>>
    BY <1>1, CurrentType DEF IndInv
  <2> QED
    BY <1>1, <2>1, <2>2 DEF IndInv, Progress, Uploading
<1>2. CASE StepFull
  <2>1. PICK j : j = upload_.binary_idx
    OBVIOUS
  <2>2. TypeOK /\ Disjoint /\ WellPlaced /\ Underway /\ Uploading
    BY <1>1, <1>2 DEF StepFull, IndInv
  <2>3. /\ j \in 1 .. Len(binaries) /\ Len(binaries) \in Nat
        /\ Current = binaries[j] /\ Skipped \in Nat /\ binaries[j].size \in Nat
    BY <2>1, <2>2, CurrentType, CompilationType DEF Current, TypeOK
  <2>4. j = Len(binaries) /\ binaries[j].load_pos = 0
    BY <1>2, <2>2, <2>3 DEF StepFull, WellPlaced
  <2>5. InitialPos = Skipped
    BY <2>3, <2>4 DEF InitialPos
  <2>6. /\ \A i \in 1 .. j - 1 : Complete(i)'
        /\ \A k \in 0 .. binaries[j].size - 1 : k < Skipped + Chunk => InMemory(j, k)'
    BY <1>2, <2>1, <2>2, <2>3, <2>5, WriteProgress DEF StepFull
  <2>7. /\ upload_'.binary_idx = j /\ binaries' = binaries
        /\ upload_'.next = upload_.next + 1 /\ upload_.next \in Nat
    BY <1>2, <2>1, <2>2 DEF StepFull, TypeOK, Uploading
  <2>8. Skipped' = Skipped + Chunk
    BY <2>7 DEF Skipped
  <2>9. Current' = binaries[j]
    BY <2>7 DEF Current
  <2> QED
    BY <1>2, <2>3, <2>4, <2>6, <2>7, <2>8, <2>9 DEF StepFull, Underway, Below
<1>3. CASE StepLast
  <2>1. PICK j : j = upload_.binary_idx
    OBVIOUS
  <2>2. TypeOK /\ Disjoint /\ Underway /\ Uploading
    BY <1>1, <1>3 DEF StepLast, IndInv
  <2>3. /\ j \in 1 .. Len(binaries) /\ Len(binaries) \in Nat
        /\ Current = binaries[j] /\ Skipped \in Nat /\ binaries[j].size \in Nat
    BY <2>1, <2>2, CurrentType, CompilationType DEF Current, TypeOK
  <2>4. PICK n \in Nat : n = Current.size - Skipped /\ Write(n, Skipped)
    BY <1>3, <2>3 DEF StepLast
  <2>5. Skipped + n <= Current.size
    BY <2>3, <2>4
  <2>6. /\ \A i \in 1 .. j - 1 : Complete(i)'
        /\ \A k \in 0 .. binaries[j].size - 1 : k < Skipped + n => InMemory(j, k)'
    BY <1>3, <2>1, <2>2, <2>4, <2>5, WriteProgress DEF StepLast
  <2>7. binaries' = binaries /\ Skipped + n = binaries[j].size
    BY <1>3, <2>3, <2>4 DEF StepLast
  <2>8. Complete(j)'
    BY <2>3, <2>6, <2>7 DEF Complete
  <2>9. \A i \in 1 .. j : Complete(i)'
    BY <2>3, <2>6, <2>8
  <2>10. CASE j = Len(binaries)
    <3>1. upload_' = NoUpload
      BY <1>3, <2>1, <2>3, <2>10 DEF StepLast
    <3> QED
      BY <2>7, <2>9, <2>10, <3>1 DEF AllInMemory, Complete
  <2>11. CASE j # Len(binaries)
    <3>1. upload_.next = 0 /\ j < Len(binaries)
      BY <2>1, <2>2, <2>3, <2>11 DEF Underway
    <3>2. upload_'.binary_idx = j + 1 /\ upload_'.next = 0
      BY <1>3, <2>1, <2>2, <3>1 DEF StepLast, TypeOK, Uploading
    <3>3. Skipped' = 0
      BY <3>2 DEF Skipped
    <3>4. Current'.size \in Nat
      BY <2>2, <2>3, <2>7, <3>1, <3>2, CompilationType DEF Current, TypeOK
    <3> QED
      BY <2>3, <2>7, <2>9, <3>1, <3>2, <3>3, <3>4 DEF Underway, Below
  <2> QED
    BY <2>10, <2>11
<1>4. CASE StepThrows \/ StepRefused \/ StepUndefined
  BY <1>4 DEF StepThrows, StepRefused, StepUndefined
<1>5. CASE Recompile
  <2>1. SUFFICES ASSUME binaries' # <<>> PROVE Underway'
    OBVIOUS
  <2>2. binaries' \in Compilations /\ upload_' = Fresh
    BY <1>5, <2>1 DEF Recompile
  <2>3. Len(binaries') \in Nat /\ Len(binaries') >= 1 /\ binaries'[1].size \in Nat
    BY <2>1, <2>2 DEF Compilations, Binary
  <2>4. Skipped' = 0 /\ Current' = binaries'[1]
    BY <2>2 DEF Skipped, Current, Fresh
  <2> QED
    BY <2>2, <2>3, <2>4 DEF Underway, Fresh, Below
<1>6. CASE UNCHANGED vars
  BY <1>6 DEF vars, IndInv, Progress, Disjoint, WellPlaced, AllInMemory, InMemory,
              Underway, Below, Complete, Skipped, Current, Rom
<1> QED
  BY <1>2, <1>3, <1>4, <1>5, <1>6 DEF Next, Step

-----------------------------------------------------------------------------
\* TypeCorrect: an upload stays inside the compilation it belongs to
\* (Model::update, model.cc:74-91), whatever the sizes of the binaries.
THEOREM TypeCorrect == Spec => []TypeOK
<1>1. Init => TypeOK
  BY TypeInit
<1>2. TypeOK /\ [Next]_vars => TypeOK'
  BY TypeNext
<1> QED
  BY <1>1, <1>2, PTL DEF Spec

\* RomIsWritten: a finished upload has put every byte of every binary where
\* it belongs, for every chunk size and any number of binaries of which only
\* the last fills a chunk, and that one is loaded at zero (write_memory_step,
\* libfdbg-client.cc:351-366).
THEOREM RomIsWritten == Spec => []RomWritten
<1>1. Init => IndInv
  BY TypeInit, ProgressInit DEF IndInv
<1>2. IndInv /\ [Next]_vars => IndInv'
  BY TypeNext, ProgressNext DEF IndInv
<1>3. IndInv => RomWritten
  <2>1. SUFFICES ASSUME IndInv, Uploaded, Disjoint, WellPlaced PROVE AllInMemory
    BY DEF RomWritten
  <2>2. CASE binaries = <<>>
    BY <2>2 DEF AllInMemory
  <2>3. CASE Underway
    BY <2>1, <2>3, UploadAssumption DEF Underway, Uploaded, NoUpload
  <2> QED
    BY <2>1, <2>2, <2>3 DEF IndInv, Progress, Uploaded
<1> QED
  BY <1>1, <1>2, <1>3, PTL DEF Spec
=============================================================================
