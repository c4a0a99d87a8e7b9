--------------------------- MODULE FileWatcherProofs ---------------------------
(***************************************************************************)
(* The watcher for every set of files, interval and number of edits: what  *)
(* it has noticed is compiled, and what is not compiled can be noticed.    *)
(***************************************************************************)
EXTENDS FileWatcher, TLAPS

\* The thread is in the map only while no frame is between Clear and Reset,
\* and has nothing to look at unless it runs.
ThreadAway ==
    /\ thread # "running" => todo = {}
    /\ main \in {"store", "reset"} => thread # "running"

\* What each place of Model::update still owes to a file that is not late.
\* While files_ is filled, it holds the files stored so far.
Owed ==
    /\ main = "compile" => \A f \in Files \ (late \cup pending) : compiled[f] = disk[f]
    /\ main = "clear" => \A f \in Files \ late : compiled[f] = disk[f]
    /\ main = "store" =>
          /\ DOMAIN files_ = Files \ pending
          /\ \A f \in Files \ late :
                IF f \in pending THEN compiled[f] = disk[f] ELSE files_[f] <= compiled[f]
    /\ main = "reset" =>
          /\ DOMAIN files_ = Files
          /\ \A f \in Files \ late : files_[f] <= compiled[f]

\* The compiler has read nothing that was not written.
CompiledExists == \A f \in Files : compiled[f] <= disk[f]

IInv == TypeOK /\ ThreadAway /\ Owed /\ CompiledExists /\ NothingForgotten

\* EditsNoticeable: between two frames, a file that differs from what was
\* compiled, and is not late, is noticed already or has a later time than the
\* one the thread will compare with.
EditsNoticeable ==
    main \in {"verify", "check"} =>
        \A f \in Files \ late : disk[f] # compiled[f] => updated_ \/ disk[f] > files_[f]

-----------------------------------------------------------------------------
LEMMA InitIInv == Init => IInv
<1> SUFFICES ASSUME Init PROVE IInv
  OBVIOUS
<1>1. /\ disk \in [Files -> 0 .. MaxEdits] /\ compiled = disk
      /\ \A f \in Files : disk[f] \in Nat
      /\ main = "compile" /\ pending = Files /\ todo = {}
  BY WatcherAssumption DEF Init
<1>2. TypeOK
  <2>1. DOMAIN files_ = {} /\ files_ \in [DOMAIN files_ -> 0 .. MaxEdits]
    BY DEF Init
  <2>2. update_count \in 0 .. VerifyEvery - 1
    BY WatcherAssumption DEF Init
  <2> QED
    BY <1>1, <2>1, <2>2 DEF Init, TypeOK
<1>3. ThreadAway /\ Owed /\ CompiledExists /\ NothingForgotten
  BY <1>1 DEF ThreadAway, Owed, CompiledExists, NothingForgotten
<1> QED
  BY <1>2, <1>3 DEF IInv

\* A modification in any place of update: it is late exactly if the compiler
\* or update_files would miss it.
LEMMA SaveStep ==
    ASSUME IInv, NEW f \in Files, Save(f)
    PROVE  IInv'
<1> USE DEF IInv
<1>1. TypeOK'
  BY WatcherAssumption DEF TypeOK, Save, watcher, update
<1>2. /\ UNCHANGED <<watcher, update, compiled>>
      /\ disk' \in [Files -> Nat] /\ disk'[f] = disk[f] + 1
      /\ \A g \in Files \ {f} : disk'[g] = disk[g]
      /\ f \in late' \/ ~ Unprotected(f)
      /\ late \subseteq late'
  BY WatcherAssumption DEF Save, TypeOK
<1>3. ThreadAway' /\ NothingForgotten'
  BY <1>2 DEF ThreadAway, NothingForgotten, watcher, update
<1>4. Owed'
  BY <1>2 DEF Owed, Unprotected, watcher, update
<1>5. CompiledExists'
  BY <1>2, WatcherAssumption DEF CompiledExists, TypeOK, watcher, update
<1> QED
  BY <1>1, <1>3, <1>4, <1>5

LEMMA ThreadLooksStep ==
    ASSUME IInv, NEW f \in Files, ThreadLooks(f)
    PROVE  IInv'
<1> USE DEF IInv
<1>1. f \in DOMAIN files_ /\ main \notin {"store", "reset"} /\ DOMAIN files_' = DOMAIN files_
  BY DEF ThreadLooks, TypeOK, ThreadAway
<1>2. TypeOK'
  <2>1. files_' \in [DOMAIN files_ -> 0 .. MaxEdits]
    BY <1>1 DEF ThreadLooks, TypeOK
  <2> QED
    BY <1>1, <2>1 DEF ThreadLooks, TypeOK, disks, update
<1>3. ThreadAway' /\ Owed' /\ CompiledExists'
  BY <1>1 DEF ThreadLooks, ThreadAway, Owed, CompiledExists, disks, update
<1>4. NothingForgotten'
  \* what is later than the stored time sets updated_
  BY <1>1 DEF ThreadLooks, NothingForgotten, disks, update
<1> QED
  BY <1>2, <1>3, <1>4

LEMMA CompileReadsStep ==
    ASSUME IInv, NEW f \in Files, CompileReads(f)
    PROVE  IInv'
<1> USE DEF IInv
<1>1. TypeOK'
  BY DEF CompileReads, TypeOK, disks, watcher
<1>2. /\ main = "compile" /\ main' = main /\ disk' = disk
      /\ compiled'[f] = disk[f] /\ \A g \in Files \ {f} : compiled'[g] = compiled[g]
      /\ late' = late \ {f} /\ pending' = pending \ {f}
  BY DEF CompileReads, TypeOK, disks
<1>3. ThreadAway' /\ NothingForgotten'
  BY <1>2 DEF CompileReads, ThreadAway, NothingForgotten, watcher
<1>4. Owed'
  BY <1>2 DEF Owed
<1>5. CompiledExists'
  BY <1>2 DEF CompiledExists, TypeOK
<1> QED
  BY <1>1, <1>3, <1>4, <1>5

LEMMA StoreStep ==
    ASSUME IInv, NEW f \in Files, Store(f)
    PROVE  IInv'
<1> USE DEF IInv
<1>1. /\ main = "store" /\ main' = main /\ disk' = disk /\ UNCHANGED <<compiled, late, thread, todo>>
      /\ pending' = pending \ {f} /\ f \in pending
      /\ DOMAIN files_' = DOMAIN files_ \cup {f} /\ files_'[f] = disk[f]
      /\ \A g \in DOMAIN files_ \ {f} : files_'[g] = files_[g]
  BY DEF Store, disks
<1>2. TypeOK'
  <2>1. files_' \in [DOMAIN files_' -> 0 .. MaxEdits]
    BY DEF Store, TypeOK
  <2> QED
    BY <1>1, <2>1 DEF Store, TypeOK, disks
<1>3. ThreadAway' /\ NothingForgotten' /\ CompiledExists'
  BY <1>1 DEF ThreadAway, NothingForgotten, CompiledExists
<1>4. Owed'
  <2>1. DOMAIN files_ = Files \ pending /\ pending \subseteq Files
    BY <1>1 DEF Owed, TypeOK
  <2>2. DOMAIN files_' = Files \ pending'
    BY <1>1, <2>1
  <2>3. ASSUME NEW g \in Files \ late'
        PROVE  IF g \in pending' THEN compiled'[g] = disk'[g] ELSE files_'[g] <= compiled'[g]
    <3>1. CASE g = f
      BY <1>1, <2>1, <2>3, <3>1, WatcherAssumption DEF Owed, TypeOK
    <3>2. CASE g # f
      BY <1>1, <2>1, <2>3, <3>2 DEF Owed
    <3> QED
      BY <3>1, <3>2
  <2> QED
    BY <1>1, <2>2, <2>3 DEF Owed
<1> QED
  BY <1>2, <1>3, <1>4

\* Verify, the check, and the ends of compile, clear, store and reset.
LEMMA MainStep ==
    ASSUME IInv,
           \/ VerifySkipped \/ Verify \/ CheckUnchanged \/ CheckUpdated
           \/ CompileEnds \/ CompileFails \/ Clear \/ ClearRaces \/ StoreEnds \/ Reset
           \/ \E f \in Files : Missing(f)
    PROVE  IInv'
<1> USE WatcherAssumption DEF IInv
<1>1. CASE VerifySkipped \/ Verify
  BY <1>1 DEF VerifySkipped, Verify, TypeOK, ThreadAway, Owed, CompiledExists,
              NothingForgotten, disks, watcher
<1>2. CASE CheckUnchanged \/ CheckUpdated
  <2>1. update_count' \in 0 .. VerifyEvery - 1
    BY <1>2 DEF CheckUnchanged, CheckUpdated, NextFrame, TypeOK
  <2> QED
    BY <1>2, <2>1 DEF CheckUnchanged, CheckUpdated, NextFrame, TypeOK, ThreadAway, Owed,
              CompiledExists, NothingForgotten, disks, watcher
<1>3. CASE CompileEnds \/ CompileFails \/ ClearRaces \/ \E f \in Files : Missing(f)
  BY <1>3 DEF CompileEnds, CompileFails, ClearRaces, Missing, TypeOK, ThreadAway, Owed,
              CompiledExists, NothingForgotten, disks, watcher
<1>4. CASE Clear
  BY <1>4 DEF Clear, TypeOK, ThreadAway, Owed, CompiledExists, NothingForgotten, disks
<1>5. CASE StoreEnds
  BY <1>5 DEF StoreEnds, TypeOK, ThreadAway, Owed, CompiledExists, NothingForgotten, disks, watcher
<1>6. CASE Reset
  <2>1. update_count' \in 0 .. VerifyEvery - 1
    BY <1>6 DEF Reset, NextFrame, TypeOK
  <2>2. \A f \in Files \ late : ~ (files_[f] > compiled[f])
    BY <1>6 DEF Reset, Owed, TypeOK
  <2> QED
    BY <1>6, <2>1, <2>2 DEF Reset, NextFrame, TypeOK, ThreadAway, Owed, CompiledExists,
                            NothingForgotten, disks
<1> QED
  BY <1>1, <1>2, <1>3, <1>4, <1>5, <1>6

LEMMA NextIInv == IInv /\ [Next]_vars => IInv'
<1> SUFFICES ASSUME IInv, [Next]_vars PROVE IInv'
  OBVIOUS
<1>1. CASE \E f \in Files : Save(f)
  BY <1>1, SaveStep
<1>2. CASE \E f \in Files : Remove(f)
  BY <1>2 DEF IInv, Remove, TypeOK, ThreadAway, Owed, CompiledExists, NothingForgotten,
              watcher, update
<1>3. CASE \E f \in Files : ThreadLooks(f)
  BY <1>3, ThreadLooksStep
<1>4. CASE ThreadEnds
  BY <1>4 DEF IInv, ThreadEnds, TypeOK, ThreadAway, Owed, CompiledExists, NothingForgotten,
              disks, update
<1>5. CASE \E f \in Files : CompileReads(f)
  BY <1>5, CompileReadsStep
<1>6. CASE \E f \in Files : Store(f)
  BY <1>6, StoreStep
<1>7. CASE \/ VerifySkipped \/ Verify \/ CheckUnchanged \/ CheckUpdated
           \/ CompileEnds \/ CompileFails \/ Clear \/ ClearRaces \/ StoreEnds \/ Reset
           \/ \E f \in Files : ThreadMissing(f) \/ CompileMissing(f) \/ StoreMissing(f)
  BY <1>7, MainStep DEF ThreadMissing, CompileMissing, StoreMissing
<1>8. CASE UNCHANGED vars
  BY <1>8 DEF IInv, TypeOK, ThreadAway, Owed, CompiledExists, NothingForgotten,
              vars, disks, watcher, update
<1> QED
  BY <1>1, <1>2, <1>3, <1>4, <1>5, <1>6, <1>7, <1>8 DEF Next, Main, Thread, Editor

\* The inductive invariant, from which the three theorems below follow.
THEOREM Invariant == Spec => []IInv
  BY InitIInv, NextIInv, PTL DEF Spec

-----------------------------------------------------------------------------
\* TypeCorrect: files_ holds only watched files, all of them whenever a frame
\* begins, and the thread goes only through files of the map.
THEOREM TypeCorrect == Spec => []TypeOK
<1>1. IInv => TypeOK
  BY DEF IInv
<1> QED
  BY <1>1, Invariant, PTL

\* EditsAreNotForgotten: a modification the watcher has stored between two
\* frames was compiled, is about to be, or was late: for every set of files
\* and every order of frames, thread and editor.
THEOREM EditsAreNotForgotten == Spec => []NothingForgotten
<1>1. IInv => NothingForgotten
  BY DEF IInv
<1> QED
  BY <1>1, Invariant, PTL

\* EditsStayNoticeable: no modification that is not late slips between the
\* stored time and the compiled one, so that a later verify finds it.
THEOREM EditsStayNoticeable == Spec => []EditsNoticeable
<1>1. IInv => EditsNoticeable
  BY WatcherAssumption DEF IInv, EditsNoticeable, NothingForgotten, CompiledExists, TypeOK
<1> QED
  BY <1>1, Invariant, PTL
=============================================================================
