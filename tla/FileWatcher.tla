----------------------------- MODULE FileWatcher -----------------------------
(***************************************************************************)
(* The watched source files: FileWatcher with its verify thread, and the   *)
(* frames of Model::update that start it, compile and store the times of   *)
(* the files again (filewatcher.cc, model.cc:103-110 and 166-191).         *)
(*                                                                         *)
(* The files and the compiler are external.  A modification gives a file   *)
(* a later time; the number of modifications stands for both its time and  *)
(* its contents.  An editor may also remove a file and write it again.     *)
(***************************************************************************)
EXTENDS Integers, FiniteSets

CONSTANTS
    Files,          \* files_to_watch of the compilation
    VerifyEvery,    \* frames between two calls of run_verify (40)
    MaxEdits        \* bound: modifications of a file

ASSUME WatcherAssumption ==
    /\ IsFiniteSet(Files)
    /\ VerifyEvery \in Nat \ {0} /\ MaxEdits \in Nat

VARIABLES
    disk, present,  \* time of the last modification; files that exist now
    files_,         \* the stored times; its domain are the files in the map
    updated_,
    update_count,   \* update_count_ % VerifyEvery
    main,           \* Model::update: "verify", "check", "compile", "clear"
                    \* and "store" of update_files, "reset"; "terminated" by
                    \* an exception, "undefined" after a data race
    pending,        \* files the compiler has to read, or update_files to store
    thread,         \* "none", "running", "finished" and not joined yet
    todo,           \* files the thread has not looked at
    compiled,       \* history: the modification of each file last compiled
    late            \* history: files modified after the compiler read them
                    \* and before update_files stored their time

disks   == <<disk, present>>
watcher == <<files_, updated_, thread, todo>>
update  == <<update_count, main, pending>>
vars == <<disks, watcher, update, compiled, late>>

-----------------------------------------------------------------------------
\* The first compilation, in the startup window.
Init ==
    /\ disk = [f \in Files |-> 0] /\ present = Files
    /\ files_ = [f \in {} |-> 0] /\ updated_ = FALSE
    /\ update_count = 0
    /\ main = "compile" /\ pending = Files
    /\ thread = "none" /\ todo = {}
    /\ compiled = disk /\ late = {}

-----------------------------------------------------------------------------
(* FileWatcher::run_verify *)

\* In other frames, and when a change is known already, nothing is started.
VerifySkipped ==
    /\ main = "verify"
    /\ update_count # 0 \/ updated_
    /\ main' = "check"
    /\ UNCHANGED <<disks, watcher, update_count, pending, compiled, late>>

MutVerify ==
    /\ main = "verify"
    /\ update_count = 0 /\ ~ updated_
    /\ IF thread = "none"
       THEN thread' = "running" /\ todo' = DOMAIN files_
       ELSE UNCHANGED <<thread, todo>>
    /\ main' = "check"
    /\ UNCHANGED <<disks, files_, updated_, update_count, pending, compiled, late>>
\* The thread of an earlier call is joined, however long that takes.
Verify ==
    /\ main = "verify"
    /\ update_count = 0 /\ ~ updated_
    /\ thread # "running"
    /\ thread' = "running" /\ todo' = DOMAIN files_
    /\ main' = "check"
    /\ UNCHANGED <<disks, files_, updated_, update_count, pending, compiled, late>>

\* What the program does with the time of a file that is not there.
Missing(f) ==
    /\ f \notin present
    /\ main' = "terminated"
    /\ UNCHANGED <<disks, watcher, update_count, pending, compiled, late>>

Works == main \notin {"terminated", "undefined"}

ThreadMissing(f) == Works /\ thread = "running" /\ f \in todo /\ Missing(f)

MutThreadLooks(f) ==
    /\ Works /\ thread = "running" /\ f \in todo /\ f \in present
    /\ todo' = todo \ {f}
    /\ files_' = [files_ EXCEPT ![f] = disk[f]]
    /\ updated_' = (disk[f] > files_'[f] \/ updated_)
    /\ UNCHANGED <<disks, thread, update, compiled, late>>
ThreadLooks(f) ==
    /\ Works /\ thread = "running" /\ f \in todo /\ f \in present
    /\ todo' = todo \ {f}
    /\ IF disk[f] > files_[f]
       THEN files_' = [files_ EXCEPT ![f] = disk[f]] /\ updated_' = TRUE
       ELSE UNCHANGED <<files_, updated_>>
    /\ UNCHANGED <<disks, thread, update, compiled, late>>

ThreadEnds ==
    /\ Works /\ thread = "running" /\ todo = {}
    /\ thread' = "finished"
    /\ UNCHANGED <<disks, files_, updated_, todo, update, compiled, late>>

-----------------------------------------------------------------------------
(* Model::update *)

NextFrame ==
    /\ main' = "verify"
    /\ update_count' = (update_count + 1) % VerifyEvery

CheckUnchanged ==
    /\ main = "check" /\ ~ updated_
    /\ NextFrame
    /\ UNCHANGED <<disks, watcher, pending, compiled, late>>

CheckUpdated ==
    /\ main = "check" /\ updated_
    /\ main' = "compile" /\ pending' = Files
    /\ UNCHANGED <<disks, watcher, update_count, compiled, late>>

\* The compiler opens one file after the other, and fails without one.
CompileReads(f) ==
    /\ main = "compile" /\ f \in pending /\ f \in present
    /\ pending' = pending \ {f}
    /\ compiled' = [compiled EXCEPT ![f] = disk[f]]
    /\ late' = late \ {f}
    /\ UNCHANGED <<disks, watcher, update_count, main>>

CompileMissing(f) == main = "compile" /\ f \in pending /\ Missing(f)

CompileEnds ==
    /\ main = "compile" /\ pending = {}
    /\ main' = "clear"
    /\ UNCHANGED <<disks, watcher, update_count, pending, compiled, late>>

\* The compiler finds an error, which nothing catches.
CompileFails ==
    /\ main = "compile" /\ pending = {}
    /\ main' = "terminated"
    /\ UNCHANGED <<disks, watcher, update_count, pending, compiled, late>>

MutClear ==
    /\ main = "clear"
    /\ files_' = [f \in {} |-> 0]
    /\ main' = "store" /\ pending' = Files
    /\ UNCHANGED <<disks, updated_, thread, todo, update_count, compiled, late>>
\* update_files does not wait for a thread that goes through the map.
Clear ==
    /\ main = "clear" /\ thread # "running"
    /\ files_' = [f \in {} |-> 0]
    /\ main' = "store" /\ pending' = Files
    /\ UNCHANGED <<disks, updated_, thread, todo, update_count, compiled, late>>

ClearRaces ==
    /\ main = "clear" /\ thread = "running"
    /\ main' = "undefined"
    /\ UNCHANGED <<disks, watcher, update_count, pending, compiled, late>>

Store(f) ==
    /\ main = "store" /\ f \in pending /\ f \in present
    /\ pending' = pending \ {f}
    /\ files_' = [g \in DOMAIN files_ \cup {f} |->
                    IF g = f THEN disk[f] ELSE files_[g]]
    /\ UNCHANGED <<disks, updated_, thread, todo, update_count, main, compiled, late>>

StoreMissing(f) == main = "store" /\ f \in pending /\ Missing(f)

StoreEnds ==
    /\ main = "store" /\ pending = {}
    /\ main' = "reset"
    /\ UNCHANGED <<disks, watcher, update_count, pending, compiled, late>>

\* reset, upload_rom_and_start (Upload), and the frame ends.
Reset ==
    /\ main = "reset"
    /\ updated_' = FALSE
    /\ NextFrame
    /\ UNCHANGED <<disks, files_, thread, todo, pending, compiled, late>>

-----------------------------------------------------------------------------
(* The editor *)

\* The compiler has read f and its time is not stored yet.
Unprotected(f) ==
    \/ main = "compile" /\ f \notin pending
    \/ main = "clear"
    \/ main = "store" /\ f \in pending

Save(f) ==
    /\ Works /\ disk[f] < MaxEdits
    /\ disk' = [disk EXCEPT ![f] = @ + 1]
    /\ present' = present \cup {f}
    /\ late' = IF Unprotected(f) THEN late \cup {f} ELSE late
    /\ UNCHANGED <<watcher, update, compiled>>

\* An editor that replaces the file; Save writes it again.
Remove(f) ==
    /\ Works /\ f \in present /\ disk[f] < MaxEdits
    /\ present' = present \ {f}
    /\ UNCHANGED <<disk, watcher, update, compiled, late>>

-----------------------------------------------------------------------------
Main ==
    \/ VerifySkipped \/ Verify \/ CheckUnchanged \/ CheckUpdated
    \/ CompileEnds \/ CompileFails \/ Clear \/ ClearRaces \/ StoreEnds \/ Reset
    \/ \E f \in Files : CompileReads(f) \/ CompileMissing(f)
    \/ \E f \in Files : Store(f) \/ StoreMissing(f)

Thread ==
    \/ ThreadEnds
    \/ \E f \in Files : ThreadLooks(f) \/ ThreadMissing(f)

Editor == \E f \in Files : Save(f) \/ Remove(f)

Next == Main \/ Thread \/ Editor

\* The frames and the thread go on; nothing makes the user edit.
Spec == Init /\ [][Next]_vars /\ WF_vars(Main) /\ WF_vars(Thread)

-----------------------------------------------------------------------------
(* Properties *)

\* TypeOK: the watcher keeps its types, and the thread goes only through
\* files of the map, which is complete whenever a frame begins.
TypeOK ==
    /\ disk \in [Files -> 0 .. MaxEdits] /\ present \subseteq Files
    /\ DOMAIN files_ \subseteq Files
    /\ files_ \in [DOMAIN files_ -> 0 .. MaxEdits]
    /\ updated_ \in BOOLEAN
    /\ update_count \in 0 .. VerifyEvery - 1
    /\ main \in {"verify", "check", "compile", "clear", "store", "reset",
                 "terminated", "undefined"}
    /\ pending \subseteq Files
    /\ thread \in {"none", "running", "finished"}
    /\ todo \subseteq DOMAIN files_
    /\ compiled \in [Files -> 0 .. MaxEdits] /\ late \subseteq Files
    /\ main \in {"verify", "check"} => DOMAIN files_ = Files

\* NothingForgotten: between two frames, a modification whose time the
\* watcher has stored was compiled or is about to be: neither the thread nor
\* reset, which forgets every change at once, drops one.  (It may be dropped
\* when it falls between the compiler and update_files.)
NothingForgotten ==
    main \in {"verify", "check"} =>
        \A f \in Files \ late : files_[f] > compiled[f] => updated_

\* EditsAreCompiled: a modified file is compiled in the end, unless the
\* modification was late, a file was missing or wrong when it was needed,
\* or update_files and the thread were in the map at the same time.
EditsAreCompiled ==
    \A f \in Files :
        disk[f] # compiled[f] ~> disk[f] = compiled[f] \/ f \in late \/ ~ Works
=============================================================================
