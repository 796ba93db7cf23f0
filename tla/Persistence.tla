----------------------------- MODULE Persistence -----------------------------
(***************************************************************************)
(* How rooms outlive the server: the dirty flag, the periodic writer, the  *)
(* snapshot file and its atomic replacement, start, stop and crash, and    *)
(* the lock that keeps two servers off one data directory.                 *)
(*                                                                         *)
(* Handlers change rooms on worker threads, the writer task takes and      *)
(* saves a snapshot, the sweep runs beside it, and each call of the file   *)
(* system is a step of its own: a crash can come between any two.          *)
(*                                                                         *)
(* What a room is does not matter here, only which of two copies of it is  *)
(* older: every change has a stamp, and a code's state is the stamp of its *)
(* last change and whether it has a room.                                  *)
(***************************************************************************)
EXTENDS Naturals, FiniteSets

CONSTANTS
    Proc,             \* servers that may be started on the data directory
    Code,             \* room codes
    Nobody,           \* the holder of a free lock
    Missing,          \* no such file
    Garbled,          \* a file damaged before the first start: it does not parse
    Torn,             \* a file that is being written, or was cut short: nor does it
    Intervals,        \* what TT_SNAPSHOT_INTERVAL_SECS may say at a start
    MayBeUnreadable,  \* can reading the snapshot fail at start?
    MaxChanges,       \* bound: changes of rooms in one run
    MaxFailures       \* bound: file system calls that fail in one run

ASSUME NamesAssumption ==
    /\ Nobody \notin Proc
    /\ IsFiniteSet(Code) /\ Code # {}
ASSUME NumbersAssumption ==
    /\ Intervals \subseteq Nat
    /\ MayBeUnreadable \in BOOLEAN
    /\ MaxChanges \in Nat
    /\ MaxFailures \in Nat

VARIABLES
    phase,      \* each process: "down", "starting" (owns the lock), "up",
                \* "closed" (server::run has returned), "final" (last save)
    rooms,      \* each process: the rooms it holds in memory
    dirty,      \* each process: Registry::dirty
    marks,      \* each process: handlers about to call mark_dirty
    writer,     \* each process: where its current save is; "gone" when the
                \* writer task has panicked
    todo,       \* each process: codes the snapshot being taken lacks
    snap,       \* each process: the snapshot being taken or saved
    behind,     \* each process: has a save or the load failed, and no save
                \* succeeded since?
    silent,     \* each process: the codes with a change nobody reported,
                \* which no snapshot has read since (history: no guard reads it)
    lock,       \* who holds the data directory's .lock
    file,       \* contents of rooms.json
    tmp,        \* contents of rooms.json.tmp
    synced,     \* has tmp reached the disk?
    afterLoss,  \* what rooms.json may contain after a power cut
    backup,     \* contents of rooms.json.corrupt
    stamp,      \* the last change's stamp
    failures    \* calls that have failed

memoryVars == <<phase, rooms, dirty, marks, writer, todo, snap, behind, silent>>
diskVars == <<file, tmp, synced, afterLoss, backup>>
vars == <<memoryVars, diskVars, lock, stamp, failures>>

Copy == [at : Nat, there : BOOLEAN]
Snapshot == [Code -> Copy]
Contents == Snapshot \cup {Missing, Garbled, Torn}

ASSUME ContentsAssumption ==
    /\ {Missing, Garbled, Torn} \cap Snapshot = {}
    /\ Torn \notin {Missing, Garbled}

NoRooms == [c \in Code |-> [at |-> 0, there |-> FALSE]]

\* The rooms a start would find in file contents x.
Rooms(x) == IF x \in {Missing, Garbled, Torn} THEN NoRooms ELSE x

Running == {"up", "closed", "final"}
Saving == {"creating", "writing", "syncing", "renaming"}

-----------------------------------------------------------------------------
\* A data directory before its first start, or one whose file is damaged.
Init ==
    /\ phase = [p \in Proc |-> "down"]
    /\ rooms = [p \in Proc |-> NoRooms]
    /\ dirty = [p \in Proc |-> FALSE]
    /\ marks = [p \in Proc |-> 0]
    /\ writer = [p \in Proc |-> "idle"]
    /\ todo = [p \in Proc |-> {}]
    /\ snap = [p \in Proc |-> NoRooms]
    /\ behind = [p \in Proc |-> FALSE]
    /\ silent = [p \in Proc |-> {}]
    /\ lock = Nobody
    /\ file \in {Missing, Garbled}
    /\ tmp = Missing
    /\ synced = FALSE
    /\ afterLoss = {file}
    /\ backup = Missing
    /\ stamp = 0
    /\ failures = 0

\* A call of the file system fails.
Fails ==
    /\ failures < MaxFailures
    /\ failures' = failures + 1

-----------------------------------------------------------------------------
(* Starting.                                                               *)

\* Slip: nobody asks whether the directory is in use.
SlipAcquireLock(p) ==
    /\ phase[p] = "down"
    /\ lock' = p
    /\ phase' = [phase EXCEPT ![p] = "starting"]
    /\ UNCHANGED <<rooms, dirty, marks, writer, todo, snap, behind, silent,
                   diskVars, stamp, failures>>

\* acquire_data_lock, before anything is read.  A process that finds the lock
\* taken exits, which changes nothing.
AcquireLock(p) ==
    /\ phase[p] = "down"
    /\ lock = Nobody
    /\ lock' = p
    /\ phase' = [phase EXCEPT ![p] = "starting"]
    /\ UNCHANGED <<rooms, dirty, marks, writer, todo, snap, behind, silent,
                   diskVars, stamp, failures>>

\* Registry::from_snapshot, then the writer task and the server are started.
\* The interval is read at every start.  A period of zero makes the ticker
\* panic, which ends the writer task alone.
StartWith(p, found) ==
    /\ phase[p] = "starting"
    /\ phase' = [phase EXCEPT ![p] = "up"]
    /\ rooms' = [rooms EXCEPT ![p] = found]
    /\ dirty' = [dirty EXCEPT ![p] = FALSE]
    /\ \E interval \in Intervals :
          writer' = [writer EXCEPT ![p] = IF interval = 0 THEN "gone" ELSE "idle"]
    /\ UNCHANGED <<marks, todo, snap, silent, lock, tmp, synced, stamp>>

\* Slip: a snapshot that is missing is not taken for an empty one.
SlipLoad(p) ==
    /\ file \notin {Garbled, Torn}
    /\ StartWith(p, file)
    /\ UNCHANGED <<behind, file, afterLoss, backup, failures>>

\* FileStore::load of a missing or a sound file.
Load(p) ==
    /\ file \notin {Garbled, Torn}
    /\ StartWith(p, Rooms(file))
    /\ UNCHANGED <<behind, file, afterLoss, backup, failures>>

\* FileStore::load of a file that does not parse: set aside if that can be
\* done, and the server starts empty either way.
LoadGarbled(p) ==
    /\ file \in {Garbled, Torn}
    /\ StartWith(p, NoRooms)
    /\ \/ /\ backup' = file
          /\ file' = Missing
          /\ afterLoss' = afterLoss \cup {Missing}
          /\ UNCHANGED failures
       \/ /\ Fails
          /\ UNCHANGED <<file, afterLoss, backup>>
    /\ UNCHANGED behind

\* FileStore::load returns an error, and main starts with no rooms.
LoadFails(p) ==
    /\ MayBeUnreadable /\ file # Missing
    /\ StartWith(p, NoRooms)
    /\ behind' = [behind EXCEPT ![p] = TRUE]
    /\ Fails
    /\ UNCHANGED <<file, afterLoss, backup>>

-----------------------------------------------------------------------------
(* Handlers and the sweep.                                                 *)

\* Slip: the last snapshot is taken while handlers still run.
SlipServing(p) == phase[p] \in Running

\* Handlers run until server::run returns.
Serving(p) == phase[p] = "up"

\* Code c gets a new state: a room, or none.
Stamp(p, c, there) ==
    /\ stamp < MaxChanges
    /\ stamp' = stamp + 1
    /\ rooms' = [rooms EXCEPT ![p][c] = [at |-> stamp', there |-> there]]

\* Registry::create_room and remove_room: the map changes first, and the flag
\* is set by a call of its own.
CreateOrRemove(p, c) ==
    /\ Serving(p)
    /\ Stamp(p, c, ~rooms[p][c].there)
    /\ marks' = [marks EXCEPT ![p] = @ + 1]
    /\ UNCHANGED <<phase, dirty, writer, todo, snap, behind, silent, diskVars,
                   lock, failures>>

\* Registry::mark_dirty.
MarkDirty(p) ==
    /\ marks[p] > 0
    /\ marks' = [marks EXCEPT ![p] = @ - 1]
    /\ dirty' = [dirty EXCEPT ![p] = TRUE]
    /\ UNCHANGED <<phase, rooms, writer, todo, snap, behind, silent, diskVars,
                   lock, stamp, failures>>

\* Slip: the flag is not set for a change that was reported.
SlipReportsChange(p) == UNCHANGED <<dirty, silent>>

\* with_room_mut marks the change of a closure that reports one.
ReportsChange(p) ==
    /\ dirty' = [dirty EXCEPT ![p] = TRUE]
    /\ UNCHANGED silent

\* dispatch reports no change for a message it refuses, but an end_turn or a
\* skip_player that finds nobody to play is refused after its walk has used up
\* skips, and undo_turn after it has taken the previous holder: what the file
\* is to keep has changed, and nothing is marked.
ConcealsChange(p, c) ==
    /\ silent' = [silent EXCEPT ![p] = @ \cup {c}]
    /\ UNCHANGED dirty

\* Registry::with_room_mut: the change and its mark are made under the lock
\* without which the writer cannot read the room.
Mutate(p, c) ==
    /\ Serving(p)
    /\ rooms[p][c].there
    /\ Stamp(p, c, TRUE)
    /\ ReportsChange(p) \/ ConcealsChange(p, c)
    /\ UNCHANGED <<phase, marks, writer, todo, snap, behind, diskVars, lock, failures>>

\* Registry::sweep_expired drops an idle room.  It runs on the main thread, so
\* never in the middle of a snapshot, and until the final save.
Sweep(p, c) ==
    /\ phase[p] \in {"up", "closed"}
    /\ writer[p] # "collecting"
    /\ rooms[p][c].there
    /\ Stamp(p, c, FALSE)
    /\ dirty' = [dirty EXCEPT ![p] = TRUE]
    /\ UNCHANGED <<phase, marks, writer, todo, snap, behind, silent, diskVars,
                   lock, failures>>

-----------------------------------------------------------------------------
(* Saving: snapshot_once and FileStore::save.                              *)

\* Registry::snapshot begins.
BeginSnapshot(p) ==
    /\ writer' = [writer EXCEPT ![p] = "collecting"]
    /\ todo' = [todo EXCEPT ![p] = Code]
    /\ UNCHANGED <<rooms, marks, snap, behind, silent, diskVars, lock, stamp,
                   failures>>

\* A tick of the writer that finds the flag set: take_dirty clears it before
\* the first room is read.
TakeDirty(p) ==
    /\ phase[p] \in {"up", "closed"}
    /\ writer[p] = "idle"
    /\ dirty[p]
    /\ dirty' = [dirty EXCEPT ![p] = FALSE]
    /\ BeginSnapshot(p)
    /\ UNCHANGED phase

\* Slip: the flag is cleared once the rooms have been read.
SlipCollect(p, c) ==
    /\ writer[p] = "collecting"
    /\ c \in todo[p]
    /\ snap' = [snap EXCEPT ![p][c] = rooms[p][c]]
    /\ todo' = [todo EXCEPT ![p] = @ \ {c}]
    /\ writer' = [writer EXCEPT ![p] = IF todo'[p] = {} THEN "creating" ELSE @]
    /\ dirty' = [dirty EXCEPT ![p] = todo'[p] # {} /\ @]
    /\ silent' = [silent EXCEPT ![p] = @ \ {c}]
    /\ UNCHANGED <<phase, rooms, marks, behind, diskVars, lock, stamp, failures>>

\* The rooms are read one after the other, under a lock each.
Collect(p, c) ==
    /\ writer[p] = "collecting"
    /\ c \in todo[p]
    /\ snap' = [snap EXCEPT ![p][c] = rooms[p][c]]
    /\ todo' = [todo EXCEPT ![p] = @ \ {c}]
    /\ writer' = [writer EXCEPT ![p] = IF todo'[p] = {} THEN "creating" ELSE @]
    /\ silent' = [silent EXCEPT ![p] = @ \ {c}]
    /\ UNCHANGED <<phase, rooms, dirty, marks, behind, diskVars, lock, stamp, failures>>

\* One call of FileStore::save has returned; the save is at its next one.
Advance(p, from, to) ==
    /\ writer[p] = from
    /\ writer' = [writer EXCEPT ![p] = to]
    /\ UNCHANGED <<phase, rooms, dirty, marks, todo, silent, lock, stamp, failures>>

\* File::create truncates what an earlier save may have left.
CreateTmp(p) ==
    /\ Advance(p, "creating", "writing")
    /\ tmp' = Torn
    /\ synced' = FALSE
    /\ UNCHANGED <<snap, behind, file, afterLoss, backup>>

\* Slip: the file is renamed without having been synced.
SlipWriteTmp(p) ==
    /\ Advance(p, "writing", "renaming")
    /\ tmp' = snap[p]
    /\ UNCHANGED <<snap, behind, file, synced, afterLoss, backup>>

\* write_all.
WriteTmp(p) ==
    /\ Advance(p, "writing", "syncing")
    /\ tmp' = snap[p]
    /\ UNCHANGED <<snap, behind, file, synced, afterLoss, backup>>

\* sync_all.
SyncTmp(p) ==
    /\ Advance(p, "syncing", "renaming")
    /\ synced' = TRUE
    /\ UNCHANGED <<snap, behind, file, tmp, afterLoss, backup>>

\* rename.  The directory is not synced: a power cut may still undo it, and
\* one that comes before the data is on the disk leaves a torn file.  (This is
\* rename as on Linux, where the server is deployed.  A build for Windows removes
\* the old file first.)
Rename(p) ==
    /\ Advance(p, "renaming", "idle")
    /\ file' = tmp
    /\ tmp' = Missing
    /\ synced' = FALSE
    /\ afterLoss' = afterLoss \cup {IF synced THEN tmp ELSE Torn}
    /\ snap' = [snap EXCEPT ![p] = NoRooms]
    /\ behind' = [behind EXCEPT ![p] = FALSE]
    /\ UNCHANGED backup

\* Any call of the save fails: the error is logged, the flag stays clear, and
\* the temporary file is left as it is.
SaveFails(p) ==
    /\ writer[p] \in Saving
    /\ Fails
    /\ writer' = [writer EXCEPT ![p] = "idle"]
    /\ snap' = [snap EXCEPT ![p] = NoRooms]
    /\ behind' = [behind EXCEPT ![p] = TRUE]
    /\ UNCHANGED <<phase, rooms, dirty, marks, todo, silent, diskVars, lock, stamp>>

-----------------------------------------------------------------------------
(* Stopping, on purpose or not.                                            *)

\* server::run returns: on a signal once the workers have stopped, or because
\* it could not bind.  A worker stops between handlers, never inside one.
Close(p) ==
    /\ phase[p] = "up"
    /\ marks[p] = 0
    /\ phase' = [phase EXCEPT ![p] = "closed"]
    /\ UNCHANGED <<rooms, dirty, marks, writer, todo, snap, behind, silent,
                   diskVars, lock, stamp, failures>>

\* The writer sees the shutdown signal between two saves (or is gone), and
\* main begins the last save, dirty or not.
BeginFinalSave(p) ==
    /\ phase[p] = "closed"
    /\ writer[p] \in {"idle", "gone"}
    /\ phase' = [phase EXCEPT ![p] = "final"]
    /\ BeginSnapshot(p)
    /\ UNCHANGED dirty

\* A process is gone: its memory with it, and the operating system frees the
\* lock.
Vanish(gone) ==
    /\ phase' = [p \in Proc |-> IF p \in gone THEN "down" ELSE phase[p]]
    /\ rooms' = [p \in Proc |-> IF p \in gone THEN NoRooms ELSE rooms[p]]
    /\ dirty' = [p \in Proc |-> p \notin gone /\ dirty[p]]
    /\ marks' = [p \in Proc |-> IF p \in gone THEN 0 ELSE marks[p]]
    /\ writer' = [p \in Proc |-> IF p \in gone THEN "idle" ELSE writer[p]]
    /\ todo' = [p \in Proc |-> IF p \in gone THEN {} ELSE todo[p]]
    /\ snap' = [p \in Proc |-> IF p \in gone THEN NoRooms ELSE snap[p]]
    /\ behind' = [p \in Proc |-> p \notin gone /\ behind[p]]
    /\ silent' = [p \in Proc |-> IF p \in gone THEN {} ELSE silent[p]]
    /\ lock' = IF lock \in gone THEN Nobody ELSE lock
    /\ UNCHANGED <<stamp, failures>>

\* main returns after the last save.
Exit(p) ==
    /\ phase[p] = "final"
    /\ writer[p] = "idle"
    /\ Vanish({p})
    /\ UNCHANGED diskVars

\* The process is killed.  What it has told the operating system stays.
Crash(p) ==
    /\ phase[p] # "down"
    /\ Vanish({p})
    /\ UNCHANGED diskVars

\* The power fails: of the files, only what has reached the disk stays.
PowerCut ==
    /\ Vanish(Proc)
    /\ file' \in afterLoss
    /\ afterLoss' = {file'}
    /\ tmp' \in IF synced THEN {tmp, Missing} ELSE {tmp, Missing, Torn}
    /\ UNCHANGED <<synced, backup>>

\* The operating system brings the directory up to date on the disk.
Flush ==
    /\ afterLoss' = {file}
    /\ UNCHANGED <<memoryVars, file, tmp, synced, backup, lock, stamp, failures>>

-----------------------------------------------------------------------------
SaveStep(p) ==
    \/ \E c \in Code : Collect(p, c)
    \/ CreateTmp(p) \/ WriteTmp(p) \/ SyncTmp(p) \/ Rename(p)

Next ==
    \/ \E p \in Proc :
          \/ AcquireLock(p) \/ Load(p) \/ LoadGarbled(p) \/ LoadFails(p)
          \/ \E c \in Code : CreateOrRemove(p, c) \/ Mutate(p, c) \/ Sweep(p, c)
          \/ MarkDirty(p) \/ TakeDirty(p) \/ SaveStep(p) \/ SaveFails(p)
          \/ Close(p) \/ BeginFinalSave(p) \/ Exit(p) \/ Crash(p)
    \/ PowerCut
    \/ Flush

Spec == Init /\ [][Next]_vars

\* A handler that has changed a room goes on to mark it, the writer's ticker
\* keeps ticking, a save that was begun goes on, and so does a stop, to its end.
Fairness ==
    \A p \in Proc :
        /\ WF_vars(MarkDirty(p))
        /\ WF_vars(TakeDirty(p))
        /\ WF_vars(SaveStep(p))
        /\ WF_vars(BeginFinalSave(p))
        /\ WF_vars(Exit(p))

FairSpec == Spec /\ Fairness

-----------------------------------------------------------------------------
TypeOK ==
    /\ phase \in [Proc -> {"down", "starting"} \cup Running]
    /\ rooms \in [Proc -> Snapshot]
    /\ dirty \in [Proc -> BOOLEAN]
    /\ marks \in [Proc -> Nat]
    /\ writer \in [Proc -> {"idle", "collecting", "gone"} \cup Saving]
    /\ todo \in [Proc -> SUBSET Code]
    /\ snap \in [Proc -> Snapshot]
    /\ behind \in [Proc -> BOOLEAN]
    /\ silent \in [Proc -> SUBSET Code]
    /\ lock \in Proc \cup {Nobody}
    /\ file \in Contents
    /\ tmp \in Contents
    /\ synced \in BOOLEAN
    /\ afterLoss \subseteq Contents
    /\ backup \in Contents
    /\ stamp \in Nat
    /\ failures \in Nat

\* The save in progress will write code c as it is now.
WillWrite(p, c) ==
    \/ writer[p] = "collecting" /\ c \in todo[p]
    \/ writer[p] \in {"collecting"} \cup Saving /\ snap[p][c] = rooms[p][c]

\* A reported change that is not on the disk is never forgotten: the flag is
\* set or about to be, or the save in progress has the change or will come to
\* it, or the last save has failed.  A save takes the flag first and reads
\* rooms one by one while handlers go on, so the order of these steps decides.
\* What a refused message changed is remembered by nothing (`silent`).
UnsavedIsRemembered ==
    \A p \in Proc, c \in Code :
        phase[p] \in Running /\ rooms[p][c] # Rooms(file)[c] =>
            \/ dirty[p] \/ marks[p] > 0 \/ behind[p] \/ WillWrite(p, c)
            \/ c \in silent[p]

\* However saves, crashes and power cuts interleave, a start never finds a
\* snapshot file that was cut short.
FileNeverTorn == file # Torn /\ Torn \notin afterLoss

\* After a stop in which the last save succeeded the file holds every room as
\* it was when the server went: no change came too late for it.
StopKeepsAll ==
    [][\A p \in Proc :
          Exit(p) /\ ~behind[p] => Rooms(file) = rooms[p]]_vars

\* The file follows the rooms of the server that owns the directory as a
\* lagging copy; while there is none, a start would find what the file says.
Owner == {p \in Proc : phase[p] \in Running}
Disk == INSTANCE LaggingCopy WITH
    live  <- IF Owner = {} THEN Rooms(file) ELSE rooms[CHOOSE p \in Owner : TRUE],
    saved <- Rooms(file)

\* Nothing that was saved is ever replaced by something older, except by a
\* power cut, a restart begins with what was saved, and no two servers write
\* over each other.
KeepsCopy == Disk!Spec

\* Nothing is waiting to be saved and no save is going on.
Settled(p) == ~dirty[p] /\ marks[p] = 0 /\ writer[p] = "idle"

\* Every change reaches the disk, or is overtaken by a later one that does,
\* unless the server goes away first.  Two kinds have to wait for the next
\* reported change or for the stop, and nothing but those: a change that was in
\* memory when a save or the load failed, and one that a refused message made.
\* A server started with an interval of zero saves when it stops.
SavedInTheEnd ==
    \A p \in Proc, c \in Code : \A n \in 1..MaxChanges :
        (phase[p] \in Running /\ rooms[p][c].at = n)
            ~> \/ Rooms(file)[c].at >= n
               \/ phase[p] = "down"
               \/ Settled(p) /\ (behind[p] \/ c \in silent[p])
               \/ phase[p] = "up" /\ writer[p] = "gone"

-----------------------------------------------------------------------------
(* What the repository says of persistence and its code does not do.       *)

\* "Load failure (corrupt/unreadable): back up the file" (the design
\* document): a save puts older contents in the place of newer ones only if
\* the newer ones were backed up.
OverwrittenIsBackedUp ==
    [][\A p \in Proc, c \in Code :
          Rename(p) /\ Rooms(file')[c].at < Rooms(file)[c].at => backup = file]_vars
=============================================================================
