-------------------------- MODULE PersistenceProofs --------------------------
(***************************************************************************)
(* Proofs about Persistence, for any number of servers, rooms, changes and *)
(* failures: no reported change is forgotten, no torn file is ever found,  *)
(* and a stop whose last save succeeds loses nothing.  The second half is  *)
(* about the refinement of LaggingCopy.                                    *)
(***************************************************************************)
EXTENDS Persistence, TLAPS

Busy(p) == writer[p] \in {"collecting"} \cup Saving

\* The lock is held by the one process there is.
OneOwner == \A p \in Proc : phase[p] # "down" <=> lock = p

\* Nothing saves for a process that is not up yet, or no longer.
AtRest == \A p \in Proc : phase[p] \notin Running => writer[p] = "idle"

\* A snapshot is saved once every room has been read.
TodoDone == \A p \in Proc : writer[p] \in Saving => todo[p] = {}

\* What is about to be renamed is the snapshot, whole and on the disk.
TmpIsSnap ==
    \A p \in Proc :
        /\ writer[p] = "syncing" => tmp = snap[p]
        /\ writer[p] = "renaming" => tmp = snap[p] /\ synced

\* A room that has changed since the snapshot read it is marked, or about to
\* be, or nobody reported the change; during the last save none changes.
SnapIsCurrent ==
    \A p \in Proc, c \in Code :
        Busy(p) /\ c \notin todo[p] /\ snap[p][c] # rooms[p][c] =>
            phase[p] # "final" /\ (dirty[p] \/ marks[p] > 0 \/ c \in silent[p])

\* The last save, once it is over, has failed or has written every room.
FinalSaved ==
    \A p \in Proc :
        phase[p] = "final" /\ writer[p] = "idle" =>
            behind[p] \/ Rooms(file) = rooms[p]

DiskInv ==
    /\ TypeOK
    /\ OneOwner
    /\ AtRest
    /\ TodoDone
    /\ TmpIsSnap
    /\ SnapIsCurrent
    /\ FinalSaved
    /\ UnsavedIsRemembered
    /\ FileNeverTorn

-----------------------------------------------------------------------------
\* The lock was free, so nobody else was running.
LEMMA AcquireLockInv ==
    ASSUME DiskInv, NEW p \in Proc, AcquireLock(p)
    PROVE  DiskInv'
<1> USE DEF DiskInv
<1>1. TypeOK'
  BY DEF TypeOK, AcquireLock, diskVars
<1>2. TodoDone' /\ TmpIsSnap' /\ SnapIsCurrent' /\ FinalSaved'
      /\ FileNeverTorn'
  BY DEF TodoDone, TmpIsSnap, SnapIsCurrent, Busy, FinalSaved, FileNeverTorn,
         AcquireLock, diskVars
<1>3. OneOwner'
  BY NamesAssumption DEF OneOwner, TypeOK, AcquireLock
<1>4. AtRest'
  BY DEF AtRest, Running, AcquireLock
<1>5. UnsavedIsRemembered'
  BY DEF UnsavedIsRemembered, WillWrite, Running, AcquireLock, diskVars
<1> QED
  BY <1>1, <1>2, <1>3, <1>4, <1>5

\* A start whose rooms are those of the file.
LEMMA LoadInv ==
    ASSUME DiskInv, NEW p \in Proc, Load(p)
    PROVE  DiskInv'
<1> USE DEF DiskInv
<1>1. TypeOK'
  BY DEF TypeOK, Load, StartWith, Contents, Snapshot, Copy, NoRooms, Rooms,
         Running
<1>2. OneOwner' /\ TodoDone' /\ TmpIsSnap' /\ FinalSaved' /\ FileNeverTorn'
  BY DEF OneOwner, TodoDone, Saving, TmpIsSnap, FinalSaved, FileNeverTorn,
         Load, StartWith
<1>3. AtRest'
  BY DEF AtRest, Running, TypeOK, Load, StartWith
<1>4. SnapIsCurrent'
  BY DEF SnapIsCurrent, Busy, Saving, Running, AtRest, Load, StartWith
<1>5. UnsavedIsRemembered'
  BY DEF UnsavedIsRemembered, WillWrite, TypeOK, Load, StartWith
<1> QED
  BY <1>1, <1>2, <1>3, <1>4, <1>5

\* A start that sets a damaged file aside, or leaves it: empty either way.
LEMMA LoadGarbledInv ==
    ASSUME DiskInv, NEW p \in Proc, LoadGarbled(p)
    PROVE  DiskInv'
<1> USE DEF DiskInv
<1>1. TypeOK'
  BY DEF TypeOK, LoadGarbled, StartWith, Fails, Contents, Snapshot, Copy,
         NoRooms, Running
<1>2. OneOwner' /\ TodoDone' /\ TmpIsSnap'
  BY DEF OneOwner, TodoDone, Saving, TmpIsSnap, LoadGarbled, StartWith
<1>3. AtRest'
  BY DEF AtRest, Running, TypeOK, LoadGarbled, StartWith
<1>4. SnapIsCurrent'
  BY DEF SnapIsCurrent, Busy, Saving, Running, AtRest, LoadGarbled, StartWith
<1>5. FinalSaved'
  BY DEF FinalSaved, OneOwner, LoadGarbled, StartWith
<1>6. UnsavedIsRemembered'
  BY DEF UnsavedIsRemembered, WillWrite, Rooms, TypeOK, LoadGarbled, StartWith
<1>7. FileNeverTorn'
  BY ContentsAssumption DEF FileNeverTorn, LoadGarbled
<1> QED
  BY <1>1, <1>2, <1>3, <1>4, <1>5, <1>6, <1>7

\* A start that could not read the file is behind it.
LEMMA LoadFailsInv ==
    ASSUME DiskInv, NEW p \in Proc, LoadFails(p)
    PROVE  DiskInv'
<1> USE DEF DiskInv
<1>1. TypeOK'
  BY DEF TypeOK, LoadFails, StartWith, Fails, Snapshot, Copy, NoRooms, Running
<1>2. OneOwner' /\ TodoDone' /\ TmpIsSnap' /\ FinalSaved' /\ FileNeverTorn'
  BY DEF OneOwner, TodoDone, Saving, TmpIsSnap, FinalSaved, FileNeverTorn,
         LoadFails, StartWith
<1>3. AtRest'
  BY DEF AtRest, Running, TypeOK, LoadFails, StartWith
<1>4. SnapIsCurrent'
  BY DEF SnapIsCurrent, Busy, Saving, Running, AtRest, LoadFails, StartWith
<1>5. UnsavedIsRemembered'
  BY DEF UnsavedIsRemembered, WillWrite, TypeOK, LoadFails, StartWith
<1> QED
  BY <1>1, <1>2, <1>3, <1>4, <1>5

\* A handler that has yet to mark what it did is counted in marks.
LEMMA CreateOrRemoveInv ==
    ASSUME DiskInv, NEW p \in Proc, NEW c \in Code, CreateOrRemove(p, c)
    PROVE  DiskInv'
<1> USE DEF DiskInv
<1>1. TypeOK'
  BY DEF TypeOK, CreateOrRemove, Stamp, diskVars, Snapshot, Copy
<1>2. OneOwner' /\ AtRest' /\ TodoDone' /\ TmpIsSnap' /\ FileNeverTorn'
  BY DEF OneOwner, AtRest, TodoDone, TmpIsSnap, FileNeverTorn, CreateOrRemove,
         diskVars
<1>3. SnapIsCurrent'
  BY DEF SnapIsCurrent, Busy, TypeOK, CreateOrRemove, Serving, Stamp
<1>4. FinalSaved'
  BY DEF FinalSaved, OneOwner, CreateOrRemove, Serving
<1>5. UnsavedIsRemembered'
  BY DEF UnsavedIsRemembered, WillWrite, TypeOK, CreateOrRemove, Stamp,
         diskVars
<1> QED
  BY <1>1, <1>2, <1>3, <1>4, <1>5

\* The mark moves from the handler to the flag.
LEMMA MarkDirtyInv ==
    ASSUME DiskInv, NEW p \in Proc, MarkDirty(p)
    PROVE  DiskInv'
<1> USE DEF DiskInv
<1>1. TypeOK'
  BY DEF TypeOK, MarkDirty, diskVars
<1>2. OneOwner' /\ AtRest' /\ TodoDone' /\ TmpIsSnap'
      /\ FinalSaved' /\ FileNeverTorn'
  BY DEF OneOwner, AtRest, TodoDone, TmpIsSnap, FinalSaved, FileNeverTorn,
         MarkDirty, diskVars
<1>3. SnapIsCurrent'
  BY DEF SnapIsCurrent, Busy, TypeOK, MarkDirty
<1>4. UnsavedIsRemembered'
  BY DEF UnsavedIsRemembered, WillWrite, TypeOK, MarkDirty, diskVars
<1> QED
  BY <1>1, <1>2, <1>3, <1>4

\* A closure marks its change while it still has the room, or conceals it.
LEMMA MutateInv ==
    ASSUME DiskInv, NEW p \in Proc, NEW c \in Code, Mutate(p, c)
    PROVE  DiskInv'
<1> USE DEF DiskInv
<1>1. TypeOK'
  <2>1. CASE ReportsChange(p)
    BY <2>1 DEF TypeOK, Mutate, Stamp, ReportsChange, diskVars, Snapshot, Copy
  <2>2. CASE ConcealsChange(p, c)
    <3>1. silent' \in [Proc -> SUBSET Code]
      BY <2>2 DEF TypeOK, ConcealsChange
    <3> QED
      BY <2>2, <3>1 DEF TypeOK, Mutate, Stamp, ConcealsChange, diskVars,
                        Snapshot, Copy
  <2> QED
    BY <2>1, <2>2 DEF Mutate
<1>2. OneOwner' /\ AtRest' /\ TodoDone' /\ TmpIsSnap' /\ FileNeverTorn'
  BY DEF OneOwner, AtRest, TodoDone, TmpIsSnap, FileNeverTorn, Mutate, diskVars
<1>3. SnapIsCurrent'
  BY DEF SnapIsCurrent, Busy, TypeOK, Mutate, Serving, Stamp, ReportsChange,
         ConcealsChange
<1>4. FinalSaved'
  BY DEF FinalSaved, OneOwner, Mutate, Serving
<1>5. UnsavedIsRemembered'
  BY DEF UnsavedIsRemembered, WillWrite, TypeOK, Mutate, Stamp, ReportsChange,
         ConcealsChange, diskVars
<1> QED
  BY <1>1, <1>2, <1>3, <1>4, <1>5

\* The sweep marks what it drops, and never runs inside a snapshot.
LEMMA SweepInv ==
    ASSUME DiskInv, NEW p \in Proc, NEW c \in Code, Sweep(p, c)
    PROVE  DiskInv'
<1> USE DEF DiskInv
<1>1. TypeOK'
  BY DEF TypeOK, Sweep, Stamp, diskVars, Snapshot, Copy
<1>2. OneOwner' /\ AtRest' /\ TodoDone' /\ TmpIsSnap' /\ FileNeverTorn'
  BY DEF OneOwner, AtRest, TodoDone, TmpIsSnap, FileNeverTorn, Sweep, diskVars
<1>3. SnapIsCurrent'
  BY DEF SnapIsCurrent, Busy, TypeOK, Sweep, Stamp
<1>4. FinalSaved'
  BY DEF FinalSaved, OneOwner, Sweep
<1>5. UnsavedIsRemembered'
  BY DEF UnsavedIsRemembered, WillWrite, TypeOK, Sweep, Stamp, diskVars
<1> QED
  BY <1>1, <1>2, <1>3, <1>4, <1>5

\* The flag goes when every room is still to be read.
LEMMA TakeDirtyInv ==
    ASSUME DiskInv, NEW p \in Proc, TakeDirty(p)
    PROVE  DiskInv'
<1> USE DEF DiskInv
<1>1. TypeOK'
  BY DEF TypeOK, TakeDirty, BeginSnapshot, diskVars
<1>2. OneOwner' /\ TodoDone' /\ TmpIsSnap' /\ FileNeverTorn'
  BY DEF OneOwner, TodoDone, Saving, TmpIsSnap, FileNeverTorn, TakeDirty,
         BeginSnapshot, diskVars
<1>3. AtRest'
  BY DEF AtRest, Running, TakeDirty, BeginSnapshot
<1>4. SnapIsCurrent'
  BY DEF SnapIsCurrent, Busy, TypeOK, TakeDirty, BeginSnapshot
<1>5. FinalSaved'
  BY DEF FinalSaved, OneOwner, TakeDirty
<1>6. UnsavedIsRemembered'
  BY DEF UnsavedIsRemembered, WillWrite, TypeOK, TakeDirty, BeginSnapshot,
         diskVars
<1> QED
  BY <1>1, <1>2, <1>3, <1>4, <1>5, <1>6

\* A room that has been read is as it was read.
LEMMA CollectInv ==
    ASSUME DiskInv, NEW p \in Proc, NEW c \in Code, Collect(p, c)
    PROVE  DiskInv'
<1> USE DEF DiskInv
<1>1. TypeOK'
  BY DEF TypeOK, Collect, diskVars, Snapshot, Saving
<1>2. OneOwner' /\ AtRest' /\ TodoDone' /\ TmpIsSnap'
      /\ FinalSaved' /\ FileNeverTorn'
  BY DEF OneOwner, AtRest, TodoDone, TmpIsSnap, FinalSaved, FileNeverTorn,
         Collect, diskVars
<1>3. SnapIsCurrent'
  <2> SUFFICES ASSUME NEW q \in Proc, NEW d \in Code,
                      Busy(q)', d \notin todo'[q], snap'[q][d] # rooms'[q][d]
               PROVE  /\ phase'[q] # "final"
                      /\ dirty'[q] \/ marks'[q] > 0 \/ d \in silent'[q]
    BY DEF SnapIsCurrent
  <2>1. CASE q = p /\ d = c
    BY <2>1 DEF TypeOK, Snapshot, Collect
  <2>2. CASE ~(q = p /\ d = c)
    BY <2>2 DEF TypeOK, Snapshot, SnapIsCurrent, Busy, Collect
  <2> QED
    BY <2>1, <2>2
<1>4. UnsavedIsRemembered'
  <2> SUFFICES ASSUME NEW q \in Proc, NEW d \in Code, phase'[q] \in Running,
                      rooms'[q][d] # Rooms(file)'[d]
               PROVE  \/ dirty'[q] \/ marks'[q] > 0 \/ behind'[q]
                      \/ WillWrite(q, d)' \/ d \in silent'[q]
    BY DEF UnsavedIsRemembered
  <2>1. \/ dirty[q] \/ marks[q] > 0 \/ behind[q] \/ WillWrite(q, d)
        \/ d \in silent[q]
    BY DEF UnsavedIsRemembered, Collect, Rooms, diskVars
  <2>2. WillWrite(q, d) => WillWrite(q, d)'
    <3>1. CASE q = p /\ d = c
      BY <3>1 DEF TypeOK, Snapshot, WillWrite, Saving, Collect
    <3>2. CASE q = p /\ d # c
      BY <3>2 DEF TypeOK, Snapshot, WillWrite, Saving, Collect
    <3>3. CASE q # p
      BY <3>3 DEF TypeOK, WillWrite, Collect
    <3> QED
      BY <3>1, <3>2, <3>3
  <2>3. q = p /\ d = c => WillWrite(q, d)'
    BY DEF TypeOK, Snapshot, WillWrite, Saving, Collect
  <2>4. ~(q = p /\ d = c) /\ d \in silent[q] => d \in silent'[q]
    BY DEF TypeOK, Collect
  <2> QED
    BY <2>1, <2>2, <2>3, <2>4 DEF Collect
<1> QED
  BY <1>1, <1>2, <1>3, <1>4

\* Only the temporary file is touched.
LEMMA CreateTmpInv ==
    ASSUME DiskInv, NEW p \in Proc, CreateTmp(p)
    PROVE  DiskInv'
<1> USE DEF DiskInv
<1>1. TypeOK'
  BY DEF TypeOK, CreateTmp, Advance, Contents, Saving
<1>2. OneOwner' /\ AtRest' /\ TodoDone' /\ SnapIsCurrent'
      /\ FinalSaved' /\ UnsavedIsRemembered' /\ FileNeverTorn'
  BY DEF OneOwner, AtRest, TodoDone, Saving, SnapIsCurrent, Busy, FinalSaved,
         UnsavedIsRemembered, WillWrite, FileNeverTorn, CreateTmp, Advance
<1>3. TmpIsSnap'
  BY DEF TmpIsSnap, OneOwner, AtRest, Running, CreateTmp, Advance
<1> QED
  BY <1>1, <1>2, <1>3

\* The temporary file becomes the snapshot.
LEMMA WriteTmpInv ==
    ASSUME DiskInv, NEW p \in Proc, WriteTmp(p)
    PROVE  DiskInv'
<1> USE DEF DiskInv
<1>1. TypeOK'
  BY DEF TypeOK, WriteTmp, Advance, Contents, Saving
<1>2. OneOwner' /\ AtRest' /\ TodoDone' /\ SnapIsCurrent'
      /\ FinalSaved' /\ UnsavedIsRemembered' /\ FileNeverTorn'
  BY DEF OneOwner, AtRest, TodoDone, Saving, SnapIsCurrent, Busy, FinalSaved,
         UnsavedIsRemembered, WillWrite, FileNeverTorn, WriteTmp, Advance
<1>3. TmpIsSnap'
  BY DEF TmpIsSnap, OneOwner, AtRest, Running, WriteTmp, Advance
<1> QED
  BY <1>1, <1>2, <1>3

\* The temporary file reaches the disk.
LEMMA SyncTmpInv ==
    ASSUME DiskInv, NEW p \in Proc, SyncTmp(p)
    PROVE  DiskInv'
<1> USE DEF DiskInv
<1>1. TypeOK'
  BY DEF TypeOK, SyncTmp, Advance, Saving
<1>2. OneOwner' /\ AtRest' /\ TodoDone' /\ TmpIsSnap'
      /\ SnapIsCurrent' /\ FinalSaved' /\ UnsavedIsRemembered' /\ FileNeverTorn'
  BY DEF OneOwner, AtRest, TodoDone, Saving, TmpIsSnap, SnapIsCurrent, Busy,
         FinalSaved, UnsavedIsRemembered, WillWrite, FileNeverTorn, SyncTmp,
         Advance
<1> QED
  BY <1>1, <1>2

\* The snapshot becomes the file.  A room that differs from it has changed
\* since it was read.
LEMMA RenameInv ==
    ASSUME DiskInv, NEW p \in Proc, Rename(p)
    PROVE  DiskInv'
<1> USE DEF DiskInv
<1>1. TypeOK'
  BY DEF TypeOK, Rename, Advance, Contents, Snapshot, Copy, NoRooms
<1>2. OneOwner' /\ AtRest' /\ TodoDone'
  BY DEF OneOwner, AtRest, TodoDone, Saving, Rename, Advance
<1>3. TmpIsSnap'
  BY DEF TmpIsSnap, OneOwner, AtRest, Running, TypeOK, Rename, Advance
<1>4. SnapIsCurrent'
  BY DEF SnapIsCurrent, Busy, Saving, TypeOK, Rename, Advance
<1>5. FileNeverTorn'
  BY ContentsAssumption DEF FileNeverTorn, TmpIsSnap, TypeOK, Rename, Advance
<1>6. Rooms(file)' = snap[p]
  BY ContentsAssumption DEF TypeOK, TmpIsSnap, Rooms, Rename, Advance
<1>7. \A c \in Code : snap[p][c] # rooms[p][c] =>
                          /\ phase[p] # "final"
                          /\ dirty[p] \/ marks[p] > 0 \/ c \in silent[p]
  BY DEF SnapIsCurrent, TodoDone, Busy, Saving, Rename, Advance
<1>8. \A q \in Proc : phase'[q] \in Running => q = p
  BY DEF OneOwner, AtRest, Running, Rename, Advance
<1>9. FinalSaved'
  <2>1. phase[p] = "final" => snap[p] = rooms[p]
    BY <1>7 DEF TypeOK, Snapshot
  <2> QED
    BY <1>6, <1>8, <2>1 DEF FinalSaved, Running, Rename, Advance
<1>10. UnsavedIsRemembered'
  BY <1>6, <1>7, <1>8 DEF UnsavedIsRemembered, Rename, Advance
<1> QED
  BY <1>1, <1>2, <1>3, <1>4, <1>5, <1>9, <1>10

\* A failed save leaves the process behind.
LEMMA SaveFailsInv ==
    ASSUME DiskInv, NEW p \in Proc, SaveFails(p)
    PROVE  DiskInv'
<1> USE DEF DiskInv
<1>1. TypeOK'
  BY DEF TypeOK, SaveFails, Fails, diskVars, Snapshot, Copy, NoRooms
<1>2. OneOwner' /\ AtRest' /\ TodoDone' /\ FileNeverTorn'
  BY DEF OneOwner, AtRest, TodoDone, FileNeverTorn, SaveFails, diskVars
<1>3. TmpIsSnap'
  BY DEF TmpIsSnap, TypeOK, SaveFails, diskVars
<1>4. SnapIsCurrent'
  BY DEF SnapIsCurrent, Busy, Saving, TypeOK, SaveFails
<1>5. FinalSaved'
  BY DEF FinalSaved, TypeOK, SaveFails, diskVars
<1>6. UnsavedIsRemembered'
  BY DEF UnsavedIsRemembered, WillWrite, TypeOK, SaveFails, diskVars
<1> QED
  BY <1>1, <1>2, <1>3, <1>4, <1>5, <1>6

\* No handler is in flight when the server has stopped.
LEMMA CloseInv ==
    ASSUME DiskInv, NEW p \in Proc, Close(p)
    PROVE  DiskInv'
<1> USE DEF DiskInv
<1>1. TypeOK'
  BY DEF TypeOK, Close, diskVars, Running
<1>2. OneOwner' /\ TodoDone' /\ TmpIsSnap' /\ SnapIsCurrent' /\ FileNeverTorn'
  BY DEF OneOwner, TodoDone, TmpIsSnap, SnapIsCurrent, Busy, FileNeverTorn,
         Close, diskVars
<1>3. AtRest'
  BY DEF AtRest, Running, Close
<1>4. FinalSaved'
  BY DEF FinalSaved, OneOwner, Close
<1>5. UnsavedIsRemembered'
  BY DEF UnsavedIsRemembered, WillWrite, Running, Close, diskVars
<1> QED
  BY <1>1, <1>2, <1>3, <1>4, <1>5

\* The last save starts from every room.
LEMMA BeginFinalSaveInv ==
    ASSUME DiskInv, NEW p \in Proc, BeginFinalSave(p)
    PROVE  DiskInv'
<1> USE DEF DiskInv
<1>1. TypeOK'
  BY DEF TypeOK, BeginFinalSave, BeginSnapshot, diskVars, Running
<1>2. OneOwner' /\ TodoDone' /\ TmpIsSnap' /\ FileNeverTorn'
  BY DEF OneOwner, TodoDone, Saving, TmpIsSnap, FileNeverTorn, BeginFinalSave,
         BeginSnapshot, diskVars
<1>3. AtRest'
  BY DEF AtRest, Running, BeginFinalSave, BeginSnapshot
<1>4. SnapIsCurrent'
  BY DEF SnapIsCurrent, Busy, TypeOK, BeginFinalSave, BeginSnapshot
<1>5. FinalSaved'
  BY DEF FinalSaved, OneOwner, TypeOK, BeginFinalSave, BeginSnapshot
<1>6. UnsavedIsRemembered'
  BY DEF UnsavedIsRemembered, WillWrite, Running, BeginFinalSave,
         BeginSnapshot, diskVars
<1> QED
  BY <1>1, <1>2, <1>3, <1>4, <1>5, <1>6

\* The process is gone, and with it what it owed the disk.
LEMMA ExitInv ==
    ASSUME DiskInv, NEW p \in Proc, Exit(p)
    PROVE  DiskInv'
<1> USE DEF DiskInv
<1>1. TypeOK'
  BY DEF TypeOK, Exit, Vanish, diskVars, Snapshot, Copy, NoRooms
<1>2. AtRest' /\ TodoDone' /\ TmpIsSnap' /\ SnapIsCurrent' /\ FileNeverTorn'
  BY DEF AtRest, TodoDone, TmpIsSnap, SnapIsCurrent, Busy, FileNeverTorn,
         Exit, Vanish, diskVars
<1>3. OneOwner'
  BY NamesAssumption DEF OneOwner, Exit, Vanish
<1>4. FinalSaved'
  BY DEF FinalSaved, OneOwner, Exit, Vanish
<1>5. UnsavedIsRemembered'
  BY DEF UnsavedIsRemembered, Running, OneOwner, Exit, Vanish
<1> QED
  BY <1>1, <1>2, <1>3, <1>4, <1>5

\* The process is gone, whatever it was doing.
LEMMA CrashInv ==
    ASSUME DiskInv, NEW p \in Proc, Crash(p)
    PROVE  DiskInv'
<1> USE DEF DiskInv
<1>1. TypeOK'
  BY DEF TypeOK, Crash, Vanish, diskVars, Snapshot, Copy, NoRooms
<1>2. AtRest' /\ TodoDone' /\ TmpIsSnap' /\ SnapIsCurrent' /\ FileNeverTorn'
  BY DEF AtRest, TodoDone, TmpIsSnap, SnapIsCurrent, Busy, FileNeverTorn,
         Crash, Vanish, diskVars
<1>3. OneOwner'
  BY NamesAssumption DEF OneOwner, Crash, Vanish
<1>4. FinalSaved'
  BY DEF FinalSaved, OneOwner, Crash, Vanish
<1>5. UnsavedIsRemembered'
  BY DEF UnsavedIsRemembered, Running, OneOwner, Crash, Vanish
<1> QED
  BY <1>1, <1>2, <1>3, <1>4, <1>5

\* Every process is gone, and the file is one that was synced.
LEMMA PowerCutInv ==
    ASSUME DiskInv, PowerCut
    PROVE  DiskInv'
<1> USE DEF DiskInv
<1>1. TypeOK'
  BY DEF TypeOK, PowerCut, Vanish, Contents, Snapshot, Copy, NoRooms
<1>2. AtRest' /\ TodoDone' /\ TmpIsSnap' /\ SnapIsCurrent'
      /\ FinalSaved' /\ FileNeverTorn'
  BY DEF AtRest, TodoDone, TmpIsSnap, SnapIsCurrent, FinalSaved,
         FileNeverTorn, PowerCut, Vanish
<1>3. OneOwner'
  BY NamesAssumption DEF OneOwner, PowerCut, Vanish
<1>4. UnsavedIsRemembered'
  BY DEF UnsavedIsRemembered, Running, PowerCut, Vanish
<1> QED
  BY <1>1, <1>2, <1>3, <1>4

\* The directory reaches the disk.
LEMMA FlushInv ==
    ASSUME DiskInv, Flush
    PROVE  DiskInv'
<1> USE DEF DiskInv
<1>1. TypeOK'
  BY DEF TypeOK, Flush, memoryVars
<1>2. OneOwner' /\ AtRest' /\ TodoDone' /\ TmpIsSnap'
      /\ SnapIsCurrent' /\ FinalSaved' /\ UnsavedIsRemembered' /\ FileNeverTorn'
  BY DEF OneOwner, AtRest, TodoDone, TmpIsSnap, SnapIsCurrent, Busy,
         FinalSaved, UnsavedIsRemembered, WillWrite, FileNeverTorn, Flush,
         memoryVars
<1> QED
  BY <1>1, <1>2

-----------------------------------------------------------------------------
\* The invariant holds at the first start.
LEMMA InitDisk == Init => DiskInv
<1> SUFFICES ASSUME Init
             PROVE  DiskInv
  OBVIOUS
<1> USE DEF Init
<1>1. TypeOK
  BY DEF TypeOK, Contents, Snapshot, Copy, NoRooms
<1>2. OneOwner
  BY NamesAssumption DEF OneOwner
<1>3. AtRest /\ TodoDone /\ TmpIsSnap /\ SnapIsCurrent /\ FinalSaved
  BY DEF AtRest, TodoDone, TmpIsSnap, SnapIsCurrent, Busy, FinalSaved, Saving
<1>4. UnsavedIsRemembered
  BY DEF UnsavedIsRemembered, Running
<1>5. FileNeverTorn
  BY ContentsAssumption DEF FileNeverTorn
<1> QED
  BY <1>1, <1>2, <1>3, <1>4, <1>5 DEF DiskInv

\* Every step keeps it.
LEMMA NextDisk == DiskInv /\ [Next]_vars => DiskInv'
<1> SUFFICES ASSUME DiskInv, [Next]_vars
             PROVE  DiskInv'
  OBVIOUS
<1>1. ASSUME NEW p \in Proc,
             \/ AcquireLock(p) \/ Load(p) \/ LoadGarbled(p) \/ LoadFails(p)
             \/ MarkDirty(p) \/ TakeDirty(p) \/ SaveFails(p)
             \/ Close(p) \/ BeginFinalSave(p) \/ Exit(p) \/ Crash(p)
      PROVE  DiskInv'
  BY <1>1, AcquireLockInv, LoadInv, LoadGarbledInv, LoadFailsInv, MarkDirtyInv,
     TakeDirtyInv, SaveFailsInv, CloseInv, BeginFinalSaveInv, ExitInv, CrashInv
<1>2. ASSUME NEW p \in Proc, NEW c \in Code,
             CreateOrRemove(p, c) \/ Mutate(p, c) \/ Sweep(p, c)
      PROVE  DiskInv'
  BY <1>2, CreateOrRemoveInv, MutateInv, SweepInv
<1>3. ASSUME NEW p \in Proc, SaveStep(p)
      PROVE  DiskInv'
  BY <1>3, CollectInv, CreateTmpInv, WriteTmpInv, SyncTmpInv, RenameInv DEF SaveStep
<1>4. ASSUME PowerCut \/ Flush
      PROVE  DiskInv'
  BY <1>4, PowerCutInv, FlushInv
<1>5. ASSUME UNCHANGED vars
      PROVE  DiskInv'
  BY <1>5 DEF DiskInv, TypeOK, OneOwner, AtRest, TodoDone, TmpIsSnap,
              SnapIsCurrent, Busy, FinalSaved, UnsavedIsRemembered, WillWrite,
              FileNeverTorn, vars, memoryVars, diskVars
<1> QED
  BY <1>1, <1>2, <1>3, <1>4, <1>5 DEF Next

\* So it always holds.
THEOREM DiskInvariant == Spec => []DiskInv
BY InitDisk, NextDisk, PTL DEF Spec

\* The memory of every server and the files keep their types.
THEOREM TypeCorrect == Spec => []TypeOK
<1>1. DiskInv => TypeOK
  BY DEF DiskInv
<1> QED
  BY <1>1, DiskInvariant, PTL

\* No change is ever forgotten, whatever fails: it is on the disk, or marked,
\* or in the save in progress, or the last save has failed.
THEOREM NothingForgotten == Spec => []UnsavedIsRemembered
<1>1. DiskInv => UnsavedIsRemembered
  BY DEF DiskInv
<1> QED
  BY <1>1, DiskInvariant, PTL

\* No start ever finds a snapshot that was cut short, by a crash or by a power
\* cut.
THEOREM NeverTorn == Spec => []FileNeverTorn
<1>1. DiskInv => FileNeverTorn
  BY DEF DiskInv
<1> QED
  BY <1>1, DiskInvariant, PTL

\* A stop whose last save succeeded has lost nothing.
THEOREM StopLosesNothing == Spec => StopKeepsAll
<1>1. DiskInv => \A p \in Proc : Exit(p) /\ ~behind[p] => Rooms(file) = rooms[p]
  BY DEF DiskInv, FinalSaved, Exit
<1> QED
  BY <1>1, DiskInvariant, PTL DEF Spec, StopKeepsAll

-----------------------------------------------------------------------------
(* Persistence keeps a lagging copy of the rooms: it implements            *)
(* LaggingCopy, as long as the snapshot can be read at every start.  (A    *)
(* start that cannot read it begins with no rooms, and its first save      *)
(* replaces what was there.)                                               *)

\* Nothing is newer than the last change.
Stamped ==
    /\ \A p \in Proc, c \in Code : rooms[p][c].at <= stamp
    /\ \A c \in Code : Rooms(file)[c].at <= stamp

\* The file lags behind the rooms, and the snapshot being taken or saved is
\* between the two.
FileLags ==
    \A p \in Proc : phase[p] \in Running => Disk!NotAhead(Rooms(file), rooms[p])
SnapBetween ==
    \A p \in Proc, c \in Code :
        Busy(p) /\ c \notin todo[p] =>
            /\ Rooms(file)[c].at <= snap[p][c].at
            /\ snap[p][c].at <= rooms[p][c].at

\* A power cut may go back in time, never forward.
LossIsOlder == \A x \in afterLoss : Disk!NotAhead(Rooms(x), Rooms(file))

LagInv == Stamped /\ FileLags /\ SnapBetween /\ LossIsOlder

-----------------------------------------------------------------------------
\* Whatever the file contains, a start finds rooms in it.
LEMMA RoomsType == \A x \in Contents : Rooms(x) \in Snapshot
BY DEF Contents, Rooms, NoRooms, Snapshot, Copy

\* What `at` says of a code is a number.
LEMMA AtType ==
    ASSUME NEW s \in Snapshot, NEW c \in Code
    PROVE  s[c].at \in Nat
BY DEF Snapshot, Copy

\* A change makes no room older, and has the last stamp.
LEMMA StampGrows ==
    ASSUME DiskInv, Stamped, NEW p \in Proc, NEW c \in Code,
           NEW there \in BOOLEAN, Stamp(p, c, there)
    PROVE  \A q \in Proc, d \in Code : /\ rooms[q][d].at <= rooms'[q][d].at
                                       /\ rooms'[q][d].at <= stamp'
<1>1. rooms \in [Proc -> Snapshot] /\ stamp \in Nat
  BY DEF DiskInv, TypeOK
<1>2. rooms'[p][c].at = stamp + 1
  BY <1>1 DEF Stamp, Snapshot
<1>3. \A q \in Proc, d \in Code : ~(q = p /\ d = c) => rooms'[q][d] = rooms[q][d]
  BY <1>1 DEF Stamp
<1>4. \A q \in Proc, d \in Code : rooms[q][d].at \in Nat
  BY <1>1, AtType
<1> QED
  BY <1>1, <1>2, <1>3, <1>4 DEF Stamped, Stamp

-----------------------------------------------------------------------------
(* Every action keeps the file behind the rooms.                           *)

\* A step that changes neither rooms nor files, starts no server and takes no
\* code from a snapshot that is being collected.
LEMMA AsideLag ==
    ASSUME LagInv, UNCHANGED <<rooms, stamp, file, afterLoss>>,
           \A q \in Proc : phase'[q] \in Running => phase[q] \in Running,
           \A q \in Proc, c \in Code :
              Busy(q)' /\ c \notin todo'[q] =>
                 Busy(q) /\ c \notin todo[q] /\ snap'[q] = snap[q]
    PROVE  LagInv'
<1>1. Stamped' /\ LossIsOlder'
  BY DEF LagInv, Stamped, LossIsOlder, Disk!NotAhead, Rooms
<1>2. FileLags'
  BY DEF LagInv, FileLags, Disk!NotAhead, Rooms
<1>3. SnapBetween'
  BY DEF LagInv, SnapBetween, Rooms
<1> QED
  BY <1>1, <1>2, <1>3 DEF LagInv

\* The actions of this kind.
LEMMA AsideStepsLag ==
    ASSUME DiskInv, LagInv, NEW p \in Proc,
           \/ AcquireLock(p) \/ MarkDirty(p) \/ Close(p)
           \/ TakeDirty(p) \/ BeginFinalSave(p)
           \/ CreateTmp(p) \/ WriteTmp(p) \/ SyncTmp(p) \/ SaveFails(p)
    PROVE  LagInv'
<1>1. UNCHANGED <<rooms, stamp, file, afterLoss>>
  BY DEF AcquireLock, MarkDirty, Close, TakeDirty, BeginFinalSave, BeginSnapshot,
         CreateTmp, WriteTmp, SyncTmp, SaveFails, Advance, diskVars
<1>2. \A q \in Proc : phase'[q] \in Running => phase[q] \in Running
  BY DEF DiskInv, TypeOK, Running, AcquireLock, MarkDirty, Close, TakeDirty,
         BeginFinalSave, BeginSnapshot, CreateTmp, WriteTmp, SyncTmp, SaveFails,
         Advance
<1>3. ASSUME NEW q \in Proc, NEW c \in Code, Busy(q)', c \notin todo'[q]
      PROVE  Busy(q) /\ c \notin todo[q] /\ snap'[q] = snap[q]
  <2>1. CASE AcquireLock(p) \/ MarkDirty(p) \/ Close(p)
    BY <1>3, <2>1 DEF Busy, AcquireLock, MarkDirty, Close
  <2>2. CASE TakeDirty(p) \/ BeginFinalSave(p)
    BY <1>3, <2>2
       DEF DiskInv, TypeOK, Busy, TakeDirty, BeginFinalSave, BeginSnapshot
  <2>3. CASE CreateTmp(p) \/ WriteTmp(p) \/ SyncTmp(p)
    BY <1>3, <2>3 DEF DiskInv, TypeOK, Busy, Saving, CreateTmp, WriteTmp, SyncTmp,
                      Advance
  <2>4. CASE SaveFails(p)
    BY <1>3, <2>4 DEF DiskInv, TypeOK, Busy, Saving, SaveFails
  <2> QED
    BY <2>1, <2>2, <2>3, <2>4
<1> QED
  BY <1>1, <1>2, <1>3, AsideLag

\* A server starts with what the file holds, and no other runs.
LEMMA StartLag ==
    ASSUME DiskInv, DiskInv', LagInv, NEW p \in Proc,
           StartWith(p, Rooms(file)), Rooms(file') = Rooms(file),
           afterLoss' \subseteq afterLoss \cup {file'}
    PROVE  LagInv'
<1>1. \A q \in Proc, c \in Code : /\ rooms[q][c].at \in Nat
                                  /\ Rooms(file)[c].at \in Nat
  BY AtType, RoomsType DEF DiskInv, TypeOK
<1>2. Stamped'
  BY DEF DiskInv, TypeOK, LagInv, Stamped, StartWith
<1>3. FileLags'
  BY <1>1 DEF DiskInv, TypeOK, LagInv, FileLags, Disk!NotAhead, StartWith
<1>4. SnapBetween'
  BY DEF DiskInv, TypeOK, OneOwner, AtRest, LagInv, SnapBetween, Busy, Saving,
         Running, StartWith
<1>5. LossIsOlder'
  BY <1>1 DEF LagInv, LossIsOlder, Disk!NotAhead
<1> QED
  BY <1>2, <1>3, <1>4, <1>5 DEF LagInv

\* A change of a room makes no room older.
LEMMA ChangeLag ==
    ASSUME DiskInv, DiskInv', LagInv, NEW p \in Proc, NEW c \in Code,
           NEW there \in BOOLEAN, Stamp(p, c, there),
           UNCHANGED <<phase, writer, todo, snap, file, afterLoss>>
    PROVE  LagInv'
<1>1. \A q \in Proc, d \in Code :
         /\ rooms[q][d].at \in Nat /\ rooms'[q][d].at \in Nat
         /\ snap[q][d].at \in Nat /\ Rooms(file)[d].at \in Nat
  BY AtType, RoomsType DEF DiskInv, TypeOK
<1>2. \A q \in Proc, d \in Code : /\ rooms[q][d].at <= rooms'[q][d].at
                                  /\ rooms'[q][d].at <= stamp'
  BY StampGrows DEF LagInv
<1>3. Stamped'
  BY <1>1, <1>2 DEF LagInv, Stamped, Stamp, DiskInv, TypeOK, Rooms
<1>4. FileLags'
  BY <1>1, <1>2 DEF LagInv, FileLags, Disk!NotAhead, Rooms
<1>5. SnapBetween'
  BY <1>1, <1>2 DEF LagInv, SnapBetween, Busy, Rooms
<1>6. LossIsOlder'
  BY DEF LagInv, LossIsOlder, Disk!NotAhead, Rooms
<1> QED
  BY <1>3, <1>4, <1>5, <1>6 DEF LagInv

\* What a snapshot takes of a code is what the room is now.
LEMMA CollectLag ==
    ASSUME DiskInv, DiskInv', LagInv, NEW p \in Proc, NEW c \in Code, Collect(p, c)
    PROVE  LagInv'
<1> USE DEF DiskInv, LagInv
<1>1. Stamped'
  BY DEF Stamped, Collect, diskVars
<1>2. FileLags'
  BY DEF FileLags, Collect, diskVars
<1>3. SnapBetween'
  <2> SUFFICES ASSUME NEW q \in Proc, NEW d \in Code, Busy(q)', d \notin todo'[q]
               PROVE  /\ Rooms(file)[d].at <= snap'[q][d].at
                      /\ snap'[q][d].at <= rooms[q][d].at
    BY DEF SnapBetween, Collect, diskVars
  <2>1. CASE q = p /\ d = c
    <3>1. snap'[p][c] = rooms[p][c] /\ rooms[p][c].at \in Nat
      BY AtType DEF Collect, TypeOK, Snapshot, Copy
    <3>2. phase[p] \in Running
      BY DEF AtRest, Collect
    <3> QED
      BY <2>1, <3>1, <3>2 DEF FileLags, Disk!NotAhead
  <2>2. CASE ~(q = p /\ d = c)
    BY <2>2 DEF SnapBetween, Busy, Collect
  <2> QED
    BY <2>1, <2>2
<1>4. LossIsOlder'
  BY DEF LossIsOlder, Collect, diskVars
<1> QED
  BY <1>1, <1>2, <1>3, <1>4

\* A save puts the snapshot in the place of the file.
LEMMA RenameLag ==
    ASSUME DiskInv, DiskInv', LagInv, NEW p \in Proc, Rename(p)
    PROVE  LagInv'
<1> USE DEF DiskInv, LagInv
<1>1. Rooms(file)' = snap[p]
  BY ContentsAssumption DEF TmpIsSnap, Rooms, Rename, Advance, TypeOK
<1>2. \A c \in Code : /\ Rooms(file)[c].at <= snap[p][c].at
                      /\ snap[p][c].at <= rooms[p][c].at
  BY DEF SnapBetween, Busy, Saving, TodoDone, Rename, Advance
<1>3. \A q \in Proc, c \in Code : /\ rooms[q][c].at \in Nat
                                  /\ snap[q][c].at \in Nat
                                  /\ Rooms(file)[c].at \in Nat
  BY AtType, RoomsType DEF TypeOK
<1>4. \A q \in Proc : q # p => phase[q] = "down" /\ writer[q] = "idle"
  BY DEF OneOwner, AtRest, Running, Rename, Advance
<1>5. Stamped'
  BY <1>1, <1>2, <1>3 DEF Stamped, Rename, Advance, TypeOK, Snapshot, Copy
<1>6. FileLags'
  BY <1>1, <1>2, <1>4 DEF FileLags, Disk!NotAhead, Running, Rename, Advance
<1>7. SnapBetween'
  BY <1>4 DEF SnapBetween, Busy, Saving, Rename, Advance, TypeOK
<1>8. LossIsOlder'
  <2> SUFFICES ASSUME NEW x \in afterLoss', NEW c \in Code
               PROVE  Rooms(x)[c].at <= snap[p][c].at
    BY <1>1 DEF LossIsOlder, Disk!NotAhead
  <2>1. CASE x \in afterLoss
    <3>1. Rooms(x)[c].at \in Nat /\ Rooms(x)[c].at <= Rooms(file)[c].at
      BY <2>1, AtType, RoomsType DEF LossIsOlder, Disk!NotAhead, TypeOK
    <3> QED
      BY <1>2, <1>3, <3>1
  <2>2. CASE x \notin afterLoss
    <3>1. Rooms(x) = snap[p]
      BY <1>1, <2>2 DEF TmpIsSnap, Rename, Advance
    <3> QED
      BY <1>3, <3>1
  <2> QED
    BY <2>1, <2>2
<1> QED
  BY <1>5, <1>6, <1>7, <1>8

\* Servers that go, with the power or without, take their rooms with them.
LEMMA VanishLag ==
    ASSUME DiskInv, DiskInv', LagInv, NEW gone \in SUBSET Proc, Vanish(gone),
           UNCHANGED <<file, afterLoss>>
    PROVE  LagInv'
<1>1. Stamped'
  BY DEF DiskInv, TypeOK, LagInv, Stamped, Vanish, NoRooms, Rooms
<1>2. FileLags'
  BY DEF LagInv, FileLags, Disk!NotAhead, Running, Vanish, Rooms
<1>3. SnapBetween'
  BY DEF LagInv, SnapBetween, Busy, Saving, Vanish, Rooms
<1>4. LossIsOlder'
  BY DEF LagInv, LossIsOlder, Disk!NotAhead, Rooms
<1> QED
  BY <1>1, <1>2, <1>3, <1>4 DEF LagInv

\* A power cut brings back one of the older files.
LEMMA PowerCutLag ==
    ASSUME DiskInv, DiskInv', LagInv, PowerCut
    PROVE  LagInv'
<1> USE DEF DiskInv, LagInv
<1>1. Stamped'
  <2> SUFFICES ASSUME NEW c \in Code
               PROVE  Rooms(file')[c].at <= stamp
    BY DEF Stamped, PowerCut, Vanish, NoRooms, TypeOK
  <2>1. Rooms(file')[c].at <= Rooms(file)[c].at
    BY DEF LossIsOlder, Disk!NotAhead, PowerCut
  <2>2. Rooms(file')[c].at \in Nat /\ Rooms(file)[c].at \in Nat
    BY AtType, RoomsType DEF TypeOK
  <2> QED
    BY <2>1, <2>2 DEF Stamped, TypeOK
<1>2. FileLags' /\ SnapBetween'
  BY DEF FileLags, SnapBetween, Running, Busy, Saving, PowerCut, Vanish
<1>3. LossIsOlder'
  <2>1. \A c \in Code : Rooms(file')[c].at \in Nat
    BY AtType, RoomsType DEF TypeOK
  <2> QED
    BY <2>1 DEF LossIsOlder, Disk!NotAhead, PowerCut
<1> QED
  BY <1>1, <1>2, <1>3

\* A flush leaves only the file as it is.
LEMMA FlushLag ==
    ASSUME DiskInv, LagInv, Flush
    PROVE  LagInv'
<1>1. \A c \in Code : Rooms(file)[c].at \in Nat
  BY AtType, RoomsType DEF DiskInv, TypeOK
<1>2. LossIsOlder'
  BY <1>1 DEF LossIsOlder, Disk!NotAhead, Flush, Rooms
<1>3. Stamped' /\ FileLags' /\ SnapBetween'
  BY DEF LagInv, Stamped, FileLags, SnapBetween, Busy, Disk!NotAhead, Flush,
         memoryVars, Rooms
<1> QED
  BY <1>2, <1>3 DEF LagInv

-----------------------------------------------------------------------------
\* Every step keeps the file behind the rooms.
LEMMA NextLag ==
    ASSUME ~MayBeUnreadable, DiskInv, DiskInv', LagInv, [Next]_vars
    PROVE  LagInv'
<1>1. ASSUME NEW p \in Proc,
             \/ AcquireLock(p) \/ MarkDirty(p) \/ TakeDirty(p) \/ SaveFails(p)
             \/ Close(p) \/ BeginFinalSave(p) \/ CreateTmp(p) \/ WriteTmp(p)
             \/ SyncTmp(p)
      PROVE  LagInv'
  BY <1>1, AsideStepsLag
<1>2. ASSUME NEW p \in Proc, Load(p) \/ LoadGarbled(p) \/ LoadFails(p)
      PROVE  LagInv'
  <2>1. /\ StartWith(p, Rooms(file))
        /\ Rooms(file') = Rooms(file)
        /\ afterLoss' \subseteq afterLoss \cup {file'}
    BY <1>2 DEF Load, LoadGarbled, LoadFails, Rooms
  <2> QED
    BY <2>1, StartLag
<1>3. ASSUME NEW p \in Proc, NEW c \in Code,
             CreateOrRemove(p, c) \/ Mutate(p, c) \/ Sweep(p, c)
      PROVE  LagInv'
  <2>1. PICK there \in BOOLEAN : Stamp(p, c, there)
    BY <1>3 DEF CreateOrRemove, Mutate, Sweep, DiskInv, TypeOK, Snapshot, Copy
  <2>2. UNCHANGED <<phase, writer, todo, snap, file, afterLoss>>
    BY <1>3 DEF CreateOrRemove, Mutate, Sweep, diskVars
  <2> QED
    BY <2>1, <2>2, ChangeLag
<1>4. ASSUME NEW p \in Proc, Rename(p) \/ \E c \in Code : Collect(p, c)
      PROVE  LagInv'
  BY <1>4, CollectLag, RenameLag
<1>5. ASSUME NEW p \in Proc, Exit(p) \/ Crash(p)
      PROVE  LagInv'
  <2>1. Vanish({p}) /\ UNCHANGED <<file, afterLoss>>
    BY <1>5 DEF Exit, Crash, diskVars
  <2> QED
    BY <2>1, VanishLag
<1>6. ASSUME PowerCut \/ Flush
      PROVE  LagInv'
  BY <1>6, PowerCutLag, FlushLag
<1>7. ASSUME UNCHANGED vars
      PROVE  LagInv'
  BY <1>7, AsideLag DEF vars, memoryVars, diskVars, Busy
<1> QED
  BY <1>1, <1>2, <1>3, <1>4, <1>5, <1>6, <1>7 DEF Next, SaveStep

\* The file lags from the first start on.
LEMMA InitLag == Init => LagInv
BY DEF Init, LagInv, Stamped, FileLags, SnapBetween, LossIsOlder, Busy, Saving,
       Running, Rooms, NoRooms, Disk!NotAhead

-----------------------------------------------------------------------------
(* Each step, as LaggingCopy sees it.                                      *)

Live == IF Owner = {} THEN Rooms(file) ELSE rooms[CHOOSE p \in Owner : TRUE]
Saved == Rooms(file)

\* The live rooms are those of the server that is up.
LEMMA LiveIsOwners ==
    /\ DiskInv => \A p \in Proc : phase[p] \in Running => Live = rooms[p]
    /\ DiskInv' => \A p \in Proc : phase'[p] \in Running => Live' = rooms'[p]
<1>1. ASSUME DiskInv, NEW p \in Proc, phase[p] \in Running
      PROVE  Live = rooms[p]
  <2>1. Owner = {p}
    BY <1>1 DEF Owner, DiskInv, OneOwner, Running
  <2> QED
    BY <2>1 DEF Live
<1>2. ASSUME DiskInv', NEW p \in Proc, phase'[p] \in Running
      PROVE  Live' = rooms'[p]
  <2>1. Owner' = {p}
    BY <1>2 DEF Owner, DiskInv, OneOwner, Running
  <2> QED
    BY <2>1 DEF Live
<1> QED
  BY <1>1, <1>2

\* Without one they are what a start would find.
LEMMA LiveIsSaved ==
    /\ (\A p \in Proc : phase[p] \notin Running) => Live = Saved
    /\ (\A p \in Proc : phase'[p] \notin Running) => Live' = Saved'
BY DEF Live, Saved, Owner

\* A step that changes neither rooms nor what a start would find, nor who
\* runs, is not seen.
LEMMA Unseen ==
    ASSUME UNCHANGED rooms, Saved' = Saved,
           \A p \in Proc : phase[p] \in Running <=> phase'[p] \in Running
    PROVE  UNCHANGED <<Live, Saved>>
<1>1. Owner' = Owner
  BY DEF Owner
<1> QED
  BY <1>1 DEF Live, Saved

\* A start from what was saved is not seen either.
LEMMA StartStep ==
    ASSUME DiskInv, DiskInv', NEW p \in Proc, StartWith(p, Saved), Saved' = Saved
    PROVE  UNCHANGED <<Live, Saved>>
<1>1. \A q \in Proc : phase[q] \notin Running
  BY DEF DiskInv, OneOwner, Running, StartWith
<1>2. phase'[p] \in Running /\ rooms'[p] = Saved
  BY DEF DiskInv, TypeOK, Running, StartWith
<1> QED
  BY <1>1, <1>2, LiveIsOwners, LiveIsSaved

\* A change of a room is service.
LEMMA ServeStep ==
    ASSUME DiskInv, DiskInv', LagInv, NEW p \in Proc, NEW c \in Code,
           NEW there \in BOOLEAN, Stamp(p, c, there),
           phase[p] \in Running, UNCHANGED <<phase, file>>
    PROVE  Disk!Serve
<1>1. Live = rooms[p] /\ Live' = rooms'[p] /\ Saved' = Saved
  BY LiveIsOwners DEF Saved, Rooms
<1>2. rooms[p] \in Snapshot /\ rooms'[p] \in Snapshot /\ stamp \in Nat
  BY DEF DiskInv, TypeOK
<1>3. \A d \in Code \ {c} : rooms'[p][d] = rooms[p][d]
  BY DEF Stamp, DiskInv, TypeOK, Snapshot
<1>4. /\ rooms'[p][c].at = stamp + 1
      /\ rooms[p][c].at <= stamp /\ rooms[p][c].at \in Nat
  BY <1>2, AtType DEF Stamp, DiskInv, TypeOK, Snapshot, LagInv, Stamped
<1>5. Live' \in [Code -> Disk!Copy]
  BY <1>1, <1>2 DEF Snapshot, Copy, Disk!Copy
<1>6. \A d \in Code : Live'[d] = Live[d] \/ Live'[d].at > Live[d].at
  BY <1>1, <1>2, <1>3, <1>4
<1> QED
  BY <1>1, <1>5, <1>6 DEF Disk!Serve, Live, Saved

\* A save that succeeds is one.
LEMMA RenameStep ==
    ASSUME DiskInv, DiskInv', LagInv, NEW p \in Proc, Rename(p)
    PROVE  Disk!Save
<1>1. Saved' = snap[p] /\ snap[p] \in Snapshot
  BY ContentsAssumption
     DEF DiskInv, TypeOK, TmpIsSnap, Rooms, Saved, Rename, Advance
<1>2. phase[p] \in Running /\ phase'[p] \in Running
  BY DEF DiskInv, AtRest, Rename, Advance
<1>3. Live = rooms[p] /\ Live' = rooms[p]
  BY <1>2, LiveIsOwners DEF Rename, Advance
<1>4. \A c \in Code : /\ Saved[c].at <= snap[p][c].at
                      /\ snap[p][c].at <= rooms[p][c].at
  BY DEF DiskInv, TodoDone, LagInv, SnapBetween, Busy, Saving, Saved,
         Rename, Advance
<1>5. Saved' \in [Code -> Disk!Copy]
  BY <1>1 DEF Snapshot, Copy, Disk!Copy
<1>6. Disk!NotAhead(Saved, Saved') /\ Disk!NotAhead(Saved', Live)
  BY <1>1, <1>3, <1>4 DEF Disk!NotAhead
<1> QED
  BY <1>3, <1>5, <1>6 DEF Disk!Save, Live, Saved

\* A server that goes leaves what was saved.
LEMMA VanishStep ==
    ASSUME DiskInv, NEW p \in Proc, phase[p] # "down", Vanish({p}),
           UNCHANGED diskVars
    PROVE  Disk!Crash
<1>1. \A q \in Proc : phase'[q] = "down"
  BY DEF DiskInv, OneOwner, Vanish
<1>2. Live' = Saved' /\ Saved' = Saved
  BY <1>1, LiveIsSaved DEF Running, Saved, Rooms, diskVars
<1> QED
  BY <1>2 DEF Disk!Crash, Live, Saved

\* A power cut may leave an older save.
LEMMA PowerCutStep ==
    ASSUME DiskInv, LagInv, PowerCut
    PROVE  Disk!PowerCut
<1>1. \A q \in Proc : phase'[q] = "down"
  BY DEF PowerCut, Vanish
<1>2. Live' = Saved'
  BY <1>1, LiveIsSaved DEF Running
<1>3. Saved' \in [Code -> Disk!Copy] /\ Disk!NotAhead(Saved', Saved)
  BY RoomsType
     DEF DiskInv, TypeOK, LagInv, LossIsOlder, Saved, PowerCut, Snapshot, Copy,
         Disk!Copy
<1> QED
  BY <1>2, <1>3 DEF Disk!PowerCut, Live, Saved

\* Every step is a step of LaggingCopy or not seen.
LEMMA CopyNext ==
    ASSUME ~MayBeUnreadable, DiskInv, DiskInv', LagInv, [Next]_vars
    PROVE  Disk!Next \/ UNCHANGED <<Live, Saved>>
<1>1. ASSUME NEW p \in Proc,
             \/ AcquireLock(p) \/ MarkDirty(p) \/ TakeDirty(p) \/ SaveFails(p)
             \/ Close(p) \/ BeginFinalSave(p) \/ CreateTmp(p) \/ WriteTmp(p)
             \/ SyncTmp(p) \/ \E c \in Code : Collect(p, c)
      PROVE  UNCHANGED <<Live, Saved>>
  <2>1. UNCHANGED <<rooms, file>>
    BY <1>1 DEF AcquireLock, MarkDirty, TakeDirty, SaveFails, Close, BeginFinalSave,
                BeginSnapshot, CreateTmp, WriteTmp, SyncTmp, Collect, Advance,
                diskVars
  <2>2. \A q \in Proc : phase[q] \in Running <=> phase'[q] \in Running
    BY <1>1
       DEF DiskInv, TypeOK, Running, AcquireLock, MarkDirty, TakeDirty, SaveFails,
           Close, BeginFinalSave, BeginSnapshot, CreateTmp, WriteTmp, SyncTmp,
           Collect, Advance
  <2> QED
    BY <2>1, <2>2, Unseen DEF Saved, Rooms
<1>2. ASSUME NEW p \in Proc, Load(p) \/ LoadGarbled(p)
      PROVE  UNCHANGED <<Live, Saved>>
  <2>1. StartWith(p, Saved) /\ Saved' = Saved
    BY <1>2 DEF Load, LoadGarbled, Saved, Rooms
  <2> QED
    BY <2>1, StartStep
<1>3. ASSUME NEW p \in Proc, LoadFails(p)
      PROVE  FALSE
  BY <1>3 DEF LoadFails
<1>4. ASSUME NEW p \in Proc, NEW c \in Code,
             CreateOrRemove(p, c) \/ Mutate(p, c) \/ Sweep(p, c)
      PROVE  Disk!Serve
  <2>1. PICK there \in BOOLEAN : Stamp(p, c, there)
    BY <1>4 DEF CreateOrRemove, Mutate, Sweep, DiskInv, TypeOK, Snapshot, Copy
  <2>2. phase[p] \in Running /\ UNCHANGED <<phase, file>>
    BY <1>4 DEF CreateOrRemove, Mutate, Sweep, Serving, Running, diskVars
  <2> QED
    BY <2>1, <2>2, ServeStep
<1>5. ASSUME NEW p \in Proc, Rename(p)
      PROVE  Disk!Save
  BY <1>5, RenameStep
<1>6. ASSUME NEW p \in Proc, Exit(p) \/ Crash(p)
      PROVE  Disk!Crash
  BY <1>6, VanishStep DEF Exit, Crash
<1>7. CASE PowerCut
  BY <1>7, PowerCutStep DEF Disk!Next
<1>8. CASE Flush \/ UNCHANGED vars
  BY <1>8, Unseen DEF Flush, vars, memoryVars, diskVars, Saved, Rooms
<1> QED
  BY <1>1, <1>2, <1>3, <1>4, <1>5, <1>6, <1>7, <1>8 DEF Next, SaveStep, Disk!Next

\* Nothing that was saved gives way to something older, except by a power cut;
\* a restart begins with what was saved; and no two servers write over each
\* other.  This needs the snapshot to be readable whenever there is one.
THEOREM PersistenceKeepsCopy ==
    ASSUME ~MayBeUnreadable
    PROVE  Spec => KeepsCopy
<1>1. Init => Disk!Init
  BY DEF Init, Disk!Init, Owner, Running, Rooms, NoRooms
<1>2. Spec => []LagInv
  BY InitLag, NextLag, DiskInvariant, PTL DEF Spec
<1>3. DiskInv /\ DiskInv' /\ LagInv /\ [Next]_vars => [Disk!Next]_<<Live, Saved>>
  BY CopyNext
<1> QED
  BY <1>1, <1>2, <1>3, DiskInvariant, PTL
     DEF Spec, KeepsCopy, Disk!Spec, Live, Saved
=============================================================================
