------------------------ MODULE RollingFileAppender ------------------------
(***************************************************************************)
(* log4qt's RollingFileAppender with the FileAppender and WriterAppender   *)
(* it extends: events are appended to a file; when the file grows past its *)
(* maximum it is closed, the last backup removed, each backup i renamed to *)
(* i + 1, the file renamed to backup 1, and a new file opened.  Any of     *)
(* these may fail, each failure is an early return, and the process may    *)
(* crash between any two: what is on disk stays, what is in memory goes.   *)
(*                                                                         *)
(* Slot 0 is the file itself, slot i >= 1 the backup "file.i".  A file is  *)
(* the set of the records in it; records are numbered in the order they    *)
(* are handed to doAppend.  Every method holds mObjectGuard, recursive,    *)
(* from beginning to end, so a call is in progress (call) or none is; only *)
(* close() takes the guard three times (closing).  Layouts, headers,       *)
(* encodings and the filter chain are left out, immediateFlush is set.     *)
(***************************************************************************)
EXTENDS Integers, FiniteSets

CONSTANTS
  BackupLimit,   \* bound: the largest maxBackupIndex that is ever set
  AppendFile,    \* mAppendFile
  MaximumSize,   \* mMaximumFileSize, in records
  MaxRecord      \* bound: records that are handed over

ASSUME RollingAssumption ==
  /\ BackupLimit \in Nat \ {0}
  /\ AppendFile \in BOOLEAN
  /\ MaximumSize \in Nat
  /\ MaxRecord \in Nat

Slots == 0..BackupLimit

VARIABLES
  there,      \* the slots that exist on disk
  disk,       \* the records each slot holds, {} if it does not exist
  maxBackup,  \* mMaxBackupIndex
  open,       \* mFile, mTextStream and mWriter are set
  rActive,    \* mIsActive
  rClosed,    \* mIsClosed
  call,       \* the method that holds mObjectGuard
  step,       \* where rollOver or openFile is
  index,      \* the loop variable of rollOver
  closing,    \* the part of close() that comes next
  last,       \* the last record handed to doAppend
  written,    \* auxiliary: records that were written
  dropped,    \* auxiliary: records that went with a removed backup
  excuse      \* auxiliary: since the file was last opened an operation of the
              \* file system failed, or a roll-over began with maxBackupIndex 0

files == <<there, disk>>
flags == <<open, rActive, rClosed>>
ghosts == <<last, written, dropped>>
rvars == <<there, disk, maxBackup, open, rActive, rClosed, call, step, index, closing,
           last, written, dropped, excuse>>

RInit ==
  /\ there = {} /\ disk = [s \in Slots |-> {}]
  /\ maxBackup \in Slots
  /\ open = FALSE /\ rActive = FALSE /\ rClosed = FALSE
  /\ call = "none" /\ step = "idle" /\ index = 0 /\ closing = "none"
  /\ last = 0 /\ written = {} /\ dropped = {} /\ excuse = FALSE

----------------------------------------------------------------------------
(* rollOver() and openFile(), inside activateOptions() or append().        *)

\* The method returns; what it did not change before it leaves alone.
Return == call' = "none" /\ step' = "idle" /\ index' = 0

\* The loop over the backups starts one too low.
BugBeginRoll ==
  /\ step' = "remove" /\ index' = maxBackup - 2
  /\ open' = FALSE
  /\ excuse' = (excuse \/ maxBackup = 0)

\* closeFile(), and rollOver() begins
BeginRoll ==
  /\ step' = "remove" /\ index' = maxBackup - 1
  /\ open' = FALSE
  /\ excuse' = (excuse \/ maxBackup = 0)

\* An operation of the file system fails: log the error and return.
Fail ==
  /\ Return
  /\ excuse' = TRUE
  /\ UNCHANGED <<there, disk, dropped>>

\* "file.0" is never created, so with maxBackupIndex 0 there is nothing to remove.
RemoveLast ==
  /\ step = "remove"
  /\ \/ /\ maxBackup \in there \ {0}
        /\ \/ /\ there' = there \ {maxBackup}
              /\ disk' = [disk EXCEPT ![maxBackup] = {}]
              /\ dropped' = dropped \cup disk[maxBackup]
              /\ step' = "shift"
              /\ UNCHANGED <<call, index, excuse>>
           \/ Fail
     \/ /\ maxBackup \notin there \ {0}
        /\ step' = "shift"
        /\ UNCHANGED <<call, index, excuse, there, disk, dropped>>
  /\ UNCHANGED <<maxBackup, open, rActive, rClosed, closing, last, written>>

\* QFile::rename: refuses to replace a file
Rename(from, to) ==
  /\ to \notin there
  /\ there' = (there \ {from}) \cup {to}
  /\ disk' = [disk EXCEPT ![from] = {}, ![to] = disk[from]]

\* A rename that fails is logged, and the roll-over goes on to open a new file.
BugRenameFails(from, to) ==
  /\ step' = "open"
  /\ UNCHANGED <<files, call, index>>
  /\ excuse' = (excuse \/ to \notin there)

RenameFails(from, to) == Return /\ UNCHANGED files /\ excuse' = (excuse \/ to \notin there)

\* One turn of the loop that renames backup i to i + 1
ShiftOne ==
  /\ step = "shift" /\ index >= 1
  /\ \/ /\ index \in there
        /\ \/ /\ Rename(index, index + 1)
              /\ index' = index - 1 /\ UNCHANGED <<call, step, excuse>>
           \/ RenameFails(index, index + 1)
     \/ /\ index \notin there
        /\ index' = index - 1
        /\ UNCHANGED <<call, step, excuse, there, disk>>
  /\ UNCHANGED <<maxBackup, flags, closing, ghosts>>

\* After the loop the file itself becomes backup 1.
ShiftCurrent ==
  /\ step = "shift" /\ index < 1
  /\ \/ /\ 0 \in there
        /\ \/ Rename(0, 1) /\ step' = "open" /\ UNCHANGED <<call, index, excuse>>
           \/ RenameFails(0, 1)
     \/ /\ 0 \notin there
        /\ step' = "open"
        /\ UNCHANGED <<call, index, excuse, there, disk>>
  /\ UNCHANGED <<maxBackup, flags, closing, ghosts>>

\* FileAppender::openFile: append to the file or truncate it; inside activateOptions
\* the appender then becomes active, which it does not when there is no writer.
OpenFile ==
  /\ step = "open"
  /\ \/ /\ there' = there \cup {0}
        /\ disk' = IF AppendFile THEN disk ELSE [disk EXCEPT ![0] = {}]
        /\ open' = TRUE /\ excuse' = FALSE
        /\ rActive' = (rActive \/ call = "activate")
        /\ Return /\ UNCHANGED dropped
     \/ Fail /\ UNCHANGED <<open, rActive>>
  /\ UNCHANGED <<maxBackup, rClosed, closing, last, written>>

RollStep == RemoveLast \/ ShiftOne \/ ShiftCurrent \/ OpenFile

----------------------------------------------------------------------------
(* The methods.                                                            *)

\* openFile is virtual: if the file is not to be appended to, it is rolled over.
RActivateOptions ==
  /\ call = "none"
  /\ call' = "activate"
  /\ IF AppendFile
       THEN step' = "open" /\ open' = FALSE /\ UNCHANGED <<index, excuse>>
       ELSE BeginRoll
  /\ UNCHANGED <<files, maxBackup, rActive, rClosed, closing, ghosts>>

SetMaxBackupIndex(n) ==
  /\ call = "none"
  /\ maxBackup' = n
  /\ UNCHANGED <<files, flags, call, step, index, closing, ghosts, excuse>>

\* checkEntryConditions() of the three classes
RAccepts == open /\ rActive /\ ~rClosed

RefuseRecord(e) ==
  /\ call = "none" /\ ~RAccepts
  /\ last' = e
  /\ UNCHANGED <<files, flags, maxBackup, call, step, index, closing, written, dropped, excuse>>

\* append(): write, and roll over when the file has grown past the maximum.
\* The size is looked at whether or not the write succeeded.
AppendRecord(e, succeeds) ==
  /\ call = "none" /\ RAccepts
  /\ last' = e
  /\ disk' = IF succeeds THEN [disk EXCEPT ![0] = @ \cup {e}] ELSE disk
  /\ written' = IF succeeds THEN written \cup {e} ELSE written
  /\ IF Cardinality(disk'[0]) > MaximumSize
       THEN call' = "append" /\ BeginRoll
       ELSE UNCHANGED <<call, step, index, open, excuse>>
  /\ UNCHANGED <<there, maxBackup, rActive, rClosed, closing, dropped>>

\* close(): FileAppender's part, WriterAppender's part, AppenderSkeleton's part
CloseFile ==
  /\ call = "none" /\ closing = "none"
  /\ closing' = "writer"
  /\ open' = (open /\ rClosed)
  /\ UNCHANGED <<files, maxBackup, rActive, rClosed, call, step, index, ghosts, excuse>>

CloseWriter ==
  /\ call = "none" /\ closing = "writer"
  /\ closing' = "skeleton"
  /\ open' = (open /\ rClosed)
  /\ UNCHANGED <<files, maxBackup, rActive, rClosed, call, step, index, ghosts, excuse>>

CloseSkeleton ==
  /\ call = "none" /\ closing = "skeleton"
  /\ closing' = "none"
  /\ rClosed' = TRUE /\ rActive' = FALSE
  /\ UNCHANGED <<files, maxBackup, open, call, step, index, ghosts, excuse>>

\* The process crashes, or ends, and another one is started, which may set another
\* maxBackupIndex before it activates the appender.
RCrash ==
  /\ open' = FALSE /\ rActive' = FALSE /\ rClosed' = FALSE
  /\ Return /\ closing' = "none"
  /\ UNCHANGED <<files, maxBackup, ghosts, excuse>>

RConfigure ==
  \/ RActivateOptions
  \/ \E n \in Slots : SetMaxBackupIndex(n)
  \/ CloseFile \/ CloseWriter \/ CloseSkeleton

RNext ==
  \/ RollStep
  \/ RConfigure
  \/ RCrash
  \/ \E e \in (last + 1)..MaxRecord :
       RefuseRecord(e) \/ \E succeeds \in BOOLEAN : AppendRecord(e, succeeds)

RSpec == RInit /\ [][RNext]_rvars

----------------------------------------------------------------------------

RTypeOK ==
  /\ there \subseteq Slots
  /\ disk \in [Slots -> SUBSET Nat]
  /\ maxBackup \in Slots
  /\ open \in BOOLEAN /\ rActive \in BOOLEAN /\ rClosed \in BOOLEAN /\ excuse \in BOOLEAN
  /\ call \in {"none", "activate", "append"}
  /\ step \in {"idle", "remove", "shift", "open"}
  /\ index \in -1..(BackupLimit - 1)
  /\ closing \in {"none", "writer", "skeleton"}
  /\ last \in Nat
  /\ written \subseteq Nat /\ dropped \subseteq Nat

(* A backup with a higher number never holds anything newer: whatever      *)
(* failed or crashed half-way through earlier roll-overs, and however      *)
(* maxBackupIndex was changed in between, file, file.1, file.2... go back  *)
(* in time (rollOver, rollingfileappender.cpp:82).                         *)
Ordered ==
  \A s, t \in Slots : s < t => \A r \in disk[s], q \in disk[t] : q < r

(* What was written is on disk, or went with a backup that rollOver        *)
(* removed: no early return, truncation or rename loses a record ("if we   *)
(* do not append, we roll the file to avoid data loss",                    *)
(* rollingfileappender.cpp:75).                                            *)
NothingVanishes == written = (UNION {disk[s] : s \in Slots}) \cup dropped

(* An active appender that is not rolling over has its file open, unless   *)
(* the file system failed it or maxBackupIndex was 0: a roll-over never    *)
(* stumbles over a backup it left itself (the renames of rollOver,         *)
(* rollingfileappender.cpp:93).                                            *)
StillOpen ==
  rActive /\ ~rClosed /\ closing = "none" /\ call = "none" => open \/ excuse

=============================================================================
