--------------------------- MODULE Log4QtProofs ---------------------------
(***************************************************************************)
(* Safety of the composition: no event is posted to a deleted dispatcher,  *)
(* and the rolling file keeps what it promises on its own, because the     *)
(* dispatcher hands it the events in the order they were posted.  For any  *)
(* number of loggers, events and backups.                                  *)
(***************************************************************************)
EXTENDS Log4Qt, TLAPS

----------------------------------------------------------------------------
(* The rolling file, whose actions keep an invariant of their own: what a   *)
(* roll-over relies on at each step.                                        *)

\* A file that does not exist holds nothing, and nothing is newer than the last record.
Contents ==
  /\ \A s \in Slots : s \notin there => disk[s] = {}
  /\ \A s \in Slots : \A r \in disk[s] : r <= last

\* A roll-over works from the last backup down, and the slot above is always free.
Progress ==
  /\ step = "idle" <=> call = "none"
  /\ step # "idle" => ~open
  /\ open => 0 \in there
  /\ step = "remove" => index = maxBackup - 1 /\ (maxBackup = 0 => excuse)
  /\ step = "shift" =>
       \/ maxBackup = 0 /\ index = -1 /\ excuse
       \/ index \in 0..(maxBackup - 1) /\ index + 1 \notin there
  /\ step = "open" => AppendFile \/ 0 \notin there

RInv == RTypeOK /\ Contents /\ Progress /\ Ordered /\ NothingVanishes /\ StillOpen

----------------------------------------------------------------------------

\* The appender starts without a file and without records.
LEMMA RInitially == RInit => RInv
<1> SUFFICES ASSUME RInit PROVE RInv OBVIOUS
<1>1. RTypeOK
  <2>1. disk \in [Slots -> SUBSET Nat] BY DEF RInit
  <2>2. index \in -1..(BackupLimit - 1) BY RollingAssumption DEF RInit
  <2> QED BY <2>1, <2>2 DEF RInit, RTypeOK
<1>2. \A s \in Slots : disk[s] = {} BY DEF RInit
<1>3. (UNION {disk[s] : s \in Slots}) = {} BY <1>2
<1>4. NothingVanishes BY <1>3 DEF RInit, NothingVanishes
<1>5. Contents /\ Progress /\ Ordered /\ StillOpen
  BY <1>2 DEF RInit, Contents, Progress, Ordered, StillOpen
<1> QED BY <1>1, <1>4, <1>5 DEF RInv

\* Moving a file to the next free slot disturbs nothing: not the order, not what is kept.
LEMMA RenameKeeps ==
  ASSUME RInv, NEW i \in Slots, i + 1 \in Slots, i \in there, Rename(i, i + 1)
  PROVE  /\ there' \subseteq Slots
         /\ disk' \in [Slots -> SUBSET Nat]
         /\ \A s \in Slots : s \notin there' => disk'[s] = {}
         /\ \A s \in Slots : \A r \in disk'[s] : r <= last
         /\ \A s, t \in Slots : s < t => \A r \in disk'[s], q \in disk'[t] : q < r
         /\ (UNION {disk'[s] : s \in Slots}) = UNION {disk[s] : s \in Slots}
         /\ i \notin there'
<1>1. disk' = [s \in Slots |-> IF s = i + 1 THEN disk[i] ELSE IF s = i THEN {} ELSE disk[s]]
  BY DEF Rename, RInv, RTypeOK, Slots
<1>2. disk[i + 1] = {} BY DEF Rename, RInv, Contents
<1>3. i \in Int /\ i # i + 1 BY DEF Slots
<1>4. there' \subseteq Slots /\ disk' \in [Slots -> SUBSET Nat]
  BY <1>1 DEF Rename, RInv, RTypeOK
<1>5. \A s \in Slots : s \notin there' => disk'[s] = {}
  BY <1>1, <1>3 DEF Rename, RInv, Contents
<1>6. \A s \in Slots : \A r \in disk'[s] : r <= last
  BY <1>1 DEF RInv, Contents
<1>7. ASSUME NEW s \in Slots, NEW t \in Slots, s < t, NEW r \in disk'[s], NEW q \in disk'[t]
      PROVE  q < r
  <2>1. CASE s = i + 1
    BY <2>1, <1>1, <1>3, <1>7, RollingAssumption DEF RInv, Ordered, Slots
  <2>2. CASE t = i + 1
    <3>1. s < i BY <2>2, <1>1, <1>3, <1>7, RollingAssumption DEF Slots
    <3> QED BY <2>2, <3>1, <1>1, <1>3, <1>7, RollingAssumption DEF RInv, Ordered, Slots
  <2>3. CASE s # i + 1 /\ t # i + 1
    BY <2>3, <1>1, <1>3, <1>7 DEF RInv, Ordered
  <2> QED BY <2>1, <2>2, <2>3
<1>8. (UNION {disk'[s] : s \in Slots}) = UNION {disk[s] : s \in Slots}
  <2>1. ASSUME NEW r, NEW s \in Slots, r \in disk'[s] PROVE \E t \in Slots : r \in disk[t]
    BY <2>1, <1>1
  <2>2. ASSUME NEW r, NEW s \in Slots, r \in disk[s] PROVE \E t \in Slots : r \in disk'[t]
    <3>1. CASE s = i BY <3>1, <2>2, <1>1, <1>3
    <3>2. CASE s # i BY <3>2, <2>2, <1>1, <1>2
    <3> QED BY <3>1, <3>2
  <2> QED BY <2>1, <2>2
<1> QED BY <1>3, <1>4, <1>5, <1>6, <1>7, <1>8 DEF Rename

----------------------------------------------------------------------------
(* Each step preserves the invariant.                                      *)

\* What a failing operation changes: nothing on disk, and it leaves an excuse.
LEMMA SameFiles ==
  ASSUME RInv, UNCHANGED <<files, dropped, written>>, last' \in Nat, last' >= last
  PROVE  Contents' /\ Ordered' /\ NothingVanishes'
BY DEF RInv, RTypeOK, files, Contents, Ordered, NothingVanishes

\* Removing the last backup keeps its records in dropped.
LEMMA RemoveLastKeeps == RInv /\ RemoveLast => RInv'
<1> SUFFICES ASSUME RInv, RemoveLast PROVE RInv' OBVIOUS
<1> USE RollingAssumption
<1>0. UNCHANGED <<maxBackup, open, rActive, rClosed, closing, last, written>>
  BY DEF RemoveLast
<1>1. CASE maxBackup \in there \ {0} /\ step' = "shift" /\ there' = there \ {maxBackup}
  <2>1. /\ disk' = [disk EXCEPT ![maxBackup] = {}]
        /\ dropped' = dropped \cup disk[maxBackup]
        /\ UNCHANGED <<call, index, excuse>>
        /\ step = "remove"
    BY <1>1 DEF RemoveLast, Fail, Return
  <2>2. disk' = [s \in Slots |-> IF s = maxBackup THEN {} ELSE disk[s]]
    BY <2>1 DEF RInv, RTypeOK
  <2>3. RTypeOK' BY <1>0, <1>1, <2>1, <2>2 DEF RInv, RTypeOK
  <2>4. Contents' BY <1>0, <1>1, <2>2 DEF RInv, Contents
  <2>5. Ordered' BY <2>2 DEF RInv, Ordered
  <2>6. NothingVanishes'
    <3>1. (UNION {disk[s] : s \in Slots})
            = (UNION {disk'[s] : s \in Slots}) \cup disk[maxBackup]
      BY <2>2 DEF RInv, RTypeOK
    <3> QED BY <3>1, <1>0, <2>1 DEF RInv, NothingVanishes
  <2>7. Progress' /\ StillOpen'
    BY <1>0, <1>1, <2>1 DEF RInv, RTypeOK, Progress, StillOpen, Slots
  <2> QED BY <2>3, <2>4, <2>5, <2>6, <2>7 DEF RInv
<1>2. CASE Fail
  BY <1>0, <1>2, SameFiles
     DEF Fail, Return, RInv, RTypeOK, Progress, StillOpen, files
<1>3. CASE maxBackup \notin there \ {0} /\ UNCHANGED <<call, index, excuse, there, disk, dropped>>
  BY <1>0, <1>3, SameFiles
     DEF RemoveLast, Fail, Return, RInv, RTypeOK, Progress, StillOpen, Slots, files
<1> QED BY <1>1, <1>2, <1>3 DEF RemoveLast

\* Renaming a backup to the next slot, which is free.
LEMMA ShiftOneKeeps == RInv /\ ShiftOne => RInv'
<1> SUFFICES ASSUME RInv, ShiftOne PROVE RInv' OBVIOUS
<1> USE RollingAssumption
<1>0. /\ UNCHANGED <<maxBackup, open, rActive, rClosed, closing, last, written, dropped>>
      /\ step = "shift" /\ index >= 1 /\ index \in Slots /\ index + 1 \in Slots
  BY DEF ShiftOne, flags, ghosts, RInv, RTypeOK, Progress, Slots
<1>1. CASE index \in there /\ Rename(index, index + 1) /\ index' = index - 1
           /\ UNCHANGED <<call, step, excuse>>
  <2>1. /\ there' \subseteq Slots /\ disk' \in [Slots -> SUBSET Nat]
        /\ Contents' /\ Ordered' /\ NothingVanishes'
        /\ index \notin there'
    BY <1>0, <1>1, RenameKeeps DEF Contents, Ordered, NothingVanishes, RInv
  <2>2. RTypeOK' BY <1>0, <1>1, <2>1 DEF RInv, RTypeOK
  <2>3. Progress' /\ StillOpen'
    BY <1>0, <1>1, <2>1 DEF RInv, RTypeOK, Progress, StillOpen, Slots
  <2> QED BY <2>1, <2>2, <2>3 DEF RInv
<1>2. CASE RenameFails(index, index + 1)
  BY <1>0, <1>2, SameFiles
     DEF RenameFails, Return, RInv, RTypeOK, Progress, StillOpen, files
<1>3. CASE index \notin there /\ index' = index - 1 /\ UNCHANGED <<call, step, excuse, there, disk>>
  BY <1>0, <1>3, SameFiles
     DEF RInv, RTypeOK, Progress, StillOpen, Slots, files
<1> QED BY <1>1, <1>2, <1>3 DEF ShiftOne

\* Renaming the file to backup 1; with maxBackupIndex 0 that may be taken.
LEMMA ShiftCurrentKeeps == RInv /\ ShiftCurrent => RInv'
<1> SUFFICES ASSUME RInv, ShiftCurrent PROVE RInv' OBVIOUS
<1> USE RollingAssumption
<1>0. /\ UNCHANGED <<maxBackup, open, rActive, rClosed, closing, last, written, dropped>>
      /\ step = "shift" /\ 0 \in Slots /\ 0 + 1 \in Slots
  BY DEF ShiftCurrent, flags, ghosts, Slots
<1>1. CASE 0 \in there /\ Rename(0, 1) /\ step' = "open" /\ UNCHANGED <<call, index, excuse>>
  <2>1. /\ there' \subseteq Slots /\ disk' \in [Slots -> SUBSET Nat]
        /\ Contents' /\ Ordered' /\ NothingVanishes'
        /\ 0 \notin there'
    <3>1. Rename(0, 0 + 1) BY <1>1
    <3> QED BY <1>0, <1>1, <3>1, RenameKeeps DEF Contents, Ordered, NothingVanishes, RInv
  <2>2. RTypeOK' BY <1>0, <1>1, <2>1 DEF RInv, RTypeOK
  <2>3. Progress' /\ StillOpen'
    BY <1>0, <1>1, <2>1 DEF RInv, RTypeOK, Progress, StillOpen, Slots
  <2> QED BY <2>1, <2>2, <2>3 DEF RInv
<1>2. CASE RenameFails(0, 1) /\ 0 \in there
  BY <1>0, <1>2, SameFiles
     DEF RenameFails, Return, RInv, RTypeOK, Progress, StillOpen, ShiftCurrent, files
<1>3. CASE 0 \notin there /\ step' = "open" /\ UNCHANGED <<call, index, excuse, there, disk>>
  BY <1>0, <1>3, SameFiles
     DEF RInv, RTypeOK, Progress, StillOpen, Slots, files
<1> QED BY <1>1, <1>2, <1>3 DEF ShiftCurrent

\* A file that is opened anew is appended to, or was moved out of the way.
LEMMA OpenFileKeeps == RInv /\ OpenFile => RInv'
<1> SUFFICES ASSUME RInv, OpenFile PROVE RInv' OBVIOUS
<1> USE RollingAssumption
<1>0. UNCHANGED <<maxBackup, rClosed, closing, last, written>> BY DEF OpenFile
<1>1. CASE there' = there \cup {0} /\ open' = TRUE
  <2>1. /\ UNCHANGED <<disk, dropped>> /\ Return /\ excuse' = FALSE
        /\ rActive' = (rActive \/ call = "activate")
    <3>1. step = "open" /\ ~open BY DEF OpenFile, RInv, Progress
    <3>2. ~AppendFile => [disk EXCEPT ![0] = {}] = disk
      <4>1. ~AppendFile => disk[0] = {} BY <3>1 DEF RInv, Progress, Contents, Slots
      <4> QED BY <4>1 DEF RInv, RTypeOK
    <3> QED BY <1>1, <3>1, <3>2 DEF OpenFile, Fail
  <2>2. RTypeOK'
    <3>1. there' \subseteq Slots BY <1>1 DEF RInv, RTypeOK, Slots
    <3>2. rActive' \in BOOLEAN BY <2>1 DEF RInv, RTypeOK
    <3>3. index' \in -1..(BackupLimit - 1) /\ call' = "none" /\ step' = "idle" BY <2>1 DEF Return
    <3> QED BY <1>0, <1>1, <2>1, <3>1, <3>2, <3>3 DEF RInv, RTypeOK
  <2>3. Contents' /\ Ordered' /\ NothingVanishes'
    BY <1>0, <1>1, <2>1 DEF RInv, Contents, Ordered, NothingVanishes
  <2>4. Progress' /\ StillOpen'
    BY <1>0, <1>1, <2>1 DEF RInv, Return, Progress, StillOpen
  <2> QED BY <2>2, <2>3, <2>4 DEF RInv
<1>2. CASE Fail /\ UNCHANGED <<open, rActive>>
  BY <1>0, <1>2, SameFiles
     DEF Fail, Return, RInv, RTypeOK, Progress, StillOpen, files
<1> QED BY <1>1, <1>2 DEF OpenFile

\* activateOptions() starts at the last backup, or, if it appends, opens the file.
LEMMA ActivateKeeps == RInv /\ RActivateOptions => RInv'
<1> SUFFICES ASSUME RInv, RActivateOptions PROVE RInv' OBVIOUS
<1> USE RollingAssumption
<1>1. /\ UNCHANGED <<there, disk, maxBackup, rActive, rClosed, closing, last, written, dropped>>
      /\ call' = "activate" /\ open' = FALSE
      /\ \/ AppendFile /\ step' = "open" /\ UNCHANGED <<index, excuse>>
         \/ step' = "remove" /\ index' = maxBackup - 1 /\ excuse' = (excuse \/ maxBackup = 0)
  BY DEF RActivateOptions, BeginRoll, files, ghosts
<1>2. RTypeOK'
  <2>1. index' \in -1..(BackupLimit - 1) BY <1>1 DEF RInv, RTypeOK, Slots
  <2>2. excuse' \in BOOLEAN BY <1>1 DEF RInv, RTypeOK
  <2> QED BY <1>1, <2>1, <2>2 DEF RInv, RTypeOK
<1>3. Contents' /\ Ordered' /\ NothingVanishes' BY <1>1, SameFiles DEF files, RInv, RTypeOK
<1>4. Progress' /\ StillOpen' BY <1>1 DEF Progress, StillOpen
<1> QED BY <1>2, <1>3, <1>4 DEF RInv

\* A record that is refused is gone, and later ones have higher numbers.
LEMMA RefuseKeeps ==
  ASSUME RInv, NEW e \in Nat, e > last, RefuseRecord(e)
  PROVE  RInv'
BY SameFiles
   DEF RefuseRecord, flags, files, RInv, RTypeOK, Progress, StillOpen

\* append() writes the newest record to the file, which is slot 0.
LEMMA AppendKeeps ==
  ASSUME RInv, NEW e \in Nat, e > last, NEW succeeds \in BOOLEAN, AppendRecord(e, succeeds)
  PROVE  RInv'
<1> USE RollingAssumption
<1>0. /\ last' = e /\ UNCHANGED <<there, maxBackup, rActive, rClosed, closing, dropped>>
      /\ 0 \in Slots
      /\ call = "none" /\ step = "idle" /\ open
  BY DEF AppendRecord, RAccepts, Slots, RInv, Progress
<1>1. /\ disk' = [s \in Slots |-> IF s = 0 /\ succeeds THEN disk[0] \cup {e} ELSE disk[s]]
      /\ written' = IF succeeds THEN written \cup {e} ELSE written
  BY DEF AppendRecord, RInv, RTypeOK
<1>2. \/ UNCHANGED <<call, step, index, open, excuse>>
      \/ /\ call' = "append" /\ step' = "remove" /\ index' = maxBackup - 1 /\ open' = FALSE
         /\ excuse' = (excuse \/ maxBackup = 0)
  BY DEF AppendRecord, BeginRoll
<1>3. RTypeOK'
  <2>1. disk' \in [Slots -> SUBSET Nat] BY <1>1 DEF RInv, RTypeOK
  <2>2. written' \subseteq Nat BY <1>1 DEF RInv, RTypeOK
  <2>3. index' \in -1..(BackupLimit - 1) BY <1>2 DEF RInv, RTypeOK, Slots
  <2>4. excuse' \in BOOLEAN /\ open' \in BOOLEAN BY <1>2 DEF RInv, RTypeOK
  <2> QED BY <1>0, <1>2, <2>1, <2>2, <2>3, <2>4 DEF RInv, RTypeOK
<1>a. 0 \in there BY <1>0 DEF RInv, Progress
<1>b. \A s \in Slots : \A r \in disk[s] : r \in Nat /\ r < e
  BY DEF RInv, RTypeOK, Contents
<1>4. Contents'
  <2>1. ASSUME NEW s \in Slots, s \notin there' PROVE disk'[s] = {}
    BY <2>1, <1>a, <1>0, <1>1 DEF RInv, Contents
  <2>2. ASSUME NEW s \in Slots, NEW r \in disk'[s] PROVE r <= last'
    BY <2>2, <1>b, <1>0, <1>1
  <2> QED BY <2>1, <2>2 DEF Contents
<1>5. Ordered'
  <2>1. ASSUME NEW s \in Slots, NEW t \in Slots, s < t, NEW r \in disk'[s], NEW q \in disk'[t]
        PROVE  q < r
    <3>1. t # 0 /\ q \in disk[t] BY <2>1, <1>1 DEF Slots
    <3>2. CASE r \in disk[s] BY <2>1, <3>1, <3>2 DEF RInv, Ordered
    <3>3. CASE r = e BY <3>1, <3>3, <1>b
    <3> QED BY <2>1, <3>2, <3>3, <1>1
  <2> QED BY <2>1 DEF Ordered
<1>6. NothingVanishes'
  <2>1. CASE ~succeeds BY <2>1, <1>0, <1>1 DEF RInv, NothingVanishes
  <2>2. CASE succeeds
    <3>1. (UNION {disk'[s] : s \in Slots}) = (UNION {disk[s] : s \in Slots}) \cup {e}
      BY <2>2, <1>0, <1>1
    <3> QED BY <3>1, <2>2, <1>0, <1>1 DEF RInv, NothingVanishes
  <2> QED BY <2>1, <2>2
<1>7. Progress' /\ StillOpen'
  BY <1>0, <1>2 DEF RInv, Progress, StillOpen
<1> QED BY <1>3, <1>4, <1>5, <1>6, <1>7 DEF RInv

\* The invariant is inductive.
LEMMA RInductive == RInv /\ [RNext]_rvars => RInv'
<1> SUFFICES ASSUME RInv, [RNext]_rvars PROVE RInv' OBVIOUS
<1>1. CASE RollStep
  BY <1>1, RemoveLastKeeps, ShiftOneKeeps, ShiftCurrentKeeps, OpenFileKeeps DEF RollStep
<1>2. CASE RActivateOptions BY <1>2, ActivateKeeps
<1>3. ASSUME NEW n \in Slots, SetMaxBackupIndex(n) PROVE RInv'
  BY <1>3, SameFiles
     DEF SetMaxBackupIndex, flags, ghosts, files, RInv, RTypeOK, Progress, StillOpen
<1>4. CASE CloseFile
  BY <1>4, SameFiles
     DEF CloseFile, ghosts, files, RInv, RTypeOK, Progress, StillOpen
<1>5. CASE CloseWriter
  BY <1>5, SameFiles
     DEF CloseWriter, ghosts, files, RInv, RTypeOK, Progress, StillOpen
<1>6. CASE CloseSkeleton
  <2>1. Contents' /\ Ordered' /\ NothingVanishes'
    BY <1>6, SameFiles DEF CloseSkeleton, ghosts, files, RInv, RTypeOK
  <2>2. RTypeOK' BY <1>6 DEF CloseSkeleton, ghosts, files, RInv, RTypeOK
  <2>3. Progress' BY <1>6 DEF CloseSkeleton, ghosts, files, RInv, Progress
  <2>4. StillOpen' BY <1>6 DEF CloseSkeleton, StillOpen
  <2> QED BY <2>1, <2>2, <2>3, <2>4 DEF RInv
<1>7. CASE RCrash
  <2>1. Contents' /\ Ordered' /\ NothingVanishes'
    BY <1>7, SameFiles DEF RCrash, ghosts, files, RInv, RTypeOK
  <2>2. RTypeOK'
    <3>1. index' \in -1..(BackupLimit - 1) BY <1>7, RollingAssumption DEF RCrash, Return
    <3> QED BY <1>7, <3>1 DEF RCrash, Return, ghosts, files, RInv, RTypeOK
  <2>3. Progress' BY <1>7 DEF RCrash, Return, Progress
  <2>4. StillOpen' BY <1>7 DEF RCrash, StillOpen
  <2> QED BY <2>1, <2>2, <2>3, <2>4 DEF RInv
<1>8. ASSUME NEW e \in (last + 1)..MaxRecord, RefuseRecord(e) PROVE RInv'
  BY <1>8, RefuseKeeps, RollingAssumption DEF RInv, RTypeOK
<1>9. ASSUME NEW e \in (last + 1)..MaxRecord, NEW succeeds \in BOOLEAN,
             AppendRecord(e, succeeds)
      PROVE  RInv'
  BY <1>9, AppendKeeps, RollingAssumption DEF RInv, RTypeOK
<1>10. CASE UNCHANGED rvars
  BY <1>10, SameFiles
     DEF rvars, files, RInv, RTypeOK, Progress, StillOpen
<1> QED
  BY <1>1, <1>2, <1>3, <1>4, <1>5, <1>6, <1>7, <1>8, <1>9, <1>10 DEF RNext, RConfigure

----------------------------------------------------------------------------

\* The variables of the appender keep their types, the disk included.
THEOREM RTypeCorrect == RSpec => []RTypeOK
<1>1. RInv => RTypeOK BY DEF RInv
<1> QED BY <1>1, RInitially, RInductive, PTL DEF RSpec

\* A backup with a higher number never holds anything newer, whatever failed or crashed.
THEOREM ROrdered == RSpec => []Ordered
<1>1. RInv => Ordered BY DEF RInv
<1> QED BY <1>1, RInitially, RInductive, PTL DEF RSpec

\* No failure, crash or change of maxBackupIndex makes a written record vanish.
THEOREM RNothingVanishes == RSpec => []NothingVanishes
<1>1. RInv => NothingVanishes BY DEF RInv
<1> QED BY <1>1, RInitially, RInductive, PTL DEF RSpec

\* A roll-over never fails of its own: only the file system, or maxBackupIndex 0, leaves an
\* active appender without its file.
THEOREM RStillOpen == RSpec => []StillOpen
<1>1. RInv => StillOpen BY DEF RInv
<1> QED BY <1>1, RInitially, RInductive, PTL DEF RSpec

----------------------------------------------------------------------------
(* The asynchronous appender.                                              *)

\* Who is where holds mObjectGuard.
Guarded ==
  /\ cpc \in {"quit", "wait", "delete", "reset"} <=> guard = Configurer
  /\ \A l \in Loggers : lpc[l] = "append" <=> guard = l
  /\ dpc = "append" <=> guard = Dispatcher

\* The dispatcher handles events only while its thread runs, and is deleted after that.
Threading ==
  /\ dpc # "off" => thread = "running"
  /\ cpc \in {"made", "start"} => thread = "made"
  /\ cpc \in {"delete", "reset"} => thread = "none"
  /\ dispatcher = "deleted" => cpc = "reset"

ThreadTypes ==
  /\ guard \in Loggers \cup {None, Configurer, Dispatcher}
  /\ active \in BOOLEAN /\ closed \in BOOLEAN /\ linked \in BOOLEAN /\ quit \in BOOLEAN
  /\ attached \in BOOLEAN /\ reading \in BOOLEAN
  /\ thread \in {"none", "made", "running", "ended"}
  /\ dispatcher \in {"none", "live", "deleted"}
  /\ lpc \in [Loggers -> {"idle", "append"}]
  /\ cpc \in {"idle", "made", "start", "close", "quit", "wait", "delete", "reset", "skeleton"}
  /\ dpc \in {"off", "loop", "event", "call", "sink", "report", "append", "logged", "unlock"}

AInv == ThreadTypes /\ Guarded /\ Threading

\* Nobody holds the guard at first, and there is no thread.
LEMMA AInitially == AInit => AInv
BY AsyncAssumption DEF AInit, AInv, ThreadTypes, Guarded, Threading, None, Configurer, Dispatcher

\* What the rolling file does leaves the threads alone, but for where the dispatcher is.
LEMMA SinkKeeps ==
  ASSUME AInv, SinkLogs \/ SinkGoesOn \/ SinkReturns
  PROVE  AInv'
BY AsyncAssumption
   DEF SinkLogs, SinkGoesOn, SinkReturns, state, worker, events, list, AInv, ThreadTypes, Guarded, Threading,
       None, Configurer, Dispatcher

\* A logger takes the guard and gives it back.
LEMMA LoggerKeeps == ASSUME AInv, NEW l \in Loggers, LoggerStep(l) PROVE AInv'
<1> USE AsyncAssumption DEF None, Configurer, Dispatcher
<1>1. CASE LoggerEnter(l)
  BY <1>1 DEF LoggerEnter, EnterAppend, state, worker, events, list, AInv, ThreadTypes,
              Guarded, Threading
<1>2. CASE LoggerPost(l)
  BY <1>2 DEF LoggerPost, Post, state, worker, list, AInv, ThreadTypes, Guarded, Threading
<1> QED BY <1>1, <1>2 DEF LoggerStep

\* The dispatcher takes it only for a line of the attached appender.
LEMMA DispatcherKeeps == ASSUME AInv, DispatcherStep PROVE AInv'
<1> USE AsyncAssumption DEF None, Configurer, Dispatcher, state, worker, events, list, AInv,
                            ThreadTypes, Guarded, Threading
<1>1. CASE TakeEvent BY <1>1 DEF TakeEvent
<1>2. CASE EndLoop BY <1>2 DEF EndLoop
<1>3. CASE DispatchEvent BY <1>3 DEF DispatchEvent
<1>4. CASE LockAppenders BY <1>4 DEF LockAppenders
<1>5. CASE ReportEnter BY <1>5 DEF ReportEnter, EnterAppend
<1>6. CASE ReportPost BY <1>6 DEF ReportPost, Post
<1>7. CASE UnlockAppenders BY <1>7 DEF UnlockAppenders
<1> QED BY <1>1, <1>2, <1>3, <1>4, <1>5, <1>6, <1>7 DEF DispatcherStep

\* activateOptions() makes the thread, close() ends and deletes it.
LEMMA ConfigureKeeps == ASSUME AInv, ConfigureStep PROVE AInv'
<1> USE AsyncAssumption DEF None, Configurer, Dispatcher, state, worker, events, list, AInv,
                            ThreadTypes, Guarded, Threading
<1>1. CASE MakeThread BY <1>1 DEF MakeThread
<1>2. CASE MakeDispatcher BY <1>2 DEF MakeDispatcher
<1>3. CASE StartThread BY <1>3 DEF StartThread
<1>4. CASE CloseInternal BY <1>4 DEF CloseInternal
<1>5. CASE Unlink BY <1>5 DEF Unlink
<1>6. CASE QuitThread BY <1>6 DEF QuitThread
<1>7. CASE WaitThread BY <1>7 DEF WaitThread
<1>8. CASE DeleteDispatcher BY <1>8 DEF DeleteDispatcher
<1>9. CASE ResetDispatcher BY <1>9 DEF ResetDispatcher
<1>10. CASE CloseAppender BY <1>10 DEF CloseAppender
<1>11. ASSUME NEW b \in BOOLEAN, SetAttached(b) PROVE AInv' BY <1>11 DEF SetAttached
<1> QED
  BY <1>1, <1>2, <1>3, <1>4, <1>5, <1>6, <1>7, <1>8, <1>9, <1>10, <1>11
     DEF ConfigureStep, CloseStep

----------------------------------------------------------------------------
(* The events.                                                             *)

InSink == {"sink", "report", "append", "logged"}
Busy == {"event", "call", "unlock"} \cup InSink

\* The rolling file has been given the first event of the queue.
Handed == dpc = "unlock" \/ (dpc \in InSink /\ last = Head(queue))

\* Events are queued in the order of their numbers, and are newer than what was handed over.
Queueing ==
  /\ posted \in Nat /\ queue \in Seq(Nat) /\ last \in Nat /\ last <= posted
  /\ \A i \in 1..Len(queue) : queue[i] <= posted
  /\ \A i, j \in 1..Len(queue) : i < j => queue[i] < queue[j]
  /\ \A i \in 1..Len(queue) : i > 1 \/ ~Handed => queue[i] > last
  /\ dpc \in Busy => queue # <<>>
  /\ dpc \in {"report", "append", "logged"} => Handed
  /\ call = "append" => dpc \in InSink /\ Handed

\* A step that leaves the queue alone
LEMMA QueueSame ==
  ASSUME Queueing, UNCHANGED <<queue, posted, last, call>>, Handed => Handed',
         dpc' \in Busy => dpc \in Busy \/ queue # <<>>, call = "append" => dpc' \in InSink,
         dpc' \in {"report", "append", "logged"} => Handed
  PROVE  Queueing'
BY DEF Queueing

\* An event that is posted is newer than all others.
LEMMA PostKeeps ==
  ASSUME Queueing, Post, UNCHANGED <<last, call>>,
         \/ UNCHANGED dpc
         \/ dpc = "append" /\ dpc' = "logged"
  PROVE  Queueing'
<1>1. CASE dispatcher # "live"
  BY <1>1 DEF Post, Queueing, Handed, Busy, InSink
<1>2. CASE dispatcher = "live"
  <2>1. posted' = posted + 1 /\ queue' = Append(queue, posted + 1) BY <1>2 DEF Post
  <2>2. /\ queue' \in Seq(Nat) /\ Len(queue') = Len(queue) + 1
        /\ \A i \in 1..Len(queue) : queue'[i] = queue[i]
        /\ queue'[Len(queue) + 1] = posted + 1
    BY <2>1 DEF Queueing
  <2>3. \A i \in 1..Len(queue') : i \in 1..Len(queue) \/ i = Len(queue) + 1
    BY <2>2 DEF Queueing
  <2>4. queue' # <<>> BY <2>2 DEF Queueing
  <2>5. \A i \in 1..Len(queue') : queue'[i] <= posted'
    BY <2>1, <2>2, <2>3 DEF Queueing
  <2>6. \A i, j \in 1..Len(queue') : i < j => queue'[i] < queue'[j]
    BY <2>1, <2>2, <2>3 DEF Queueing
  <2>7. (Handed => Handed') /\ (dpc' \in Busy => dpc \in Busy)
    <3>1. dpc \in Busy => Head(queue') = Head(queue)
      <4>1. dpc \in Busy => 1 \in 1..Len(queue) /\ Head(queue) = queue[1] BY DEF Queueing
      <4>2. Head(queue') = queue'[1] BY <2>2, <2>4
      <4> QED BY <2>2, <4>1, <4>2
    <3> QED BY <3>1 DEF Handed, Busy, InSink
  <2>8. \A i \in 1..Len(queue') : i > 1 \/ ~Handed' => queue'[i] > last'
    BY <2>1, <2>2, <2>3, <2>7 DEF Queueing
  <2>9. /\ dpc' \in {"report", "append", "logged"} => Handed'
        /\ call' = "append" => dpc' \in InSink /\ Handed'
    BY <2>7 DEF Queueing, InSink
  <2> QED BY <2>1, <2>2, <2>4, <2>5, <2>6, <2>8, <2>9 DEF Queueing
<1> QED BY <1>1, <1>2

\* Dropping the first event, once it was handed over or because nobody is there
LEMMA DropKeeps ==
  ASSUME Queueing, queue # <<>>, queue' = Tail(queue), UNCHANGED <<posted, last>>,
         dpc' = "loop", call' # "append"
  PROVE  Queueing'
<1>1. /\ queue' \in Seq(Nat) /\ Len(queue') = Len(queue) - 1 /\ Len(queue) \in Nat
      /\ \A i \in 1..Len(queue') : queue'[i] = queue[i + 1] /\ i + 1 \in 1..Len(queue)
  BY DEF Queueing
<1>2. \A i \in 1..Len(queue') : i + 1 > 1 /\ queue'[i] > last'
  BY <1>1 DEF Queueing
<1> QED BY <1>1, <1>2 DEF Queueing, Busy, InSink, Handed

\* The queue is emptied while no event is being handled.
LEMMA ClearKeeps ==
  ASSUME Queueing, queue' = <<>>, UNCHANGED <<posted, last>>, dpc' = "off", call' # "append"
  PROVE  Queueing'
BY DEF Queueing, Busy, InSink, Handed

----------------------------------------------------------------------------
(* The composition.                                                        *)

LInv == AInv /\ Queueing /\ RInv

\* The threads, while the rolling file stands still
LEMMA ThreadsKeepQueue ==
  ASSUME AInv, Queueing, UNCHANGED rvars,
         ConfigureStep \/ DispatcherStep \/ \E l \in Loggers : LoggerStep(l)
  PROVE  Queueing'
<1> USE DEF state, worker, events, list, Busy, InSink, Handed
<1>0. UNCHANGED <<last, call>> BY DEF rvars
<1>1. CASE TakeEvent BY <1>0, <1>1, QueueSame DEF TakeEvent, Queueing
<1>2. CASE EndLoop BY <1>0, <1>2, QueueSame DEF EndLoop, Queueing
<1>3. CASE DispatchEvent
  BY <1>0, <1>3, QueueSame, DropKeeps DEF DispatchEvent, Queueing
<1>4. CASE LockAppenders BY <1>0, <1>4, QueueSame DEF LockAppenders, Queueing
<1>5. CASE ReportEnter BY <1>0, <1>5, QueueSame DEF ReportEnter, EnterAppend, Queueing
<1>6. CASE ReportPost
  <2>1. Post /\ dpc = "append" /\ dpc' = "logged" BY <1>6 DEF ReportPost
  <2> QED BY <1>0, <2>1, PostKeeps DEF Queueing
<1>7. CASE UnlockAppenders
  BY <1>0, <1>7, DropKeeps DEF UnlockAppenders, Queueing
<1>8. ASSUME NEW l \in Loggers, LoggerEnter(l) PROVE Queueing'
  BY <1>0, <1>8, QueueSame DEF LoggerEnter, EnterAppend, Queueing
<1>9. ASSUME NEW l \in Loggers, LoggerPost(l) PROVE Queueing'
  BY <1>0, <1>9, PostKeeps DEF LoggerPost, Queueing
<1>10. CASE MakeDispatcher
  <2>1. dpc = "off" BY <1>10 DEF MakeDispatcher, AInv, ThreadTypes, Threading
  <2> QED BY <1>0, <1>10, <2>1, ClearKeeps DEF MakeDispatcher, Queueing
<1>11. CASE DeleteDispatcher
  <2>1. dpc = "off" BY <1>11 DEF DeleteDispatcher, AInv, ThreadTypes, Threading
  <2> QED BY <1>0, <1>11, <2>1, ClearKeeps DEF DeleteDispatcher, Queueing
<1>12. CASE StartThread
  <2>1. dpc = "off" BY <1>12 DEF StartThread, AInv, ThreadTypes, Threading
  <2> QED BY <1>0, <1>12, <2>1, QueueSame DEF StartThread, Queueing
<1>13. CASE MakeThread \/ CloseInternal \/ QuitThread \/ WaitThread \/ ResetDispatcher
  BY <1>0, <1>13, QueueSame
     DEF MakeThread, CloseInternal, QuitThread, WaitThread, ResetDispatcher, Queueing
<1>14. CASE Unlink \/ CloseAppender
  BY <1>0, <1>14, QueueSame DEF Unlink, CloseAppender, Queueing
<1>15. ASSUME NEW b \in BOOLEAN, SetAttached(b) PROVE Queueing'
  BY <1>0, <1>15, QueueSame DEF SetAttached, Queueing
<1> QED
  BY <1>1, <1>2, <1>3, <1>4, <1>5, <1>6, <1>7, <1>8, <1>9, <1>10, <1>11, <1>12, <1>13, <1>14,
     <1>15 DEF ConfigureStep, CloseStep, DispatcherStep, LoggerStep

\* A step of a roll-over: rename, remove or open
LEMMA RollKeeps ==
  RollStep => UNCHANGED last /\ call' \in {call, "none"}
BY DEF RollStep, RemoveLast, ShiftOne, ShiftCurrent, OpenFile, Fail, Return, RenameFails, ghosts

\* Nothing happens.
LEMMA StutterKeeps == AInv /\ UNCHANGED avars => AInv'
BY DEF AInv, ThreadTypes, Guarded, Threading, avars

\* The first event of the queue is newer than all that the file was given.
LEMMA DeliverKeeps == ASSUME LInv, Deliver PROVE LInv'
<1> DEFINE e == Head(queue)
<1>1. dpc = "sink" /\ call = "none" /\ queue # <<>> /\ e \in Nat /\ e > last /\ e = queue[1]
      /\ 1 \in 1..Len(queue) /\ last' = e
  <2>1. dpc = "sink" /\ call = "none" /\ last' = e /\ last # e
    BY DEF Deliver, Delivering, RefuseRecord, AppendRecord
  <2>2. queue # <<>> /\ queue \in Seq(Nat) /\ ~Handed
    BY <2>1 DEF LInv, Queueing, Busy, InSink, Handed
  <2>3. e = queue[1] /\ 1 \in 1..Len(queue) /\ e \in Nat BY <2>2
  <2>4. e > last BY <2>2, <2>3 DEF LInv, Queueing
  <2> QED BY <2>1, <2>2, <2>3, <2>4
<1>2. RInv'
  BY <1>1, RefuseKeeps, AppendKeeps DEF Deliver, LInv
<1>3. UNCHANGED <<queue, posted>> /\ call' \in {"none", "append"}
      /\ (dpc' = "sink" \/ (dpc' = "unlock" /\ call' = "none"))
  BY <1>1 DEF Deliver, RefuseRecord, AppendRecord, SinkReturns, events, avars
<1>4. AInv'
  BY <1>1, SinkKeeps, StutterKeeps DEF Deliver, LInv
<1>5. Queueing'
  <2>1. Handed' BY <1>1, <1>3 DEF Handed, InSink
  <2>2. \A i \in 1..Len(queue) : i > 1 => queue[i] > e
    BY <1>1 DEF LInv, Queueing
  <2>3. e <= posted BY <1>1 DEF LInv, Queueing
  <2> QED BY <1>1, <1>3, <2>1, <2>2, <2>3 DEF LInv, Queueing, Busy, InSink
<1> QED BY <1>2, <1>4, <1>5 DEF LInv

\* A line that it logs, and its return, concern the dispatcher alone.
LEMMA LogsKeeps == ASSUME LInv, DispatcherLogs \/ DispatcherReturns PROVE LInv'
<1>1. UNCHANGED rvars /\ Delivering /\ (SinkLogs \/ SinkReturns)
  BY DEF DispatcherLogs, DispatcherReturns
<1>2. AInv' /\ RInv' BY <1>1, SinkKeeps, RInductive DEF LInv
<1>3. Queueing'
  <2>1. UNCHANGED <<queue, posted, last, call>>
    BY <1>1 DEF rvars, events, SinkLogs, SinkReturns
  <2>2. Handed BY <1>1 DEF Delivering, LInv, Queueing, Handed, InSink
  <2>3. dpc \in InSink /\ dpc' \in {"report", "unlock"} /\ (dpc' = "unlock" => call # "append")
    BY <1>1 DEF SinkLogs, SinkReturns, DispatcherLogs, DispatcherReturns, InSink
  <2>4. Handed' BY <2>1, <2>2, <2>3 DEF Handed, InSink
  <2> QED BY <2>1, <2>2, <2>3, <2>4, QueueSame DEF LInv, Busy, InSink
<1> QED BY <1>2, <1>3 DEF LInv

\* The roll-over in the dispatcher's thread
LEMMA DispatcherRollsKeeps == ASSUME LInv, DispatcherRolls PROVE LInv'
<1>1. RollStep /\ call = "append" /\ dpc \in InSink /\ dpc' = "sink" /\ Handed
  BY DEF DispatcherRolls, SinkGoesOn, avars, InSink, LInv, Queueing
<1>2. RInv' BY <1>1, RInductive DEF RNext, LInv
<1>3. UNCHANGED last /\ call' \in {"append", "none"} BY <1>1, RollKeeps
<1>4. AInv' BY SinkKeeps, StutterKeeps DEF DispatcherRolls, LInv
<1>5. UNCHANGED <<queue, posted>> BY DEF DispatcherRolls, SinkGoesOn, events, avars
<1>6. Handed' BY <1>1, <1>3, <1>5 DEF Handed, InSink
<1>7. Queueing'
  BY <1>1, <1>3, <1>5, <1>6 DEF LInv, Queueing, Busy, InSink
<1> QED BY <1>2, <1>4, <1>7 DEF LInv

\* The configuring thread and the rolling file
LEMMA ConfigureFileKeeps == ASSUME LInv, ConfigureFile \/ ConfigurerRolls PROVE LInv'
<1>1. UNCHANGED avars BY DEF ConfigureFile, ConfigurerRolls
<1>2. RNext /\ UNCHANGED last /\ call # "append" /\ call' # "append"
  <2>1. CASE ConfigurerRolls
    BY <2>1, RollKeeps DEF ConfigurerRolls, RNext
  <2>2. CASE ConfigureFile
    <3>1. RConfigure BY <2>2 DEF ConfigureFile
    <3> QED
      BY <3>1 DEF RConfigure, RActivateOptions, SetMaxBackupIndex, CloseFile, CloseWriter,
                  CloseSkeleton, ghosts, RNext
  <2> QED BY <2>1, <2>2
<1>3. RInv' /\ AInv' BY <1>1, <1>2, RInductive, StutterKeeps DEF LInv
<1>4. Queueing' BY <1>1, <1>2 DEF avars, LInv, Queueing, Handed
<1> QED BY <1>3, <1>4 DEF LInv

\* A crash takes the queue with it, and the disk stays.
LEMMA CrashKeeps == ASSUME LInv, Crash PROVE LInv'
<1>1. RInv' BY RInductive DEF Crash, RNext, LInv
<1>2. AInv'
  BY AsyncAssumption
     DEF Crash, ACrash, AInv, ThreadTypes, Guarded, Threading, None, Configurer, Dispatcher
<1>3. Queueing'
  BY ClearKeeps DEF Crash, ACrash, RCrash, Return, ghosts, LInv
<1> QED BY <1>1, <1>2, <1>3 DEF LInv

\* The composition begins as its parts do.
LEMMA LInitially == Init => LInv
<1> SUFFICES ASSUME Init PROVE LInv OBVIOUS
<1>1. AInv /\ RInv BY AInitially, RInitially DEF Init
<1>2. Queueing BY DEF Init, AInit, RInit, Queueing, Busy, InSink, Handed
<1> QED BY <1>1, <1>2 DEF LInv

\* Every step of the composition keeps the invariant.
LEMMA LInductive == LInv /\ [Next]_vars => LInv'
<1> SUFFICES ASSUME LInv, [Next]_vars PROVE LInv' OBVIOUS
<1>1. ASSUME ConfigureStep \/ DispatcherStep \/ \E l \in Loggers : LoggerStep(l), UNCHANGED rvars
      PROVE  LInv'
  BY <1>1, ThreadsKeepQueue, ConfigureKeeps, DispatcherKeeps, LoggerKeeps, RInductive DEF LInv
<1>2. CASE ConfigureFile \/ ConfigurerRolls BY <1>2, ConfigureFileKeeps
<1>3. CASE Deliver BY <1>3, DeliverKeeps
<1>4. CASE DispatcherLogs \/ DispatcherRolls \/ DispatcherReturns
  BY <1>4, LogsKeeps, DispatcherRollsKeeps
<1>5. CASE Crash BY <1>5, CrashKeeps
<1>6. CASE UNCHANGED vars
  <2>1. UNCHANGED avars /\ UNCHANGED rvars BY <1>6 DEF vars
  <2>2. AInv' /\ RInv' BY <2>1, StutterKeeps, RInductive DEF LInv
  <2>3. Queueing' BY <2>1 DEF LInv, Queueing, Handed, avars, rvars
  <2> QED BY <2>2, <2>3 DEF LInv
<1> QED BY <1>1, <1>2, <1>3, <1>4, <1>5, <1>6 DEF Next, DeliverStep

----------------------------------------------------------------------------

\* The variables of both appenders keep their types in the composition.
THEOREM LTypeCorrect == Spec => [](ATypeOK /\ RTypeOK)
<1>1. LInv => ATypeOK /\ RTypeOK
  BY DEF LInv, AInv, ThreadTypes, Queueing, RInv, ATypeOK
<1> QED BY <1>1, LInitially, LInductive, PTL DEF Spec

\* No event is posted to a dispatcher that is being deleted, and none is being handled.
THEOREM LNeverDangling == Spec => []NeverDangling
<1>1. LInv => NeverDangling
  BY AsyncAssumption DEF LInv, AInv, Guarded, Threading, NeverDangling, Configurer
<1> QED BY <1>1, LInitially, LInductive, PTL DEF Spec

\* The backups go back in time although other threads post the events and the dispatcher's
\* thread writes them.
THEOREM LOrdered == Spec => []Ordered
<1>1. LInv => Ordered BY DEF LInv, RInv
<1> QED BY <1>1, LInitially, LInductive, PTL DEF Spec

\* No event that was written vanishes, in whichever thread the roll-over ran.
THEOREM LNothingVanishes == Spec => []NothingVanishes
<1>1. LInv => NothingVanishes BY DEF LInv, RInv
<1> QED BY <1>1, LInitially, LInductive, PTL DEF Spec

\* The rolling file behind the dispatcher keeps its file open, but for the file system.
THEOREM LStillOpen == Spec => []StillOpen
<1>1. LInv => StillOpen BY DEF LInv, RInv
<1> QED BY <1>1, LInitially, LInductive, PTL DEF Spec

=============================================================================
