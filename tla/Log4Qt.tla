------------------------------- MODULE Log4Qt -------------------------------
(***************************************************************************)
(* An AsyncAppender with a RollingFileAppender attached to it: the rolling *)
(* happens in the dispatcher's thread while other threads log and configure*)
(* either appender, and the process may crash and start again.             *)
(***************************************************************************)
EXTENDS AsyncAppender, RollingFileAppender

vars == <<avars, rvars>>

Init == AInit /\ RInit

\* The dispatcher's thread is inside the rolling file's doAppend, and holds its guard.
Delivering ==
  \/ dpc \in {"report", "append", "logged"}
  \/ dpc = "sink" /\ last = Head(queue)

\* callAppenders() hands the event to the rolling file's doAppend, which returns without a
\* word if the write succeeds and the file does not roll over.
Deliver ==
  /\ dpc = "sink" /\ ~Delivering
  /\ LET e == Head(queue) IN
       \/ RefuseRecord(e) /\ UNCHANGED avars
       \/ \E succeeds \in BOOLEAN :
            /\ AppendRecord(e, succeeds)
            /\ IF succeeds /\ call' = "none" THEN SinkReturns ELSE UNCHANGED avars

\* The lines it has for its logger: that it rolls over and closes the file (counted as one),
\* that it is about to rename a file, and at the end what failed or that the file is open.
LineDue ==
  \/ call = "none"
  \/ step = "remove"
  \/ step = "shift" /\ (IF index >= 1 THEN index ELSE 0) \in there

DispatcherLogs == dpc = "sink" /\ Delivering /\ LineDue /\ SinkLogs /\ UNCHANGED rvars

\* The roll-over runs in the thread that appends.
DispatcherRolls ==
  /\ dpc \in {"sink", "logged"} /\ call = "append"
  /\ RollStep
  /\ IF dpc = "logged" THEN SinkGoesOn ELSE UNCHANGED avars

DispatcherReturns == Delivering /\ call = "none" /\ SinkReturns /\ UNCHANGED rvars

DeliverStep == Deliver \/ DispatcherLogs \/ DispatcherRolls \/ DispatcherReturns

\* The configuring thread rolls over in activateOptions(); what it logs there is posted as
\* by any other logger.
ConfigurerRolls == call = "activate" /\ RollStep /\ UNCHANGED avars

\* Of the ways to configure the rolling file, all of which RNext has, those that keep the
\* composition small: maxBackupIndex is set while it is not active, and it is not activated
\* again after it was closed.
ConfigureFile ==
  /\ cpc = "idle" /\ ~rClosed /\ ~Delivering
  /\ RConfigure
  /\ maxBackup' = maxBackup \/ ~rActive
  /\ UNCHANGED avars

Crash == ACrash /\ RCrash

Next ==
  \/ ConfigureStep /\ call # "activate" /\ closing = "none" /\ UNCHANGED rvars
  \/ (DispatcherStep \/ \E l \in Loggers : LoggerStep(l)) /\ UNCHANGED rvars
  \/ ConfigureFile
  \/ DeliverStep \/ ConfigurerRolls
  \/ Crash

\* Every thread that can run does; nobody has to configure anything, but a close() or an
\* activateOptions() that was begun goes on.
Fairness ==
  /\ WF_vars(DispatcherStep /\ UNCHANGED rvars)
  /\ WF_vars(DeliverStep)
  /\ WF_vars(ConfigurerRolls)
  /\ WF_vars(CloseStep /\ UNCHANGED rvars)
  /\ \A l \in Loggers : WF_vars(LoggerPost(l) /\ UNCHANGED rvars)

Spec == Init /\ [][Next]_vars /\ Fairness

=============================================================================
