--------------------------- MODULE AsyncAppender ---------------------------
(***************************************************************************)
(* log4qt's AsyncAppender: loggers post events to a Dispatcher object that *)
(* lives in a thread of its own, whose event loop hands each event to the  *)
(* attached appenders.  AppenderSkeleton::doAppend holds mObjectGuard; so  *)
(* does closeInternal(), which unlinks the dispatcher, ends its thread and *)
(* deletes both.  activateOptions() takes no guard.                        *)
(*                                                                         *)
(* One thread configures (activate, close, attach); the loggers and the    *)
(* dispatcher run beside it.  There is one appender to attach; what it     *)
(* does with an event is the caller's: the module Log4Qt attaches a rolling*)
(* file.  What it logs meanwhile - errors, and at a low level what it is   *)
(* about to do - goes through the logger named after it to the appenders of*)
(* the root logger; where this one is among them and no level stops the    *)
(* line, the dispatcher appends it to its own queue.                       *)
(*                                                                         *)
(* The thread of Qt ("isRunning", quit, wait) and the queue of posted      *)
(* events are modelled from the calls made here; the event loop may end as *)
(* soon as it was told to quit, or handle more events first.               *)
(***************************************************************************)
EXTENDS Integers, Sequences

CONSTANTS
  Loggers,    \* threads that log
  MaxEvent    \* bound: events that are posted

None == "none"
Configurer == "configurer"
Dispatcher == "dispatcher"

ASSUME AsyncAssumption ==
  /\ Loggers \cap {None, Configurer, Dispatcher} = {}
  /\ MaxEvent \in Nat

VARIABLES
  guard,       \* which thread holds mObjectGuard
  active,      \* mIsActive, TRUE from the constructor
  closed,      \* mIsClosed
  thread,      \* mThread: none, made, running, ended
  dispatcher,  \* mDispatcher: none, live, or deleted and not yet reset
  linked,      \* the dispatcher's mAsyncAppender is set
  quit,        \* the thread was told to quit
  queue,       \* the events posted to the dispatcher
  attached,    \* the appender is in mAppenders
  reading,     \* the dispatcher holds mAppenderGuard for reading
  lpc,         \* where each logger is
  cpc,         \* where the configuring thread is
  dpc,         \* where the dispatcher's thread is
  posted       \* the number of the last event posted

state == <<active, closed>>
worker == <<thread, dispatcher, linked, quit>>
list == <<attached, reading>>
events == <<queue, posted>>
avars == <<guard, active, closed, thread, dispatcher, linked, quit, queue, attached, reading,
           lpc, cpc, dpc, posted>>

AInit ==
  /\ guard = None /\ active = TRUE /\ closed = FALSE
  /\ thread = "none" /\ dispatcher = "none" /\ linked = FALSE /\ quit = FALSE
  /\ queue = <<>> /\ attached = FALSE /\ reading = FALSE
  /\ lpc = [l \in Loggers |-> "idle"] /\ cpc = "idle" /\ dpc = "off"
  /\ posted = 0

----------------------------------------------------------------------------
(* doAppend(), by a logger or by the dispatcher for a line of the attached *)
(* appender.  Only a call of the same thread meets mAppendRecursionGuard;  *)
(* it returns at once and changes nothing.                                 *)

Usable == (thread = "none" \/ thread = "running") /\ active /\ ~closed

\* checkEntryConditions() under the guard: go on to append(), or return
EnterAppend(t, from, accepted, refused, pc) ==
  /\ pc = from /\ guard = None
  /\ \/ Usable /\ guard' = t /\ accepted
     \/ ~Usable /\ guard' = None /\ refused

\* What the attached appender logs is put before the events that wait.
BugPost ==
  /\ guard' = None
  /\ posted' = posted + 1
  /\ queue' = IF dispatcher # "live" THEN queue
              ELSE IF dpc = "append" THEN <<Head(queue), posted + 1>> \o Tail(queue)
              ELSE Append(queue, posted + 1)

\* append(): post to the dispatcher, or to nullptr, which Qt warns about and drops.
\* Posting to a deleted dispatcher is what NeverDangling rules out.
Post ==
  /\ guard' = None
  /\ posted' = posted + 1
  /\ queue' = IF dispatcher = "live" THEN Append(queue, posted + 1) ELSE queue

LoggerEnter(l) ==
  /\ posted < MaxEvent
  /\ EnterAppend(l, "idle", lpc' = [lpc EXCEPT ![l] = "append"], lpc' = lpc, lpc[l])
  /\ UNCHANGED <<state, worker, events, list, cpc, dpc>>

LoggerPost(l) ==
  /\ lpc[l] = "append"
  /\ Post
  /\ lpc' = [lpc EXCEPT ![l] = "idle"]
  /\ UNCHANGED <<state, worker, list, cpc, dpc>>

----------------------------------------------------------------------------
(* The dispatcher's thread.                                                *)

\* The event loop takes an event, or ends.
TakeEvent ==
  /\ dpc = "loop" /\ queue # <<>>
  /\ dpc' = "event"
  /\ UNCHANGED <<guard, state, worker, events, list, lpc, cpc>>

EndLoop ==
  /\ dpc = "loop" /\ quit
  /\ dpc' = "off" /\ thread' = "ended"
  /\ UNCHANGED <<guard, state, dispatcher, linked, quit, events, list, lpc, cpc>>

\* customEvent(): look at mAsyncAppender, then callAppenders() under the read lock.
\* The pointer may be reset in between: the build either uses the value it has read, or
\* reads nullptr and crashes, which is a crash of the process like any other.
DispatchEvent ==
  /\ dpc = "event"
  /\ IF linked THEN dpc' = "call" /\ UNCHANGED queue
               ELSE dpc' = "loop" /\ queue' = Tail(queue)
  /\ UNCHANGED <<guard, state, worker, list, lpc, cpc, posted>>

LockAppenders ==
  /\ dpc = "call"
  /\ reading' = TRUE
  /\ dpc' = IF attached THEN "sink" ELSE "unlock"
  /\ UNCHANGED <<guard, state, worker, events, attached, lpc, cpc>>

\* The attached appender, in the middle of its work or at the end of it, logs a line that
\* comes back to this appender (and no longer does past the bound on events).
SinkLogs ==
  /\ dpc = "sink" /\ posted < MaxEvent
  /\ dpc' = "report"
  /\ UNCHANGED <<guard, state, worker, events, list, lpc, cpc>>

\* It goes on with its work when the line is posted.
SinkGoesOn ==
  /\ dpc = "logged"
  /\ dpc' = "sink"
  /\ UNCHANGED <<guard, state, worker, events, list, lpc, cpc>>

\* It is done with the event.
SinkReturns ==
  /\ dpc \in {"sink", "logged"}
  /\ dpc' = "unlock"
  /\ UNCHANGED <<guard, state, worker, events, list, lpc, cpc>>

ReportEnter ==
  /\ EnterAppend(Dispatcher, "report", dpc' = "append", dpc' = "logged", dpc)
  /\ UNCHANGED <<state, worker, events, list, lpc, cpc>>

ReportPost ==
  /\ dpc = "append"
  /\ Post
  /\ dpc' = "logged"
  /\ UNCHANGED <<state, worker, list, lpc, cpc>>

UnlockAppenders ==
  /\ dpc = "unlock"
  /\ reading' = FALSE
  /\ queue' = Tail(queue)
  /\ dpc' = "loop"
  /\ UNCHANGED <<guard, state, worker, attached, lpc, cpc, posted>>

----------------------------------------------------------------------------
(* The configuring thread.                                                 *)

\* activateOptions(): nothing to do if there is a thread
MakeThread ==
  /\ cpc = "idle" /\ thread = "none"
  /\ thread' = "made" /\ quit' = FALSE /\ cpc' = "made"
  /\ UNCHANGED <<guard, state, dispatcher, linked, events, list, lpc, dpc>>

MakeDispatcher ==
  /\ cpc = "made"
  /\ dispatcher' = "live" /\ linked' = TRUE /\ queue' = <<>> /\ cpc' = "start"
  /\ UNCHANGED <<guard, state, thread, quit, list, lpc, dpc, posted>>

StartThread ==
  /\ cpc = "start"
  /\ thread' = "running" /\ dpc' = "loop" /\ cpc' = "idle"
  /\ UNCHANGED <<guard, state, dispatcher, linked, quit, events, list, lpc>>

\* close(): closeInternal() under the guard; then, under it again, the skeleton's part.
\* A closed appender keeps the thread it may have been given since.
CloseInternal ==
  /\ cpc = "idle"
  /\ cpc' = "close"
  /\ UNCHANGED <<guard, state, worker, events, list, lpc, dpc>>

Unlink ==
  /\ cpc = "close" /\ guard = None
  /\ IF closed \/ thread = "none"
       THEN cpc' = "skeleton" /\ UNCHANGED <<guard, linked>>
       ELSE cpc' = "quit" /\ guard' = Configurer /\ linked' = FALSE
  /\ UNCHANGED <<state, thread, dispatcher, quit, events, list, lpc, dpc>>

\* wait() without quit()
BugQuitThread ==
  /\ cpc = "quit"
  /\ cpc' = "wait"
  /\ UNCHANGED <<guard, state, thread, dispatcher, linked, quit, events, list, lpc, dpc>>

QuitThread ==
  /\ cpc = "quit"
  /\ quit' = TRUE /\ cpc' = "wait"
  /\ UNCHANGED <<guard, state, thread, dispatcher, linked, events, list, lpc, dpc>>

\* The dispatcher is deleted although wait() gave up.
BugWaitThread ==
  /\ cpc = "wait"
  /\ thread' = "none" /\ cpc' = "delete"
  /\ UNCHANGED <<guard, state, dispatcher, linked, quit, events, list, lpc, dpc>>

\* wait(), and the thread is deleted
WaitThread ==
  /\ cpc = "wait" /\ thread = "ended"
  /\ thread' = "none" /\ cpc' = "delete"
  /\ UNCHANGED <<guard, state, dispatcher, linked, quit, events, list, lpc, dpc>>

\* Events still posted go with the dispatcher.
DeleteDispatcher ==
  /\ cpc = "delete"
  /\ dispatcher' = "deleted" /\ queue' = <<>> /\ cpc' = "reset"
  /\ UNCHANGED <<guard, state, thread, linked, quit, list, lpc, dpc, posted>>

ResetDispatcher ==
  /\ cpc = "reset"
  /\ dispatcher' = "none" /\ guard' = None /\ cpc' = "skeleton"
  /\ UNCHANGED <<state, thread, linked, quit, events, list, lpc, dpc>>

CloseAppender ==
  /\ cpc = "skeleton" /\ guard = None
  /\ closed' = TRUE /\ active' = FALSE /\ cpc' = "idle"
  /\ UNCHANGED <<guard, worker, events, list, lpc, dpc>>

\* addAppender() and removeAppender() take the write lock, removeAllAppenders() does not.
SetAttached(b) ==
  /\ cpc = "idle"
  /\ ~reading \/ ~b
  /\ attached' = b
  /\ UNCHANGED <<guard, state, worker, events, reading, lpc, cpc, dpc>>

\* The process crashes, or ends, and another one is started.
ACrash ==
  /\ guard' = None /\ active' = TRUE /\ closed' = FALSE
  /\ thread' = "none" /\ dispatcher' = "none" /\ linked' = FALSE /\ quit' = FALSE
  /\ queue' = <<>> /\ attached' = FALSE /\ reading' = FALSE
  /\ lpc' = [l \in Loggers |-> "idle"] /\ cpc' = "idle" /\ dpc' = "off"
  /\ UNCHANGED <<posted>>

----------------------------------------------------------------------------

CloseStep ==
  \/ Unlink \/ QuitThread \/ WaitThread \/ DeleteDispatcher \/ ResetDispatcher
  \/ CloseAppender

ConfigureStep ==
  \/ MakeThread \/ MakeDispatcher \/ StartThread
  \/ CloseInternal \/ CloseStep
  \/ \E b \in BOOLEAN : SetAttached(b)

LoggerStep(l) == LoggerEnter(l) \/ LoggerPost(l)

DispatcherStep ==
  \/ TakeEvent \/ EndLoop \/ DispatchEvent \/ LockAppenders
  \/ ReportEnter \/ ReportPost \/ UnlockAppenders

\* What runs without the attached appender taking part
ANext == ConfigureStep \/ DispatcherStep \/ \E l \in Loggers : LoggerStep(l)

ASpec == AInit /\ [][ANext \/ ACrash \/ SinkLogs \/ SinkGoesOn \/ SinkReturns]_avars

----------------------------------------------------------------------------

ATypeOK ==
  /\ guard \in Loggers \cup {None, Configurer, Dispatcher}
  /\ active \in BOOLEAN /\ closed \in BOOLEAN /\ linked \in BOOLEAN /\ quit \in BOOLEAN
  /\ attached \in BOOLEAN /\ reading \in BOOLEAN
  /\ thread \in {"none", "made", "running", "ended"}
  /\ dispatcher \in {"none", "live", "deleted"}
  /\ queue \in Seq(Nat) /\ posted \in Nat
  /\ lpc \in [Loggers -> {"idle", "append"}]
  /\ cpc \in {"idle", "made", "start", "close", "quit", "wait", "delete", "reset", "skeleton"}
  /\ dpc \in {"off", "loop", "event", "call", "sink", "report", "append", "logged", "unlock"}

(* No event is posted to a dispatcher that is being deleted, and none is   *)
(* deleted while its thread is handling an event (closeInternal and append,*)
(* asyncappender.cpp:71 and 103).                                          *)
NeverDangling ==
  dispatcher = "deleted" => dpc = "off" /\ \A l \in Loggers : lpc[l] # "append"

(* close() returns, whatever is posted in the meantime, unless it and the  *)
(* dispatcher wait for each other: the dispatcher to log a line of the     *)
(* attached appender, be it an error or what a roll-over does, through this*)
(* one, whose guard close() holds while it waits for the dispatcher's      *)
(* thread to end (closeInternal, asyncappender.cpp:71).  asyncappender.h:40*)
(* calls the function thread-safe, and so far it is not.                   *)
CloseReturns == (cpc = "close") ~> (cpc = "idle" \/ (dpc = "report" /\ guard = Configurer))

=============================================================================
