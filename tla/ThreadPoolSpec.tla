--------------------------- MODULE ThreadPoolSpec ---------------------------
(***************************************************************************)
(* What a thread pool promises its user (Eigen/src/ThreadPool/             *)
(* ThreadPoolInterface.h): a submitted task is run at most once, and when  *)
(* the pool is gone no task is still running and, unless it was cancelled, *)
(* none was left out.                                                      *)
(***************************************************************************)
EXTENDS Naturals

CONSTANT Tasks

VARIABLES submitted, started, ended, \* the tasks that got that far
          cancelled, gone            \* the pool was cancelled, was destroyed

tpVars == <<submitted, started, ended, cancelled, gone>>

InitTP == /\ submitted = {} /\ started = {} /\ ended = {}
          /\ cancelled = FALSE /\ gone = FALSE

Submit(k) == /\ ~gone /\ k \notin submitted
             /\ submitted' = submitted \cup {k}

Run(k) == /\ ~gone /\ k \notin started
          /\ started' = started \cup {k}

\* Some thread of the pool takes a task, or the submitter runs it in place.
Start(k) == k \in submitted /\ Run(k) /\ UNCHANGED <<submitted, ended, cancelled, gone>>
Enqueue(k) == Submit(k) /\ UNCHANGED <<started, ended, cancelled, gone>>
RunInPlace(k) == Submit(k) /\ Run(k) /\ UNCHANGED <<ended, cancelled, gone>>

End(k) == /\ k \in started \ ended
          /\ ended' = ended \cup {k}
          /\ UNCHANGED <<submitted, started, cancelled, gone>>

CancelPool == /\ ~gone /\ cancelled' = TRUE
              /\ UNCHANGED <<submitted, started, ended, gone>>

DestroyPool == /\ started = ended
               /\ cancelled \/ submitted = ended
               /\ gone' = TRUE
               /\ UNCHANGED <<submitted, started, ended, cancelled>>

NextTP == \/ \E k \in Tasks : Start(k) \/ Enqueue(k) \/ RunInPlace(k) \/ End(k)
          \/ CancelPool \/ DestroyPool

SpecTP == InitTP /\ [][NextTP]_tpVars
=============================================================================
