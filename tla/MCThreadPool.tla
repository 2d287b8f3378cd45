---------------------------- MODULE MCThreadPool ----------------------------
(* ThreadPool on a few workers and tasks. *)
EXTENDS ThreadPool, TLC

CONSTANTS w1, w2, w3, t1, t2, t3

None == [k \in Tasks |-> {}]
\* t1 schedules t3 (t1 and t2 come from main).
Tree == [None EXCEPT ![t1] = {t3}]
\* t1 schedules the two others.
Fork == [None EXCEPT ![t1] = {t2, t3}]
\* The tasks wait until all of them run.
Together(ks) == [k \in Tasks |-> IF k \in ks THEN ks ELSE {}]

\* A pool of workers ws that steal from each other and do not spin, and main
\* that schedules t1 and t2 and may destroy the pool at once.
Pool(ws) ==
  [workers |-> ws, partition |-> [w \in ws |-> ws], allow_spinning |-> FALSE, spin_count |-> 0,
   kMinActive |-> 4, kSize |-> 4, tasks |-> {t1, t2, t3}, main |-> {t1, t2},
   children |-> Tree, needs |-> None, patient |-> FALSE, cancels |-> FALSE]

Spinning(s, n) == [s EXCEPT !.allow_spinning = TRUE, !.spin_count = n]

\* The tasks ks wait for each other, and main for them.
Meeting(s, ks) ==
  [s EXCEPT !.tasks = ks, !.main = ks, !.children = None, !.needs = Together(ks), !.patient = TRUE]

\* Two tasks that meet on two workers, who may steal from themselves only; a
\* task that submits two more, with the limit on active threads in reach; a
\* single worker with room for one task; a pool that may be cancelled.
Two == Pool({w1, w2})
Meet == Meeting(Two, {t1, t2})
Apart == [Meet EXCEPT !.partition = [w \in {w1, w2} |-> {w}]]
Forking == [Two EXCEPT !.main = {t1}, !.children = Fork]
Active == [Spinning(Forking, 1) EXCEPT !.kMinActive = 1]
Solo == [Pool({w1}) EXCEPT !.main = {t1}, !.children = Fork, !.allow_spinning = TRUE,
                           !.spin_count = 2, !.kSize = 1, !.cancels = TRUE]
Cancelling == [Spinning(Two, 1) EXCEPT !.cancels = TRUE]

\* Two workers that spin more than once, and a destructor at any moment; three
\* workers, one to sleep, one to run, and one on its way to either.
Impatient == Spinning(Two, 2)
Three == [Pool(Waiters) EXCEPT !.tasks = {t1, t3}, !.main = {t1}, !.patient = TRUE]

Pools == {Meet, Apart, Active, Solo, Cancelling, Impatient, Three}

\* Cancelling while one task is about.
Hang == {[Two EXCEPT !.tasks = {t1}, !.main = {t1}, !.children = None, !.cancels = TRUE]}

\* Three tasks that meet on three workers, one scheduled by another.
Parallel == {[Meeting(Pool(Waiters), {t1, t2, t3}) EXCEPT !.main = {t1, t2}, !.children = Tree]}

Symmetry == Permutations(Waiters)
=============================================================================
