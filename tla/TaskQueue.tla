----------------------------- MODULE TaskQueue -----------------------------
(***************************************************************************)
(* class TaskQueue (Orderbook Server/task_queue.h): a pool of worker       *)
(* threads that take tasks from one queue, under a mutex and a condition   *)
(* variable, and a destructor that lets the workers drain the queue and    *)
(* joins them.                                                             *)
(*                                                                         *)
(* What a thread does while it holds queueMutex_ is one step; the notify   *)
(* calls, made after the unlock, are steps of their own.  A worker waiting *)
(* on condition_ may also wake up with nobody notifying it.  Threads that  *)
(* own no part of the pool (Callers) and running tasks may both enqueue.   *)
(***************************************************************************)
EXTENDS Integers, Sequences, SequencesExt, FiniteSets

CONSTANTS
  Workers,  (* the threads the constructor starts                          *)
  Callers,  (* other threads that call enqueue                             *)
  Tasks     (* the tasks, each enqueued at most once                       *)

ASSUME ThreadsAssumption == Workers # {} /\ Workers \cap Callers = {}

Threads == Workers \cup Callers

VARIABLES
  taskQueue,  (* taskQueue_                                                *)
  shutdown,   (* shutdown_                                                 *)
  worker,     (* "awake": to lock and test; "waiting": in condition_.wait; *)
              (* "running": in task(); "exited"                            *)
  notifying,  (* thread -> between the unlock and notify_one of enqueue    *)
  destructor, (* "none", "flagged", "joining" or "returned"                *)
  accepted,   (* history: the tasks pushed, in order                       *)
  started,    (* history: the tasks popped, in order                       *)
  refused     (* history: the tasks enqueue dropped                        *)

poolVars == <<taskQueue, shutdown, worker, notifying, destructor,
              accepted, started, refused>>

-----------------------------------------------------------------------------

Init ==
  /\ taskQueue = <<>>
  /\ shutdown = FALSE
  /\ worker = [w \in Workers |-> "awake"]
  /\ notifying = [t \in Threads |-> FALSE]
  /\ destructor = "none"
  /\ accepted = <<>>
  /\ started = <<>>
  /\ refused = {}

Waiting == {w \in Workers : worker[w] = "waiting"}

(* A thread that may call enqueue: a caller while the owner has not begun  *)
(* to destroy the pool, or a task.                                         *)
MayEnqueue(thread) ==
  /\ ~notifying[thread]
  /\ \/ thread \in Callers /\ destructor = "none"
     \/ thread \in Workers /\ worker[thread] = "running"

Enqueue(thread, task) ==
  /\ MayEnqueue(thread)
  /\ ~shutdown
  /\ taskQueue' = Append(taskQueue, task)
  /\ accepted' = Append(accepted, task)
  /\ notifying' = [notifying EXCEPT ![thread] = TRUE]
  /\ UNCHANGED <<shutdown, worker, destructor, started, refused>>

(* After shutdown the task is dropped without a word to the caller.        *)
Refuse(thread, task) ==
  /\ MayEnqueue(thread)
  /\ shutdown
  /\ refused' = refused \cup {task}
  /\ UNCHANGED <<taskQueue, shutdown, worker, notifying, destructor,
                 accepted, started>>

(* notify_one wakes some waiting worker, or nobody.                        *)
NotifyOne(thread) ==
  /\ notifying[thread]
  /\ notifying' = [notifying EXCEPT ![thread] = FALSE]
  /\ \/ Waiting = {} /\ UNCHANGED worker
     \/ \E w \in Waiting : worker' = [worker EXCEPT ![w] = "awake"]
  /\ UNCHANGED <<taskQueue, shutdown, destructor, accepted, started, refused>>

-----------------------------------------------------------------------------
(***************************************************************************)
(* workerThread.                                                           *)
(***************************************************************************)

(* Mutant of Wait: the wait has no predicate.                              *)
WaitBlindly(w) ==
  /\ worker[w] = "awake"
  /\ worker' = [worker EXCEPT ![w] = "waiting"]
  /\ UNCHANGED <<taskQueue, shutdown, notifying, destructor,
                 accepted, started, refused>>

(* The predicate is false: the unlock and the wait are one step.           *)
Wait(w) ==
  /\ worker[w] = "awake"
  /\ ~shutdown
  /\ taskQueue = <<>>
  /\ worker' = [worker EXCEPT ![w] = "waiting"]
  /\ UNCHANGED <<taskQueue, shutdown, notifying, destructor,
                 accepted, started, refused>>

SpuriousWake(w) ==
  /\ worker[w] = "waiting"
  /\ worker' = [worker EXCEPT ![w] = "awake"]
  /\ UNCHANGED <<taskQueue, shutdown, notifying, destructor,
                 accepted, started, refused>>

(* Mutants of Take: a woken worker does not test the queue again and may   *)
(* move out a task that is not there; the newest task is taken.            *)
TakeUnchecked(w) ==
  /\ worker[w] = "awake"
  /\ worker' = [worker EXCEPT ![w] = "running"]
  /\ started' = Append(started, IF taskQueue = <<>> THEN "null" ELSE Head(taskQueue))
  /\ taskQueue' = IF taskQueue = <<>> THEN <<>> ELSE Tail(taskQueue)
  /\ UNCHANGED <<shutdown, notifying, destructor, accepted, refused>>

TakeNewest(w) ==
  /\ worker[w] = "awake"
  /\ taskQueue # <<>>
  /\ worker' = [worker EXCEPT ![w] = "running"]
  /\ started' = Append(started, Last(taskQueue))
  /\ taskQueue' = Front(taskQueue)
  /\ UNCHANGED <<shutdown, notifying, destructor, accepted, refused>>

Take(w) ==
  /\ worker[w] = "awake"
  /\ taskQueue # <<>>
  /\ worker' = [worker EXCEPT ![w] = "running"]
  /\ started' = Append(started, Head(taskQueue))
  /\ taskQueue' = Tail(taskQueue)
  /\ UNCHANGED <<shutdown, notifying, destructor, accepted, refused>>

(* task() returns.                                                         *)
Finish(w) ==
  /\ worker[w] = "running"
  /\ ~notifying[w]
  /\ worker' = [worker EXCEPT ![w] = "awake"]
  /\ UNCHANGED <<taskQueue, shutdown, notifying, destructor,
                 accepted, started, refused>>

(* Mutant of Exit: the queue is not drained.                               *)
ExitAtOnce(w) ==
  /\ worker[w] = "awake"
  /\ shutdown
  /\ worker' = [worker EXCEPT ![w] = "exited"]
  /\ UNCHANGED <<taskQueue, shutdown, notifying, destructor,
                 accepted, started, refused>>

Exit(w) ==
  /\ worker[w] = "awake"
  /\ shutdown
  /\ taskQueue = <<>>
  /\ worker' = [worker EXCEPT ![w] = "exited"]
  /\ UNCHANGED <<taskQueue, shutdown, notifying, destructor,
                 accepted, started, refused>>

WorkerThread(w) == Wait(w) \/ Take(w) \/ Exit(w)

-----------------------------------------------------------------------------
(***************************************************************************)
(* ~TaskQueue.  The owner calls it when no other thread is in enqueue.     *)
(***************************************************************************)

Shutdown ==
  /\ destructor = "none"
  /\ \A c \in Callers : ~notifying[c]
  /\ shutdown' = TRUE
  /\ destructor' = "flagged"
  /\ UNCHANGED <<taskQueue, worker, notifying, accepted, started, refused>>

(* Mutant of NotifyAll: notify_one.                                        *)
NotifyAny ==
  /\ destructor = "flagged"
  /\ \/ Waiting = {} /\ UNCHANGED worker
     \/ \E w \in Waiting : worker' = [worker EXCEPT ![w] = "awake"]
  /\ destructor' = "joining"
  /\ UNCHANGED <<taskQueue, shutdown, notifying, accepted, started, refused>>

NotifyAll ==
  /\ destructor = "flagged"
  /\ worker' = [w \in Workers |-> IF w \in Waiting THEN "awake" ELSE worker[w]]
  /\ destructor' = "joining"
  /\ UNCHANGED <<taskQueue, shutdown, notifying, accepted, started, refused>>

Join ==
  /\ destructor = "joining"
  /\ \A w \in Workers : worker[w] = "exited"
  /\ destructor' = "returned"
  /\ UNCHANGED <<taskQueue, shutdown, worker, notifying,
                 accepted, started, refused>>

(* The pool is gone.                                                       *)
Gone == destructor = "returned" /\ UNCHANGED poolVars

-----------------------------------------------------------------------------

Fresh(task) == task \notin Range(accepted) \cup refused

SomeEnqueue ==
  \E thread \in Threads, task \in Tasks :
    Fresh(task) /\ (Enqueue(thread, task) \/ Refuse(thread, task))

Next ==
  \/ SomeEnqueue
  \/ \E thread \in Threads : NotifyOne(thread)
  \/ \E w \in Workers : WorkerThread(w) \/ SpuriousWake(w) \/ Finish(w)
  \/ Shutdown
  \/ NotifyAll
  \/ Join
  \/ Gone

(* Threads keep running and tasks return; nobody has to enqueue, to        *)
(* destroy the pool, or to wake a worker without reason.                   *)
Fairness ==
  /\ \A thread \in Threads : WF_poolVars(NotifyOne(thread))
  /\ \A w \in Workers : WF_poolVars(WorkerThread(w)) /\ WF_poolVars(Finish(w))
  /\ WF_poolVars(NotifyAll)
  /\ WF_poolVars(Join)

Spec == Init /\ [][Next]_poolVars /\ Fairness

-----------------------------------------------------------------------------
(***************************************************************************)
(* Properties.                                                             *)
(***************************************************************************)

(* Type invariant of the pool.                                             *)
TypeOK ==
  /\ taskQueue \in Seq(Tasks)
  /\ shutdown \in BOOLEAN
  /\ worker \in [Workers -> {"awake", "waiting", "running", "exited"}]
  /\ notifying \in [Threads -> BOOLEAN]
  /\ destructor \in {"none", "flagged", "joining", "returned"}
  /\ accepted \in Seq(Tasks)
  /\ started \in Seq(Tasks)
  /\ refused \subseteq Tasks

(* The tasks handed to workers, followed by the ones still queued, are the *)
(* accepted ones in the order of their enqueue calls: no task is lost, run *)
(* twice or overtaken, whichever workers and callers race for the queue.   *)
NoTaskLost == accepted = started \o taskQueue

(* When the destructor returns, every accepted task has been run and no    *)
(* thread of the pool is left ("Don't allow new tasks after shutdown",     *)
(* "Join all threads"): tasks queued behind shutdown_ are not abandoned.   *)
Drained ==
  destructor = "returned" =>
    /\ started = accepted
    /\ \A w \in Workers : worker[w] = "exited"

(* No wakeup is lost: while a task is queued, not every worker sleeps      *)
(* unless a notification is still to come; and after shutdown_ is set and  *)
(* notify_all is done, no worker sleeps.                                   *)
NoLostWakeup ==
  /\ taskQueue # <<>> /\ Waiting = Workers => \E t \in Threads : notifying[t]
  /\ destructor \in {"joining", "returned"} => Waiting = {}

(* Every accepted task is started, if the tasks before it return.          *)
AcceptedStart == \A task \in Tasks : task \in Range(accepted) ~> task \in Range(started)

(* The destructor returns, if the tasks do.                                *)
DestructorReturns == destructor = "flagged" ~> destructor = "returned"
=============================================================================
