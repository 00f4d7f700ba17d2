-------------------------- MODULE TaskQueueProofs --------------------------
(***************************************************************************)
(* Proofs of the safety properties of TaskQueue, for any number of workers *)
(* (one at least), callers and tasks.                                      *)
(***************************************************************************)
EXTENDS TaskQueue, SequenceTheorems, TLAPS

(* What the steps of the destructor and the exits say of each other: a     *)
(* worker exits on an empty queue only, and nothing is pushed from then on *)
(* because shutdown_ stays set.                                            *)
Teardown ==
  /\ shutdown <=> destructor # "none"
  /\ \A w \in Workers : worker[w] = "exited" => shutdown /\ taskQueue = <<>>
  /\ destructor = "returned" => \A w \in Workers : worker[w] = "exited"

(* The inductive invariant.                                                *)
IInv == TypeOK /\ NoTaskLost /\ NoLostWakeup /\ Teardown

-----------------------------------------------------------------------------

(* Moving the head of the queue to the end of the tasks started keeps      *)
(* their concatenation.                                                    *)
LEMMA MovedHead ==
  ASSUME NEW S, NEW s \in Seq(S), NEW q \in Seq(S), q # <<>>
  PROVE  /\ Append(s, Head(q)) \o Tail(q) = s \o q
         /\ Append(s, Head(q)) \in Seq(S) /\ Tail(q) \in Seq(S)
<1>1. Head(q) \in S /\ Tail(q) \in Seq(S) /\ <<Head(q)>> \in Seq(S)
  BY HeadTailProperties
<1>2. q = <<Head(q)>> \o Tail(q)
  <2>1. /\ Len(q) \in Nat /\ Len(q) > 0 /\ q \in [1 .. Len(q) -> S]
        /\ Len(Tail(q)) = Len(q) - 1
        /\ \A i \in 1 .. Len(Tail(q)) : Tail(q)[i] = q[i + 1]
        /\ Head(q) = q[1]
    BY LenProperties, EmptySeq, HeadTailProperties
  <2> DEFINE r == <<Head(q)>> \o Tail(q)
  <2>2. /\ r \in Seq(S) /\ Len(r) = 1 + Len(Tail(q))
        /\ \A i \in 1 .. 1 + Len(Tail(q)) :
             r[i] = IF i <= 1 THEN <<Head(q)>>[i] ELSE Tail(q)[i - 1]
    BY <1>1, ConcatProperties
  <2> HIDE DEF r
  <2>3. Len(r) = Len(q)
    BY <2>1, <2>2
  <2>4. ASSUME NEW i \in 1 .. Len(q)
        PROVE  r[i] = q[i]
    <3>1. CASE i = 1
      BY <3>1, <2>1, <2>2
    <3>2. CASE i # 1
      <4>1. i - 1 \in 1 .. Len(Tail(q)) /\ ~(i <= 1) /\ i \in 1 .. 1 + Len(Tail(q)) /\ (i - 1) + 1 = i
        BY <3>2, <2>1
      <4> QED BY <4>1, <2>1, <2>2
    <3> QED BY <3>1, <3>2
  <2>5. r = q
    BY <2>2, <2>3, <2>4, SeqEqual
  <2> QED BY <2>5 DEF r
<1>3. Append(s, Head(q)) = s \o <<Head(q)>>
  BY <1>1, AppendIsConcat
<1>4. (s \o <<Head(q)>>) \o Tail(q) = s \o (<<Head(q)>> \o Tail(q))
  BY <1>1, ConcatAssociative
<1>5. Append(s, Head(q)) \in Seq(S)
  BY <1>1, AppendProperties
<1> QED BY <1>1, <1>2, <1>3, <1>4, <1>5

-----------------------------------------------------------------------------

(* The pool just constructed satisfies IInv.                               *)
LEMMA InitHolds ==
  ASSUME Init
  PROVE  IInv
<1>1. TypeOK
  BY EmptySeq DEF Init, TypeOK
<1>2. NoTaskLost
  BY ConcatSimplifications, EmptySeq DEF Init, NoTaskLost
<1>3. NoLostWakeup /\ Teardown
  BY ThreadsAssumption DEF Init, NoLostWakeup, Waiting, Teardown
<1> QED BY <1>1, <1>2, <1>3 DEF IInv

(* Pushing a task and marking the notification to come preserves IInv.     *)
LEMMA EnqueueHolds ==
  ASSUME IInv, NEW thread \in Threads, NEW task \in Tasks, Enqueue(thread, task)
  PROVE  IInv'
<1>1. TypeOK'
  BY AppendProperties DEF IInv, TypeOK, Enqueue
<1>2. NoTaskLost'
  <2>1. started \in Seq(Tasks) /\ taskQueue \in Seq(Tasks) /\ <<task>> \in Seq(Tasks)
    BY DEF IInv, TypeOK
  <2>2. accepted = started \o taskQueue /\ accepted \in Seq(Tasks)
    BY DEF IInv, NoTaskLost, TypeOK
  <2>3. /\ accepted' = accepted \o <<task>>
        /\ taskQueue' = taskQueue \o <<task>>
        /\ started' = started
    BY <2>1, <2>2, AppendIsConcat DEF Enqueue
  <2>4. (started \o taskQueue) \o <<task>> = started \o (taskQueue \o <<task>>)
    BY <2>1, ConcatAssociative
  <2> QED BY <2>2, <2>3, <2>4 DEF NoTaskLost
<1>3. NoLostWakeup'
  BY DEF IInv, TypeOK, NoLostWakeup, Waiting, Enqueue
<1>4. Teardown'
  BY DEF IInv, Teardown, Enqueue
<1> QED BY <1>1, <1>2, <1>3, <1>4 DEF IInv

(* A dropped task changes nothing but the record of it.                    *)
LEMMA RefuseHolds ==
  ASSUME IInv, NEW thread \in Threads, NEW task \in Tasks, Refuse(thread, task)
  PROVE  IInv'
  BY DEF IInv, TypeOK, NoTaskLost, NoLostWakeup, Waiting, Teardown, Refuse

(* notify_one leaves a worker awake, so no notification is owed after it.  *)
LEMMA NotifyOneHolds ==
  ASSUME IInv, NEW thread \in Threads, NotifyOne(thread)
  PROVE  IInv'
<1>1. TypeOK'
  BY DEF IInv, TypeOK, NotifyOne, Waiting
<1>2. NoTaskLost'
  BY DEF IInv, NoTaskLost, NotifyOne
<1>3. NoLostWakeup'
  BY ThreadsAssumption DEF IInv, TypeOK, NoLostWakeup, Waiting, NotifyOne
<1>4. Teardown'
  BY DEF IInv, TypeOK, Teardown, NotifyOne, Waiting
<1> QED BY <1>1, <1>2, <1>3, <1>4 DEF IInv

(* The steps of a worker preserve IInv.                                    *)
LEMMA WorkerHolds ==
  ASSUME IInv, NEW w \in Workers, WorkerThread(w) \/ SpuriousWake(w) \/ Finish(w)
  PROVE  IInv'
<1>1. CASE Wait(w)
  BY <1>1 DEF IInv, TypeOK, NoTaskLost, NoLostWakeup, Waiting, Teardown, Wait
<1>2. CASE Take(w)
  <2>1. /\ Append(started, Head(taskQueue)) \o Tail(taskQueue) = started \o taskQueue
        /\ Append(started, Head(taskQueue)) \in Seq(Tasks) /\ Tail(taskQueue) \in Seq(Tasks)
    BY <1>2, MovedHead DEF IInv, TypeOK, Take
  <2>2. TypeOK' /\ NoTaskLost'
    BY <1>2, <2>1 DEF IInv, TypeOK, NoTaskLost, Take
  <2>3. NoLostWakeup'
    BY <1>2 DEF IInv, TypeOK, NoLostWakeup, Waiting, Take
  <2>4. Teardown'
    BY <1>2 DEF IInv, TypeOK, Teardown, Take
  <2> QED BY <2>2, <2>3, <2>4 DEF IInv
<1>3. CASE Exit(w)
  BY <1>3 DEF IInv, TypeOK, NoTaskLost, NoLostWakeup, Waiting, Teardown, Exit
<1>4. CASE SpuriousWake(w)
  BY <1>4 DEF IInv, TypeOK, NoTaskLost, NoLostWakeup, Waiting, Teardown, SpuriousWake
<1>5. CASE Finish(w)
  BY <1>5 DEF IInv, TypeOK, NoTaskLost, NoLostWakeup, Waiting, Teardown, Finish
<1> QED BY <1>1, <1>2, <1>3, <1>4, <1>5 DEF WorkerThread

(* The steps of the destructor preserve IInv.                              *)
LEMMA DestructorHolds ==
  ASSUME IInv, Shutdown \/ NotifyAll \/ Join
  PROVE  IInv'
<1>1. CASE Shutdown
  BY <1>1 DEF IInv, TypeOK, NoTaskLost, NoLostWakeup, Waiting, Teardown, Shutdown
<1>2. CASE NotifyAll
  <2>1. TypeOK' /\ NoTaskLost'
    BY <1>2 DEF IInv, TypeOK, NoTaskLost, NotifyAll, Waiting
  <2>2. Waiting' = {}
    BY <1>2 DEF IInv, TypeOK, NotifyAll, Waiting
  <2>3. NoLostWakeup'
    BY <2>2, ThreadsAssumption DEF NoLostWakeup
  <2>4. Teardown'
    BY <1>2 DEF IInv, TypeOK, Teardown, NotifyAll, Waiting
  <2> QED BY <2>1, <2>3, <2>4 DEF IInv
<1>3. CASE Join
  BY <1>3 DEF IInv, TypeOK, NoTaskLost, NoLostWakeup, Waiting, Teardown, Join
<1> QED BY <1>1, <1>2, <1>3

(* Every step of the pool preserves IInv.                                  *)
LEMMA StepHolds ==
  ASSUME IInv, [Next]_poolVars
  PROVE  IInv'
<1>1. CASE SomeEnqueue
  BY <1>1, EnqueueHolds, RefuseHolds DEF SomeEnqueue
<1>2. CASE \E thread \in Threads : NotifyOne(thread)
  BY <1>2, NotifyOneHolds
<1>3. CASE \E w \in Workers : WorkerThread(w) \/ SpuriousWake(w) \/ Finish(w)
  BY <1>3, WorkerHolds
<1>4. CASE Shutdown \/ NotifyAll \/ Join
  BY <1>4, DestructorHolds
<1>5. CASE UNCHANGED poolVars
  BY <1>5 DEF IInv, TypeOK, NoTaskLost, NoLostWakeup, Waiting, Teardown, poolVars
<1>6. CASE Gone
  BY <1>5, <1>6 DEF Gone
<1> QED BY <1>1, <1>2, <1>3, <1>4, <1>5, <1>6 DEF Next

-----------------------------------------------------------------------------

(* IInv holds in every reachable state of the pool.                        *)
THEOREM Invariance == Spec => []IInv
<1>1. Init => IInv
  BY InitHolds
<1>2. IInv /\ [Next]_poolVars => IInv'
  BY StepHolds
<1> QED BY <1>1, <1>2, PTL DEF Spec

(* The pool's state keeps its types.                                       *)
THEOREM TypeCorrect == Spec => []TypeOK
<1>1. IInv => TypeOK
  BY DEF IInv
<1> QED BY <1>1, Invariance, PTL

(* enqueue and workerThread lose, repeat and reorder no task.              *)
THEOREM TasksAreKept == Spec => []NoTaskLost
<1>1. IInv => NoTaskLost
  BY DEF IInv
<1> QED BY <1>1, Invariance, PTL

(* No worker sleeps through a push or the shutdown for good.               *)
THEOREM WakeupsAreKept == Spec => []NoLostWakeup
<1>1. IInv => NoLostWakeup
  BY DEF IInv
<1> QED BY <1>1, Invariance, PTL

(* ~TaskQueue returns with every accepted task started and the workers     *)
(* gone.  Some worker has exited by then, and it did so on an empty queue. *)
THEOREM DestructorDrains == Spec => []Drained
<1>1. IInv => Drained
  <2> SUFFICES ASSUME IInv, destructor = "returned"
      PROVE  started = accepted /\ \A w \in Workers : worker[w] = "exited"
    BY DEF Drained
  <2>1. \A w \in Workers : worker[w] = "exited"
    BY DEF IInv, Teardown
  <2>2. taskQueue = <<>>
    BY <2>1, ThreadsAssumption DEF IInv, Teardown
  <2>3. started \o <<>> = started
    BY ConcatEmptySeq DEF IInv, TypeOK
  <2> QED BY <2>1, <2>2, <2>3 DEF IInv, NoTaskLost
<1> QED BY <1>1, Invariance, PTL

(* Why ~TaskQueue returns if the tasks do: once shutdown_ is set, no task  *)
(* is added and no worker that has exited comes back; each round of a      *)
(* worker takes a task out of the queue or ends the worker; and after      *)
(* notify_all none of them sleeps again, so that those not gone are at it. *)
THEOREM DestructorGoesOn ==
  Spec =>
    /\ [](destructor = "joining" =>
            \A w \in Workers : worker[w] \in {"awake", "running", "exited"})
    /\ [][shutdown =>
            /\ shutdown' /\ accepted' = accepted /\ Len(taskQueue') <= Len(taskQueue)
            /\ \A w \in Workers : worker[w] = "exited" => worker'[w] = "exited"
            /\ \A w \in Workers : WorkerThread(w) =>
                 Len(taskQueue') < Len(taskQueue) \/ worker'[w] = "exited"]_poolVars
<1>1. IInv => (destructor = "joining" =>
                 \A w \in Workers : worker[w] \in {"awake", "running", "exited"})
  BY DEF IInv, NoLostWakeup, Waiting, TypeOK
<1>2. ASSUME IInv, Next, shutdown
      PROVE  /\ shutdown' /\ accepted' = accepted /\ Len(taskQueue') <= Len(taskQueue)
             /\ \A w \in Workers : worker[w] = "exited" => worker'[w] = "exited"
             /\ \A w \in Workers : WorkerThread(w) =>
                  Len(taskQueue') < Len(taskQueue) \/ worker'[w] = "exited"
  <2>1. /\ taskQueue \in Seq(Tasks) /\ destructor # "none" /\ Len(taskQueue) \in Nat
        /\ worker \in [Workers -> {"awake", "waiting", "running", "exited"}]
    BY <1>2, LenProperties DEF IInv, TypeOK, Teardown
  <2>2. ASSUME NEW w \in Workers, Take(w)
        PROVE  Len(taskQueue') < Len(taskQueue)
    BY <2>1, <2>2, EmptySeq, HeadTailProperties DEF Take
  <2>3. ASSUME NEW w \in Workers, WorkerThread(w)
        PROVE  Len(taskQueue') < Len(taskQueue) \/ worker'[w] = "exited"
    BY <1>2, <2>1, <2>2, <2>3 DEF WorkerThread, Wait, Exit
  <2>4. shutdown' /\ accepted' = accepted
    BY <1>2 DEF Next, SomeEnqueue, Enqueue, Refuse, NotifyOne, WorkerThread, Wait, Take, Exit,
       SpuriousWake, Finish, Shutdown, NotifyAll, Join, Gone, poolVars
  <2>5. Len(taskQueue') <= Len(taskQueue)
    <3>1. taskQueue' = taskQueue \/ \E w \in Workers : Take(w)
      BY <1>2 DEF Next, SomeEnqueue, Enqueue, Refuse, NotifyOne, WorkerThread, Wait, Exit,
         SpuriousWake, Finish, Shutdown, NotifyAll, Join, Gone, poolVars
    <3>2. CASE taskQueue' = taskQueue
      BY <2>1, <3>2
    <3>3. CASE \E w \in Workers : Take(w)
      <4>1. Len(taskQueue') < Len(taskQueue) /\ Len(taskQueue') \in Nat
        BY <2>1, <2>2, <3>3, EmptySeq, HeadTailProperties, LenProperties DEF Take
      <4> QED
        BY <2>1, <4>1
    <3> QED
      BY <3>1, <3>2, <3>3
  <2>6. \A w \in Workers : worker[w] = "exited" => worker'[w] = "exited"
    BY <1>2, <2>1 DEF Next, SomeEnqueue, Enqueue, Refuse, NotifyOne, Waiting, WorkerThread, Wait,
       Take, Exit, SpuriousWake, Finish, Shutdown, NotifyAll, Join, Gone, poolVars
  <2> QED
    BY <2>3, <2>4, <2>5, <2>6
<1> QED BY <1>1, <1>2, Invariance, PTL DEF Spec
=============================================================================
