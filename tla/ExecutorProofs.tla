--------------------------- MODULE ExecutorProofs ---------------------------
(***************************************************************************)
(* For any number of tasks and threads: the reference counts of the        *)
(* executor are right, no task is used after it was deleted, a disposed    *)
(* queue is quiet, and Cancel waits for what it cancels.                   *)
(***************************************************************************)
EXTENDS Executor, TLAPS

(* What a thread in a call has in its hands.                               *)
Calls ==
  \A c \in Threads :
    /\ entering[c] # None =>
         /\ entering[c] \in tasks /\ entering[c] \notin dispatched /\ entering[c] # current
         /\ \A d \in Threads : entering[d] # None => c = d
    /\ cancelling[c] # None =>
         /\ cancelling[c] \in held[c]
         /\ state[cancelling[c]] # "initial"
         /\ state[cancelling[c]] = "running" => ~attached[cancelling[c]]
    /\ held[c] \cap tasks = {}
    /\ \A d \in Threads : c # d => held[c] \cap held[d] = {}

(* Where the tasks are that may still run.                                 *)
Places ==
  \A t \in Tasks :
    /\ state[t] = "new" => t \notin tasks \cup dispatched \cup {current} /\ ~Taken(t)
    /\ state[t] = "initial" => t \in tasks \/ Taken(t)
    /\ state[t] = "running" =>
         /\ t = current /\ step = "operation"
         /\ attached[t] => t \in tasks \/ Taken(t)

(* The dispatch queue.                                                     *)
Running ==
  /\ current \notin dispatched
  /\ current = None <=> step = "idle"
  /\ step = "operation" => state[current] = "running"
  /\ step = "completing" => /\ state[current] = "done"
                            /\ current \in tasks \/ Taken(current)
  /\ step # "operation" => ~Busy(Queue)

(* The end of the executor.                                                *)
Closed ==
  /\ mode = "disposed" => tasks = {}
  /\ destroyed => mode = "disposed" /\ \A c \in Threads : ~Busy(c)

IInv == TypeOK /\ Calls /\ Places /\ Running /\ Closed /\ RefCountIsOwners
-----------------------------------------------------------------------------
(* Nothing is enqueued at first.                                           *)
LEMMA InitIInv == Init => IInv
<1> SUFFICES ASSUME Init PROVE IInv
  OBVIOUS
<1> USE ExecutorAssumption DEF Init
<1>1. TypeOK
  BY DEF TypeOK
<1>2. Calls /\ Closed
  BY DEF Calls, Closed, Busy
<1>3. Places /\ Running
  BY DEF Places, Running, Taken, Busy
<1>4. RefCountIsOwners
  <2> SUFFICES ASSUME NEW t \in Tasks
               PROVE  refs[t] = OneIf(t \in tasks \/ Taken(t))
                                  + OneIf(t \in dispatched \/ current = t)
    BY DEF RefCountIsOwners
  <2>1. ~(t \in tasks \/ Taken(t)) /\ ~(t \in dispatched \/ current = t)
    BY DEF Taken
  <2>2. refs[t] = 0
    OBVIOUS
  <2>3. QED BY <2>1, <2>2 DEF OneIf
<1>5. QED BY <1>1, <1>2, <1>3, <1>4 DEF IInv

(* A restricted queue still has every task where it was.                   *)
LEMMA EnterRestrictedModeStep ==
  ASSUME IInv, NEW c \in Threads, EnterRestrictedMode(c)
  PROVE  IInv'
<1> USE DEF IInv, calls, task, queue, EnterRestrictedMode
<1>1. TypeOK'
  BY DEF TypeOK
<1>2. Calls'
  BY DEF Calls
<1>3. Places'
  BY DEF Places, Taken
<1>4. Running'
  BY DEF Running, Taken, Busy
<1>5. Closed'
  BY DEF Closed, CanCall
<1>6. RefCountIsOwners'
  BY DEF RefCountIsOwners, Taken
<1>7. QED
  BY <1>1, <1>2, <1>3, <1>4, <1>5, <1>6

(* A new task comes into tasks_ with the one reference of the executor.    *)
LEMMA InsertStep ==
  ASSUME IInv, NEW c \in Threads, NEW t \in Tasks, NEW delayed \in BOOLEAN,
         CanCall(c), MutexFree, mode # "disposed", Insert(c, t, delayed)
  PROVE  IInv'
<1> USE DEF IInv, queue, Insert
<1>1. TypeOK'
  BY DEF TypeOK
<1>2. Calls'
  BY DEF Calls, Places, Taken, MutexFree
<1>3. Places'
  BY DEF TypeOK, Places, Taken
<1>4. Running'
  BY DEF Running, Taken, Busy, CanCall
<1>5. Closed'
  BY DEF Closed, CanCall
<1>6. RefCountIsOwners'
  BY DEF TypeOK, Places, RefCountIsOwners, Taken, OneIf
<1>7. QED
  BY <1>1, <1>2, <1>3, <1>4, <1>5, <1>6

(* libdispatch becomes the second owner of a task nobody can have taken,   *)
(* for the thread holds the mutex of AsyncQueue.                           *)
LEMMA DispatchStep ==
  ASSUME IInv, NEW c \in Threads, Dispatch(c)
  PROVE  IInv'
<1> USE DEF IInv, Dispatch
<1>1. TypeOK'
  BY DEF TypeOK
<1>2. Calls'
  BY DEF TypeOK, Calls
<1>3. Places'
  BY DEF Calls, Places, Taken
<1>4. Running'
  BY DEF Calls, Running, Taken, Busy
<1>5. Closed'
  BY DEF Closed, Busy
<1>6. RefCountIsOwners'
  BY DEF TypeOK, Calls, RefCountIsOwners, Taken, OneIf
<1>7. QED
  BY <1>1, <1>2, <1>3, <1>4, <1>5, <1>6

(* The reference of tasks_ passes to the call that took the task.          *)
LEMMA CancelStep ==
  ASSUME IInv, NEW c \in Threads, NEW t \in Tasks, Cancel(c, t)
  PROVE  IInv'
<1> USE DEF IInv, task, queue, Cancel
<1>1. TypeOK'
  BY DEF TypeOK
<1>2. Calls'
  BY DEF TypeOK, Calls, Busy, CanCall, HasHandle
<1>3. Places'
  BY DEF TypeOK, Places, Taken, Busy, CanCall
<1>4. Running'
  BY DEF TypeOK, Running, Taken, Busy, CanCall
<1>5. Closed'
  BY DEF Closed, CanCall
<1>6. RefCountIsOwners'
  BY DEF TypeOK, RefCountIsOwners, Taken, Busy, CanCall
<1>7. QED
  BY <1>1, <1>2, <1>3, <1>4, <1>5, <1>6

(* The references of tasks_ pass to the call, and no thread is left that   *)
(* would insert another task.                                              *)
LEMMA DisposeStep ==
  ASSUME IInv, NEW c \in Threads, Dispose(c)
  PROVE  IInv'
<1> USE DEF IInv, task, queue, Dispose
<1>1. TypeOK'
  BY DEF TypeOK
<1>2. Calls'
  BY DEF Calls, Busy, CanCall, MutexFree
<1>3. Places'
  BY DEF TypeOK, Places, Taken, Busy, CanCall
<1>4. Running'
  BY DEF TypeOK, Running, Taken, Busy, CanCall
<1>5. Closed'
  BY DEF Closed, CanCall
<1>6. RefCountIsOwners'
  BY DEF TypeOK, RefCountIsOwners, Taken, Busy, CanCall
<1>7. QED
  BY <1>1, <1>2, <1>3, <1>4, <1>5, <1>6

(* A task that is cancelled in time will not run, one that runs will not   *)
(* call the executor.                                                      *)
LEMMA TaskCancelStep ==
  ASSUME IInv, NEW c \in Threads, NEW t \in Tasks, TaskCancel(c, t)
  PROVE  IInv'
<1> USE DEF IInv, queue, TaskCancel
<1>1. TypeOK'
  BY DEF TypeOK
<1>2. Calls'
  BY DEF TypeOK, Calls, Closed, Busy
<1>3. Places'
  BY DEF Places, Taken
<1>4. Running'
  BY DEF Running, Taken, Busy
<1>5. Closed'
  BY DEF Closed, Busy
<1>6. RefCountIsOwners'
  BY DEF RefCountIsOwners, Taken
<1>7. QED
  BY <1>1, <1>2, <1>3, <1>4, <1>5, <1>6

(* The call gives back the reference it took, and no other call holds the  *)
(* task.                                                                   *)
LEMMA ReleaseTakenStep ==
  ASSUME IInv, NEW c \in Threads, ReleaseTaken(c)
  PROVE  IInv'
<1> USE DEF IInv, queue, ReleaseTaken
<1>1. TypeOK'
  BY DEF TypeOK, Calls, RefCountIsOwners, Taken, OneIf
<1>2. Calls'
  BY DEF TypeOK, Calls
<1>3. Places'
  BY DEF Calls, Places, Taken
<1>4. Running'
  BY DEF Running, Taken, Busy, Awaited, Locked
<1>5. Closed'
  BY DEF Closed, Busy
<1>6. RefCountIsOwners'
  BY DEF TypeOK, Calls, RefCountIsOwners, Taken, OneIf
<1>7. QED
  BY <1>1, <1>2, <1>3, <1>4, <1>5, <1>6

(* The executor goes when nobody is in a call.                             *)
LEMMA DestroyStep ==
  ASSUME IInv, NEW c \in Threads, Destroy(c)
  PROVE  IInv'
<1> USE DEF IInv, calls, task, queue, Destroy
<1>1. TypeOK'
  BY DEF TypeOK
<1>2. Calls'
  BY DEF Calls
<1>3. Places'
  BY DEF Places, Taken
<1>4. Running'
  BY DEF Running, Taken, Busy
<1>5. Closed'
  BY DEF Closed, Busy
<1>6. RefCountIsOwners'
  BY DEF RefCountIsOwners, Taken
<1>7. QED
  BY <1>1, <1>2, <1>3, <1>4, <1>5, <1>6

(* A task starts once: libdispatch's reference is now that of              *)
(* ExecuteAndRelease.                                                      *)
LEMMA ExecuteStep ==
  ASSUME IInv, NEW t \in Tasks, Execute(t)
  PROVE  IInv'
<1> USE DEF IInv, calls, Execute
<1>1. TypeOK'
  BY DEF TypeOK
<1>2. Calls'
  BY DEF TypeOK, Calls
<1>3. Places'
  BY DEF TypeOK, Places, Running, Taken
<1>4. Running'
  BY DEF TypeOK, Running, Busy
<1>5. Closed'
  BY DEF Closed, Busy
<1>6. RefCountIsOwners'
  BY ExecutorAssumption DEF RefCountIsOwners, Taken
<1>7. QED
  BY <1>1, <1>2, <1>3, <1>4, <1>5, <1>6

(* An operation that returns reports to the executor only if nobody has    *)
(* cancelled it.                                                           *)
LEMMA FinishStep ==
  ASSUME IInv, Finish
  PROVE  IInv'
<1> USE DEF IInv, calls, Finish
<1>1. TypeOK'
  BY DEF TypeOK
<1>2. Calls'
  BY DEF Calls
<1>3. Places'
  BY DEF TypeOK, Places, Taken
<1>4. Running'
  BY DEF TypeOK, Places, Running, Taken, Busy
<1>5. Closed'
  BY DEF Closed, Busy
<1>6. RefCountIsOwners'
  BY DEF RefCountIsOwners, Taken
<1>7. QED
  BY <1>1, <1>2, <1>3, <1>4, <1>5, <1>6

(* The executor gives back its reference unless someone has taken it.      *)
LEMMA OnCompletionStep ==
  ASSUME IInv, OnCompletion
  PROVE  IInv'
<1> USE DEF IInv, calls, OnCompletion
<1>1. TypeOK'
  BY DEF TypeOK, RefCountIsOwners, OneIf
<1>2. Calls'
  BY DEF Calls
<1>3. Places'
  BY DEF Places, Running, Taken
<1>4. Running'
  BY DEF Running, Busy
<1>5. Closed'
  BY DEF Closed, Busy
<1>6. RefCountIsOwners'
  BY DEF TypeOK, Calls, RefCountIsOwners, Taken, OneIf
<1>7. QED
  BY <1>1, <1>2, <1>3, <1>4, <1>5, <1>6

(* The last step of ExecuteAndRelease gives back libdispatch's reference.  *)
LEMMA ReleaseStep ==
  ASSUME IInv, Release
  PROVE  IInv'
<1> USE DEF IInv, calls, Release
<1>1. TypeOK'
  BY DEF TypeOK, Running, RefCountIsOwners, OneIf
<1>2. Calls'
  BY DEF Calls
<1>3. Places'
  BY ExecutorAssumption DEF Places, Taken
<1>4. Running'
  BY ExecutorAssumption DEF TypeOK, Running, Busy
<1>5. Closed'
  BY DEF Closed, Busy
<1>6. RefCountIsOwners'
  BY ExecutorAssumption DEF TypeOK, Running, RefCountIsOwners, Taken, OneIf
<1>7. QED
  BY <1>1, <1>2, <1>3, <1>4, <1>5, <1>6

(* No step of any thread breaks the invariant.                             *)
LEMMA NextIInv ==
  ASSUME IInv, [Next]_vars
  PROVE  IInv'
<1>1. CASE UNCHANGED vars
  BY <1>1 DEF IInv, TypeOK, Calls, Places, Running, Closed, RefCountIsOwners,
              Taken, OneIf, Busy, vars, calls, task, queue
<1>2. ASSUME NEW c \in Threads, EnterRestrictedMode(c) PROVE IInv'
  BY <1>2, EnterRestrictedModeStep
<1>3. ASSUME NEW c \in Threads, Dispose(c) PROVE IInv'
  BY <1>3, DisposeStep
<1>4. ASSUME NEW c \in Threads, Destroy(c) PROVE IInv'
  BY <1>4, DestroyStep
<1>5. ASSUME NEW c \in Threads, Continue(c) PROVE IInv'
  BY <1>5, DispatchStep, ReleaseTakenStep, TaskCancelStep DEF Continue
<1>6. ASSUME NEW c \in Threads, NEW t \in Tasks, Enqueue(c, t) PROVE IInv'
  BY <1>6, InsertStep DEF Enqueue
<1>7. ASSUME NEW c \in Threads, NEW t \in Tasks, EnqueueAfterDelay(c, t) PROVE IInv'
  BY <1>7, InsertStep DEF EnqueueAfterDelay
<1>8. ASSUME NEW c \in Threads, NEW t \in Tasks, Cancel(c, t) PROVE IInv'
  BY <1>8, CancelStep
<1>9. CASE RunTask
  BY <1>9, ExecuteStep, FinishStep, OnCompletionStep, ReleaseStep DEF RunTask
<1>10. QED
  BY <1>1, <1>2, <1>3, <1>4, <1>5, <1>6, <1>7, <1>8, <1>9 DEF Next

(* The reference counts, the life of the tasks and the disposal agree in   *)
(* every reachable state, for any number of tasks and threads.             *)
THEOREM Invariance == Spec => []IInv
<1>1. IInv /\ [Next]_vars => IInv'
  BY NextIInv
<1>2. QED BY <1>1, InitIInv, PTL DEF Spec

(* Every variable of the executor has its type.                            *)
THEOREM TypeCorrect == Spec => []TypeOK
<1>1. IInv => TypeOK
  BY DEF IInv
<1>2. QED BY <1>1, Invariance, PTL

(* ref_count_ is the number of owners of a task (task.cc:65-86).           *)
THEOREM RefCountsCorrect == Spec => []RefCountIsOwners
<1>1. IInv => RefCountIsOwners
  BY DEF IInv
<1>2. QED BY <1>1, Invariance, PTL

(* No thread and no list points to a deleted task                          *)
(* (executor_libdispatch.h:109-114).                                       *)
THEOREM NoTaskUsedAfterFree == Spec => []NoUseAfterFree
<1>1. IInv => NoUseAfterFree
  <2> SUFFICES ASSUME IInv, NEW t \in Tasks,
                      \/ t \in tasks \cup dispatched \cup {current} \/ Taken(t)
                      \/ \E c \in Threads : t \in {entering[c], cancelling[c]}
               PROVE  refs[t] > 0
    BY DEF NoUseAfterFree
  <2>1. ASSUME NEW c \in Threads, t = entering[c] PROVE t \in tasks
    BY <2>1, ExecutorAssumption DEF IInv, Calls
  <2>2. ASSUME NEW c \in Threads, t = cancelling[c] PROVE Taken(t)
    BY <2>2, ExecutorAssumption DEF IInv, Calls, Taken
  <2>3. t \in tasks \/ t \in dispatched \/ current = t \/ Taken(t)
    BY <2>1, <2>2
  <2>4. QED BY <2>3 DEF IInv, RefCountIsOwners, OneIf
<1>2. QED BY <1>1, Invariance, PTL

(* A queue whose disposal is over starts nothing and is not called back    *)
(* (executor.h:75-86).                                                     *)
THEOREM DisposedIsQuiet == Spec => []QuietAfterDispose
<1>1. IInv => QuietAfterDispose
  BY ExecutorAssumption
  DEF IInv, QuietAfterDispose, Calls, Places, Running, Closed, Taken, Busy, TypeOK
<1>2. QED BY <1>1, Invariance, PTL

(* What a Cancel or a Dispose gives back does not run and will not         *)
(* (task.cc:167-200).                                                      *)
THEOREM CancelWaitsAlways == Spec => CancelWaits
<1> DEFINE Waits(c, t) == t \in held[c] /\ t \notin held'[c] =>
                            state[t] \in {"cancelled", "done"} \/ (c = Queue /\ t = current)
<1>1. ASSUME IInv, [Next]_vars, NEW c \in Threads, NEW t \in Tasks
      PROVE  Waits(c, t)
  <2>1. SUFFICES ASSUME t \in held[c], t \notin held'[c] PROVE Waits(c, t)
    OBVIOUS
  <2>2. ReleaseTaken(c) /\ t = cancelling[c]
    <3>1. ~UNCHANGED held
      BY <2>1
    <3>2. \A d \in Threads : ~EnterRestrictedMode(d) /\ ~Destroy(d) /\ ~Dispatch(d)
      BY <3>1 DEF EnterRestrictedMode, Destroy, Dispatch, calls
    <3>3. ~RunTask
      BY <3>1 DEF RunTask, Execute, Finish, OnCompletion, Release, calls
    <3>4. \A d \in Threads, u \in Tasks :
            ~Enqueue(d, u) /\ ~EnqueueAfterDelay(d, u) /\ ~TaskCancel(d, u)
      BY <3>1 DEF Enqueue, EnqueueAfterDelay, Insert, TaskCancel
    <3>5. \A d \in Threads, u \in Tasks : ~Cancel(d, u) /\ ~Dispose(d)
      BY <1>1, <2>1 DEF Cancel, Dispose, CanCall, Busy, IInv, TypeOK
    <3>6. PICK d \in Threads : ReleaseTaken(d)
      BY <1>1, <3>1, <3>2, <3>3, <3>4, <3>5 DEF Next, Continue, vars, calls
    <3>7. d = c /\ t = cancelling[c]
      BY <1>1, <2>1, <3>6 DEF ReleaseTaken, IInv, TypeOK
    <3>8. QED BY <3>6, <3>7
  <2>3. state[t] \notin {"new", "initial"}
    BY <1>1, <2>1, <2>2, ExecutorAssumption DEF IInv, Calls, Places, Taken, ReleaseTaken
  <2>4. state[t] = "running" => t = current
    BY <1>1 DEF IInv, Places
  <2>5. c = Queue \/ state[t] # "running"
    BY <2>2 DEF ReleaseTaken, Awaited
  <2>6. QED BY <1>1, <2>3, <2>4, <2>5 DEF IInv, TypeOK
<1>2. IInv /\ [Next]_vars => \A c \in Threads, t \in Tasks : Waits(c, t)
  BY <1>1
<1>3. QED BY <1>2, Invariance, PTL DEF Spec, CancelWaits
=============================================================================
