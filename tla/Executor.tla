------------------------------ MODULE Executor ------------------------------
(***************************************************************************)
(* Firestore's worker queue: AsyncQueue over ExecutorLibdispatch and Task. *)
(*                                                                         *)
(* A Task is owned by the executor and by libdispatch, which cannot take   *)
(* back what it was given; both count in ref_count_.  Threads call the     *)
(* executor while the serial dispatch queue runs an operation, and the     *)
(* operation calls it too: it may cancel itself or dispose of the queue.   *)
(*                                                                         *)
(* A step is what one thread does under one mutex.  An operation that ran  *)
(* keeps the mutex of its task until it has told the executor.             *)
(***************************************************************************)
EXTENDS Naturals

CONSTANTS
  Tasks,    (* the Task objects                                             *)
  Threads,  (* the threads that call the executor                           *)
  Queue,    (* the one of them that runs the operations                     *)
  None      (* no task                                                      *)

ASSUME ExecutorAssumption == Queue \in Threads /\ None \notin Tasks

VARIABLES
  mode,        (* AsyncQueue.mode_                                          *)
  entering,    (* the task a thread has put in tasks_ and not dispatched;   *)
               (* it holds the mutex of AsyncQueue meanwhile                *)
  tasks,       (* tasks_                                                    *)
  schedule,    (* the tasks in schedule_                                    *)
  held,        (* what a thread took out of tasks_ to cancel                *)
  cancelling,  (* the task whose Cancel the thread is in                    *)
  state,       (* Task.state_, "new" before the constructor                 *)
  refs,        (* Task.ref_count_, 0 when the task is deleted               *)
  attached,    (* Task.executor_ is not null                                *)
  dispatched,  (* what libdispatch is to run                                *)
  current,     (* the task in ExecuteAndRelease                             *)
  step,        (* how far it has come                                       *)
  destroyed    (* the executor is                                           *)

calls == << entering, held, cancelling >>
task  == << state, refs, attached >>
queue == << dispatched, current, step >>
vars  == << mode, calls, tasks, schedule, task, queue, destroyed >>

Init ==
  /\ mode = "running"
  /\ entering = [c \in Threads |-> None]
  /\ tasks = {} /\ schedule = {}
  /\ held = [c \in Threads |-> {}]
  /\ cancelling = [c \in Threads |-> None]
  /\ state = [t \in Tasks |-> "new"]
  /\ refs = [t \in Tasks |-> 0]
  /\ attached = [t \in Tasks |-> FALSE]
  /\ dispatched = {} /\ current = None /\ step = "idle"
  /\ destroyed = FALSE
-----------------------------------------------------------------------------
Busy(c) == entering[c] # None \/ held[c] # {}

(* A thread may make a call; the queue's thread makes it from an operation.*)
CanCall(c) == ~Busy(c) /\ ~destroyed /\ (c = Queue => step = "operation")

MutexFree == \A c \in Threads : entering[c] = None

(* ExecuteAndRelease holds the mutex of the task.                          *)
Locked(t) == current = t /\ step = "completing"

EnterRestrictedMode(c) ==
  /\ CanCall(c) /\ c # Queue /\ MutexFree
  /\ mode = "running"
  /\ mode' = "restricted"
  /\ UNCHANGED << calls, tasks, schedule, task, queue, destroyed >>

(* Task::Create and the insertion, under the mutexes of both.  Only an     *)
(* operation schedules.                                                    *)
Insert(c, t, delayed) ==
  /\ state[t] = "new"
  /\ state' = [state EXCEPT ![t] = "initial"]
  /\ refs' = [refs EXCEPT ![t] = 1]
  /\ attached' = [attached EXCEPT ![t] = TRUE]
  /\ tasks' = tasks \cup {t}
  /\ schedule' = IF delayed THEN schedule \cup {t} ELSE schedule
  /\ entering' = [entering EXCEPT ![c] = t]
  /\ UNCHANGED << mode, held, cancelling, queue, destroyed >>

(* EnqueueRelaxed, and EnqueueEvenWhileRestricted of the other threads.    *)
Enqueue(c, t) ==
  /\ CanCall(c) /\ MutexFree
  /\ mode = "running" \/ (mode = "restricted" /\ c # Queue)
  /\ Insert(c, t, FALSE)

EnqueueAfterDelay(c, t) ==
  /\ CanCall(c) /\ MutexFree
  /\ c = Queue
  /\ mode = "running"
  /\ Insert(c, t, TRUE)

(* Retain and dispatch_async_f, still under AsyncQueue's mutex.            *)
Dispatch(c) ==
  LET t == entering[c]
  IN /\ t # None
     /\ refs' = [refs EXCEPT ![t] = @ + 1]
     /\ dispatched' = dispatched \cup {t}
     /\ entering' = [entering EXCEPT ![c] = None]
     /\ UNCHANGED << mode, held, cancelling, tasks, schedule, state, attached,
                     current, step, destroyed >>

(* Schedule returns the DelayedOperation after it has dispatched the task. *)
HasHandle(t) == \A c \in Threads : entering[c] # t

(* Executor::Cancel finds the task and takes it.                           *)
Cancel_LeavesTasks(c, t) ==
  /\ CanCall(c)
  /\ t \in schedule /\ HasHandle(t)
  /\ schedule' = schedule \ {t}
  /\ held' = [held EXCEPT ![c] = {t}]
  /\ UNCHANGED << mode, tasks, entering, cancelling, task, queue, destroyed >>

Cancel(c, t) ==
  /\ CanCall(c)
  /\ t \in schedule /\ HasHandle(t)
  /\ schedule' = schedule \ {t}
  /\ tasks' = tasks \ {t}
  /\ held' = [held EXCEPT ![c] = {t}]
  /\ UNCHANGED << mode, entering, cancelling, task, queue, destroyed >>

(* AsyncQueue::Dispose closes the queue and then, under its own mutex, the *)
(* executor takes all tasks: in between a thread can only do what it could *)
(* have done before, for whoever enqueues finds the queue closed.          *)
Dispose_WithoutMutex(c) ==
  /\ CanCall(c)
  /\ mode' = "disposed"
  /\ held' = [held EXCEPT ![c] = tasks]
  /\ tasks' = {} /\ schedule' = {}
  /\ UNCHANGED << entering, cancelling, task, queue, destroyed >>

Dispose(c) ==
  /\ CanCall(c) /\ MutexFree
  /\ mode' = "disposed"
  /\ held' = [held EXCEPT ![c] = tasks]
  /\ tasks' = {} /\ schedule' = {}
  /\ UNCHANGED << entering, cancelling, task, queue, destroyed >>

(* Task::Cancel of a task that was taken.                                  *)
TaskCancel_StaysAttached(c, t) ==
  /\ t \in held[c] /\ cancelling[c] = None /\ ~Locked(t)
  /\ cancelling' = [cancelling EXCEPT ![c] = t]
  /\ state' = [state EXCEPT ![t] = IF @ = "initial" THEN "cancelled" ELSE @]
  /\ attached' = [attached EXCEPT ![t] = @ /\ state[t] # "initial"]
  /\ UNCHANGED << mode, entering, held, tasks, schedule, refs, queue, destroyed >>

TaskCancel(c, t) ==
  /\ t \in held[c] /\ cancelling[c] = None /\ ~Locked(t)
  /\ cancelling' = [cancelling EXCEPT ![c] = t]
  /\ state' = [state EXCEPT ![t] = IF @ = "initial" THEN "cancelled" ELSE @]
  /\ attached' = [attached EXCEPT ![t] = @ /\ state[t] \notin {"initial", "running"}]
  /\ UNCHANGED << mode, entering, held, tasks, schedule, refs, queue, destroyed >>

(* AwaitLocked, unless the task is cancelled from its own operation.       *)
Awaited_OwnToo(c, t) == state[t] # "running" /\ ~Locked(t)

Awaited_Never(c, t) == ~Locked(t)

Awaited(c, t) == c = Queue \/ (state[t] # "running" /\ ~Locked(t))

(* Task::Cancel returns, and the caller releases the task.                 *)
ReleaseTaken(c) ==
  LET t == cancelling[c]
  IN /\ t # None
     /\ Awaited(c, t)
     /\ refs' = [refs EXCEPT ![t] = @ - 1]
     /\ held' = [held EXCEPT ![c] = @ \ {t}]
     /\ cancelling' = [cancelling EXCEPT ![c] = None]
     /\ UNCHANGED << mode, entering, tasks, schedule, state, attached, queue, destroyed >>

(* The last reference to the AsyncQueue is dropped, perhaps by an          *)
(* operation.  Its destructor disposes of it first.                        *)
Destroy(c) ==
  /\ CanCall(c) /\ mode = "disposed"
  /\ \A d \in Threads : ~Busy(d)
  /\ destroyed' = TRUE
  /\ UNCHANGED << mode, calls, tasks, schedule, task, queue >>
-----------------------------------------------------------------------------
(* ExecuteAndRelease on the dispatch queue.                                *)
Execute(t) ==
  /\ current = None /\ t \in dispatched
  /\ dispatched' = dispatched \ {t}
  /\ current' = t
  /\ IF state[t] = "initial"
     THEN step' = "operation" /\ state' = [state EXCEPT ![t] = "running"]
     ELSE step' = "releasing" /\ UNCHANGED state
  /\ UNCHANGED << mode, calls, tasks, schedule, refs, attached, destroyed >>

(* The operation returns.                                                  *)
Finish ==
  /\ step = "operation" /\ ~Busy(Queue)
  /\ state' = [state EXCEPT ![current] = "done"]
  /\ step' = IF attached[current] THEN "completing" ELSE "releasing"
  /\ UNCHANGED << mode, calls, tasks, schedule, refs, attached, dispatched, current,
                  destroyed >>

(* OnCompletion releases the task unless someone has taken it.             *)
OnCompletion ==
  /\ step = "completing"
  /\ refs' = IF current \in tasks THEN [refs EXCEPT ![current] = @ - 1] ELSE refs
  /\ tasks' = tasks \ {current} /\ schedule' = schedule \ {current}
  /\ step' = "releasing"
  /\ UNCHANGED << mode, calls, state, attached, dispatched, current, destroyed >>

Release ==
  /\ step = "releasing"
  /\ refs' = [refs EXCEPT ![current] = @ - 1]
  /\ current' = None /\ step' = "idle"
  /\ UNCHANGED << mode, calls, tasks, schedule, state, attached, dispatched, destroyed >>
-----------------------------------------------------------------------------
Continue(c) == Dispatch(c) \/ ReleaseTaken(c) \/ \E t \in Tasks : TaskCancel(c, t)

RunTask == (\E t \in Tasks : Execute(t)) \/ Finish \/ OnCompletion \/ Release

Next ==
  \/ \E c \in Threads :
       \/ EnterRestrictedMode(c) \/ Dispose(c) \/ Destroy(c) \/ Continue(c)
       \/ \E t \in Tasks : Enqueue(c, t) \/ EnqueueAfterDelay(c, t) \/ Cancel(c, t)
  \/ RunTask

Spec == Init /\ [][Next]_vars

(* The threads run, operations return, and the dispatch queue runs what is *)
(* due.                                                                    *)
FairSpec == Spec /\ WF_vars(RunTask) /\ \A c \in Threads : WF_vars(Continue(c))
-----------------------------------------------------------------------------
(* The values the variables take.                                          *)
TypeOK ==
  /\ mode \in {"running", "restricted", "disposed"}
  /\ entering \in [Threads -> Tasks \cup {None}]
  /\ tasks \subseteq Tasks /\ schedule \subseteq tasks
  /\ held \in [Threads -> SUBSET Tasks]
  /\ cancelling \in [Threads -> Tasks \cup {None}]
  /\ state \in [Tasks -> {"new", "initial", "cancelled", "running", "done"}]
  /\ refs \in [Tasks -> Nat]
  /\ attached \in [Tasks -> BOOLEAN]
  /\ dispatched \subseteq Tasks
  /\ current \in Tasks \cup {None}
  /\ step \in {"idle", "operation", "completing", "releasing"}
  /\ destroyed \in BOOLEAN

(* The executor's side owns a task through tasks_ or through the one call  *)
(* that took it out, libdispatch owns it until ExecuteAndRelease is over,  *)
(* and ref_count_ counts these two                                         *)
(* (executor_libdispatch.mm:71-89, task.cc:65-86).                         *)
Taken(t) == \E c \in Threads : t \in held[c]
OneIf(b) == IF b THEN 1 ELSE 0

RefCountIsOwners ==
  \A t \in Tasks :
    refs[t] = OneIf(t \in tasks \/ Taken(t)) + OneIf(t \in dispatched \/ current = t)

(* Whoever has a pointer to a task and is going to use it finds it there,  *)
(* the enqueueing thread included, which has no reference of its own       *)
(* between the insertion and Retain                                        *)
(* (executor_libdispatch.mm:103-116, executor_libdispatch.h:103-111).      *)
NoUseAfterFree ==
  \A t \in Tasks :
    (\/ t \in tasks \cup dispatched \cup {current} \/ Taken(t)
     \/ \E c \in Threads : t \in {entering[c], cancelling[c]}) => refs[t] > 0

(* Once every Dispose and Cancel on a disposed queue is over, no operation *)
(* will start and no task will call the executor, which may be destroyed:  *)
(* an operation still runs only if it was cancelled by itself or disposed  *)
(* of the queue (executor.h:75-86, task.h:113-124).                        *)
QuietAfterDispose ==
  mode = "disposed" /\ (\A c \in Threads : held[c] = {}) =>
    /\ \A t \in Tasks : state[t] # "initial" /\ (state[t] = "running" => ~attached[t])
    /\ destroyed => step # "completing"

(* When Cancel or Dispose lets go of a task, its operation has ended or    *)
(* will never run, and it does not run on, except for the caller's own     *)
(* (task.cc:167-200).                                                      *)
CancelWaits ==
  [][\A c \in Threads, t \in Tasks :
       t \in held[c] /\ t \notin held'[c] =>
         state[t] \in {"cancelled", "done"} \/ (c = Queue /\ t = current)]_vars

(* Every task is deleted in the end: no thread waits for ever, and no      *)
(* reference is forgotten.                                                 *)
TasksFreed == \A t \in Tasks : refs[t] > 0 ~> refs[t] = 0
=============================================================================
