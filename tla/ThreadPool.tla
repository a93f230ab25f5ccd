----------------------------- MODULE ThreadPool -----------------------------
(***************************************************************************)
(* The thread pool of threadpool/uc_threadpool.c.                          *)
(*                                                                         *)
(* Worker threads and caller threads share the pool structure under one    *)
(* mutex (lock) and one condition variable (cond_task).  Every critical    *)
(* section of the code is one action; the actions that need the mutex are  *)
(* guarded by LockFree.  cond_task is the set of threads asleep in         *)
(* pthread_cond_wait: workers that found no task and callers that found    *)
(* the queue full sleep on the same condition variable, and                *)
(* pthread_cond_signal wakes an arbitrary one of them.                     *)
(*                                                                         *)
(* A member of Tasks stands for one call of uc_threadpool_add_void_task or *)
(* uc_threadpool_insert_void_task_at_head, so it is submitted once.  The   *)
(* pool is closed at most once: the header says that close releases it.    *)
(***************************************************************************)
EXTENDS Naturals, Sequences, FiniteSets

CONSTANTS
    Workers,     \* the threads the system can run for the pool at a time
    Callers,     \* the threads that call the pool's functions
    Tasks,       \* the tasks, one per call that adds one
    ThreadMin,   \* thr_num_min of uc_threadpool_create
    ThreadMax,   \* thr_num_max of uc_threadpool_create
    MaxChoices,  \* the limits uc_threadpool_set_task_max is called with
    Closers,     \* the callers that may call uc_threadpool_close
    Endless,     \* the tasks whose function never returns
    Faults,      \* whether malloc and pthread_create may fail
    None         \* no task, no thread

ASSUME ConstantsAssumption ==
    /\ IsFiniteSet(Workers) /\ IsFiniteSet(Tasks)
    /\ Workers \cap Callers = {}
    /\ ThreadMin \in Nat /\ ThreadMax \in Nat \ {0}
    /\ ThreadMin <= ThreadMax /\ ThreadMax <= Cardinality(Workers)
    /\ MaxChoices \subseteq Nat
    /\ Closers \subseteq Callers
    /\ Endless \subseteq Tasks
    /\ Faults \in BOOLEAN
    /\ None \notin Workers \cup Callers \cup Tasks

VARIABLES
    \* struct uc_threadpool_s
    lock,           \* the caller that returned without unlocking, or None
    cond_task,      \* the threads asleep on the condition variable
    list_task,      \* the queued tasks, head first
    list_task_ttl,  \* their counter
    list_task_max,  \* the limit of the queue, 0 for none
    list_free,      \* the number of recycled task nodes
    thread_alive,   \* the counter of running worker threads
    list_pid,       \* the threads close has not begun to join
    shutdown,
    \* the threads
    wpc,            \* where a worker is in uc_threadpool_thread_work
    task,           \* the task a worker has taken
    cpc,            \* the call a caller is in
    adding,         \* the task a blocked caller is adding
    front,          \* whether it goes to the head of the queue
    joining,        \* the thread close is joining
    \* history
    done, dropped, refused,  \* what became of the tasks
    closed,         \* close has returned
    overlap,        \* close began while a call adding a task was under way
    drained         \* wait_task_done returned before close and no add began since

pool == <<lock, cond_task, list_task, list_task_ttl, list_task_max, list_free,
          thread_alive, list_pid, shutdown>>
worker == <<wpc, task>>
caller == <<cpc, adding, front, joining>>
history == <<done, dropped, refused, closed, overlap, drained>>
vars == <<pool, worker, caller, history>>

-----------------------------------------------------------------------------
Idle == {w \in Workers : wpc[w] = "ready" /\ w \notin cond_task}
Threads == {w \in Workers : wpc[w] # "none"}
Live == {w \in Workers : wpc[w] \in {"ready", "running", "recycling"}}
Running == {t \in Tasks : \E w \in Workers : wpc[w] = "running" /\ task[w] = t}
Queued == {list_task[i] : i \in DOMAIN list_task}
Blocked == {t \in Tasks : \E c \in Callers : adding[c] = t}
Fresh == Tasks \ (Blocked \cup Queued \cup Running \cup done \cup dropped \cup refused)

TypeOK ==
    /\ lock \in Callers \cup {None}
    /\ cond_task \subseteq Workers \cup Callers
    /\ list_task \in Seq(Tasks)
    /\ list_task_ttl \in Nat /\ list_task_max \in Nat /\ list_free \in Nat
    /\ thread_alive \in Nat
    /\ list_pid \subseteq Workers
    /\ shutdown \in BOOLEAN
    /\ wpc \in [Workers -> {"none", "ready", "running", "recycling", "exited"}]
    /\ task \in [Workers -> Tasks \cup {None}]
    /\ cpc \in [Callers -> {"idle", "adding", "spawning", "polling",
                       "closing", "joining", "reaping"}]
    /\ adding \in [Callers -> Tasks \cup {None}]
    /\ front \in [Callers -> BOOLEAN]
    /\ joining \in [Callers -> Workers \cup {None}]
    /\ done \subseteq Tasks /\ dropped \subseteq Tasks /\ refused \subseteq Tasks
    /\ closed \in BOOLEAN /\ overlap \in BOOLEAN /\ drained \in BOOLEAN

-----------------------------------------------------------------------------
LockFree == lock = None

\* Slip: the wakeup is sent before the waiter sleeps.
SignalNobody == cond_task' = cond_task

\* pthread_cond_signal
Signal ==
    \/ cond_task = {} /\ cond_task' = {}
    \/ \E x \in cond_task : cond_task' = cond_task \ {x}

\* Slip: close signals instead of broadcasting.
BroadcastToOne == Signal

\* pthread_cond_broadcast
Broadcast == cond_task' = {}

\* The pool as uc_threadpool_create leaves it: the first threads run, fewer
\* than thr_num_min of them when malloc or pthread_create failed.
Init ==
    /\ lock = None /\ cond_task = {} /\ list_task = <<>>
    /\ list_task_ttl = 0 /\ list_task_max = 0 /\ list_free = 0
    /\ thread_alive \in 0 .. ThreadMin
    /\ Faults \/ thread_alive = ThreadMin
    /\ list_pid \in SUBSET Workers /\ Cardinality(list_pid) = thread_alive
    /\ shutdown = FALSE
    /\ wpc = [w \in Workers |-> IF w \in list_pid THEN "ready" ELSE "none"]
    /\ task = [w \in Workers |-> None]
    /\ cpc = [c \in Callers |-> "idle"]
    /\ adding = [c \in Callers |-> None]
    /\ front = [c \in Callers |-> FALSE]
    /\ joining = [c \in Callers |-> None]
    /\ done = {} /\ dropped = {} /\ refused = {}
    /\ closed = FALSE /\ overlap = FALSE /\ drained = FALSE

-----------------------------------------------------------------------------
(* uc_threadpool_thread_work *)

WorkerWait(w) ==
    /\ w \in Idle /\ LockFree /\ ~shutdown
    /\ list_task = <<>>
    /\ cond_task' = cond_task \cup {w}
    /\ UNCHANGED <<lock, list_task, list_task_ttl, list_task_max, list_free,
                   thread_alive, list_pid, shutdown, worker, caller, history>>

WorkerExit(w) ==
    /\ w \in Idle /\ LockFree /\ shutdown
    /\ thread_alive' = thread_alive - 1
    /\ wpc' = [wpc EXCEPT ![w] = "exited"]
    /\ UNCHANGED <<lock, cond_task, list_task, list_task_ttl, list_task_max, list_free,
                   list_pid, shutdown, task, caller, history>>

\* Slip: a worker leaves only when the queue is empty.
TaskDueFirst == list_task # <<>>

\* The worker was not told to leave and there is a task for it.
TaskDue == ~shutdown /\ list_task # <<>>

\* Slip: the node stays in the list.
PopKeepsNode == UNCHANGED list_task /\ list_task_ttl' = list_task_ttl - 1

Pop == list_task' = Tail(list_task) /\ list_task_ttl' = list_task_ttl - 1

WorkerTake(w) ==
    /\ w \in Idle /\ LockFree
    /\ TaskDue
    /\ Pop
    /\ Signal
    /\ wpc' = [wpc EXCEPT ![w] = "running"]
    /\ task' = [task EXCEPT ![w] = Head(list_task)]
    /\ UNCHANGED <<lock, list_task_max, list_free, thread_alive, list_pid, shutdown,
                   caller, history>>

\* task->fun returns
WorkerRan(w) ==
    /\ wpc[w] = "running" /\ task[w] \notin Endless
    /\ wpc' = [wpc EXCEPT ![w] = "recycling"]
    /\ done' = done \cup {task[w]}
    /\ task' = [task EXCEPT ![w] = None]
    /\ UNCHANGED <<pool, caller, dropped, refused, closed, overlap, drained>>

WorkerRecycles(w) ==
    /\ wpc[w] = "recycling" /\ LockFree
    /\ list_free' = list_free + 1
    /\ wpc' = [wpc EXCEPT ![w] = "ready"]
    /\ UNCHANGED <<lock, cond_task, list_task, list_task_ttl, list_task_max,
                   thread_alive, list_pid, shutdown, task, caller, history>>

-----------------------------------------------------------------------------
(* uc_threadpool_add_to_void_task_do and uc_threadpool_activty_try *)

\* Slip: the last place is given away twice.
FullOffByOne == list_task_max # 0 /\ list_task_ttl > list_task_max

Full == list_task_max # 0 /\ list_task_ttl >= list_task_max

AddRefused(c, t) ==
    /\ cpc[c] = "idle" /\ t \in Fresh /\ LockFree
    /\ shutdown
    /\ refused' = refused \cup {t}
    /\ UNCHANGED <<pool, worker, caller, done, dropped, closed, overlap, drained>>

\* The queue is full: the caller sleeps.
AddWaits(c, t, f) ==
    /\ cpc[c] = "idle" /\ t \in Fresh /\ LockFree
    /\ ~shutdown /\ Full
    /\ cond_task' = cond_task \cup {c}
    /\ cpc' = [cpc EXCEPT ![c] = "adding"]
    /\ adding' = [adding EXCEPT ![c] = t]
    /\ front' = [front EXCEPT ![c] = f]
    /\ drained' = FALSE
    /\ UNCHANGED <<lock, list_task, list_task_ttl, list_task_max, list_free,
                   thread_alive, list_pid, shutdown, worker, joining,
                   done, dropped, refused, closed, overlap>>

\* Slip: list_free_head is not tested for emptiness.
TakeNodeUnchecked == list_free' = list_free - 1

\* A recycled node, or a new one
TakeNode == list_free' = IF list_free > 0 THEN list_free - 1 ELSE 0

\* The rest of the function once there is room: a node is recycled or
\* allocated and linked, and one sleeper is woken.
Enqueue(c, t, f) ==
    /\ TakeNode
    /\ list_task' = IF f THEN <<t>> \o list_task ELSE Append(list_task, t)
    /\ list_task_ttl' = list_task_ttl + 1
    /\ Signal
    /\ cpc' = [cpc EXCEPT ![c] = "spawning"]
    /\ UNCHANGED <<lock, refused>>

\* malloc fails: the function returns without unlocking.
OutOfMemory(c, t) ==
    /\ Faults /\ list_free = 0
    /\ lock' = c
    /\ refused' = refused \cup {t}
    /\ cpc' = [cpc EXCEPT ![c] = "idle"]
    /\ UNCHANGED <<cond_task, list_task, list_task_ttl, list_free>>

Add(c, t, f) ==
    /\ cpc[c] = "idle" /\ t \in Fresh /\ LockFree
    /\ ~shutdown /\ ~Full
    /\ Enqueue(c, t, f) \/ OutOfMemory(c, t)
    /\ drained' = FALSE
    /\ UNCHANGED <<list_task_max, thread_alive, list_pid, shutdown, worker,
                   adding, front, joining, done, dropped, closed, overlap>>

\* A caller woken from its wait looks at the limit again, not at shutdown.
AddWaitsAgain(c) ==
    /\ cpc[c] = "adding" /\ c \notin cond_task /\ LockFree
    /\ Full
    /\ cond_task' = cond_task \cup {c}
    /\ UNCHANGED <<lock, list_task, list_task_ttl, list_task_max, list_free,
                   thread_alive, list_pid, shutdown, worker, caller, history>>

AddResumes(c) ==
    /\ cpc[c] = "adding" /\ c \notin cond_task /\ LockFree
    /\ ~Full
    /\ Enqueue(c, adding[c], front[c]) \/ OutOfMemory(c, adding[c])
    /\ adding' = [adding EXCEPT ![c] = None]
    /\ front' = [front EXCEPT ![c] = FALSE]
    /\ UNCHANGED <<list_task_max, thread_alive, list_pid, shutdown, worker,
                   joining, done, dropped, closed, overlap, drained>>

\* Slip: > for >=.
EnoughThreadsOffByOne == thread_alive > ThreadMax \/ thread_alive > list_task_ttl

EnoughThreads == thread_alive >= ThreadMax \/ thread_alive > list_task_ttl

\* No thread is wanted, or malloc or pthread_create fails; the caller of
\* uc_threadpool_activty_try ignores its result.
SpawnsNone(c) ==
    /\ cpc[c] = "spawning" /\ LockFree
    /\ EnoughThreads \/ Faults \/ Threads = Workers
    /\ cpc' = [cpc EXCEPT ![c] = "idle"]
    /\ UNCHANGED <<pool, worker, adding, front, joining, history>>


Spawns(c) ==
    /\ cpc[c] = "spawning" /\ LockFree
    /\ ~EnoughThreads
    /\ \E w \in Workers \ Threads :
        /\ wpc' = [wpc EXCEPT ![w] = "ready"]
        /\ list_pid' = list_pid \cup {w}
    /\ thread_alive' = thread_alive + 1
    /\ cpc' = [cpc EXCEPT ![c] = "idle"]
    /\ UNCHANGED <<lock, cond_task, list_task, list_task_ttl, list_task_max, list_free,
                   shutdown, task, adding, front, joining, history>>

-----------------------------------------------------------------------------
(* uc_threadpool_set_task_max and uc_threadpool_wait_task_done *)

SetTaskMax(c, n) ==
    /\ cpc[c] = "idle" /\ LockFree
    /\ list_task_max' = n
    /\ Signal
    /\ UNCHANGED <<lock, list_task, list_task_ttl, list_free, thread_alive, list_pid,
                   shutdown, worker, caller, history>>

WaitTaskDone(c) ==
    /\ cpc[c] = "idle"
    /\ cpc' = [cpc EXCEPT ![c] = "polling"]
    /\ UNCHANGED <<pool, worker, adding, front, joining, history>>

\* One of the polls finds the queue empty.
WaitTaskDoneReturns(c) ==
    /\ cpc[c] = "polling" /\ LockFree
    /\ list_task = <<>>
    /\ cpc' = [cpc EXCEPT ![c] = "idle"]
    /\ drained' = (~shutdown /\ \A d \in Callers : cpc[d] # "adding")
    /\ UNCHANGED <<pool, worker, adding, front, joining,
                   done, dropped, refused, closed, overlap>>

-----------------------------------------------------------------------------
(* uc_threadpool_close *)

Closing(c) == cpc[c] \in {"closing", "joining", "reaping"}

Close(c) ==
    /\ c \in Closers /\ cpc[c] = "idle"
    /\ ~shutdown /\ \A d \in Callers : ~Closing(d)
    /\ cpc' = [cpc EXCEPT ![c] = "closing"]
    /\ UNCHANGED <<pool, worker, adding, front, joining, history>>

CloseBegins(c) ==
    /\ cpc[c] = "closing" /\ LockFree
    /\ shutdown' = TRUE
    /\ Broadcast
    /\ cpc' = [cpc EXCEPT ![c] = "joining"]
    /\ overlap' = (\E d \in Callers : cpc[d] \in {"adding", "spawning"})
    /\ UNCHANGED <<lock, list_task, list_task_ttl, list_task_max, list_free,
                   thread_alive, list_pid, worker, adding, front, joining,
                   done, dropped, refused, closed, drained>>

CloseUnlinks(c, w) ==
    /\ cpc[c] = "joining" /\ joining[c] = None /\ LockFree
    /\ w \in list_pid
    /\ list_pid' = list_pid \ {w}
    /\ joining' = [joining EXCEPT ![c] = w]
    /\ UNCHANGED <<lock, cond_task, list_task, list_task_ttl, list_task_max, list_free,
                   thread_alive, shutdown, worker, cpc, adding, front, history>>

\* Slip: close does not wait for the threads.
NoThreadExpected == TRUE

NoThreadLeft == list_pid = {}

\* pthread_join returns
CloseJoined(c) ==
    /\ cpc[c] = "joining" /\ joining[c] # None
    /\ wpc[joining[c]] = "exited"
    /\ wpc' = [wpc EXCEPT ![joining[c]] = "none"]
    /\ joining' = [joining EXCEPT ![c] = None]
    /\ UNCHANGED <<pool, task, cpc, adding, front, history>>

CloseFindsNoThread(c) ==
    /\ cpc[c] = "joining" /\ joining[c] = None /\ LockFree
    /\ NoThreadLeft
    /\ cpc' = [cpc EXCEPT ![c] = "reaping"]
    /\ UNCHANGED <<pool, worker, adding, front, joining, history>>

\* list_task_ttl keeps its value.
CloseReaps(c) ==
    /\ cpc[c] = "reaping" /\ LockFree
    /\ list_free' = 0
    /\ list_task' = <<>>
    /\ dropped' = dropped \cup Queued
    /\ closed' = TRUE
    /\ cpc' = [cpc EXCEPT ![c] = "idle"]
    /\ UNCHANGED <<lock, cond_task, list_task_ttl, list_task_max, thread_alive, list_pid,
                   shutdown, worker, adding, front, joining,
                   done, refused, overlap, drained>>

\* pthread_cond_wait may return without a signal.
SpuriousWakeup(x) ==
    /\ x \in cond_task
    /\ cond_task' = cond_task \ {x}
    /\ UNCHANGED <<lock, list_task, list_task_ttl, list_task_max, list_free,
                   thread_alive, list_pid, shutdown, worker, caller, history>>

-----------------------------------------------------------------------------
WorkerStep(w) ==
    \/ WorkerWait(w) \/ WorkerExit(w) \/ WorkerTake(w) \/ WorkerRan(w) \/ WorkerRecycles(w)

\* A step of a call that has begun
CallStep(c) ==
    \/ AddWaitsAgain(c) \/ AddResumes(c) \/ SpawnsNone(c) \/ Spawns(c)
    \/ WaitTaskDoneReturns(c)
    \/ CloseBegins(c)
    \/ \E w \in Workers : CloseUnlinks(c, w)
    \/ CloseJoined(c) \/ CloseFindsNoThread(c) \/ CloseReaps(c)

\* A caller makes a call.
Call(c) ==
    \/ \E t \in Tasks : AddRefused(c, t)
    \/ \E t \in Tasks, f \in BOOLEAN : AddWaits(c, t, f) \/ Add(c, t, f)
    \/ \E n \in MaxChoices : SetTaskMax(c, n)
    \/ WaitTaskDone(c)
    \/ Close(c)

Next ==
    \/ \E w \in Workers : WorkerStep(w)
    \/ \E c \in Callers : CallStep(c) \/ Call(c)
    \/ \E x \in Workers \cup Callers : SpuriousWakeup(x)

Spec == Init /\ [][Next]_vars

\* Every thread that can run does: a thread that waits for the mutex gets it,
\* a task returns unless it is endless, a call that has begun goes on.
\* Nobody has to call the pool, and no wakeup has to be spurious.
Fairness ==
    /\ \A w \in Workers : WF_vars(WorkerStep(w))
    /\ \A c \in Callers : WF_vars(CallStep(c))

FairSpec == Spec /\ Fairness

-----------------------------------------------------------------------------
(* Safety *)

QueuedOnce == \A i, j \in DOMAIN list_task : list_task[i] = list_task[j] => i = j

HeldOnce ==
    /\ \A v, w \in Workers : task[v] = task[w] /\ task[v] # None => v = w
    /\ \A c, d \in Callers : adding[c] = adding[d] /\ adding[c] # None => c = d

OnePlace ==
    /\ Blocked \cap (Queued \cup Running \cup done \cup dropped \cup refused) = {}
    /\ Queued \cap (Running \cup done \cup dropped \cup refused) = {}
    /\ Running \cap (done \cup dropped \cup refused) = {}
    /\ done \cap (dropped \cup refused) = {}
    /\ dropped \cap refused = {}

\* Every task is in one place: held by one blocked caller, queued once, run by
\* one worker, done, dropped or refused.  Nothing the unlock between taking a
\* node and recycling it allows runs a task twice or loses it.
TaskConservation == QueuedOnce /\ HeldOnce /\ OnePlace

\* thread_alive counts the threads that have not left the loop and never
\* exceeds thread_max, although calls that add tasks race in
\* uc_threadpool_activty_try and with close; and every thread that has not
\* been joined is in list_pid or being joined, so that close cannot miss it.
ThreadAccounting ==
    /\ thread_alive = Cardinality(Live) /\ thread_alive <= ThreadMax
    /\ Threads = list_pid \cup ({joining[c] : c \in Callers} \ {None})
    /\ \A c \in Callers : joining[c] \notin list_pid

\* After a close no adding call overlapped, nothing is left: no task, no
\* recycled node, no thread ("关闭运行的子线程，销毁未被执行的任务"). A call that adds a
\* task and was under way when close began can leave a task or a thread behind.
CleanClose ==
    closed /\ ~overlap => list_task = <<>> /\ list_free = 0 /\ Threads = {}

\* What uc_thread_test.c asserts: when wait_task_done returned, nobody adds
\* tasks and the pool is then closed, every accepted task has been done,
\* those a worker was still running when the queue was empty included.
DrainedClose ==
    closed /\ drained => Blocked \cup Queued \cup Running \cup dropped = {}

\* While no limit is set, no worker sleeps when more tasks are queued than
\* workers are awake to take them, although signals are sent one at a time
\* and taken by whoever comes first.
NoLostWakeup ==
    cond_task \cap Workers # {} => Len(list_task) <= Cardinality(Idle)

\* No call, not even one that slept while the limit changed and others took
\* the room it was woken for, makes the queue longer than the limit.
QueueBound ==
    [][Len(list_task') > Len(list_task) =>
         list_task_max = 0 \/ Len(list_task') <= list_task_max]_vars

-----------------------------------------------------------------------------
(* Liveness *)

\* A queued task is started or the pool is closed, even when thr_num_min is 0
\* and the thread for it is created after the task was queued, and when another
\* task never returns and the pool may still grow.
EveryTaskStarts == \A t \in Tasks : t \in Queued ~> (t \notin Queued \/ shutdown)

\* close returns once the running tasks have, whatever the threads and the
\* other callers were doing when it woke them.
CloseReturns ==
    \A c \in Callers : Closing(c) ~> (~Closing(c) \/ Running \cap Endless # {})

\* A blocked add returns ("超过则阻塞到任务数量下降后添加才返回").
BlockedAddReturns == \A c \in Callers : cpc[c] = "adding" ~> cpc[c] # "adding"

-----------------------------------------------------------------------------
(* While no limit is set the pool is a task queue with at most ThreadMax     *)
(* tasks running.                                                            *)
TQ == INSTANCE TaskQueue WITH
        MaxRunning <- ThreadMax,
        open <- ~shutdown,
        pending <- list_task,
        running <- Running

ImplementsTaskQueue == TQ!Spec
=============================================================================
