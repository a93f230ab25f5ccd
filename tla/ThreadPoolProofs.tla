-------------------------- MODULE ThreadPoolProofs --------------------------
(***************************************************************************)
(* Proofs about the thread pool, for every number of workers, callers and  *)
(* tasks, every limit of the queue and with or without failing calls.      *)
(***************************************************************************)
EXTENDS ThreadPool, FiniteSetTheorems, TLAPS

\* list_task_ttl never falls behind the queue: close forgets to reset it but
\* nobody forgets to count a task.
QueueCount == Len(list_task) <= list_task_ttl

\* A worker holds a task exactly while it runs one, a caller exactly while it
\* is blocked.
Holding ==
    /\ \A w \in Workers : wpc[w] = "running" <=> task[w] # None
    /\ \A c \in Callers : cpc[c] = "adding" <=> adding[c] # None

\* No two calls join the same thread.
JoinsApart ==
    \A c, d \in Callers : joining[c] = joining[d] /\ joining[c] # None => c = d

PoolInv == TypeOK /\ QueueCount /\ Holding /\ ThreadAccounting /\ JoinsApart

-----------------------------------------------------------------------------
(* The counter of the threads *)

\* The workers that exist are finitely many.
LEMMA LiveFinite == IsFiniteSet(Live) /\ Cardinality(Live) \in Nat
BY ConstantsAssumption, FS_Subset, FS_CardinalityType DEF Live

\* A thread that leaves the loop is one live thread fewer, and there was one.
LEMMA LiveLoses ==
    ASSUME NEW w \in Live, Live' = Live \ {w}
    PROVE  Cardinality(Live') = Cardinality(Live) - 1 /\ Cardinality(Live) > 0
<1>1. Cardinality(Live') = Cardinality(Live) - 1
  BY LiveFinite, FS_RemoveElement
<1>2. Cardinality(Live) # 0
  BY LiveFinite, FS_EmptySet
<1> QED BY <1>1, <1>2, LiveFinite, SMT

\* A new thread is one more.
LEMMA LiveGains ==
    ASSUME NEW w, w \notin Live, Live' = Live \cup {w}
    PROVE  Cardinality(Live') = Cardinality(Live) + 1
BY LiveFinite, FS_AddElement

-----------------------------------------------------------------------------
(* Type correctness *)

\* Adding a task makes the queue one longer, at either end.
LEMMA EnqueueLengthens ==
    ASSUME list_task \in Seq(Tasks), NEW c, NEW t \in Tasks, NEW f \in BOOLEAN,
           Enqueue(c, t, f)
    PROVE  list_task' \in Seq(Tasks) /\ Len(list_task') = Len(list_task) + 1
BY DEF Enqueue

LEMMA InitTypes == Init => TypeOK /\ QueueCount /\ Holding
<1> SUFFICES ASSUME Init PROVE TypeOK /\ QueueCount /\ Holding
  OBVIOUS
<1>1. <<>> \in Seq(Tasks) /\ Len(<<>>) = 0
  OBVIOUS
<1>2. thread_alive \in Nat
  BY ConstantsAssumption DEF Init
<1>3. TypeOK
  BY <1>1, <1>2, ConstantsAssumption DEF Init, TypeOK
<1>4. QueueCount
  BY <1>1 DEF Init, QueueCount
<1>5. Holding
  BY DEF Init, Holding
<1> QED BY <1>3, <1>4, <1>5

\* Every action keeps the types, the count and what threads hold.
LEMMA StepTypes ==
    TypeOK /\ QueueCount /\ Holding /\ thread_alive = Cardinality(Live) /\ [Next]_vars
      => TypeOK' /\ QueueCount' /\ Holding'
<1> SUFFICES ASSUME TypeOK, QueueCount, Holding, thread_alive = Cardinality(Live), [Next]_vars
             PROVE  TypeOK' /\ QueueCount' /\ Holding'
  OBVIOUS
<1> USE ConstantsAssumption
<1> USE DEF TypeOK, QueueCount, Holding, pool, worker, caller, history
<1>1. ASSUME NEW w \in Workers, WorkerWait(w) PROVE TypeOK' /\ QueueCount' /\ Holding'
  BY <1>1 DEF WorkerWait
<1>2. ASSUME NEW w \in Workers, WorkerExit(w) PROVE TypeOK' /\ QueueCount' /\ Holding'
  <2>1. w \in Live /\ Live' = Live \ {w}
    BY <1>2 DEF WorkerExit, Idle, Live
  <2>2. thread_alive' \in Nat
    BY <2>1, <1>2, LiveLoses, LiveFinite DEF WorkerExit
  <2> QED BY <1>2, <2>2 DEF WorkerExit, Idle
<1>3. ASSUME NEW w \in Workers, WorkerTake(w) PROVE TypeOK' /\ QueueCount' /\ Holding'
  BY <1>3 DEF WorkerTake, TaskDue, Pop, Signal, Idle
<1>4. ASSUME NEW w \in Workers, WorkerRan(w) PROVE TypeOK' /\ QueueCount' /\ Holding'
  BY <1>4 DEF WorkerRan
<1>5. ASSUME NEW w \in Workers, WorkerRecycles(w) PROVE TypeOK' /\ QueueCount' /\ Holding'
  BY <1>5 DEF WorkerRecycles
<1>6. ASSUME NEW c \in Callers, NEW t \in Tasks, AddRefused(c, t)
      PROVE TypeOK' /\ QueueCount' /\ Holding'
  BY <1>6 DEF AddRefused
<1>7. ASSUME NEW c \in Callers, NEW t \in Tasks, NEW f \in BOOLEAN, AddWaits(c, t, f)
      PROVE TypeOK' /\ QueueCount' /\ Holding'
  BY <1>7 DEF AddWaits
<1>8. ASSUME NEW c \in Callers, NEW t \in Tasks, NEW f \in BOOLEAN, Add(c, t, f)
      PROVE TypeOK' /\ QueueCount' /\ Holding'
  <2>1. CASE Enqueue(c, t, f)
    <3>1. list_task' \in Seq(Tasks) /\ Len(list_task') = Len(list_task) + 1
      BY <2>1, EnqueueLengthens
    <3>2. QueueCount'
      BY <2>1, <3>1 DEF Enqueue
    <3>3. cond_task' \subseteq Workers \cup Callers
      BY <2>1 DEF Enqueue, Signal
    <3>4. TypeOK'
      <4>1. drained' \in BOOLEAN
        BY <1>8 DEF Add
      <4> QED BY <1>8, <2>1, <3>1, <3>3, <4>1 DEF Add, Enqueue, TakeNode
    <3>5. Holding'
      BY <1>8, <2>1 DEF Add, Enqueue
    <3> QED BY <3>2, <3>4, <3>5
  <2>2. CASE OutOfMemory(c, t)
    BY <1>8, <2>2 DEF Add, OutOfMemory
  <2> QED BY <1>8, <2>1, <2>2 DEF Add
<1>9. ASSUME NEW c \in Callers, AddWaitsAgain(c) PROVE TypeOK' /\ QueueCount' /\ Holding'
  BY <1>9 DEF AddWaitsAgain
<1>10. ASSUME NEW c \in Callers, AddResumes(c) PROVE TypeOK' /\ QueueCount' /\ Holding'
  <2>1. adding[c] \in Tasks /\ front[c] \in BOOLEAN
    BY <1>10 DEF AddResumes
  <2>2. CASE Enqueue(c, adding[c], front[c])
    <3>1. list_task' \in Seq(Tasks) /\ Len(list_task') = Len(list_task) + 1
      BY <2>1, <2>2, EnqueueLengthens
    <3>2. QueueCount'
      BY <2>2, <3>1 DEF Enqueue
    <3>3. cond_task' \subseteq Workers \cup Callers
      BY <2>2 DEF Enqueue, Signal
    <3>4. TypeOK'
      BY <1>10, <2>2, <3>1, <3>3 DEF AddResumes, Enqueue, TakeNode
    <3>5. Holding'
      BY <1>10, <2>2 DEF AddResumes, Enqueue
    <3> QED BY <3>2, <3>4, <3>5
  <2>3. CASE OutOfMemory(c, adding[c])
    BY <1>10, <2>1, <2>3 DEF AddResumes, OutOfMemory
  <2> QED BY <1>10, <2>2, <2>3 DEF AddResumes
<1>11. ASSUME NEW c \in Callers, SpawnsNone(c) PROVE TypeOK' /\ QueueCount' /\ Holding'
  BY <1>11 DEF SpawnsNone
<1>12. ASSUME NEW c \in Callers, Spawns(c) PROVE TypeOK' /\ QueueCount' /\ Holding'
  BY <1>12 DEF Spawns, Threads
<1>13. ASSUME NEW c \in Callers, NEW n \in MaxChoices, SetTaskMax(c, n)
       PROVE TypeOK' /\ QueueCount' /\ Holding'
  BY <1>13 DEF SetTaskMax, Signal
<1>14. ASSUME NEW c \in Callers, WaitTaskDone(c) PROVE TypeOK' /\ QueueCount' /\ Holding'
  BY <1>14 DEF WaitTaskDone
<1>15. ASSUME NEW c \in Callers, WaitTaskDoneReturns(c) PROVE TypeOK' /\ QueueCount' /\ Holding'
  BY <1>15 DEF WaitTaskDoneReturns
<1>16. ASSUME NEW c \in Callers, Close(c) PROVE TypeOK' /\ QueueCount' /\ Holding'
  BY <1>16 DEF Close
<1>17. ASSUME NEW c \in Callers, CloseBegins(c) PROVE TypeOK' /\ QueueCount' /\ Holding'
  BY <1>17 DEF CloseBegins, Broadcast
<1>18. ASSUME NEW c \in Callers, NEW w \in Workers, CloseUnlinks(c, w)
       PROVE TypeOK' /\ QueueCount' /\ Holding'
  BY <1>18 DEF CloseUnlinks
<1>19. ASSUME NEW c \in Callers, CloseJoined(c) PROVE TypeOK' /\ QueueCount' /\ Holding'
  BY <1>19 DEF CloseJoined
<1>20. ASSUME NEW c \in Callers, CloseFindsNoThread(c) PROVE TypeOK' /\ QueueCount' /\ Holding'
  BY <1>20 DEF CloseFindsNoThread
<1>21. ASSUME NEW c \in Callers, CloseReaps(c) PROVE TypeOK' /\ QueueCount' /\ Holding'
  BY <1>21 DEF CloseReaps, Queued
<1>22. ASSUME NEW x \in Workers \cup Callers, SpuriousWakeup(x)
       PROVE TypeOK' /\ QueueCount' /\ Holding'
  BY <1>22 DEF SpuriousWakeup
<1>23. ASSUME UNCHANGED vars PROVE TypeOK' /\ QueueCount' /\ Holding'
  BY <1>23 DEF vars
<1> QED
  BY <1>1, <1>2, <1>3, <1>4, <1>5, <1>6, <1>7, <1>8, <1>9, <1>10, <1>11, <1>12, <1>13,
     <1>14, <1>15, <1>16, <1>17, <1>18, <1>19, <1>20, <1>21, <1>22, <1>23
     DEF Next, WorkerStep, CallStep, Call

-----------------------------------------------------------------------------
(* The threads *)

LEMMA InitThreads == Init => ThreadAccounting /\ JoinsApart
<1> SUFFICES ASSUME Init PROVE ThreadAccounting /\ JoinsApart
  OBVIOUS
<1>1. Live = list_pid /\ Threads = list_pid
  BY DEF Init, Live, Threads
<1>2. thread_alive <= ThreadMax
  BY ConstantsAssumption DEF Init
<1>3. {joining[c] : c \in Callers} \ {None} = {} /\ \A c \in Callers : joining[c] \notin list_pid
  BY ConstantsAssumption DEF Init
<1> QED BY <1>1, <1>2, <1>3 DEF Init, ThreadAccounting, JoinsApart

\* Only the steps that start, end or join a thread concern the accounts.
LEMMA ThreadsAsBefore ==
    ASSUME ThreadAccounting, JoinsApart,
           UNCHANGED <<thread_alive, list_pid, joining>>, Live' = Live, Threads' = Threads
    PROVE  ThreadAccounting' /\ JoinsApart'
BY DEF ThreadAccounting, JoinsApart

\* A thread escapes neither the counter nor close, and thread_max holds.
LEMMA StepThreads == PoolInv /\ [Next]_vars => ThreadAccounting' /\ JoinsApart'
<1> SUFFICES ASSUME PoolInv, [Next]_vars PROVE ThreadAccounting' /\ JoinsApart'
  OBVIOUS
<1> USE ConstantsAssumption
<1>0. TypeOK /\ ThreadAccounting /\ JoinsApart
  BY DEF PoolInv
<1>1. ASSUME NEW w \in Workers, WorkerExit(w) PROVE ThreadAccounting' /\ JoinsApart'
  <2>1. w \in Live /\ Live' = Live \ {w}
    BY <1>0, <1>1 DEF WorkerExit, Idle, Live, TypeOK
  <2>2. thread_alive' = Cardinality(Live') /\ thread_alive' <= ThreadMax
    <3>1. Cardinality(Live') = Cardinality(Live) - 1 /\ Cardinality(Live) \in Nat
      BY <2>1, LiveLoses, LiveFinite
    <3>2. thread_alive' = thread_alive - 1
      BY <1>1 DEF WorkerExit
    <3> QED BY <1>0, <3>1, <3>2 DEF ThreadAccounting
  <2>3. Threads' = Threads
    BY <1>0, <1>1 DEF WorkerExit, Idle, Threads, TypeOK
  <2> QED BY <1>0, <1>1, <2>2, <2>3 DEF WorkerExit, ThreadAccounting, JoinsApart, caller
<1>2. ASSUME NEW w \in Workers, WorkerTake(w) PROVE ThreadAccounting' /\ JoinsApart'
  <2>1. Live' = Live /\ Threads' = Threads
    BY <1>0, <1>2 DEF WorkerTake, Idle, Live, Threads, TypeOK
  <2> QED BY <1>0, <1>2, <2>1, ThreadsAsBefore DEF WorkerTake, caller
<1>3. ASSUME NEW w \in Workers, WorkerRan(w) PROVE ThreadAccounting' /\ JoinsApart'
  <2>1. Live' = Live /\ Threads' = Threads
    BY <1>0, <1>3 DEF WorkerRan, Live, Threads, TypeOK
  <2> QED BY <1>0, <1>3, <2>1, ThreadsAsBefore DEF WorkerRan, caller, pool
<1>4. ASSUME NEW w \in Workers, WorkerRecycles(w) PROVE ThreadAccounting' /\ JoinsApart'
  <2>1. Live' = Live /\ Threads' = Threads
    BY <1>0, <1>4 DEF WorkerRecycles, Live, Threads, TypeOK
  <2> QED BY <1>0, <1>4, <2>1, ThreadsAsBefore DEF WorkerRecycles, caller
<1>5. ASSUME NEW c \in Callers, Spawns(c) PROVE ThreadAccounting' /\ JoinsApart'
  <2>1. PICK w \in Workers \ Threads :
          wpc' = [wpc EXCEPT ![w] = "ready"] /\ list_pid' = list_pid \cup {w}
    BY <1>5 DEF Spawns
  <2>2. w \notin Live /\ Live' = Live \cup {w} /\ Threads' = Threads \cup {w}
    BY <1>0, <2>1 DEF Live, Threads, TypeOK
  <2>3. thread_alive' = Cardinality(Live') /\ thread_alive' <= ThreadMax
    BY <1>0, <1>5, <2>2, LiveGains, LiveFinite
       DEF Spawns, EnoughThreads, ThreadAccounting, TypeOK
  <2>4. \A d \in Callers : joining[d] # w
    BY <1>0, <2>1 DEF ThreadAccounting
  <2> QED BY <1>0, <1>5, <2>1, <2>2, <2>3, <2>4 DEF Spawns, ThreadAccounting, JoinsApart
<1>6. ASSUME NEW c \in Callers, NEW w \in Workers, CloseUnlinks(c, w)
      PROVE ThreadAccounting' /\ JoinsApart'
  <2>1. Live' = Live /\ Threads' = Threads
    BY <1>6 DEF CloseUnlinks, Live, Threads, worker
  <2>2. joining \in [Callers -> Workers \cup {None}] /\ joining[c] = None
        /\ w \in list_pid /\ list_pid' = list_pid \ {w} /\ w # None
        /\ joining' = [joining EXCEPT ![c] = w] /\ thread_alive' = thread_alive
    BY <1>0, <1>6 DEF CloseUnlinks, TypeOK
  <2>3. \A d \in Callers : joining[d] # w
    BY <1>0, <2>2 DEF ThreadAccounting
  <2>4. {joining'[d] : d \in Callers} \ {None} = ({joining[d] : d \in Callers} \ {None}) \cup {w}
    BY <2>2
  <2>5. JoinsApart'
    BY <1>0, <2>2, <2>3 DEF JoinsApart
  <2>6. \A d \in Callers : joining'[d] \notin list_pid'
    BY <1>0, <2>2 DEF ThreadAccounting
  <2> QED BY <1>0, <2>1, <2>2, <2>4, <2>5, <2>6 DEF ThreadAccounting
<1>7. ASSUME NEW c \in Callers, CloseJoined(c) PROVE ThreadAccounting' /\ JoinsApart'
  <2> DEFINE w == joining[c]
  <2>1. /\ w \in Workers /\ wpc[w] = "exited" /\ wpc' = [wpc EXCEPT ![w] = "none"]
        /\ joining' = [joining EXCEPT ![c] = None]
        /\ UNCHANGED <<thread_alive, list_pid>>
    BY <1>0, <1>7 DEF CloseJoined, TypeOK, pool
  <2>2. Live' = Live /\ Threads' = Threads \ {w}
    BY <1>0, <2>1 DEF Live, Threads, TypeOK
  <2>3. \A d \in Callers : d # c => joining'[d] = joining[d] /\ joining[d] # w
    BY <1>0, <2>1 DEF JoinsApart, TypeOK
  <2>4. joining'[c] = None /\ None \notin list_pid
    BY <1>0, <2>1 DEF TypeOK
  <2>5. {joining'[d] : d \in Callers} \ {None} = ({joining[d] : d \in Callers} \ {None}) \ {w}
    BY <2>1, <2>3, <2>4
  <2>6. w \notin list_pid
    BY <1>0 DEF ThreadAccounting
  <2>7. JoinsApart'
    BY <1>0, <2>3, <2>4 DEF JoinsApart
  <2> HIDE DEF w
  <2> QED BY <1>0, <2>1, <2>2, <2>3, <2>4, <2>5, <2>6, <2>7 DEF ThreadAccounting
<1>8. ASSUME UNCHANGED <<thread_alive, list_pid, joining, wpc>>
      PROVE ThreadAccounting' /\ JoinsApart'
  <2>1. Live' = Live /\ Threads' = Threads
    BY <1>8 DEF Live, Threads
  <2> QED BY <1>0, <1>8, <2>1, ThreadsAsBefore
<1>9. ASSUME NEW c \in Callers, CallStep(c) PROVE ThreadAccounting' /\ JoinsApart'
  BY <1>5, <1>6, <1>7, <1>8, <1>9
     DEF CallStep, AddWaitsAgain, AddResumes, SpawnsNone, WaitTaskDoneReturns, CloseBegins,
         CloseFindsNoThread, CloseReaps, pool, worker, caller
<1>10. ASSUME NEW c \in Callers, Call(c) PROVE ThreadAccounting' /\ JoinsApart'
  BY <1>8, <1>10
     DEF Call, AddRefused, AddWaits, Add, SetTaskMax, WaitTaskDone, Close, pool, worker, caller
<1>11. ASSUME NEW w \in Workers, WorkerStep(w) PROVE ThreadAccounting' /\ JoinsApart'
  BY <1>1, <1>2, <1>3, <1>4, <1>8, <1>11 DEF WorkerStep, WorkerWait, worker, caller
<1>12. CASE UNCHANGED vars
  BY <1>8, <1>12 DEF vars, pool, worker, caller
<1> QED BY <1>8, <1>9, <1>10, <1>11, <1>12 DEF Next, SpuriousWakeup, worker, caller

THEOREM PoolInvariant == Spec => []PoolInv
<1>1. Init => PoolInv
  BY InitTypes, InitThreads DEF PoolInv
<1>2. PoolInv /\ [Next]_vars => PoolInv'
  BY StepTypes, StepThreads DEF PoolInv, ThreadAccounting
<1> QED BY <1>1, <1>2, PTL DEF Spec

\* The pool's state has its types in every behaviour: the counters of the
\* queue, the free nodes and the threads never go below 0.
THEOREM TypeCorrect == Spec => []TypeOK
<1>1. PoolInv => TypeOK
  BY DEF PoolInv
<1> QED BY PoolInvariant, <1>1, PTL

\* thread_alive is the number of live threads and at most thread_max, and close
\* can find every thread, for any number of threads and callers.
THEOREM ThreadsAccounted == Spec => []ThreadAccounting
<1>1. PoolInv => ThreadAccounting
  BY DEF PoolInv
<1> QED BY PoolInvariant, <1>1, PTL

-----------------------------------------------------------------------------
(* The tasks *)

\* Taking the head out of the queue takes that task out and no other.
LEMMA TailQueues ==
    ASSUME list_task \in Seq(Tasks), list_task # <<>>, QueuedOnce, list_task' = Tail(list_task)
    PROVE  /\ Head(list_task) \in Queued
           /\ Queued' = Queued \ {Head(list_task)}
           /\ QueuedOnce'
<1>1. /\ Len(list_task) \in Nat \ {0} /\ DOMAIN list_task = 1 .. Len(list_task)
      /\ Head(list_task) = list_task[1]
      /\ DOMAIN list_task' = 1 .. Len(list_task) - 1
      /\ \A i \in 1 .. Len(list_task) - 1 : list_task'[i] = list_task[i + 1]
  OBVIOUS
<1>2. Head(list_task) \in Queued
  BY <1>1 DEF Queued
<1>3. QueuedOnce'
  BY <1>1 DEF QueuedOnce
<1>4. ASSUME NEW t \in Queued' PROVE t \in Queued \ {Head(list_task)}
  <2>1. PICK i \in 1 .. Len(list_task) - 1 : t = list_task[i + 1]
    BY <1>1, <1>4 DEF Queued
  <2>2. i + 1 \in DOMAIN list_task /\ i + 1 # 1 /\ 1 \in DOMAIN list_task
    BY <1>1
  <2> QED BY <1>1, <2>1, <2>2 DEF Queued, QueuedOnce
<1>5. ASSUME NEW t \in Queued \ {Head(list_task)} PROVE t \in Queued'
  <2>1. PICK i \in 1 .. Len(list_task) : t = list_task[i] /\ i # 1
    BY <1>1 DEF Queued
  <2>2. i - 1 \in DOMAIN list_task' /\ list_task'[i - 1] = t
    BY <1>1, <2>1
  <2> QED BY <2>2 DEF Queued
<1> QED BY <1>2, <1>3, <1>4, <1>5

\* Adding a task, at either end, puts it and no other into the queue.
LEMMA EnqueueQueues ==
    ASSUME list_task \in Seq(Tasks), QueuedOnce, NEW c, NEW t \in Tasks, t \notin Queued,
           NEW f \in BOOLEAN, Enqueue(c, t, f)
    PROVE  Queued' = Queued \cup {t} /\ QueuedOnce'
<1>1. Len(list_task) \in Nat /\ DOMAIN list_task = 1 .. Len(list_task)
  OBVIOUS
<1>2. CASE f
  <2>1. /\ DOMAIN list_task' = 1 .. Len(list_task) + 1 /\ list_task'[1] = t
        /\ \A i \in 1 .. Len(list_task) : list_task'[i + 1] = list_task[i]
    BY <1>2 DEF Enqueue
  <2>2. \A i \in DOMAIN list_task' : i # 1 => i - 1 \in DOMAIN list_task /\ list_task'[i] = list_task[i - 1]
    BY <1>1, <2>1
  <2>3. Queued' = Queued \cup {t}
    <3>1. ASSUME NEW u \in Queued' PROVE u \in Queued \cup {t}
      BY <2>1, <2>2, <3>1 DEF Queued
    <3>2. ASSUME NEW u \in Queued PROVE u \in Queued'
      <4>1. PICK i \in 1 .. Len(list_task) : u = list_task[i]
        BY <1>1 DEF Queued
      <4>2. i + 1 \in DOMAIN list_task' /\ list_task'[i + 1] = u
        BY <1>1, <2>1, <4>1
      <4> QED BY <4>2 DEF Queued
    <3>3. t \in Queued'
      <4>1. 1 \in DOMAIN list_task'
        BY <1>1, <2>1
      <4> QED BY <2>1, <4>1 DEF Queued
    <3> QED BY <3>1, <3>2, <3>3
  <2>4. QueuedOnce'
    <3> SUFFICES ASSUME NEW i \in DOMAIN list_task', NEW j \in DOMAIN list_task',
                        list_task'[i] = list_task'[j]
                 PROVE  i = j
      BY DEF QueuedOnce
    <3>1. \A k \in DOMAIN list_task' : k # 1 => list_task'[k] \in Queued
      BY <2>2 DEF Queued
    <3>2. i = 1 <=> j = 1
      BY <2>1, <3>1
    <3>3. i # 1 /\ j # 1 => i - 1 = j - 1
      BY <2>2 DEF QueuedOnce
    <3> QED BY <1>1, <2>1, <3>2, <3>3
  <2> QED BY <2>3, <2>4
<1>3. CASE ~f
  <2> DEFINE n == Len(list_task) + 1
  <2>1. /\ DOMAIN list_task' = 1 .. n /\ list_task'[n] = t
        /\ \A i \in 1 .. Len(list_task) : list_task'[i] = list_task[i]
    BY <1>3 DEF Enqueue
  <2>2. n \in Nat /\ \A i \in 1 .. n : i # n => i \in DOMAIN list_task /\ list_task'[i] = list_task[i]
    BY <1>1, <2>1
  <2>3. n \in 1 .. n /\ \A i \in DOMAIN list_task : i \in 1 .. n
    BY <1>1
  <2> HIDE DEF n
  <2>4. Queued' = Queued \cup {t}
    <3>1. ASSUME NEW u \in Queued' PROVE u \in Queued \cup {t}
      BY <2>1, <2>2, <3>1 DEF Queued
    <3>2. ASSUME NEW u \in Queued PROVE u \in Queued'
      BY <1>1, <2>1, <2>3, <3>2 DEF Queued
    <3>3. t \in Queued'
      BY <2>1, <2>3 DEF Queued
    <3> QED BY <3>1, <3>2, <3>3
  <2>5. QueuedOnce'
    <3>1. \A k \in 1 .. n : k # n => list_task'[k] \in Queued
      BY <2>2 DEF Queued
    <3> QED BY <2>1, <2>2, <3>1 DEF QueuedOnce
  <2> QED BY <2>4, <2>5
<1> QED BY <1>2, <1>3

LEMMA InitTasks == Init => TaskConservation
<1> SUFFICES ASSUME Init PROVE TaskConservation
  OBVIOUS
<1>1. Blocked = {} /\ Running = {}
  BY ConstantsAssumption DEF Init, Blocked, Running
<1>2. DOMAIN list_task = {}
  BY DEF Init
<1> QED BY <1>1, <1>2 DEF Init, TaskConservation, QueuedOnce, HeldOnce, OnePlace, Queued

\* Steps that hand no task from one place to another
LEMMA TasksAsBefore ==
    ASSUME TaskConservation, UNCHANGED <<list_task, adding, task, done, dropped, refused>>,
           Running' = Running
    PROVE  TaskConservation'
BY DEF TaskConservation, QueuedOnce, HeldOnce, OnePlace, Queued, Blocked

\* A fresh task that was added, at either end of the queue
LEMMA EnqueueKeepsTasks ==
    ASSUME list_task \in Seq(Tasks), QueuedOnce, HeldOnce', OnePlace,
           NEW c, NEW t \in Tasks, NEW f \in BOOLEAN, Enqueue(c, t, f),
           t \notin Queued \cup Running \cup done \cup dropped \cup refused,
           Blocked' = Blocked \ {t},
           Running' = Running, UNCHANGED <<done, dropped, refused>>
    PROVE  TaskConservation'
<1>1. Queued' = Queued \cup {t} /\ QueuedOnce'
  BY EnqueueQueues
<1> QED BY <1>1 DEF TaskConservation, OnePlace

\* Every step keeps each task in one place.
LEMMA StepTasks == PoolInv /\ TaskConservation /\ [Next]_vars => TaskConservation'
<1> SUFFICES ASSUME PoolInv, TaskConservation, [Next]_vars PROVE TaskConservation'
  OBVIOUS
<1> USE ConstantsAssumption
<1>0. TypeOK /\ Holding /\ QueuedOnce /\ HeldOnce /\ OnePlace
  BY DEF PoolInv, TaskConservation
<1>1. ASSUME NEW w \in Workers, WorkerTake(w) PROVE TaskConservation'
  <2> DEFINE t == Head(list_task)
  <2>1. /\ list_task' = Tail(list_task) /\ list_task \in Seq(Tasks) /\ list_task # <<>>
        /\ task' = [task EXCEPT ![w] = t] /\ wpc' = [wpc EXCEPT ![w] = "running"]
        /\ wpc[w] = "ready"
        /\ UNCHANGED <<adding, done, dropped, refused>>
    BY <1>0, <1>1 DEF WorkerTake, TaskDue, Pop, Idle, TypeOK, caller, history
  <2>2. t \in Queued /\ Queued' = Queued \ {t} /\ QueuedOnce'
    BY <1>0, <2>1, TailQueues
  <2>3. t \in Tasks /\ t # None
    BY <2>1
  <2> HIDE DEF t
  <2>4. Blocked' = Blocked /\ Running' = Running \cup {t}
    BY <1>0, <2>1, <2>3 DEF Blocked, Running, TypeOK
  <2>5. \A v \in Workers : task[v] # t
    BY <1>0, <2>2, <2>3 DEF Holding, OnePlace, Running
  <2>6. HeldOnce'
    BY <1>0, <2>1, <2>5 DEF HeldOnce, TypeOK
  <2> QED BY <1>0, <2>1, <2>2, <2>4, <2>6 DEF TaskConservation, OnePlace
<1>2. ASSUME NEW w \in Workers, WorkerRan(w) PROVE TaskConservation'
  <2> DEFINE t == task[w]
  <2>1. /\ wpc[w] = "running" /\ t \in Tasks /\ t # None
        /\ wpc' = [wpc EXCEPT ![w] = "recycling"] /\ task' = [task EXCEPT ![w] = None]
        /\ done' = done \cup {t}
        /\ UNCHANGED <<list_task, adding, dropped, refused>>
    BY <1>0, <1>2 DEF WorkerRan, Holding, TypeOK, pool, caller
  <2>2. \A v \in Workers : v # w => task[v] # t /\ task'[v] = task[v] /\ wpc'[v] = wpc[v]
    BY <1>0, <2>1 DEF HeldOnce, TypeOK
  <2>3. Blocked' = Blocked /\ Queued' = Queued
    BY <2>1 DEF Blocked, Queued
  <2>4. t \in Running
    BY <2>1 DEF Running
  <2>5. wpc'[w] = "recycling" /\ task'[w] = None
    BY <1>0, <2>1 DEF TypeOK
  <2> HIDE DEF t
  <2>6. Running' = Running \ {t}
    <3>1. ASSUME NEW u \in Running' PROVE u \in Running \ {t}
      BY <2>2, <2>5, <3>1 DEF Running
    <3>2. ASSUME NEW u \in Running \ {t} PROVE u \in Running'
      BY <2>1, <2>2, <3>2 DEF Running, t
    <3> QED BY <3>1, <3>2
  <2>7. HeldOnce' /\ QueuedOnce'
    BY <1>0, <2>1, <2>2, <2>5 DEF HeldOnce, QueuedOnce
  <2> QED BY <1>0, <2>1, <2>3, <2>4, <2>6, <2>7 DEF TaskConservation, OnePlace
<1>3. ASSUME UNCHANGED <<list_task, adding, task, done, dropped, refused>>, Running' = Running
      PROVE  TaskConservation'
  BY <1>3, TasksAsBefore
<1>4. ASSUME NEW w \in Workers, WorkerStep(w) PROVE TaskConservation'
  <2>1. CASE WorkerWait(w)
    BY <1>3, <2>1 DEF WorkerWait, Running, worker, caller, history
  <2>2. CASE WorkerExit(w)
    BY <1>0, <1>3, <2>2 DEF WorkerExit, Idle, Running, TypeOK, caller, history
  <2>3. CASE WorkerRecycles(w)
    BY <1>0, <1>3, <2>3 DEF WorkerRecycles, Running, TypeOK, caller, history
  <2> QED BY <1>1, <1>2, <1>4, <2>1, <2>2, <2>3 DEF WorkerStep
<1>5. ASSUME NEW c \in Callers, NEW t \in Tasks, AddRefused(c, t) PROVE TaskConservation'
  <2>1. Blocked' = Blocked /\ Queued' = Queued /\ Running' = Running
    BY <1>5 DEF AddRefused, Blocked, Queued, Running, pool, worker, caller
  <2> QED BY <1>0, <1>5, <2>1
      DEF AddRefused, Fresh, TaskConservation, QueuedOnce, HeldOnce, OnePlace, pool, worker, caller
<1>6. ASSUME NEW c \in Callers, NEW t \in Tasks, NEW f \in BOOLEAN, AddWaits(c, t, f)
      PROVE TaskConservation'
  <2>1. /\ adding[c] = None /\ adding' = [adding EXCEPT ![c] = t] /\ t \in Fresh /\ t # None
        /\ UNCHANGED <<list_task, worker, done, dropped, refused>>
    BY <1>0, <1>6 DEF AddWaits, Holding
  <2>2. Queued' = Queued /\ Running' = Running /\ Blocked' = Blocked \cup {t}
    BY <1>0, <2>1 DEF Queued, Running, Blocked, TypeOK, worker
  <2>3. \A d \in Callers : adding[d] # t
    BY <2>1 DEF Fresh, Blocked
  <2>4. HeldOnce' /\ QueuedOnce'
    BY <1>0, <2>1, <2>3 DEF HeldOnce, QueuedOnce, TypeOK, worker
  <2> QED BY <1>0, <2>1, <2>2, <2>4 DEF TaskConservation, OnePlace, Fresh
<1>7. ASSUME NEW c \in Callers, NEW t \in Tasks, NEW f \in BOOLEAN, Add(c, t, f)
      PROVE TaskConservation'
  <2>1. t \in Fresh /\ UNCHANGED <<worker, adding, done, dropped>>
    BY <1>7 DEF Add
  <2>2. Running' = Running /\ Blocked' = Blocked /\ HeldOnce'
    BY <1>0, <2>1 DEF Running, Blocked, HeldOnce, worker
  <2>3. CASE Enqueue(c, t, f)
    <3>1. UNCHANGED refused
      BY <2>3 DEF Enqueue
    <3>2. Blocked' = Blocked \ {t} /\ t \notin Queued \cup Running \cup done \cup dropped \cup refused
      BY <2>1, <2>2 DEF Fresh
    <3> QED BY <1>0, <2>1, <2>2, <2>3, <3>1, <3>2, EnqueueKeepsTasks DEF TypeOK
  <2>4. CASE OutOfMemory(c, t)
    <3>1. Queued' = Queued /\ refused' = refused \cup {t} /\ QueuedOnce'
      BY <1>0, <2>4 DEF OutOfMemory, Queued, QueuedOnce
    <3> QED BY <1>0, <2>1, <2>2, <3>1 DEF Fresh, TaskConservation, OnePlace
  <2> QED BY <1>7, <2>3, <2>4 DEF Add
<1>8. ASSUME NEW c \in Callers, AddResumes(c) PROVE TaskConservation'
  <2> DEFINE t == adding[c]
  <2>1. /\ t \in Tasks /\ t # None /\ front[c] \in BOOLEAN
        /\ adding' = [adding EXCEPT ![c] = None]
        /\ UNCHANGED <<worker, done, dropped>>
    BY <1>0, <1>8 DEF AddResumes, Holding, TypeOK
  <2>2. t \in Blocked
    BY <2>1 DEF Blocked
  <2>3. \A d \in Callers : d # c => adding[d] # t /\ adding'[d] = adding[d]
    BY <1>0, <2>1 DEF HeldOnce, TypeOK
  <2>4. adding'[c] = None
    BY <1>0, <2>1 DEF TypeOK
  <2>5. Blocked' = Blocked \ {t}
    <3>1. ASSUME NEW u \in Blocked' PROVE u \in Blocked \ {t}
      BY <2>3, <2>4, <3>1 DEF Blocked
    <3>2. ASSUME NEW u \in Blocked \ {t} PROVE u \in Blocked'
      BY <2>3, <3>2 DEF Blocked
    <3> QED BY <3>1, <3>2
  <2>6. Running' = Running /\ HeldOnce'
    BY <1>0, <2>1, <2>3, <2>4 DEF Running, HeldOnce, worker
  <2>7. t \notin Queued \cup Running \cup done \cup dropped \cup refused
    BY <1>0, <2>2 DEF OnePlace
  <2> HIDE DEF t
  <2>8. CASE Enqueue(c, t, front[c])
    <3>1. UNCHANGED refused
      BY <2>8 DEF Enqueue
    <3> QED BY <1>0, <2>1, <2>5, <2>6, <2>7, <2>8, <3>1, EnqueueKeepsTasks DEF TypeOK
  <2>9. CASE OutOfMemory(c, t)
    <3>1. Queued' = Queued /\ refused' = refused \cup {t} /\ QueuedOnce'
      BY <1>0, <2>9 DEF OutOfMemory, Queued, QueuedOnce
    <3> QED BY <1>0, <2>1, <2>5, <2>6, <2>7, <3>1 DEF TaskConservation, OnePlace
  <2> QED BY <1>8, <2>8, <2>9 DEF AddResumes, t
<1>9. ASSUME NEW c \in Callers, CloseReaps(c) PROVE TaskConservation'
  <2>1. /\ list_task' = <<>> /\ dropped' = dropped \cup Queued
        /\ UNCHANGED <<worker, adding, done, refused>>
    BY <1>9 DEF CloseReaps
  <2>2. Queued' = {} /\ QueuedOnce' /\ Running' = Running /\ Blocked' = Blocked /\ HeldOnce'
    BY <1>0, <2>1 DEF Queued, QueuedOnce, Running, Blocked, HeldOnce, worker
  <2> QED BY <1>0, <2>1, <2>2 DEF TaskConservation, OnePlace
<1>10. ASSUME NEW c \in Callers, CallStep(c) PROVE TaskConservation'
  <2>1. CASE Spawns(c)
    <3>1. Running' = Running
      BY <1>0, <2>1 DEF Spawns, Threads, Running, TypeOK
    <3> QED BY <1>3, <2>1, <3>1 DEF Spawns, history
  <2>2. CASE CloseJoined(c)
    <3>1. Running' = Running
      BY <1>0, <2>2 DEF CloseJoined, Running, TypeOK
    <3> QED BY <1>3, <2>2, <3>1 DEF CloseJoined, pool, history
  <2>3. ASSUME UNCHANGED <<list_task, adding, worker, done, dropped, refused>>
        PROVE  TaskConservation'
    BY <1>3, <2>3 DEF Running, worker
  <2> QED BY <1>8, <1>9, <1>10, <2>1, <2>2, <2>3
      DEF CallStep, AddWaitsAgain, SpawnsNone, WaitTaskDoneReturns, CloseBegins, CloseUnlinks,
          CloseFindsNoThread, pool, caller, history
<1>11. ASSUME NEW c \in Callers, Call(c) PROVE TaskConservation'
  <2>1. ASSUME UNCHANGED <<list_task, adding, worker, done, dropped, refused>>
        PROVE  TaskConservation'
    BY <1>3, <2>1 DEF Running, worker
  <2> QED BY <1>5, <1>6, <1>7, <1>11, <2>1
      DEF Call, SetTaskMax, WaitTaskDone, Close, pool, caller, history
<1>12. ASSUME UNCHANGED <<list_task, adding, worker, done, dropped, refused>>
       PROVE  TaskConservation'
  BY <1>3, <1>12 DEF Running, worker
<1> QED BY <1>4, <1>10, <1>11, <1>12
    DEF Next, SpuriousWakeup, vars, pool, caller, history

\* No task is lost, queued twice, run twice or both run and dropped, however
\* many threads take, add, block and close at once and whatever fails.
THEOREM TasksConserved == Spec => []TaskConservation
<1>1. Init => TaskConservation
  BY InitTasks
<1>2. PoolInv /\ TaskConservation /\ [Next]_vars => TaskConservation'
  BY StepTasks
<1> QED BY PoolInvariant, <1>1, <1>2, PTL DEF Spec

-----------------------------------------------------------------------------
(* Closing *)

\* One call closes the pool, in the order closing, joining, reaping; when it
\* reaps, nobody runs a task any more.
CloseOrder ==
    /\ \A c, d \in Callers : Closing(c) /\ Closing(d) => c = d
    /\ \A c \in Callers : cpc[c] = "closing" => ~shutdown
    /\ \A c \in Callers : cpc[c] \in {"joining", "reaping"} => shutdown
    /\ closed => shutdown /\ \A c \in Callers : ~Closing(c)
    /\ \A c \in Callers : joining[c] # None => cpc[c] = "joining"
    /\ \A c \in Callers : cpc[c] = "reaping" => Running = {}

\* When no adding call overlapped, no thread is left either.
Undisturbed ==
    /\ shutdown /\ ~overlap => \A c \in Callers : cpc[c] \notin {"adding", "spawning"}
    /\ \A c \in Callers : cpc[c] = "reaping" /\ ~overlap => Threads = {}
    /\ CleanClose

CloseInv == CloseOrder /\ Undisturbed

LEMMA InitClose == Init => CloseInv
BY DEF Init, CloseInv, CloseOrder, Undisturbed, CleanClose, Closing

\* A step of a worker: a thread is there, so no undisturbed close reaps.
LEMMA WorkerKeepsClose ==
    ASSUME TypeOK, CloseInv, NEW w \in Workers, WorkerStep(w)
    PROVE  CloseInv'
<1>1. UNCHANGED <<cpc, joining, shutdown, closed, overlap>>
  BY DEF WorkerStep, WorkerWait, WorkerExit, WorkerTake, WorkerRan, WorkerRecycles,
         pool, worker, caller, history
<1>2. w \in Threads
  BY DEF WorkerStep, WorkerWait, WorkerExit, WorkerTake, WorkerRan, WorkerRecycles, Idle, Threads
<1>3. shutdown => Running' \subseteq Running
  BY DEF WorkerStep, WorkerWait, WorkerExit, WorkerTake, WorkerRan, WorkerRecycles,
         TaskDue, Running, TypeOK, worker
<1>4. CloseOrder'
  BY <1>1, <1>3 DEF CloseInv, CloseOrder, Closing
<1>5. shutdown /\ ~overlap => \A c \in Callers : cpc[c] \notin {"adding", "spawning"}
  BY DEF CloseInv, Undisturbed
<1>6. ~overlap => ~closed /\ \A c \in Callers : cpc[c] # "reaping"
  BY <1>2 DEF CloseInv, Undisturbed, CleanClose
<1>7. Undisturbed'
  BY <1>1, <1>5, <1>6 DEF Undisturbed, CleanClose
<1> QED BY <1>4, <1>7 DEF CloseInv

\* Every step keeps the order of close and, unless an adding call overlapped,
\* what it has cleaned up clean.
LEMMA StepClose == PoolInv /\ CloseInv /\ [Next]_vars => CloseInv'
<1> SUFFICES ASSUME PoolInv, CloseInv, [Next]_vars PROVE CloseInv'
  OBVIOUS
<1>0. TypeOK /\ ThreadAccounting /\ JoinsApart /\ Holding
  BY DEF PoolInv
<1> USE DEF CloseInv, CloseOrder, Undisturbed, CleanClose, Closing
<1>1. ASSUME NEW c \in Callers, AddWaitsAgain(c) PROVE CloseInv'
  BY <1>0, <1>1 DEF AddWaitsAgain, Running, Threads, TypeOK, worker, caller, history
<1>2. ASSUME NEW c \in Callers, AddResumes(c) PROVE CloseInv'
  <2>1. cpc[c] = "adding" /\ \E s \in {"spawning", "idle"} : cpc' = [cpc EXCEPT ![c] = s]
    BY <1>2 DEF AddResumes, Enqueue, OutOfMemory
  <2>2. UNCHANGED <<worker, joining, shutdown, closed, overlap>>
    BY <1>2 DEF AddResumes
  <2>3. shutdown => overlap
    BY <2>1
  <2>4. CloseOrder'
    BY <1>0, <2>1, <2>2 DEF Running, TypeOK, worker
  <2>5. Undisturbed'
    BY <1>0, <2>1, <2>2, <2>3 DEF TypeOK
  <2> QED BY <2>4, <2>5
<1>3. ASSUME NEW c \in Callers, SpawnsNone(c) PROVE CloseInv'
  BY <1>0, <1>3 DEF SpawnsNone, Running, Threads, TypeOK, pool, worker, history
<1>4. ASSUME NEW c \in Callers, Spawns(c) PROVE CloseInv'
  <2>1. cpc[c] = "spawning" /\ cpc' = [cpc EXCEPT ![c] = "idle"]
        /\ UNCHANGED <<joining, shutdown, closed, overlap>>
    BY <1>4 DEF Spawns, history
  <2>2. Running' = Running
    BY <1>0, <1>4 DEF Spawns, Threads, Running, TypeOK
  <2>3. shutdown => overlap
    BY <2>1
  <2>4. CloseOrder'
    BY <1>0, <2>1, <2>2 DEF TypeOK
  <2>5. Undisturbed'
    BY <1>0, <2>1, <2>3 DEF TypeOK
  <2> QED BY <2>4, <2>5
<1>5. ASSUME NEW c \in Callers, WaitTaskDoneReturns(c) PROVE CloseInv'
  BY <1>0, <1>5 DEF WaitTaskDoneReturns, Running, Threads, TypeOK, pool, worker
<1>6. ASSUME NEW c \in Callers, CloseBegins(c) PROVE CloseInv'
  <2>1. /\ cpc[c] = "closing" /\ cpc' = [cpc EXCEPT ![c] = "joining"] /\ shutdown' = TRUE
        /\ overlap' = (\E d \in Callers : cpc[d] \in {"adding", "spawning"})
        /\ UNCHANGED <<worker, joining, closed>>
    BY <1>6 DEF CloseBegins
  <2>2. ~closed /\ \A d \in Callers : d # c => ~Closing(d) /\ cpc'[d] = cpc[d]
    BY <1>0, <2>1 DEF TypeOK
  <2>3. cpc'[c] = "joining"
    BY <1>0, <2>1 DEF TypeOK
  <2>4. CloseOrder'
    BY <1>0, <2>1, <2>2, <2>3
  <2>5. Undisturbed'
    BY <1>0, <2>1, <2>2, <2>3
  <2> QED BY <2>4, <2>5
<1>7. ASSUME NEW c \in Callers, NEW w \in Workers, CloseUnlinks(c, w) PROVE CloseInv'
  BY <1>0, <1>7 DEF CloseUnlinks, Running, Threads, TypeOK, worker, history
<1>8. ASSUME NEW c \in Callers, CloseJoined(c) PROVE CloseInv'
  <2>1. Running' = Running /\ Threads' \subseteq Threads
    BY <1>0, <1>8 DEF CloseJoined, Running, Threads, TypeOK
  <2> QED BY <1>0, <1>8, <2>1 DEF CloseJoined, TypeOK, pool, history
<1>9. ASSUME NEW c \in Callers, CloseFindsNoThread(c) PROVE CloseInv'
  <2>1. /\ cpc[c] = "joining" /\ joining[c] = None /\ list_pid = {}
        /\ cpc' = [cpc EXCEPT ![c] = "reaping"]
        /\ UNCHANGED <<pool, worker, joining, history>>
    BY <1>9 DEF CloseFindsNoThread, NoThreadLeft
  <2>2. \A d \in Callers : joining[d] = None
    BY <2>1
  <2>3. Threads = {}
    BY <1>0, <2>1, <2>2 DEF ThreadAccounting
  <2>4. Running = {}
    BY <2>3 DEF Running, Threads
  <2>5. Running' = Running /\ Threads' = Threads
    BY <2>1 DEF Running, Threads, worker
  <2> QED BY <1>0, <2>1, <2>2, <2>3, <2>4, <2>5 DEF TypeOK, pool, history
<1>10. ASSUME NEW c \in Callers, CloseReaps(c) PROVE CloseInv'
  <2>1. /\ cpc[c] = "reaping" /\ cpc' = [cpc EXCEPT ![c] = "idle"]
        /\ list_task' = <<>> /\ list_free' = 0
        /\ UNCHANGED <<worker, joining, shutdown, overlap>>
    BY <1>10 DEF CloseReaps
  <2>2. Running' = Running /\ Threads' = Threads
    BY <2>1 DEF Running, Threads, worker
  <2>3. cpc'[c] = "idle" /\ \A d \in Callers : d # c => cpc'[d] = cpc[d] /\ ~Closing(d)
    BY <1>0, <2>1 DEF TypeOK
  <2> QED BY <1>0, <2>1, <2>2, <2>3
<1>11. ASSUME NEW c \in Callers, CallStep(c) PROVE CloseInv'
  BY <1>1, <1>2, <1>3, <1>4, <1>5, <1>6, <1>7, <1>8, <1>9, <1>10, <1>11 DEF CallStep
<1>12. ASSUME NEW c \in Callers, Call(c) PROVE CloseInv'
  <2>1. CASE \E t \in Tasks : AddRefused(c, t)
    BY <1>0, <2>1 DEF AddRefused, Running, Threads, pool, worker, caller
  <2>2. CASE \E t \in Tasks, f \in BOOLEAN : AddWaits(c, t, f) \/ Add(c, t, f)
    <3>1. /\ cpc[c] = "idle" /\ ~shutdown
          /\ \E s \in {"adding", "spawning", "idle"} : cpc' = [cpc EXCEPT ![c] = s]
          /\ UNCHANGED <<worker, joining, shutdown, closed, overlap>>
      BY <2>2 DEF AddWaits, Add, Enqueue, OutOfMemory
    <3>2. CloseOrder'
      BY <1>0, <3>1 DEF Running, TypeOK, worker
    <3>3. ~closed /\ \A d \in Callers : cpc'[d] # "reaping"
      BY <1>0, <3>1 DEF TypeOK
    <3> QED BY <3>1, <3>2, <3>3
  <2>3. CASE \E n \in MaxChoices : SetTaskMax(c, n)
    BY <1>0, <2>3 DEF SetTaskMax, Running, Threads, worker, caller, history
  <2>4. CASE WaitTaskDone(c)
    BY <1>0, <2>4 DEF WaitTaskDone, Running, Threads, TypeOK, pool, worker, history
  <2>5. CASE Close(c)
    BY <1>0, <2>5 DEF Close, Running, Threads, TypeOK, pool, worker, history
  <2> QED BY <1>12, <2>1, <2>2, <2>3, <2>4, <2>5 DEF Call
<1>13. ASSUME NEW x \in Workers \cup Callers, SpuriousWakeup(x) PROVE CloseInv'
  BY <1>13 DEF SpuriousWakeup, Running, Threads, worker, caller, history
<1>14. CASE UNCHANGED vars
  BY <1>14 DEF vars, Running, Threads, pool, worker, caller, history
<1> QED BY <1>0, <1>11, <1>12, <1>13, <1>14, WorkerKeepsClose DEF Next

THEOREM CloseInvariant == Spec => []CloseInv
<1>1. Init => CloseInv
  BY InitClose
<1>2. PoolInv /\ CloseInv /\ [Next]_vars => CloseInv'
  BY StepClose
<1> QED BY PoolInvariant, <1>1, <1>2, PTL DEF Spec

\* A close that no adding call overlapped leaves no task, no node and no
\* thread, whatever the workers and the other callers did meanwhile.
THEOREM ClosesClean == Spec => []CleanClose
<1>1. CloseInv => CleanClose
  BY DEF CloseInv, Undisturbed
<1> QED BY CloseInvariant, <1>1, PTL

-----------------------------------------------------------------------------
(* The bound of the queue *)

\* Only linking a task makes the queue longer, and it needs room in a counter
\* that is never below the length.
LEMMA StepBounds ==
    PoolInv /\ [Next]_vars /\ Len(list_task') > Len(list_task)
      => list_task_max = 0 \/ Len(list_task') <= list_task_max
<1> SUFFICES ASSUME PoolInv, [Next]_vars, Len(list_task') > Len(list_task)
             PROVE  list_task_max = 0 \/ Len(list_task') <= list_task_max
  OBVIOUS
<1>0. /\ TypeOK /\ Len(list_task) <= list_task_ttl /\ list_task \in Seq(Tasks)
      /\ Len(list_task) \in Nat /\ list_task_ttl \in Nat /\ list_task_max \in Nat
  BY DEF PoolInv, QueueCount, TypeOK
<1>1. list_task' # list_task
  BY <1>0
<1>2. ASSUME NEW c \in Callers, NEW t \in Tasks, NEW f \in BOOLEAN, Enqueue(c, t, f), ~Full
      PROVE  list_task_max = 0 \/ Len(list_task') <= list_task_max
  BY <1>0, <1>2, EnqueueLengthens DEF Full
<1>3. ASSUME NEW w \in Workers, WorkerStep(w) PROVE FALSE
  <2>1. WorkerTake(w)
    BY <1>1, <1>3
       DEF WorkerStep, WorkerWait, WorkerExit, WorkerRan, WorkerRecycles, pool
  <2>2. list_task' = Tail(list_task) /\ list_task # <<>>
    BY <2>1 DEF WorkerTake, TaskDue, Pop
  <2> QED BY <1>0, <2>2
<1>4. ASSUME NEW c \in Callers, CallStep(c), ~AddResumes(c) PROVE FALSE
  <2>1. CloseReaps(c)
    BY <1>1, <1>4
       DEF CallStep, AddWaitsAgain, SpawnsNone, Spawns, WaitTaskDoneReturns, CloseBegins,
           CloseUnlinks, CloseJoined, CloseFindsNoThread, pool
  <2>2. Len(list_task') = 0
    BY <2>1 DEF CloseReaps
  <2> QED BY <1>0, <2>2
<1>5. ASSUME NEW c \in Callers, AddResumes(c)
      PROVE  list_task_max = 0 \/ Len(list_task') <= list_task_max
  <2>1. adding[c] \in Tasks /\ front[c] \in BOOLEAN
    BY <1>0, <1>5, ConstantsAssumption DEF AddResumes, PoolInv, Holding, TypeOK
  <2>2. ~Full /\ Enqueue(c, adding[c], front[c])
    BY <1>1, <1>5 DEF AddResumes, OutOfMemory
  <2> QED BY <1>2, <2>1, <2>2
<1>6. ASSUME NEW c \in Callers, Call(c)
      PROVE  list_task_max = 0 \/ Len(list_task') <= list_task_max
  <2>1. PICK t \in Tasks, f \in BOOLEAN : Add(c, t, f)
    BY <1>1, <1>6 DEF Call, AddRefused, AddWaits, SetTaskMax, WaitTaskDone, Close, pool
  <2>2. ~Full /\ Enqueue(c, t, f)
    BY <1>1, <2>1 DEF Add, OutOfMemory
  <2> QED BY <1>2, <2>2
<1>7. ~(\E x \in Workers \cup Callers : SpuriousWakeup(x)) /\ ~UNCHANGED vars
  BY <1>1 DEF SpuriousWakeup, vars, pool
<1> QED BY <1>3, <1>4, <1>5, <1>6, <1>7 DEF Next

\* No call makes the queue longer than the limit that holds when it adds its
\* task, however often the limit changed while it slept.
THEOREM QueueBounded == Spec => QueueBound
<1>1. PoolInv /\ [Next]_vars
        => [Len(list_task') > Len(list_task) =>
              list_task_max = 0 \/ Len(list_task') <= list_task_max]_vars
  BY StepBounds
<1> QED BY PoolInvariant, <1>1, PTL DEF Spec, QueueBound

-----------------------------------------------------------------------------
(* Draining before closing *)

\* Once drained, no task is queued, blocked or dropped until one is added; and
\* a task that runs when the queue is empty has finished when close returns.
DrainInv ==
    /\ dropped # {} => shutdown
    /\ closed => Running = {}
    /\ drained => /\ list_task = <<>> /\ dropped = {}
                  /\ \A c \in Callers : cpc[c] # "adding"

LEMMA InitDrain == Init => DrainInv
BY DEF Init, DrainInv

LEMMA StepDrain == PoolInv /\ CloseInv /\ DrainInv /\ [Next]_vars => DrainInv'
<1> SUFFICES ASSUME PoolInv, CloseInv, DrainInv, [Next]_vars PROVE DrainInv'
  OBVIOUS
<1>0. TypeOK /\ CloseOrder
  BY DEF PoolInv, CloseInv
<1> USE DEF DrainInv
<1>1. ASSUME NEW w \in Workers, WorkerStep(w) PROVE DrainInv'
  <2>1. UNCHANGED <<cpc, shutdown, dropped, closed, drained>>
    BY <1>1 DEF WorkerStep, WorkerWait, WorkerExit, WorkerTake, WorkerRan, WorkerRecycles,
            pool, worker, caller, history
  <2>2. shutdown => Running' \subseteq Running
    BY <1>0, <1>1 DEF WorkerStep, WorkerWait, WorkerExit, WorkerTake, WorkerRan, WorkerRecycles,
            TaskDue, Running, TypeOK, worker
  <2>3. list_task = <<>> => list_task' = <<>>
    BY <1>1 DEF WorkerStep, WorkerWait, WorkerExit, WorkerTake, WorkerRan, WorkerRecycles,
            TaskDue, pool
  <2> QED BY <1>0, <2>1, <2>2, <2>3 DEF CloseOrder
<1>2. ASSUME UNCHANGED <<list_task, dropped, shutdown, closed, drained>>, Running' = Running,
             \A c \in Callers : cpc'[c] = "adding" => cpc[c] = "adding"
      PROVE  DrainInv'
  BY <1>2
<1>3. ASSUME NEW c \in Callers, CallStep(c) PROVE DrainInv'
  <2>1. CASE AddWaitsAgain(c)
    BY <1>2, <2>1 DEF AddWaitsAgain, Running, worker, caller, history
  <2>2. CASE AddResumes(c)
    <3>1. ~drained /\ UNCHANGED <<worker, shutdown, dropped, closed, drained>>
      BY <2>2 DEF AddResumes
    <3> QED BY <3>1 DEF Running, worker
  <2>3. CASE SpawnsNone(c)
    BY <1>0, <1>2, <2>3 DEF SpawnsNone, Running, TypeOK, pool, worker, history
  <2>4. CASE Spawns(c)
    <3>1. Running' = Running
      BY <1>0, <2>4 DEF Spawns, Threads, Running, TypeOK
    <3> QED BY <1>0, <1>2, <2>4, <3>1 DEF Spawns, TypeOK, history
  <2>5. CASE WaitTaskDoneReturns(c)
    <3>1. /\ list_task = <<>> /\ cpc' = [cpc EXCEPT ![c] = "idle"]
          /\ drained' = (~shutdown /\ \A d \in Callers : cpc[d] # "adding")
          /\ UNCHANGED <<list_task, shutdown, worker, dropped, closed>>
      BY <2>5 DEF WaitTaskDoneReturns, pool
    <3> QED BY <1>0, <3>1 DEF Running, TypeOK, worker
  <2>6. CASE CloseBegins(c)
    BY <1>0, <2>6 DEF CloseBegins, Running, TypeOK, worker
  <2>7. CASE \E w \in Workers : CloseUnlinks(c, w)
    BY <1>2, <2>7 DEF CloseUnlinks, Running, worker, history
  <2>8. CASE CloseJoined(c)
    <3>1. Running' = Running
      BY <1>0, <2>8 DEF CloseJoined, Running, TypeOK
    <3> QED BY <1>2, <2>8, <3>1 DEF CloseJoined, pool, history
  <2>9. CASE CloseFindsNoThread(c)
    BY <1>0, <1>2, <2>9 DEF CloseFindsNoThread, Running, TypeOK, pool, worker, history
  <2>10. CASE CloseReaps(c)
    <3>1. /\ shutdown /\ Running = {} /\ list_task' = <<>> /\ dropped' = dropped \cup Queued
          /\ cpc' = [cpc EXCEPT ![c] = "idle"]
          /\ UNCHANGED <<shutdown, worker, drained>>
      BY <1>0, <2>10 DEF CloseReaps, CloseOrder
    <3>2. drained => Queued = {}
      BY DEF Queued
    <3> QED BY <1>0, <3>1, <3>2 DEF Running, TypeOK, worker
  <2> QED BY <1>3, <2>1, <2>2, <2>3, <2>4, <2>5, <2>6, <2>7, <2>8, <2>9, <2>10 DEF CallStep
<1>4. ASSUME NEW c \in Callers, Call(c) PROVE DrainInv'
  <2>1. CASE \E t \in Tasks : AddRefused(c, t)
    BY <1>2, <2>1 DEF AddRefused, Running, pool, worker, caller
  <2>2. CASE \E t \in Tasks, f \in BOOLEAN : AddWaits(c, t, f) \/ Add(c, t, f)
    <3>1. ~drained' /\ UNCHANGED <<worker, shutdown, dropped, closed>>
      BY <2>2 DEF AddWaits, Add
    <3> QED BY <3>1 DEF Running, worker
  <2>3. CASE \E n \in MaxChoices : SetTaskMax(c, n)
    BY <1>2, <2>3 DEF SetTaskMax, Running, worker, caller, history
  <2>4. CASE WaitTaskDone(c)
    BY <1>0, <1>2, <2>4 DEF WaitTaskDone, Running, TypeOK, pool, worker, history
  <2>5. CASE Close(c)
    BY <1>0, <1>2, <2>5 DEF Close, Running, TypeOK, pool, worker, history
  <2> QED BY <1>4, <2>1, <2>2, <2>3, <2>4, <2>5 DEF Call
<1>5. ASSUME NEW x \in Workers \cup Callers, SpuriousWakeup(x) PROVE DrainInv'
  BY <1>2, <1>5 DEF SpuriousWakeup, Running, worker, caller, history
<1>6. CASE UNCHANGED vars
  BY <1>2, <1>6 DEF vars, Running, pool, worker, caller, history
<1> QED BY <1>1, <1>3, <1>4, <1>5, <1>6 DEF Next

\* wait_task_done followed by close loses no task, those that a worker had
\* taken but not finished when the queue was found empty included.
THEOREM DrainedClosesDone == Spec => []DrainedClose
<1>1. Init => DrainInv
  BY InitDrain
<1>2. PoolInv /\ CloseInv /\ DrainInv /\ [Next]_vars => DrainInv'
  BY StepDrain
<1>3. PoolInv /\ DrainInv => DrainedClose
  <2> SUFFICES ASSUME PoolInv, DrainInv, closed, drained
               PROVE  Blocked \cup Queued \cup Running \cup dropped = {}
    BY DEF DrainedClose
  <2>1. Blocked = {}
    BY ConstantsAssumption DEF PoolInv, Holding, DrainInv, Blocked
  <2>2. Queued = {}
    BY DEF DrainInv, Queued
  <2> QED BY <2>1, <2>2 DEF DrainInv
<1> QED BY PoolInvariant, CloseInvariant, <1>1, <1>2, <1>3, PTL DEF Spec

-----------------------------------------------------------------------------
(* Waking up, while no limit is set *)

\* Only workers sleep, and nobody once the pool is shut.
Sleepers ==
    /\ list_task_max = 0
    /\ \A c \in Callers : cpc[c] # "adding"
    /\ \A x \in cond_task : x \in Workers /\ wpc[x] = "ready"
    /\ shutdown => cond_task = {}

WakeInv == Sleepers /\ NoLostWakeup

LEMMA IdleFinite == IsFiniteSet(Idle) /\ Cardinality(Idle) \in Nat
BY ConstantsAssumption, FS_Subset, FS_CardinalityType DEF Idle

\* A worker more is awake.
LEMMA IdleGains ==
    ASSUME NEW w, w \notin Idle, Idle' = Idle \cup {w}
    PROVE  Cardinality(Idle') = Cardinality(Idle) + 1
BY IdleFinite, FS_AddElement

\* One worker falls out of the set and another one is woken.
LEMMA IdleSwaps ==
    ASSUME NEW w \in Idle, NEW x, x \notin Idle, Idle' = (Idle \ {w}) \cup {x}
    PROVE  Cardinality(Idle') = Cardinality(Idle)
<1>1. IsFiniteSet(Idle \ {w}) /\ Cardinality(Idle \ {w}) = Cardinality(Idle) - 1
  BY IdleFinite, FS_RemoveElement
<1>2. Cardinality(Idle') = Cardinality(Idle) - 1 + 1
  BY <1>1, FS_AddElement
<1> QED BY <1>2, IdleFinite

LEMMA InitWake == Init => WakeInv
BY DEF Init, WakeInv, Sleepers, NoLostWakeup

\* A signal that finds a sleeper wakes a worker, there is no other sleeper.
LEMMA SignalWakes ==
    ASSUME Sleepers, cond_task # {}, Signal
    PROVE  \E x \in Workers : /\ x \in cond_task /\ cond_task' = cond_task \ {x}
                              /\ wpc[x] = "ready"
BY DEF Sleepers, Signal

\* Every step that queues a task or takes a worker away makes up for it.
LEMMA StepWake ==
    ASSUME MaxChoices = {}
    PROVE  PoolInv /\ WakeInv /\ [Next]_vars => WakeInv'
<1> SUFFICES ASSUME PoolInv, WakeInv, [Next]_vars PROVE WakeInv'
  OBVIOUS
<1>0. /\ TypeOK /\ Holding /\ Sleepers /\ NoLostWakeup
      /\ list_task \in Seq(Tasks) /\ Len(list_task) \in Nat
  BY DEF PoolInv, WakeInv, TypeOK
<1> USE ConstantsAssumption DEF WakeInv
<1>1. ASSUME NEW w \in Workers, WorkerWait(w) PROVE WakeInv'
  <2>1. Sleepers'
    BY <1>0, <1>1 DEF WorkerWait, Sleepers, Idle, worker, caller
  <2>2. Len(list_task') = 0
    BY <1>1 DEF WorkerWait
  <2>3. Cardinality(Idle') \in Nat
    BY FS_Subset, FS_CardinalityType DEF Idle
  <2> QED BY <2>1, <2>2, <2>3 DEF NoLostWakeup
<1>2. ASSUME NEW w \in Workers, WorkerExit(w) PROVE WakeInv'
  BY <1>0, <1>2 DEF WorkerExit, Sleepers, NoLostWakeup, TypeOK, caller
<1>3. ASSUME NEW w \in Workers, WorkerTake(w) PROVE WakeInv'
  <2>1. /\ ~shutdown /\ list_task # <<>> /\ list_task' = Tail(list_task) /\ Signal
        /\ wpc' = [wpc EXCEPT ![w] = "running"] /\ w \in Idle
        /\ UNCHANGED <<cpc, shutdown, list_task_max>>
    BY <1>3 DEF WorkerTake, TaskDue, Pop, caller
  <2>2. wpc[w] = "ready" /\ w \notin cond_task
    BY <2>1 DEF Idle
  <2>3. Sleepers'
    BY <1>0, <2>1, <2>2 DEF Sleepers, Signal, TypeOK
  <2>4. Len(list_task') <= Len(list_task)
    BY <1>0, <2>1
  <2>5. CASE cond_task = {}
    BY <2>1, <2>3, <2>5 DEF Signal, NoLostWakeup
  <2>6. CASE cond_task # {}
    <3>1. PICK x \in Workers : x \in cond_task /\ cond_task' = cond_task \ {x} /\ wpc[x] = "ready"
      BY <1>0, <2>1, <2>6, SignalWakes
    <3>2. x \notin Idle /\ Idle' = (Idle \ {w}) \cup {x}
      BY <1>0, <2>1, <2>2, <3>1 DEF Idle, TypeOK
    <3>3. Cardinality(Idle') = Cardinality(Idle)
      BY <2>1, <3>2, IdleSwaps
    <3>4. Len(list_task) <= Cardinality(Idle)
      BY <1>0, <3>1 DEF NoLostWakeup
    <3>5. Len(list_task') \in Nat
      BY <1>0, <2>1
    <3> QED BY <1>0, <2>3, <2>4, <3>3, <3>4, <3>5, IdleFinite DEF NoLostWakeup
  <2> QED BY <2>5, <2>6
<1>4. ASSUME UNCHANGED <<list_task, list_task_max, shutdown, cond_task>>,
             \A c \in Callers : cpc'[c] # "adding", Idle' = Idle,
             \A v \in Workers : wpc[v] = "ready" => wpc'[v] = "ready"
      PROVE  WakeInv'
  BY <1>0, <1>4 DEF Sleepers, NoLostWakeup
<1>5. ASSUME NEW w \in Workers, w \notin Idle, Idle' = Idle \cup {w},
             UNCHANGED <<list_task, list_task_max, shutdown>>, cond_task' \subseteq cond_task,
             \A c \in Callers : cpc'[c] # "adding",
             \A v \in Workers : wpc[v] = "ready" => wpc'[v] = "ready"
      PROVE  WakeInv'
  <2>1. Cardinality(Idle') = Cardinality(Idle) + 1
    BY <1>5, IdleGains
  <2>2. Sleepers'
    BY <1>0, <1>5 DEF Sleepers
  <2>3. cond_task \cap Workers # {} => Len(list_task') <= Cardinality(Idle) + 1
    BY <1>0, <1>5, IdleFinite DEF NoLostWakeup
  <2> QED BY <1>5, <2>1, <2>2, <2>3 DEF NoLostWakeup
<1>6. ASSUME NEW w \in Workers, WorkerRan(w) PROVE WakeInv'
  <2>1. Idle' = Idle
    BY <1>0, <1>6 DEF WorkerRan, Idle, TypeOK, pool
  <2> QED BY <1>0, <1>4, <1>6, <2>1 DEF WorkerRan, Sleepers, TypeOK, pool, caller
<1>7. ASSUME NEW w \in Workers, WorkerRecycles(w) PROVE WakeInv'
  <2>1. w \notin cond_task
    BY <1>0, <1>7 DEF WorkerRecycles, Sleepers
  <2>2. w \notin Idle /\ Idle' = Idle \cup {w}
    BY <1>0, <1>7, <2>1 DEF WorkerRecycles, Idle, TypeOK
  <2> QED BY <1>0, <1>5, <1>7, <2>2 DEF WorkerRecycles, Sleepers, TypeOK, caller
<1>8. ASSUME NEW c \in Callers, NEW t \in Tasks, NEW f \in BOOLEAN, Add(c, t, f) PROVE WakeInv'
  <2>1. ~shutdown /\ UNCHANGED <<worker, shutdown, list_task_max>>
    BY <1>8 DEF Add
  <2>2. CASE Enqueue(c, t, f)
    <3>1. cpc' = [cpc EXCEPT ![c] = "spawning"] /\ Signal /\ Len(list_task') = Len(list_task) + 1
      BY <1>0, <2>2, EnqueueLengthens DEF Enqueue
    <3>2. Sleepers'
      BY <1>0, <2>1, <3>1 DEF Sleepers, Signal, TypeOK, worker
    <3>3. CASE cond_task = {}
      BY <3>1, <3>2, <3>3 DEF Signal, NoLostWakeup
    <3>4. CASE cond_task # {}
      <4>1. PICK x \in Workers : x \in cond_task /\ cond_task' = cond_task \ {x} /\ wpc[x] = "ready"
        BY <1>0, <3>1, <3>4, SignalWakes
      <4>2. x \notin Idle /\ Idle' = Idle \cup {x}
        BY <2>1, <4>1 DEF Idle, worker
      <4>3. Cardinality(Idle') = Cardinality(Idle) + 1
        BY <4>2, IdleGains
      <4>4. Len(list_task) <= Cardinality(Idle)
        BY <1>0, <4>1 DEF NoLostWakeup
      <4> QED BY <1>0, <3>1, <3>2, <4>3, <4>4, IdleFinite DEF NoLostWakeup
    <3> QED BY <3>3, <3>4
  <2>3. CASE OutOfMemory(c, t)
    <3>1. /\ cpc' = [cpc EXCEPT ![c] = "idle"] /\ UNCHANGED <<list_task, cond_task>>
      BY <2>3 DEF OutOfMemory
    <3>2. Idle' = Idle
      BY <2>1, <3>1 DEF Idle, worker
    <3> QED BY <1>0, <1>4, <2>1, <3>1, <3>2 DEF Sleepers, TypeOK, worker
  <2> QED BY <1>8, <2>2, <2>3 DEF Add
<1>9. ASSUME NEW c \in Callers, Call(c) PROVE WakeInv'
  <2>1. ASSUME UNCHANGED <<list_task, list_task_max, shutdown, cond_task, worker>>,
               \E s \in {cpc[c], "polling", "closing"} : cpc' = [cpc EXCEPT ![c] = s]
        PROVE  WakeInv'
    BY <1>0, <1>4, <2>1 DEF Idle, Sleepers, TypeOK, worker
  <2>2. ~Full
    BY <1>0 DEF Full, Sleepers
  <2>3. CASE \E t \in Tasks : AddRefused(c, t)
    <3>1. UNCHANGED <<list_task, list_task_max, shutdown, cond_task, worker, cpc>>
      BY <2>3 DEF AddRefused, pool, caller
    <3> QED BY <1>0, <2>1, <3>1 DEF TypeOK
  <2>4. CASE \E t \in Tasks, f \in BOOLEAN : AddWaits(c, t, f) \/ Add(c, t, f)
    BY <1>8, <2>2, <2>4 DEF AddWaits
  <2>5. CASE WaitTaskDone(c)
    BY <2>1, <2>5 DEF WaitTaskDone, pool
  <2>6. CASE Close(c)
    BY <2>1, <2>6 DEF Close, pool
  <2> QED BY <1>9, <2>3, <2>4, <2>5, <2>6 DEF Call
<1>10. ASSUME NEW c \in Callers, Spawns(c) PROVE WakeInv'
  <2>1. PICK w \in Workers \ Threads : wpc' = [wpc EXCEPT ![w] = "ready"]
    BY <1>10 DEF Spawns
  <2>2. wpc[w] = "none" /\ w \notin cond_task /\ cond_task' = cond_task
    BY <1>0, <1>10, <2>1 DEF Spawns, Threads, Sleepers
  <2>3. w \notin Idle /\ Idle' = Idle \cup {w}
    BY <1>0, <2>1, <2>2 DEF Idle, TypeOK
  <2> QED BY <1>0, <1>5, <1>10, <2>1, <2>3 DEF Spawns, Sleepers, TypeOK
<1>11. ASSUME NEW c \in Callers, CallStep(c) PROVE WakeInv'
  <2>1. ASSUME UNCHANGED <<list_task, list_task_max, shutdown, cond_task>>, Idle' = Idle,
               \E s \in {cpc[c], "idle", "reaping"} : cpc' = [cpc EXCEPT ![c] = s],
               \A v \in Workers : wpc[v] = "ready" => wpc'[v] = "ready"
        PROVE  WakeInv'
    BY <1>0, <1>4, <2>1 DEF Sleepers, TypeOK
  <2>2. ~AddWaitsAgain(c) /\ ~AddResumes(c)
    BY <1>0 DEF AddWaitsAgain, AddResumes, Sleepers
  <2>3. CASE SpawnsNone(c)
    BY <2>1, <2>3 DEF SpawnsNone, Idle, pool, worker
  <2>4. CASE WaitTaskDoneReturns(c)
    BY <2>1, <2>4 DEF WaitTaskDoneReturns, Idle, pool, worker
  <2>5. CASE CloseBegins(c)
    BY <1>0, <2>5 DEF CloseBegins, Broadcast, Sleepers, NoLostWakeup, TypeOK
  <2>6. CASE \E w \in Workers : CloseUnlinks(c, w)
    <3>1. UNCHANGED <<list_task, list_task_max, shutdown, cond_task, worker, cpc>>
      BY <2>6 DEF CloseUnlinks
    <3> QED BY <1>0, <2>1, <3>1 DEF Idle, TypeOK, worker
  <2>7. CASE CloseJoined(c)
    <3>1. UNCHANGED <<list_task, list_task_max, shutdown, cond_task, cpc>>
      BY <2>7 DEF CloseJoined, pool
    <3>2. Idle' = Idle /\ \A v \in Workers : wpc[v] = "ready" => wpc'[v] = "ready"
      BY <1>0, <2>7, <3>1 DEF CloseJoined, Idle, TypeOK
    <3> QED BY <1>0, <2>1, <3>1, <3>2 DEF TypeOK
  <2>8. CASE CloseFindsNoThread(c)
    BY <2>1, <2>8 DEF CloseFindsNoThread, Idle, pool, worker
  <2>9. CASE CloseReaps(c)
    <3>1. Len(list_task') = 0 /\ Idle' = Idle
      BY <2>9 DEF CloseReaps, Idle, worker
    <3>2. Sleepers'
      BY <1>0, <2>9 DEF CloseReaps, Sleepers, TypeOK, worker
    <3> QED BY <3>1, <3>2, IdleFinite DEF NoLostWakeup
  <2> QED BY <1>10, <1>11, <2>2, <2>3, <2>4, <2>5, <2>6, <2>7, <2>8, <2>9 DEF CallStep
<1>12. ASSUME NEW x \in Workers \cup Callers, SpuriousWakeup(x) PROVE WakeInv'
  <2>1. x \in Workers /\ wpc[x] = "ready" /\ x \in cond_task /\ cond_task' = cond_task \ {x}
        /\ UNCHANGED <<list_task, list_task_max, shutdown, worker, caller>>
    BY <1>0, <1>12 DEF SpuriousWakeup, Sleepers
  <2>2. x \notin Idle /\ Idle' = Idle \cup {x}
    BY <2>1 DEF Idle, worker
  <2> QED BY <1>0, <1>5, <2>1, <2>2 DEF Sleepers, worker, caller
<1>13. CASE UNCHANGED vars
  BY <1>0, <1>4, <1>13 DEF vars, pool, worker, caller, Idle, Sleepers
<1> QED
  BY <1>1, <1>2, <1>3, <1>6, <1>7, <1>9, <1>11, <1>12, <1>13 DEF Next, WorkerStep

\* While no limit is set no worker sleeps through a task it is needed for,
\* although every signal wakes one sleeper only and any of them.
THEOREM NoWakeupLost ==
    ASSUME MaxChoices = {}
    PROVE  Spec => []NoLostWakeup
<1>1. Init => WakeInv
  BY InitWake
<1>2. PoolInv /\ WakeInv /\ [Next]_vars => WakeInv'
  BY StepWake
<1>3. WakeInv => NoLostWakeup
  BY DEF WakeInv
<1> QED BY PoolInvariant, <1>1, <1>2, <1>3, PTL DEF Spec

-----------------------------------------------------------------------------
(* The pool implements the task queue, while no limit is set *)

\* When a worker is about to take a task there is room for it to run: the
\* tasks that run are as many as the workers that run them.
LEMMA RunningBound ==
    ASSUME TypeOK, Holding, ThreadAccounting, NEW w \in Workers, wpc[w] = "ready"
    PROVE  Cardinality(Running) < ThreadMax
<1> DEFINE R == {v \in Workers : wpc[v] = "running"}
           f == [v \in R |-> task[v]]
<1>1. IsFiniteSet(R) /\ IsFiniteSet(Live \ {w})
  BY LiveFinite, FS_RemoveElement, FS_Subset, ConstantsAssumption
<1>2. f \in Surjection(R, Running)
  <2>1. \A v \in R : task[v] \in Running
    BY DEF Running, Holding, TypeOK
  <2>2. \A t \in Running : \E v \in R : f[v] = t
    BY DEF Running
  <2> QED BY <2>1, <2>2 DEF Surjection
<1>3. Cardinality(Running) <= Cardinality(R) /\ IsFiniteSet(Running)
  BY <1>1, <1>2, FS_Surjection
<1>4. R \subseteq Live \ {w} /\ w \in Live
  BY DEF Live
<1>5. Cardinality(R) <= Cardinality(Live \ {w})
  BY <1>1, <1>4, FS_Subset
<1>6. Cardinality(Live \ {w}) = Cardinality(Live) - 1
  BY <1>4, LiveFinite, FS_RemoveElement
<1>7. Cardinality(Running) \in Nat /\ Cardinality(R) \in Nat
  BY <1>1, <1>3, FS_CardinalityType
<1> QED BY <1>3, <1>5, <1>6, <1>7, LiveFinite, ConstantsAssumption DEF ThreadAccounting

\* A step that only moves a worker between states in which it runs nothing,
\* or leaves it alone, is a stutter of the queue.
LEMMA Stutters ==
    ASSUME UNCHANGED <<shutdown, list_task, done, dropped>>, Running' = Running
    PROVE  UNCHANGED TQ!tqVars
BY DEF TQ!tqVars

\* Every step is one of the queue or a stutter: starting is the taking of a
\* task, submitting is the linking, shutting is the start of close and the
\* discarding is its end, when nothing runs.
LEMMA StepRefines ==
    ASSUME MaxChoices = {}
    PROVE  PoolInv /\ TaskConservation /\ CloseInv /\ WakeInv /\ [Next]_vars
             => [TQ!Next]_TQ!tqVars
<1> SUFFICES ASSUME PoolInv, TaskConservation, CloseInv, WakeInv, [Next]_vars
             PROVE  TQ!Next \/ UNCHANGED TQ!tqVars
  OBVIOUS
<1> USE ConstantsAssumption
<1>0. /\ TypeOK /\ Holding /\ ThreadAccounting /\ QueuedOnce /\ HeldOnce /\ OnePlace
      /\ CloseOrder /\ Sleepers
  BY DEF PoolInv, TaskConservation, CloseInv, WakeInv
<1>1. ASSUME NEW w \in Workers, WorkerTake(w) PROVE TQ!Next
  <2> DEFINE t == Head(list_task)
  <2>1. /\ ~shutdown /\ list_task # <<>> /\ list_task' = Tail(list_task)
        /\ wpc[w] = "ready" /\ wpc' = [wpc EXCEPT ![w] = "running"]
        /\ task' = [task EXCEPT ![w] = t] /\ UNCHANGED <<shutdown, done, dropped>>
    BY <1>1 DEF WorkerTake, TaskDue, Pop, Idle, history
  <2>2. t \in Tasks
    BY <1>0, <2>1 DEF TypeOK
  <2> HIDE DEF t
  <2>3. Running' = Running \cup {t}
    BY <1>0, <2>1, <2>2 DEF Running, TypeOK
  <2>4. Cardinality(Running) < ThreadMax
    BY <1>0, <2>1, RunningBound
  <2>5. TQ!Start
    BY <2>1, <2>3, <2>4 DEF TQ!Start, t, TQ!Cardinality, Cardinality
  <2> QED BY <2>5 DEF TQ!Next
<1>2. ASSUME NEW w \in Workers, WorkerRan(w) PROVE TQ!Next
  <2> DEFINE t == task[w]
  <2>1. /\ wpc[w] = "running" /\ t \in Tasks /\ t # None
        /\ wpc' = [wpc EXCEPT ![w] = "recycling"] /\ task' = [task EXCEPT ![w] = None]
        /\ done' = done \cup {t} /\ UNCHANGED <<shutdown, list_task, dropped>>
    BY <1>0, <1>2 DEF WorkerRan, Holding, TypeOK, pool
  <2>2. \A v \in Workers : v # w => task[v] # t /\ task'[v] = task[v] /\ wpc'[v] = wpc[v]
    BY <1>0, <2>1 DEF HeldOnce, TypeOK
  <2>3. wpc'[w] = "recycling"
    BY <1>0, <2>1 DEF TypeOK
  <2>4. t \in Running
    BY <2>1 DEF Running
  <2>5. \A v \in Workers : task[v] # t => v # w
    OBVIOUS
  <2> HIDE DEF t
  <2>6. Running' = Running \ {t}
    <3>1. ASSUME NEW u \in Running' PROVE u \in Running \ {t}
      BY <2>2, <2>3, <3>1 DEF Running
    <3>2. ASSUME NEW u \in Running \ {t} PROVE u \in Running'
      BY <2>2, <2>5, <3>2 DEF Running, t
    <3> QED BY <3>1, <3>2
  <2>7. TQ!Finish(t)
    BY <2>1, <2>4, <2>6 DEF TQ!Finish
  <2> QED BY <2>1, <2>7 DEF TQ!Next
<1>3. ASSUME NEW c \in Callers, NEW t \in Tasks, NEW f \in BOOLEAN, Add(c, t, f)
      PROVE TQ!Next \/ UNCHANGED TQ!tqVars
  <2>1. ~shutdown /\ t \in Fresh /\ UNCHANGED <<worker, shutdown, done, dropped>>
    BY <1>3 DEF Add
  <2>2. Running' = Running
    BY <2>1 DEF Running, worker
  <2>3. CASE Enqueue(c, t, f)
    <3>1. list_task' = Append(list_task, t) \/ list_task' = <<t>> \o list_task
      BY <2>3 DEF Enqueue
    <3>2. t \notin TQ!Waiting \cup Running \cup done \cup dropped
      BY <2>1 DEF Fresh, Queued, TQ!Waiting
    <3>3. TQ!Submit(t)
      BY <2>1, <2>2, <3>1, <3>2 DEF TQ!Submit
    <3> QED BY <3>3 DEF TQ!Next
  <2>4. CASE OutOfMemory(c, t)
    BY <2>1, <2>2, <2>4, Stutters DEF OutOfMemory
  <2> QED BY <1>3, <2>3, <2>4 DEF Add
<1>4. ASSUME NEW c \in Callers, CloseBegins(c) PROVE TQ!Next
  <2>1. /\ ~shutdown /\ shutdown' = TRUE /\ UNCHANGED <<list_task, worker, done, dropped>>
    BY <1>0, <1>4 DEF CloseBegins, CloseOrder
  <2>2. Running' = Running
    BY <2>1 DEF Running, worker
  <2>3. TQ!Shut
    BY <2>1, <2>2 DEF TQ!Shut
  <2> QED BY <2>3 DEF TQ!Next
<1>5. ASSUME NEW c \in Callers, CloseReaps(c) PROVE TQ!Next
  <2>1. /\ shutdown /\ Running = {} /\ list_task' = <<>> /\ dropped' = dropped \cup Queued
        /\ UNCHANGED <<shutdown, worker, done>>
    BY <1>0, <1>5 DEF CloseReaps, CloseOrder
  <2>2. Running' = Running
    BY <2>1 DEF Running, worker
  <2>3. TQ!Waiting = Queued
    BY DEF TQ!Waiting, Queued
  <2>4. TQ!Discard
    BY <2>1, <2>2, <2>3 DEF TQ!Discard
  <2> QED BY <2>4 DEF TQ!Next
<1>6. ASSUME UNCHANGED <<shutdown, list_task, done, dropped, worker>> PROVE UNCHANGED TQ!tqVars
  BY <1>6, Stutters DEF Running, worker
<1>7. ASSUME NEW w \in Workers, WorkerStep(w) PROVE TQ!Next \/ UNCHANGED TQ!tqVars
  <2>1. CASE WorkerWait(w)
    BY <1>6, <2>1 DEF WorkerWait, history
  <2>2. CASE WorkerExit(w)
    <3>1. Running' = Running
      BY <1>0, <2>2 DEF WorkerExit, Idle, Running, TypeOK
    <3> QED BY <2>2, <3>1, Stutters DEF WorkerExit, history
  <2>3. CASE WorkerRecycles(w)
    <3>1. Running' = Running
      BY <1>0, <2>3 DEF WorkerRecycles, Running, TypeOK
    <3> QED BY <2>3, <3>1, Stutters DEF WorkerRecycles, history
  <2> QED BY <1>1, <1>2, <1>7, <2>1, <2>2, <2>3 DEF WorkerStep
<1>8. ASSUME NEW c \in Callers, CallStep(c) PROVE TQ!Next \/ UNCHANGED TQ!tqVars
  <2>1. ~AddResumes(c)
    BY <1>0 DEF AddResumes, Sleepers
  <2>2. CASE Spawns(c)
    <3>1. Running' = Running
      BY <1>0, <2>2 DEF Spawns, Threads, Running, TypeOK
    <3> QED BY <2>2, <3>1, Stutters DEF Spawns, history
  <2>3. CASE CloseJoined(c)
    <3>1. Running' = Running
      BY <1>0, <2>3 DEF CloseJoined, Running, TypeOK
    <3> QED BY <2>3, <3>1, Stutters DEF CloseJoined, pool, history
  <2> QED BY <1>4, <1>5, <1>6, <1>8, <2>1, <2>2, <2>3
      DEF CallStep, AddWaitsAgain, SpawnsNone, WaitTaskDoneReturns, CloseUnlinks,
          CloseFindsNoThread, pool, history
<1>9. ASSUME NEW c \in Callers, Call(c) PROVE TQ!Next \/ UNCHANGED TQ!tqVars
  BY <1>3, <1>6, <1>9
     DEF Call, AddRefused, AddWaits, SetTaskMax, WaitTaskDone, Close, pool, history
<1> QED BY <1>6, <1>7, <1>8, <1>9 DEF Next, SpuriousWakeup, vars, pool, history

\* A pool whose queue has no limit implements the abstract task queue: tasks
\* start in its order, at most thread_max at a time, and close discards only
\* when it is shut and nothing runs.
THEOREM RefinesTaskQueue ==
    ASSUME MaxChoices = {}
    PROVE  Spec => ImplementsTaskQueue
<1>1. Init => TQ!Init
  BY ConstantsAssumption DEF Init, TQ!Init, Running
<1>2. PoolInv /\ TaskConservation /\ CloseInv /\ WakeInv /\ [Next]_vars
        => [TQ!Next]_TQ!tqVars
  BY StepRefines
<1>3. Spec => []WakeInv
  <2>1. Init => WakeInv
    BY InitWake
  <2>2. PoolInv /\ WakeInv /\ [Next]_vars => WakeInv'
    BY StepWake
  <2> QED BY PoolInvariant, <2>1, <2>2, PTL DEF Spec
<1> QED BY <1>1, <1>2, <1>3, PoolInvariant, TasksConserved, CloseInvariant, PTL
        DEF Spec, ImplementsTaskQueue, TQ!Spec
=============================================================================
