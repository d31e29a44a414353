------------------------------ MODULE ThreadPool ------------------------------
(***************************************************************************)
(* logger::ctx::ThreadPool (mylogger/context/thread_pool.{h,cpp}).         *)
(*                                                                         *)
(* The processes are                                                       *)
(*   - the worker threads AddThread creates, named by Workers;             *)
(*   - one thread per call of SubmitTask (PlainCalls) and of SubmitRetTask *)
(*     (RetCalls); a call is also the name of the task it carries.  A      *)
(*     client that makes several calls in a row is one of the orders in    *)
(*     which these threads may be scheduled;                               *)
(*   - the owner of the pool, which calls Start and Stop (the destructor   *)
(*     is a Stop) in any order, one after the other, at most OwnerCalls    *)
(*     times.                                                              *)
(*                                                                         *)
(* A step is one access to what the threads share: a load or a store of an *)
(* atomic flag, a mutex operation, a notification.  Code between lock and  *)
(* unlock that reads only the queue is one step.  A condition variable is  *)
(* its set of waiting threads: a notification of a thread that has not yet *)
(* joined the set is lost.                                                 *)
(***************************************************************************)
EXTENDS Naturals, Sequences, FiniteSets

CONSTANTS
    Workers,        \* the thread_count_ threads of the pool
    PlainCalls,     \* calls of SubmitTask
    RetCalls,       \* calls of SubmitRetTask
    OwnerCalls,     \* bound: how many calls of Start and Stop the owner makes
    NoOne           \* task_mutex_ is free / the worker has no task

Calls == PlainCalls \union RetCalls
Threads == Workers \union Calls

ASSUME PoolAssumption ==
    /\ Workers # {} /\ IsFiniteSet(Workers)
    /\ PlainCalls \intersect RetCalls = {}
    /\ Workers \intersect Calls = {}
    /\ NoOne \notin Threads
    /\ OwnerCalls \in Nat

VARIABLES
    is_available,   \* is_available_
    is_shutdown,    \* is_shutdown_
    tasks,          \* tasks_
    mutex,          \* the thread holding task_mutex_, or NoOne
    waiting,        \* the threads blocked in task_cv_.wait
    wpc,            \* where each worker is in the loop of AddThread
    task,           \* the local "task" of each worker
    cpc,            \* where each call is in SubmitTask or SubmitRetTask
    opc,            \* where the owner is in Start or Stop
    calls,          \* how many calls the owner has made
    accepted,       \* history: the tasks in the order they were enqueued
    executed,       \* history: the tasks in the order their bodies ended
    discarded       \* history: the tasks Stop popped without running them

flags  == <<is_available, is_shutdown>>
owner  == <<opc, calls>>
worker == <<wpc, task>>
history == <<accepted, executed, discarded>>
vars == <<is_available, is_shutdown, tasks, mutex, waiting, wpc, task, cpc, opc,
          calls, accepted, executed, discarded>>

WorkerStates == {"none", "lock", "check", "block", "waiting", "run", "exited", "joined"}
CallStates == {"idle", "load_shutdown", "load_available", "lock", "recheck_shutdown",
               "recheck_available", "emplace", "notify", "returned", "thrown"}
OwnerStates == {"idle", "spawn", "shutdown", "notify", "join", "clear"}

TypeOK ==
    /\ is_available \in BOOLEAN
    /\ is_shutdown \in BOOLEAN
    /\ tasks \in Seq(Calls)
    /\ mutex \in Threads \union {NoOne}
    /\ waiting \in SUBSET Workers
    /\ wpc \in [Workers -> WorkerStates]
    /\ task \in [Workers -> Calls \union {NoOne}]
    /\ cpc \in [Calls -> CallStates]
    /\ opc \in OwnerStates
    /\ calls \in Nat
    /\ accepted \in Seq(Calls)
    /\ executed \in Seq(Calls)
    /\ discarded \in SUBSET Calls

Init ==
    /\ is_available = FALSE
    /\ is_shutdown = FALSE
    /\ tasks = <<>>
    /\ mutex = NoOne
    /\ waiting = {}
    /\ wpc = [w \in Workers |-> "none"]
    /\ task = [w \in Workers |-> NoOne]
    /\ cpc = [c \in Calls |-> "idle"]
    /\ opc = "idle"
    /\ calls = 0
    /\ accepted = <<>>
    /\ executed = <<>>
    /\ discarded = {}

ElementsOf(s) == {s[i] : i \in DOMAIN s}

MoveWorker(w, from, to) == wpc[w] = from /\ wpc' = [wpc EXCEPT ![w] = to]
MoveCall(c, from, to)   == cpc[c] = from /\ cpc' = [cpc EXCEPT ![c] = to]
MoveOwner(from, to)     == opc = from /\ opc' = to

Acquire(p) == mutex = NoOne /\ mutex' = p
Release(p) == mutex = p /\ mutex' = NoOne

-----------------------------------------------------------------------------
(***************************************************************************)
(* The loop of a worker thread.                                            *)
(***************************************************************************)

\* Takes task_mutex_: at the top of the loop, or on return from a wait.
WorkerLock(w) ==
    /\ MoveWorker(w, "lock", "check")
    /\ Acquire(w)
    /\ UNCHANGED <<flags, tasks, waiting, task, cpc, owner, history>>

\* The predicate of the wait is false: the thread is about to block.
WorkerMustWait(w) ==
    /\ ~is_shutdown
    /\ tasks = <<>>
    /\ MoveWorker(w, "check", "block")
    /\ UNCHANGED <<flags, tasks, mutex, waiting, task, cpc, owner, history>>

\* wait releases the mutex and joins the wait set in one step.
WorkerBlock(w) ==
    /\ MoveWorker(w, "block", "waiting")
    /\ Release(w)
    /\ waiting' = waiting \union {w}
    /\ UNCHANGED <<flags, tasks, task, cpc, owner, history>>

\* wait may return although nobody notified it.
SpuriousWakeUp(w) ==
    /\ MoveWorker(w, "waiting", "lock")
    /\ waiting' = waiting \ {w}
    /\ UNCHANGED <<flags, tasks, mutex, task, cpc, owner, history>>

\* Shut down and nothing left to do: leaves the loop.
WorkerExit(w) ==
    /\ is_shutdown
    /\ tasks = <<>>
    /\ MoveWorker(w, "check", "exited")
    /\ Release(w)
    /\ UNCHANGED <<flags, tasks, waiting, task, cpc, owner, history>>

\* Variant: the task taken is left in the queue.
WorkerPopForgotten(w) ==
    /\ tasks # <<>>
    /\ MoveWorker(w, "check", "run")
    /\ task' = [task EXCEPT ![w] = Head(tasks)]
    /\ Release(w)
    /\ UNCHANGED <<flags, tasks, waiting, cpc, owner, history>>

\* Variant: the youngest task is taken.
WorkerPopBack(w) ==
    /\ tasks # <<>>
    /\ MoveWorker(w, "check", "run")
    /\ task' = [task EXCEPT ![w] = tasks[Len(tasks)]]
    /\ tasks' = SubSeq(tasks, 1, Len(tasks) - 1)
    /\ Release(w)
    /\ UNCHANGED <<flags, waiting, cpc, owner, history>>

WorkerPop(w) ==
    /\ tasks # <<>>
    /\ MoveWorker(w, "check", "run")
    /\ task' = [task EXCEPT ![w] = Head(tasks)]
    /\ tasks' = Tail(tasks)
    /\ Release(w)
    /\ UNCHANGED <<flags, waiting, cpc, owner, history>>

\* task() returns.
WorkerRun(w) ==
    /\ MoveWorker(w, "run", "lock")
    /\ executed' = Append(executed, task[w])
    /\ task' = [task EXCEPT ![w] = NoOne]
    /\ UNCHANGED <<flags, tasks, mutex, waiting, cpc, owner, accepted, discarded>>

-----------------------------------------------------------------------------
(***************************************************************************)
(* SubmitTask and SubmitRetTask.  Both load the two flags and give up if   *)
(* the pool does not run; only SubmitTask loads them again under the lock. *)
(***************************************************************************)

CallBegin(c) ==
    /\ MoveCall(c, "idle", "load_shutdown")
    /\ UNCHANGED <<flags, tasks, mutex, waiting, worker, owner, history>>

LoadShutdown(c) ==
    /\ MoveCall(c, "load_shutdown", IF is_shutdown THEN "returned" ELSE "load_available")
    /\ UNCHANGED <<flags, tasks, mutex, waiting, worker, owner, history>>

LoadAvailable(c) ==
    /\ MoveCall(c, "load_available", IF is_available THEN "lock" ELSE "returned")
    /\ UNCHANGED <<flags, tasks, mutex, waiting, worker, owner, history>>

CallLock(c) ==
    /\ MoveCall(c, "lock", IF c \in PlainCalls THEN "recheck_shutdown" ELSE "emplace")
    /\ Acquire(c)
    /\ UNCHANGED <<flags, tasks, waiting, worker, owner, history>>

\* Variant: the flags are not looked at again under the lock.
RecheckForgotten(c) ==
    /\ MoveCall(c, "recheck_shutdown", "recheck_available")
    /\ mutex = c
    /\ UNCHANGED <<flags, tasks, mutex, waiting, worker, owner, history>>

\* The exception leaves the block of the lock_guard.
RecheckShutdown(c) ==
    /\ MoveCall(c, "recheck_shutdown", IF is_shutdown THEN "thrown" ELSE "recheck_available")
    /\ mutex = c
    /\ mutex' = IF is_shutdown THEN NoOne ELSE c
    /\ UNCHANGED <<flags, tasks, waiting, worker, owner, history>>

RecheckAvailable(c) ==
    /\ MoveCall(c, "recheck_available", IF is_available THEN "emplace" ELSE "thrown")
    /\ mutex = c
    /\ mutex' = IF is_available THEN c ELSE NoOne
    /\ UNCHANGED <<flags, tasks, waiting, worker, owner, history>>

Emplace(c) ==
    /\ MoveCall(c, "emplace", "notify")
    /\ Release(c)
    /\ tasks' = Append(tasks, c)
    /\ accepted' = Append(accepted, c)
    /\ UNCHANGED <<flags, waiting, worker, owner, executed, discarded>>

\* Variant: a queued task wakes nobody.
NotifyForgotten(c) ==
    /\ MoveCall(c, "notify", "returned")
    /\ UNCHANGED <<flags, tasks, mutex, waiting, worker, owner, history>>

\* notify_one, outside the lock, wakes one waiting thread if there is one.
NotifyOne(c) ==
    /\ MoveCall(c, "notify", "returned")
    /\ \/ /\ waiting = {}
          /\ UNCHANGED <<waiting, wpc>>
       \/ \E w \in waiting :
             /\ waiting' = waiting \ {w}
             /\ MoveWorker(w, "waiting", "lock")
    /\ UNCHANGED <<flags, tasks, mutex, task, owner, history>>

-----------------------------------------------------------------------------
(***************************************************************************)
(* Start and Stop.                                                         *)
(***************************************************************************)

OwnerCall == calls < OwnerCalls /\ calls' = calls + 1

Start ==
    /\ ~is_available
    /\ MoveOwner("idle", "spawn")
    /\ OwnerCall
    /\ is_available' = TRUE
    /\ UNCHANGED <<is_shutdown, tasks, mutex, waiting, worker, cpc, history>>

\* Start on a running pool and Stop on one that does not run return at once.
StartOrStopReturns ==
    /\ opc = "idle"
    /\ OwnerCall
    /\ UNCHANGED <<flags, tasks, mutex, waiting, worker, cpc, opc, history>>

\* One turn of the loop of Start; the last one ends the call.
AddThread(w) ==
    /\ MoveOwner("spawn", IF \E v \in Workers \ {w} : wpc[v] = "none"
                          THEN "spawn" ELSE "idle")
    /\ MoveWorker(w, "none", "lock")
    /\ UNCHANGED <<flags, tasks, mutex, waiting, task, cpc, calls, history>>

Stop ==
    /\ is_available
    /\ MoveOwner("idle", "shutdown")
    /\ OwnerCall
    /\ is_available' = FALSE
    /\ UNCHANGED <<is_shutdown, tasks, mutex, waiting, worker, cpc, history>>

StoreShutdown ==
    /\ MoveOwner("shutdown", "notify")
    /\ is_shutdown' = TRUE
    /\ UNCHANGED <<is_available, tasks, mutex, waiting, worker, cpc, calls, history>>

\* notify_all is called without task_mutex_.
NotifyAll ==
    /\ MoveOwner("notify", "join")
    /\ waiting' = {}
    /\ wpc' = [w \in Workers |-> IF w \in waiting THEN "lock" ELSE wpc[w]]
    /\ UNCHANGED <<flags, tasks, mutex, task, cpc, calls, history>>

Join(w) ==
    /\ opc = "join"
    /\ MoveWorker(w, "exited", "joined")
    /\ UNCHANGED <<flags, tasks, mutex, waiting, task, cpc, owner, history>>

\* Variant: the threads that are still running are detached.
ClearDetached ==
    /\ MoveOwner("join", "clear")
    /\ wpc' = [w \in Workers |-> IF wpc[w] = "joined" THEN "none" ELSE wpc[w]]
    /\ UNCHANGED <<flags, tasks, mutex, waiting, task, cpc, calls, history>>

\* work_threads_.clear(), once every thread is joined.
ClearThreads ==
    /\ MoveOwner("join", "clear")
    /\ \A w \in Workers : wpc[w] = "joined"
    /\ wpc' = [w \in Workers |-> "none"]
    /\ UNCHANGED <<flags, tasks, mutex, waiting, task, cpc, calls, history>>

\* The loop that pops what is left of the queue, under the lock.
ClearTasks ==
    /\ MoveOwner("clear", "idle")
    /\ mutex = NoOne
    /\ tasks' = <<>>
    /\ discarded' = discarded \union ElementsOf(tasks)
    /\ UNCHANGED <<flags, mutex, waiting, worker, cpc, calls, accepted, executed>>

-----------------------------------------------------------------------------

WorkerStep(w) ==
    \/ WorkerLock(w) \/ WorkerMustWait(w) \/ WorkerBlock(w)
    \/ WorkerExit(w) \/ WorkerPop(w) \/ WorkerRun(w)

CallStep(c) ==
    \/ LoadShutdown(c) \/ LoadAvailable(c) \/ CallLock(c)
    \/ RecheckShutdown(c) \/ RecheckAvailable(c) \/ Emplace(c) \/ NotifyOne(c)

\* What the owner does inside a call; which call it makes next is its choice.
OwnerStep ==
    \/ StoreShutdown \/ NotifyAll \/ ClearThreads \/ ClearTasks
    \/ \E w \in Workers : AddThread(w) \/ Join(w)

Next ==
    \/ \E w \in Workers : WorkerStep(w) \/ SpuriousWakeUp(w)
    \/ \E c \in Calls : CallBegin(c) \/ CallStep(c)
    \/ Start \/ StartOrStopReturns \/ Stop \/ OwnerStep

Spec == Init /\ [][Next]_vars

\* The scheduler runs every thread that can run; the owner is not made to call.
FairSpec ==
    /\ Spec
    /\ \A w \in Workers : WF_vars(WorkerStep(w))
    /\ \A c \in Calls : WF_vars(CallStep(c))
    /\ WF_vars(OwnerStep)

\* As FairSpec, and no thread is passed over for ever when task_mutex_ is free.
LockFairSpec ==
    /\ FairSpec
    /\ \A w \in Workers : SF_vars(WorkerLock(w))
    /\ \A c \in Calls : SF_vars(CallLock(c))
    /\ SF_vars(ClearTasks)

-----------------------------------------------------------------------------
(***************************************************************************)
(* Properties.                                                             *)
(***************************************************************************)

\* A task that SubmitTask enqueued is never among those Stop throws away: the
\* second look at the flags under task_mutex_, and the worker's rule not to leave
\* before the queue is empty, make the loop at the end of Stop harmless for them.
NoPlainTaskDiscarded == discarded \intersect PlainCalls = {}

\* Wherever it came from, an enqueued task is in exactly one place: the queue,
\* the hands of one worker, the tasks run, or the tasks Stop threw away.
Places(s, c) == {i \in DOMAIN s : s[i] = c}
Holders(c) == {w \in Workers : task[w] = c}
Copies(c) ==
    Cardinality(Places(tasks, c)) + Cardinality(Holders(c))
    + Cardinality(Places(executed, c)) + (IF c \in discarded THEN 1 ELSE 0)
ExactlyOnce ==
    \A c \in Calls : Copies(c) = IF c \in ElementsOf(accepted) THEN 1 ELSE 0

\* From the moment Stop clears work_threads_ until the next Start, no thread of
\* the pool is left, asleep or awake, and no task is running.
QuietAfterStop ==
    (opc = "clear" \/ (opc = "idle" /\ ~is_available)) =>
        /\ waiting = {}
        /\ \A w \in Workers : wpc[w] = "none" /\ task[w] = NoOne

\* A task taken by SubmitTask is run, whatever Stop does meanwhile: notify_one
\* comes after the task is in the queue, and a worker that saw an empty queue
\* holds task_mutex_ until it is in the wait set.
AcceptedTaskRuns ==
    \A c \in PlainCalls : c \in ElementsOf(accepted) ~> c \in ElementsOf(executed)

\* Stop tells every thread to leave and waits until it has: a call returns.
StopReturns == opc # "idle" ~> opc = "idle"

\* The pool implements the abstract queue, its workers being the slots.
Queue == INSTANCE TaskQueue WITH
    Tasks <- Calls, Droppable <- RetCalls, Slots <- Workers, Idle <- NoOne,
    queue <- tasks, slot <- task, done <- executed, dropped <- discarded
ImplementsQueue == Queue!QSpec
-----------------------------------------------------------------------------
(***************************************************************************)
(* The inductive invariant behind the safety properties.                   *)
(***************************************************************************)

\* A worker holds a task exactly while it runs it.
InHand == \A w \in Workers : wpc[w] = "run" <=> task[w] # NoOne

\* Whoever is between lock and unlock holds task_mutex_.
LockHeld ==
    /\ \A w \in Workers : wpc[w] \in {"check", "block"} => mutex = w
    /\ \A c \in Calls :
          cpc[c] \in {"recheck_shutdown", "recheck_available", "emplace"} => mutex = c

\* The wait set of task_cv_ is the set of the workers asleep in wait.
Asleep == \A w \in Workers : w \in waiting <=> wpc[w] = "waiting"

\* is_available_ is set from the beginning of Start to the beginning of Stop.
OwnerFlags ==
    /\ opc = "spawn" => is_available
    /\ opc \in {"shutdown", "notify", "join", "clear"} => ~is_available

\* Once a thread has left the loop, or Stop has joined them all, SubmitTask is
\* closed: nothing of it is in the queue or past its last look at is_shutdown_.
ThreadGone ==
    opc = "clear" \/ \E w \in Workers : wpc[w] \in {"exited", "joined"}
Drained ==
    ThreadGone =>
        /\ is_shutdown
        /\ ElementsOf(tasks) \intersect PlainCalls = {}
        /\ \A c \in PlainCalls : cpc[c] \notin {"recheck_available", "emplace"}

\* A call enqueues its task once.
Fresh == \A c \in ElementsOf(accepted) : cpc[c] \in {"notify", "returned"}

IInv ==
    /\ TypeOK /\ InHand /\ LockHeld /\ Asleep /\ OwnerFlags
    /\ QuietAfterStop /\ Drained /\ NoPlainTaskDiscarded /\ Fresh
=============================================================================
