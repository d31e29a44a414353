---------------------------- MODULE ExecutorTimer ----------------------------
(***************************************************************************)
(* logger::ctx::Executor::ExecutorTimer (mylogger/context/executor.{h,cpp})*)
(* behind Executor::PostDelaydTask, PostRepeatedTask and                   *)
(* CancelRepeatedTask: a queue of tasks with the time each is due, and a   *)
(* loop (Run_) in a thread of the timer's own pool that runs them.         *)
(*                                                                         *)
(* The processes are one thread per posting call (Calls, also the name of  *)
(* its task and, as repeated_task_id_ gives every call another number, of  *)
(* its id), the threads of the pool (Loops), and the owner, who destroys   *)
(* the timer when no call is under way.  The pool is made for one thread,  *)
(* but as many are started as there are Starts that find it not available. *)
(* Between two Run_ a thread waits in the pool for what is submitted; the  *)
(* pool's own matter is ThreadPool's module, here is what Stop needs of it.*)
(*                                                                         *)
(* A step is one access to what the threads share: running_,               *)
(* repeated_id_state_set_ (which no lock protects), or the queue under     *)
(* mutex_, or of the pool.  task_mutex_ is held by a thread that has found *)
(* nothing to do ("blind") until it waits ("asleep"); other sections under *)
(* it are one step.  The task hands the user's task to a runner and is one *)
(* step.  Time is what is left until an entry is due: a Tick takes one     *)
(* from every clock that runs.  Entries that are overdue are alike: which  *)
(* of them has the earlier time point is not kept.                         *)
(***************************************************************************)
EXTENDS Naturals, FiniteSets

CONSTANTS
    Delayed,        \* calls of PostDelaydTask
    Repeated,       \* calls of PostRepeatedTask
    Delta,          \* Delta[c]: the delay, or the period, of call c
    Counts,         \* the values of repeat_num that calls give
    Loops,          \* the threads the timer's pool may start
    Nothing         \* a thread carries no entry

Calls == Delayed \union Repeated
Threads == Calls \union Loops

\* An entry of the queue: Internals, the repeat_num bound in its task with it.
Entry == [call : Calls, left : Nat, due : Nat]

ASSUME TimerAssumption ==
    /\ Delayed \intersect Repeated = {}
    /\ Calls \intersect Loops = {}
    /\ Delta \in [Calls -> Nat]
    /\ Counts \subseteq Nat
    /\ Cardinality(Loops) >= Cardinality(Calls)
    /\ Nothing \notin Entry

VARIABLES
    running,        \* running_
    available,      \* is_available_ of the pool
    shutdown,       \* is_shutdown_ of the pool
    submitted,      \* Run_ tasks in the pool that no thread has begun
    queue,          \* queue_
    active,         \* repeated_id_state_set_
    pc,             \* where each thread is
    carry,          \* the entry each thread has in hand
    rest,           \* what is left of the wait_for of each thread
    opc,            \* where the owner is in Stop
    asked,          \* history: how often each task was to run
    ran,            \* history: how often each task has run
    age,            \* history: what is left of the period since it last did
    cancelled,      \* history: the calls cancelled
    late            \* history: how often each has run since it was cancelled

vars == <<running, available, shutdown, submitted, queue, active, pc, carry, rest, opc, asked,
          ran, age, cancelled, late>>
pool    == <<available, shutdown, submitted>>
history == <<asked, ran, age, cancelled, late>>

ThreadStates ==
    {"none", "idle", "load", "store", "pool_load", "pool_start", "submit", "post", "find",
     "run", "stamp", "push", "notify", "returned", "top", "wait", "wait_for",
     "blind", "asleep", "gone"}

TypeOK ==
    /\ running \in BOOLEAN
    /\ available \in BOOLEAN /\ shutdown \in BOOLEAN /\ submitted \in Nat
    /\ queue \subseteq Entry
    /\ active \subseteq Repeated
    /\ pc \in [Threads -> ThreadStates]
    /\ carry \in [Threads -> Entry \union {Nothing}]
    /\ rest \in [Loops -> Nat]
    /\ opc \in {"idle", "notify", "pool_stop", "pool_notify", "join", "done"}
    /\ asked \in [Calls -> Nat]
    /\ ran \in [Calls -> Nat] /\ age \in [Calls -> Nat] /\ late \in [Calls -> Nat]
    /\ cancelled \subseteq Repeated

Init ==
    /\ running = FALSE
    /\ available = FALSE
    /\ shutdown = FALSE
    /\ submitted = 0
    /\ queue = {}
    /\ active = {}
    /\ pc = [p \in Threads |-> IF p \in Loops THEN "none" ELSE "idle"]
    /\ carry = [p \in Threads |-> Nothing]
    /\ rest = [t \in Loops |-> 0]
    /\ opc = "idle"
    /\ asked = [c \in Calls |-> 1]
    /\ ran = [c \in Calls |-> 0]
    /\ age = [c \in Calls |-> 0]
    /\ cancelled = {}
    /\ late = [c \in Calls |-> 0]

Move(p, from, to) == pc[p] = from /\ pc' = [pc EXCEPT ![p] = to]

\* Where a thread goes when it is through with its entry.
Done(p) == IF p \in Loops THEN "load" ELSE "returned"

\* One run of the task of call c.
Run(c) ==
    /\ ran' = [ran EXCEPT ![c] = @ + 1]
    /\ age' = [age EXCEPT ![c] = Delta[c]]
    /\ late' = IF c \in cancelled THEN [late EXCEPT ![c] = @ + 1] ELSE late
    /\ UNCHANGED <<asked, cancelled>>

\* notify_one, on the program counters f: a thread that waits in one of the states
\* waiting, if there is one, goes on.
Wake(waiting, next, f) ==
    LET them == {t \in Loops : f[t] \in waiting} IN
    IF them = {} THEN pc' = f ELSE \E t \in them : pc' = [f EXCEPT ![t] = next]

\* notify_one of cond_.
WakeOne(f) == Wake({"wait", "wait_for"}, "load", f)

\* notify_all.
WakeAll(waiting, next) ==
    pc' = [p \in Threads |-> IF p \in Loops /\ pc[p] \in waiting THEN next ELSE pc[p]]

TaskMutexFree == \A t \in Loops : pc[t] # "blind"

-----------------------------------------------------------------------------
(***************************************************************************)
(* Start, with which every posting call begins.                            *)
(***************************************************************************)

Post(c) ==
    /\ opc = "idle"
    /\ Move(c, "idle", "load")
    /\ UNCHANGED <<running, pool, queue, active, carry, rest, opc, history>>

LoadRunning(c) ==
    /\ Move(c, "load", IF running THEN "post" ELSE "store")
    /\ UNCHANGED <<running, pool, queue, active, carry, rest, opc, history>>

StoreRunning(c) ==
    /\ Move(c, "store", "pool_load")
    /\ running' = TRUE
    /\ UNCHANGED <<pool, queue, active, carry, rest, opc, history>>

\* ThreadPool::Start looks at is_available_ ...
PoolLoad(c) ==
    /\ Move(c, "pool_load", IF available THEN "submit" ELSE "pool_start")
    /\ UNCHANGED <<running, pool, queue, active, carry, rest, opc, history>>

\* ... and then sets it and starts its one thread.
PoolStart(c) ==
    /\ pc[c] = "pool_start"
    /\ available' = TRUE
    /\ \E t \in Loops :
          /\ pc[t] = "none"
          /\ pc' = [pc EXCEPT ![c] = "submit", ![t] = "idle"]
    /\ UNCHANGED <<running, shutdown, submitted, queue, active, carry, rest, opc, history>>

\* SubmitTask, and its notify_one.
SubmitRun(c) ==
    /\ pc[c] = "submit"
    /\ TaskMutexFree
    /\ submitted' = submitted + 1
    /\ Wake({"asleep"}, "idle", [pc EXCEPT ![c] = "post"])
    /\ UNCHANGED <<running, available, shutdown, queue, active, carry, rest, opc, history>>

-----------------------------------------------------------------------------
(***************************************************************************)
(* PostDelayedTask, PostRepeatedTask, CancelRepeatedTask.                  *)
(***************************************************************************)

\* The time point is taken before the lock ...
StampDelayed(c) ==
    /\ c \in Delayed
    /\ Move(c, "post", "push")
    /\ carry' = [carry EXCEPT ![c] = [call |-> c, left |-> 1, due |-> Delta[c]]]
    /\ age' = [age EXCEPT ![c] = Delta[c]]
    /\ UNCHANGED <<running, pool, queue, active, rest, opc, asked, ran, cancelled, late>>

\* Variant: nobody is notified of the entry.
PushUnnoticed(c) ==
    /\ c \in Delayed
    /\ Move(c, "push", "returned")
    /\ queue' = queue \union {carry[c]}
    /\ carry' = [carry EXCEPT ![c] = Nothing]
    /\ UNCHANGED <<running, pool, active, rest, opc, history>>

\* ... and under it the entry is pushed and a thread notified.
PushDelayed(c) ==
    /\ c \in Delayed
    /\ pc[c] = "push"
    /\ queue' = queue \union {carry[c]}
    /\ carry' = [carry EXCEPT ![c] = Nothing]
    /\ WakeOne([pc EXCEPT ![c] = "returned"])
    /\ UNCHANGED <<running, pool, active, rest, opc, history>>

\* PostRepeatedTask with repeat_num = asked'[c].
Asks(c) ==
    /\ \E n \in Counts : asked' = [asked EXCEPT ![c] = n]
    /\ UNCHANGED <<ran, age, cancelled, late>>

\* Variant: the first run is taken off repeat_num before it is tested.
InsertLess(c) ==
    /\ c \in Repeated
    /\ Move(c, "post", "find")
    /\ Asks(c)
    /\ active' = active \union {c}
    /\ carry' = [carry EXCEPT ![c] = [call |-> c, left |-> asked'[c] - 1, due |-> 0]]
    /\ UNCHANGED <<running, pool, queue, rest, opc>>

InsertId(c) ==
    /\ c \in Repeated
    /\ Move(c, "post", "find")
    /\ Asks(c)
    /\ active' = active \union {c}
    /\ carry' = [carry EXCEPT ![c] = [call |-> c, left |-> asked'[c], due |-> 0]]
    /\ UNCHANGED <<running, pool, queue, rest, opc>>

\* Only who has the id, which PostRepeatedTask returns, can cancel.
CancelRepeatedTask(c) ==
    /\ opc = "idle"
    /\ pc[c] = "returned"
    /\ c \notin cancelled
    /\ active' = active \ {c}
    /\ cancelled' = cancelled \union {c}
    /\ UNCHANGED <<running, pool, queue, pc, carry, rest, opc, asked, ran, age,
                   late>>

-----------------------------------------------------------------------------
(***************************************************************************)
(* PostRepeatedTask_, in the thread that posts and then in the loop.       *)
(***************************************************************************)

\* Variant: repeat_num is not tested.
FindIdOnly(p) ==
    LET stop == carry[p].call \notin active IN
    /\ Move(p, "find", IF stop THEN Done(p) ELSE "run")
    /\ carry' = IF stop THEN [carry EXCEPT ![p] = Nothing] ELSE carry
    /\ UNCHANGED <<running, pool, queue, active, rest, opc, history>>

\* Variant: the id is not looked up.
FindCountOnly(p) ==
    LET stop == carry[p].left = 0 IN
    /\ Move(p, "find", IF stop THEN Done(p) ELSE "run")
    /\ carry' = IF stop THEN [carry EXCEPT ![p] = Nothing] ELSE carry
    /\ UNCHANGED <<running, pool, queue, active, rest, opc, history>>

FindId(p) ==
    LET stop == carry[p].call \notin active \/ carry[p].left = 0 IN
    /\ Move(p, "find", IF stop THEN Done(p) ELSE "run")
    /\ carry' = IF stop THEN [carry EXCEPT ![p] = Nothing] ELSE carry
    /\ UNCHANGED <<running, pool, queue, active, rest, opc, history>>

\* task(), under mutex_.
RunRepeated(p) ==
    /\ Move(p, "run", "stamp")
    /\ carry[p].call \in Repeated
    /\ Run(carry[p].call)
    /\ UNCHANGED <<running, pool, queue, active, carry, rest, opc>>

Stamp(p) ==
    /\ Move(p, "stamp", "push")
    /\ carry' = [carry EXCEPT ![p].due = Delta[carry[p].call]]
    /\ UNCHANGED <<running, pool, queue, active, rest, opc, history>>

\* The next turn has one run less to go.
PushRepeated(p) ==
    /\ Move(p, "push", "notify")
    /\ carry[p].call \in Repeated
    /\ queue' = queue \union {[carry[p] EXCEPT !.left = @ - 1]}
    /\ carry' = [carry EXCEPT ![p] = Nothing]
    /\ UNCHANGED <<running, pool, active, rest, opc, history>>

\* Once the lock is released.
NotifyOne(p) ==
    /\ pc[p] = "notify"
    /\ WakeOne([pc EXCEPT ![p] = Done(p)])
    /\ UNCHANGED <<running, pool, queue, active, carry, rest, opc, history>>

-----------------------------------------------------------------------------
(***************************************************************************)
(* Run_.                                                                   *)
(***************************************************************************)

\* A thread of the pool takes up a Run_ that was submitted ...
BeginRun(t) ==
    /\ submitted > 0
    /\ TaskMutexFree
    /\ Move(t, "idle", "load")
    /\ submitted' = submitted - 1
    /\ UNCHANGED <<running, available, shutdown, queue, active, carry, rest, opc, history>>

\* ... or finds none, and then waits ...
FindNoRun(t) ==
    /\ submitted = 0 /\ ~shutdown
    /\ TaskMutexFree
    /\ Move(t, "idle", "blind")
    /\ UNCHANGED <<running, pool, queue, active, carry, rest, opc, history>>

WaitForRun(t) ==
    /\ Move(t, "blind", "asleep")
    /\ UNCHANGED <<running, pool, queue, active, carry, rest, opc, history>>

\* ... or ends, when the pool is shut down.
Leave(t) ==
    /\ submitted = 0 /\ shutdown
    /\ TaskMutexFree
    /\ Move(t, "idle", "gone")
    /\ UNCHANGED <<running, pool, queue, active, carry, rest, opc, history>>

LoopLoad(t) ==
    /\ Move(t, "load", IF running THEN "top" ELSE "idle")
    /\ UNCHANGED <<running, pool, queue, active, carry, rest, opc, history>>

\* The rest of a turn of the loop, under mutex_, takes one of three ways.
Earliest == {e \in queue : \A f \in queue : e.due <= f.due}

WaitForTask(t) ==
    /\ queue = {}
    /\ Move(t, "top", "wait")
    /\ UNCHANGED <<running, pool, queue, active, carry, rest, opc, history>>

WaitForTime(t) ==
    /\ Move(t, "top", "wait_for")
    /\ \E e \in Earliest : e.due > 0 /\ rest' = [rest EXCEPT ![t] = e.due]
    /\ UNCHANGED <<running, pool, queue, active, carry, opc, history>>

\* Variant: after a wait the task is taken, whatever ended the wait.
PopEarly(t) ==
    /\ pc[t] = "top"
    /\ \E e \in Earliest :
          /\ queue' = queue \ {e}
          /\ carry' = [carry EXCEPT ![t] = e]
          /\ pc' = [pc EXCEPT ![t] = IF e.call \in Repeated THEN "find" ELSE "run"]
    /\ UNCHANGED <<running, pool, active, rest, opc, history>>

PopTask(t) ==
    /\ pc[t] = "top"
    /\ \E e \in Earliest :
          /\ e.due = 0
          /\ queue' = queue \ {e}
          /\ carry' = [carry EXCEPT ![t] = e]
          /\ pc' = [pc EXCEPT ![t] = IF e.call \in Repeated THEN "find" ELSE "run"]
    /\ UNCHANGED <<running, pool, active, rest, opc, history>>

RunDelayed(t) ==
    /\ Move(t, "run", "load")
    /\ carry[t].call \in Delayed
    /\ Run(carry[t].call)
    /\ carry' = [carry EXCEPT ![t] = Nothing]
    /\ UNCHANGED <<running, pool, queue, active, rest, opc>>

TimeOut(t) ==
    /\ rest[t] = 0
    /\ Move(t, "wait_for", "load")
    /\ UNCHANGED <<running, pool, queue, active, carry, rest, opc, history>>

SpuriousWakeUp(t) ==
    /\ pc[t] \in {"wait", "wait_for", "asleep"}
    /\ pc' = [pc EXCEPT ![t] = IF @ = "asleep" THEN "idle" ELSE "load"]
    /\ UNCHANGED <<running, pool, queue, active, carry, rest, opc, history>>

-----------------------------------------------------------------------------
(***************************************************************************)
(* Stop, from the destructor.                                              *)
(***************************************************************************)

Stop ==
    /\ opc = "idle"
    /\ \A c \in Calls : pc[c] \in {"idle", "returned"}
    /\ running' = FALSE
    /\ opc' = "notify"
    /\ UNCHANGED <<pool, queue, active, pc, carry, rest, history>>

\* Variant: one thread is notified, for the pool was made for one.
StopNotifiesOne ==
    /\ opc = "notify"
    /\ opc' = "pool_stop"
    /\ WakeOne(pc)
    /\ UNCHANGED <<running, pool, queue, active, carry, rest, history>>

\* notify_all is called without mutex_.
NotifyAll ==
    /\ opc = "notify"
    /\ opc' = "pool_stop"
    /\ WakeAll({"wait", "wait_for"}, "load")
    /\ UNCHANGED <<running, pool, queue, active, carry, rest, history>>

\* thread_pool_.reset() stops the pool, if it was started: it sets the flags ...
StopPool ==
    /\ opc = "pool_stop"
    /\ opc' = IF available THEN "pool_notify" ELSE "done"
    /\ available' = FALSE
    /\ shutdown' = (shutdown \/ available)
    /\ UNCHANGED <<running, submitted, queue, active, pc, carry, rest, history>>

\* ... notifies, without task_mutex_ ...
NotifyPool ==
    /\ opc = "pool_notify"
    /\ opc' = "join"
    /\ WakeAll({"asleep"}, "idle")
    /\ UNCHANGED <<running, pool, queue, active, carry, rest, history>>

\* ... and waits for its threads to end.
Join ==
    /\ opc = "join"
    /\ \A t \in Loops : pc[t] \in {"none", "gone"}
    /\ opc' = "done"
    /\ UNCHANGED <<running, pool, queue, active, pc, carry, rest, history>>

-----------------------------------------------------------------------------

Less(n) == IF n = 0 THEN 0 ELSE n - 1

Clocks == {e.due : e \in queue} \union {carry[p].due : p \in {q \in Threads : pc[q] = "push"}}
          \union {rest[t] : t \in Loops} \union {age[c] : c \in Calls}

Tick ==
    /\ \E n \in Clocks : n > 0
    /\ queue' = {[e EXCEPT !.due = Less(@)] : e \in queue}
    /\ carry' = [p \in Threads |-> IF pc[p] = "push" THEN [carry[p] EXCEPT !.due = Less(@)]
                                                     ELSE carry[p]]
    /\ rest' = [t \in Loops |-> Less(rest[t])]
    /\ age' = [c \in Calls |-> Less(age[c])]
    /\ UNCHANGED <<running, pool, active, pc, opc, asked, ran, cancelled, late>>

Repeating(p) == FindId(p) \/ RunRepeated(p) \/ Stamp(p) \/ PushRepeated(p) \/ NotifyOne(p)

CallStep(c) ==
    \/ LoadRunning(c) \/ StoreRunning(c) \/ PoolLoad(c) \/ PoolStart(c) \/ SubmitRun(c)
    \/ StampDelayed(c) \/ PushDelayed(c) \/ InsertId(c) \/ Repeating(c)

LoopStep(t) ==
    \/ BeginRun(t) \/ FindNoRun(t) \/ WaitForRun(t) \/ Leave(t)
    \/ LoopLoad(t) \/ WaitForTask(t) \/ WaitForTime(t) \/ PopTask(t) \/ RunDelayed(t)
    \/ TimeOut(t) \/ Repeating(t)

StopStep == NotifyAll \/ StopPool \/ NotifyPool \/ Join

Next ==
    \/ \E c \in Calls : Post(c) \/ CallStep(c)
    \/ \E c \in Repeated : CancelRepeatedTask(c)
    \/ \E t \in Loops : LoopStep(t) \/ SpuriousWakeUp(t)
    \/ Stop \/ StopStep
    \/ Tick

Spec == Init /\ [][Next]_vars

\* Every thread that can run is run, who waits for task_mutex_ gets it in the end, and
\* time passes; nobody is made to call.
FairSpec ==
    /\ Spec
    /\ \A c \in Calls : WF_vars(CallStep(c)) /\ SF_vars(SubmitRun(c))
    /\ \A t \in Loops : WF_vars(LoopStep(t))
    /\ WF_vars(StopStep)
    /\ WF_vars(Tick)

-----------------------------------------------------------------------------
(***************************************************************************)
(* Properties.                                                             *)
(***************************************************************************)

\* The entries of call c, in the queue or in hand.
Chain(c) == {e \in queue : e.call = c}
            \union {carry[p] : p \in {q \in Threads : carry[q] # Nothing /\ carry[q].call = c}}

\* A repeated task is handed on from the thread that posts it through the queue
\* to the loop and back, never doubled and never dropped: it runs repeat_num
\* times, no less unless it is cancelled, and a delayed task runs once.
RunsCounted ==
    \A c \in Calls :
        /\ Cardinality(Chain(c)) <= 1
        /\ ran[c] <= asked[c]
        /\ (pc[c] = "returned" /\ Chain(c) = {} /\ c \notin cancelled) => ran[c] = asked[c]

\* A task that is cancelled runs once more at the most: the one turn that had
\* found its id before it was erased.
CancelBites == \A c \in Calls : late[c] <= 1

\* No task runs before its time, whoever waits for what and is woken when: a
\* delayed one after its delay, a repeated one a period after the last run.
Paced ==
    [][\A c \in Calls :
          (ran'[c] # ran[c] /\ (c \in Delayed \/ ran[c] > 0)) => age[c] = 0]_vars

\* Every task posted gets to run, all its repetitions, until the timer is
\* stopped: no notification of an entry is missed.
PostedTaskRuns ==
    \A c \in Calls :
        pc[c] = "returned" ~>
            \/ ran[c] = asked[c]
            \/ c \in cancelled
            \/ opc # "idle"

\* Stop returns, however many threads run the loop and wherever they are, unless one of
\* its two notifications meets a thread between its look at the flag and its wait, as
\* neither flag is set under the lock of the wait: a loop that has seen running_, or a
\* thread that has seen is_shutdown_ of the pool not set and nothing to run.
StopEnds ==
    /\ (opc = "notify" /\ \A t \in Loops : pc[t] # "top")
           ~> (opc = "done" \/ (opc = "pool_notify" /\ \E t \in Loops : pc[t] = "blind"))
    /\ (opc = "pool_notify" /\ \A t \in Loops : pc[t] \notin {"top", "wait", "blind"})
           ~> opc = "done"

-----------------------------------------------------------------------------
(***************************************************************************)
(* The inductive invariant: why RunsCounted, CancelBites and Paced hold.   *)
(***************************************************************************)

Before  == {"idle", "load", "store", "pool_load", "pool_start", "submit", "post"}
Holding == {"find", "run", "stamp", "push"}
Has(p, c) == carry[p] # Nothing /\ carry[p].call = c

OnlyLoopsWait == \A c \in Calls : pc[c] \notin {"top", "wait", "wait_for", "blind", "asleep"}

\* A thread carries an entry in PostRepeatedTask_ and up to the push of a delayed
\* task or its run; a posting thread carries its own.
InHand ==
    \A p \in Threads :
        /\ carry[p] # Nothing <=> pc[p] \in Holding
        /\ p \in Calls /\ carry[p] # Nothing => carry[p].call = p
        /\ \A c \in Delayed : Has(p, c) => pc[p] = IF p \in Loops THEN "run" ELSE "push"

\* There is one entry of a call at the most, in one place.
OneEntry ==
    /\ \A e, f \in queue : e.call = f.call => e = f
    /\ \A p, q \in Threads : \A c \in Calls : Has(p, c) /\ Has(q, c) => p = q
    /\ \A e \in queue : \A p \in Threads : ~Has(p, e.call)

\* There is none before the call has made it.
NotYet ==
    \A c \in Calls : pc[c] \in Before =>
        /\ \A e \in queue : e.call # c
        /\ \A p \in Threads : ~Has(p, c)
        /\ ran[c] = 0 /\ late[c] = 0
        /\ c \in Delayed => asked[c] = 1

\* An id is active from its insertion until the task is cancelled, which only who got
\* it from the call can do.
ActiveIds ==
    /\ \A c \in Repeated : c \in active <=> pc[c] \notin Before /\ c \notin cancelled
    /\ \A c \in cancelled : pc[c] = "returned"

\* An entry knows how many runs are left; PostRepeatedTask_ takes the one it makes off
\* when it pushes the next entry.
RunsLeft ==
    /\ \A e \in queue :
          /\ ran[e.call] + e.left = asked[e.call]
          /\ e.call \in Delayed => e.left = 1
    /\ \A p \in Threads : \A c \in Calls : Has(p, c) =>
          /\ ran[c] + carry[p].left =
                IF c \in Repeated /\ pc[p] \in {"stamp", "push"} THEN asked[c] + 1 ELSE asked[c]
          /\ c \in Delayed => carry[p].left = 1
          /\ pc[p] \in {"run", "stamp", "push"} => carry[p].left > 0

\* When there is no entry any more no run is left.
AllRun ==
    \A c \in Calls :
        /\ ran[c] <= asked[c]
        /\ \/ pc[c] \in Before
           \/ c \in cancelled
           \/ \E e \in queue : e.call = c
           \/ \E p \in Threads : Has(p, c)
           \/ ran[c] = asked[c]

\* Who has found the id and not run the task yet may do so once.
LateOnce ==
    /\ \A c \in Calls : late[c] <= 1 /\ (c \notin cancelled => late[c] = 0)
    /\ \A p \in Threads : \A c \in Calls : Has(p, c) /\ pc[p] = "run" => late[c] = 0

\* An entry is not due before the time of its call has passed, and one in hand to be
\* run was due.
Spaced ==
    /\ \A c \in Calls : age[c] <= Delta[c]
    /\ \A e \in queue : (e.call \in Delayed \/ ran[e.call] > 0) => age[e.call] <= e.due
    /\ \A p \in Threads : \A c \in Calls :
          Has(p, c) /\ (c \in Delayed \/ ran[c] > 0) =>
              /\ pc[p] \in {"find", "run"} => age[c] = 0
              /\ pc[p] = "push" => age[c] <= carry[p].due

IInv ==
    /\ TypeOK /\ OnlyLoopsWait /\ InHand /\ OneEntry /\ NotYet /\ ActiveIds
    /\ RunsLeft /\ AllRun /\ LateOnce /\ Spaced
=============================================================================
