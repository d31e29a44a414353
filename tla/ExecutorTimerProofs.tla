------------------------- MODULE ExecutorTimerProofs -------------------------
(***************************************************************************)
(* Proofs about ExecutorTimer, for every set of calls, every delay, period *)
(* and number of repetitions, and every number of threads that run the     *)
(* loop: tasks run as often as they were to, not before their time, and    *)
(* once more at the most when they have been cancelled.                    *)
(***************************************************************************)
EXTENDS ExecutorTimer, FiniteSetTheorems, TLAPS

-----------------------------------------------------------------------------
(* Types, and the steps that leave the entries and the history alone. *)

\* The names of threads do not collide, and an entry is something.
LEMMA Distinct ==
    /\ Calls = Delayed \union Repeated /\ Threads = Calls \union Loops
    /\ Delayed \intersect Repeated = {} /\ Calls \intersect Loops = {}
    /\ Delta \in [Calls -> Nat]
    /\ Nothing \notin Entry
BY TimerAssumption DEF Calls, Threads

LEMMA InitInvariant == Init => IInv
<1> SUFFICES ASSUME Init PROVE IInv
  OBVIOUS
<1> USE Distinct, TimerAssumption DEF Init, Has
<1>1. TypeOK /\ OnlyLoopsWait
  BY DEF TypeOK, OnlyLoopsWait, ThreadStates
<1>2. InHand /\ OneEntry
  BY DEF InHand, OneEntry, Holding
<1>3. NotYet /\ ActiveIds
  BY DEF NotYet, ActiveIds, Before
<1>4. RunsLeft /\ AllRun
  BY DEF RunsLeft, AllRun, Before
<1>5. LateOnce /\ Spaced
  BY DEF LateOnce, Spaced
<1> QED BY <1>1, <1>2, <1>3, <1>4, <1>5 DEF IInv

\* Nothing of what the invariant is about changes but where threads are, and who
\* carries nothing still carries nothing.
QuietStep ==
    /\ UNCHANGED <<queue, carry, active, history>>
    /\ \A p \in Threads : pc'[p] = pc[p] \/ {pc[p], pc'[p]} \intersect Holding = {}
    /\ \A c \in Calls : /\ pc[c] \in Before <=> pc'[c] \in Before
                        /\ pc[c] = "returned" => pc'[c] = "returned"

\* notify_one moves a thread that waits, or nobody.
LEMMA WakeMoves ==
    ASSUME NEW W, NEW next \in ThreadStates,
           NEW f \in [Threads -> ThreadStates], Wake(W, next, f)
    PROVE  /\ pc' \in [Threads -> ThreadStates]
           /\ \A p \in Threads :
                 pc'[p] = f[p] \/ (p \in Loops /\ f[p] \in W /\ pc'[p] = next)
<1>1. CASE {t \in Loops : f[t] \in W} = {}
  BY <1>1 DEF Wake
<1>2. ASSUME NEW t \in Loops, f[t] \in W, pc' = [f EXCEPT ![t] = next]
      PROVE  /\ pc' \in [Threads -> ThreadStates]
             /\ \A p \in Threads :
                   pc'[p] = f[p] \/ (p \in Loops /\ f[p] \in W /\ pc'[p] = next)
  BY <1>2, Distinct
<1> QED BY <1>1, <1>2 DEF Wake

\* A notification of cond_ wakes a thread of the loop, or nobody.
LEMMA WakeType ==
    ASSUME NEW f \in [Threads -> ThreadStates], WakeOne(f)
    PROVE  /\ pc' \in [Threads -> ThreadStates]
           /\ \A p \in Threads :
                 pc'[p] = f[p] \/ (p \in Loops /\ f[p] \in {"wait", "wait_for"} /\ pc'[p] = "load")
<1>1. "load" \in ThreadStates
  BY DEF ThreadStates
<1>2. Wake({"wait", "wait_for"}, "load", f)
  BY DEF WakeOne
<1>3. \A W, next : next \in ThreadStates /\ Wake(W, next, f) =>
         /\ pc' \in [Threads -> ThreadStates]
         /\ \A p \in Threads : pc'[p] = f[p] \/ (p \in Loops /\ f[p] \in W /\ pc'[p] = next)
  BY WakeMoves
<1> QED BY <1>1, <1>2, <1>3

\* A notification of task_cv_, from SubmitTask, wakes a thread of the pool, or nobody.
LEMMA SubmitWakes ==
    ASSUME TypeOK, NEW c \in Calls, SubmitRun(c)
    PROVE  /\ pc' \in [Threads -> ThreadStates]
           /\ pc[c] = "submit" /\ pc'[c] = "post"
           /\ \A p \in Threads : p # c =>
                 pc'[p] = pc[p] \/ (p \in Loops /\ pc[p] = "asleep" /\ pc'[p] = "idle")
<1> DEFINE f == [pc EXCEPT ![c] = "post"]
<1>1. f \in [Threads -> ThreadStates] /\ pc[c] = "submit" /\ Wake({"asleep"}, "idle", f)
  BY DEF TypeOK, ThreadStates, SubmitRun
<1>2. f[c] = "post" /\ (\A p \in Threads : p # c => f[p] = pc[p])
  BY Distinct DEF TypeOK
<1>3. "idle" \in ThreadStates
  BY DEF ThreadStates
<1> HIDE DEF f
<1>4. /\ pc' \in [Threads -> ThreadStates]
      /\ \A p \in Threads :
            pc'[p] = f[p] \/ (p \in Loops /\ f[p] \in {"asleep"} /\ pc'[p] = "idle")
  BY <1>1, <1>3, WakeMoves
<1> QED BY <1>1, <1>2, <1>4, Distinct

\* A run is counted.
LEMMA RunType ==
    ASSUME TypeOK, NEW c \in Calls, Run(c)
    PROVE  /\ ran' \in [Calls -> Nat] /\ age' \in [Calls -> Nat] /\ late' \in [Calls -> Nat]
           /\ \A d \in Calls : d # c => ran'[d] = ran[d] /\ age'[d] = age[d] /\ late'[d] = late[d]
           /\ ran'[c] = ran[c] + 1 /\ age'[c] = Delta[c]
           /\ late'[c] = IF c \in cancelled THEN late[c] + 1 ELSE late[c]
BY Distinct DEF Run, TypeOK

\* Types.
LEMMA TypeStep == TypeOK /\ InHand /\ RunsLeft /\ [Next]_vars => TypeOK'
<1> SUFFICES ASSUME TypeOK, InHand, RunsLeft, [Next]_vars PROVE TypeOK'
  OBVIOUS
<1> USE Distinct DEF TypeOK, ThreadStates, Move, Done, pool, history
<1>1. ASSUME NEW p \in Threads, Repeating(p) PROVE TypeOK'
  <2>1. CASE FindId(p)
    <3>1. pc' \in [Threads -> ThreadStates] /\ carry' \in [Threads -> Entry \union {Nothing}]
      BY <2>1 DEF FindId
    <3> QED BY <2>1, <3>1 DEF FindId
  <2>2. CASE RunRepeated(p)
    <3>1. ran' \in [Calls -> Nat] /\ age' \in [Calls -> Nat] /\ late' \in [Calls -> Nat]
      BY <2>2, RunType DEF RunRepeated
    <3> QED BY <2>2, <3>1 DEF RunRepeated, Run
  <2>3. CASE Stamp(p)
    <3>1. carry[p] \in Entry
      BY <2>3 DEF Stamp, InHand, Holding
    <3>2. [carry[p] EXCEPT !.due = Delta[carry[p].call]] \in Entry
      BY <3>1 DEF Entry
    <3> QED BY <2>3, <3>2 DEF Stamp
  <2>4. CASE PushRepeated(p)
    <3>1. carry[p] \in Entry /\ carry[p] # Nothing
      BY <2>4 DEF PushRepeated, InHand, Holding
    <3>2. carry[p].call \in Calls /\ carry[p].left \in Nat /\ carry[p].due \in Nat
      BY <3>1 DEF Entry
    <3>3. carry[p].left > 0
      BY <2>4, <3>1, <3>2 DEF PushRepeated, RunsLeft, Has
    <3>4. [carry[p] EXCEPT !.left = @ - 1] \in Entry
      BY <3>1, <3>2, <3>3 DEF Entry
    <3>5. queue' \subseteq Entry /\ carry' \in [Threads -> Entry \union {Nothing}]
      BY <2>4, <3>4 DEF PushRepeated
    <3>6. pc' \in [Threads -> ThreadStates]
      BY <2>4 DEF PushRepeated
    <3> QED BY <2>4, <3>5, <3>6 DEF PushRepeated
  <2>5. CASE NotifyOne(p)
    <3>1. pc' \in [Threads -> ThreadStates]
      BY <2>5, WakeType DEF NotifyOne
    <3> QED BY <2>5, <3>1 DEF NotifyOne
  <2> QED BY <1>1, <2>1, <2>2, <2>3, <2>4, <2>5 DEF Repeating
<1>2. ASSUME NEW c \in Calls, Post(c) \/ CallStep(c) PROVE TypeOK'
  <2>0. c \in Threads  BY DEF Threads
  <2>1. CASE Post(c)  BY <2>0, <2>1 DEF Post
  <2>2. CASE LoadRunning(c)  BY <2>0, <2>2 DEF LoadRunning
  <2>3. CASE StoreRunning(c)  BY <2>0, <2>3 DEF StoreRunning
  <2>4. CASE PoolLoad(c)  BY <2>0, <2>4 DEF PoolLoad
  <2>5. CASE PoolStart(c)  BY <2>0, <2>5 DEF PoolStart
  <2>6. CASE SubmitRun(c)
    <3>1. pc' \in [Threads -> ThreadStates]
      BY <2>6, SubmitWakes
    <3> QED BY <2>6, <3>1 DEF SubmitRun
  <2>7. CASE StampDelayed(c)
    <3>1. [call |-> c, left |-> 1, due |-> Delta[c]] \in Entry
      BY DEF Entry
    <3> QED BY <2>7, <2>0, <3>1 DEF StampDelayed
  <2>8. CASE PushDelayed(c)
    <3>1. pc' \in [Threads -> ThreadStates]
      BY <2>8, <2>0, WakeType DEF PushDelayed
    <3>2. carry[c] \in Entry
      BY <2>8, <2>0 DEF PushDelayed, InHand, Holding
    <3> QED BY <2>8, <2>0, <3>1, <3>2 DEF PushDelayed
  <2>9. CASE InsertId(c)
    <3>1. asked' \in [Calls -> Nat] /\ asked'[c] \in Nat
      BY <2>9, TimerAssumption DEF InsertId, Asks
    <3>2. [call |-> c, left |-> asked'[c], due |-> 0] \in Entry
      BY <3>1 DEF Entry
    <3>3. UNCHANGED <<ran, age, cancelled, late>>
      BY <2>9 DEF InsertId, Asks
    <3> QED BY <2>9, <2>0, <3>1, <3>2, <3>3 DEF InsertId
  <2> QED BY <1>1, <1>2, <2>0, <2>1, <2>2, <2>3, <2>4, <2>5, <2>6, <2>7, <2>8, <2>9
             DEF CallStep
<1>3. ASSUME NEW t \in Loops, LoopStep(t) \/ SpuriousWakeUp(t) PROVE TypeOK'
  <2>0. t \in Threads  BY DEF Threads
  <2>1. CASE BeginRun(t)  BY <2>0, <2>1 DEF BeginRun
  <2>2. CASE LoopLoad(t)  BY <2>0, <2>2 DEF LoopLoad
  <2>3. CASE WaitForTask(t)  BY <2>0, <2>3 DEF WaitForTask
  <2>4. CASE WaitForTime(t)
    <3>1. PICK e \in Earliest : rest' = [rest EXCEPT ![t] = e.due]
      BY <2>4 DEF WaitForTime
    <3>2. e.due \in Nat
      BY DEF Earliest, Entry
    <3> QED BY <2>4, <2>0, <3>1, <3>2 DEF WaitForTime
  <2>5. CASE PopTask(t)
    <3>1. PICK e \in Earliest : /\ queue' = queue \ {e}
                                /\ carry' = [carry EXCEPT ![t] = e]
                                /\ pc' = [pc EXCEPT ![t] = IF e.call \in Repeated THEN "find" ELSE "run"]
      BY <2>5 DEF PopTask
    <3>2. e \in Entry
      BY DEF Earliest
    <3> QED BY <2>5, <2>0, <3>1, <3>2 DEF PopTask
  <2>6. CASE RunDelayed(t)
    <3>1. ran' \in [Calls -> Nat] /\ age' \in [Calls -> Nat] /\ late' \in [Calls -> Nat]
      BY <2>6, RunType DEF RunDelayed
    <3> QED BY <2>6, <2>0, <3>1 DEF RunDelayed, Run
  <2>7. CASE TimeOut(t)  BY <2>0, <2>7 DEF TimeOut
  <2>8. CASE SpuriousWakeUp(t)  BY <2>0, <2>8 DEF SpuriousWakeUp
  <2>9. CASE FindNoRun(t)  BY <2>0, <2>9 DEF FindNoRun
  <2>10. CASE WaitForRun(t)  BY <2>0, <2>10 DEF WaitForRun
  <2>11. CASE Leave(t)  BY <2>0, <2>11 DEF Leave
  <2> QED BY <1>1, <1>3, <2>0, <2>1, <2>2, <2>3, <2>4, <2>5, <2>6, <2>7, <2>8, <2>9, <2>10, <2>11
             DEF LoopStep
<1>4. ASSUME NEW c \in Repeated, CancelRepeatedTask(c) PROVE TypeOK'
  BY <1>4 DEF CancelRepeatedTask
<1>5. CASE Stop  BY <1>5 DEF Stop
<1>6. CASE NotifyAll
  BY <1>6 DEF NotifyAll, WakeAll
<1>7. CASE Join  BY <1>7 DEF Join
<1>10. CASE StopPool  BY <1>10 DEF StopPool
<1>11. CASE NotifyPool
  BY <1>11 DEF NotifyPool, WakeAll
<1>8. CASE Tick
  <2>1. \A e \in Entry : [e EXCEPT !.due = Less(@)] \in Entry
    BY DEF Entry, Less
  <2>2. \A p \in Threads : pc[p] = "push" => carry[p] \in Entry
    BY DEF InHand, Holding
  <2>3. queue' \subseteq Entry
    BY <1>8, <2>1 DEF Tick
  <2>4. carry' \in [Threads -> Entry \union {Nothing}]
    BY <1>8, <2>1, <2>2 DEF Tick
  <2>5. rest' \in [Loops -> Nat] /\ age' \in [Calls -> Nat]
    <3>1. \A n \in Nat : Less(n) \in Nat
      BY DEF Less
    <3>2. /\ rest' = [t \in Loops |-> Less(rest[t])] /\ rest \in [Loops -> Nat]
          /\ age' = [c \in Calls |-> Less(age[c])] /\ age \in [Calls -> Nat]
      BY <1>8 DEF Tick
    <3> HIDE DEF TypeOK
    <3> QED BY <3>1, <3>2
  <2>6. UNCHANGED <<running, pool, active, pc, opc, asked, ran, cancelled, late>>
    BY <1>8, Zenon DEF Tick
  <2> HIDE DEF ThreadStates
  <2> QED BY <2>3, <2>4, <2>5, <2>6
<1>9. CASE UNCHANGED vars  BY <1>9 DEF vars
<1> QED BY <1>1, <1>2, <1>3, <1>4, <1>5, <1>6, <1>7, <1>8, <1>9, <1>10, <1>11 DEF Next, StopStep

\* The loop is run by the threads of the pool.
LEMMA WaitStep == TypeOK /\ OnlyLoopsWait /\ [Next]_vars => OnlyLoopsWait'
<1> SUFFICES ASSUME TypeOK, OnlyLoopsWait, [Next]_vars PROVE OnlyLoopsWait'
  OBVIOUS
<1> USE Distinct DEF TypeOK, OnlyLoopsWait, Move, Done
<1>1. ASSUME NEW p \in Threads, Repeating(p) PROVE OnlyLoopsWait'
  <2>1. CASE FindId(p)  BY <2>1 DEF FindId
  <2>2. CASE RunRepeated(p)  BY <2>2 DEF RunRepeated
  <2>3. CASE Stamp(p)  BY <2>3 DEF Stamp
  <2>4. CASE PushRepeated(p)  BY <2>4 DEF PushRepeated
  <2>5. CASE NotifyOne(p)
    <3> DEFINE f == [pc EXCEPT ![p] = Done(p)]
    <3>1. f \in [Threads -> ThreadStates] /\ WakeOne(f)
      BY <2>5 DEF NotifyOne, ThreadStates
    <3>2. \A c \in Calls : f[c] = pc[c] \/ f[c] = "returned"
      BY <2>5 DEF NotifyOne
    <3> HIDE DEF f
    <3>3. \A c \in Calls : pc'[c] = f[c]
      BY <3>1, WakeType
    <3> QED BY <3>2, <3>3
  <2> QED BY <1>1, <2>1, <2>2, <2>3, <2>4, <2>5 DEF Repeating
<1>2. ASSUME NEW c \in Calls, Post(c) \/ CallStep(c) PROVE OnlyLoopsWait'
  <2>0. c \in Threads  BY DEF Threads
  <2>1. CASE Post(c)  BY <2>0, <2>1 DEF Post
  <2>2. CASE LoadRunning(c)  BY <2>0, <2>2 DEF LoadRunning
  <2>3. CASE StoreRunning(c)  BY <2>0, <2>3 DEF StoreRunning
  <2>4. CASE PoolLoad(c)  BY <2>0, <2>4 DEF PoolLoad
  <2>5. CASE PoolStart(c)  BY <2>0, <2>5 DEF PoolStart
  <2>6. CASE SubmitRun(c)
    <3>1. \A d \in Calls : pc'[d] = pc[d] \/ pc'[d] = "post"
      BY <2>6, SubmitWakes
    <3> QED BY <3>1
  <2>7. CASE StampDelayed(c)  BY <2>0, <2>7 DEF StampDelayed
  <2>8. CASE PushDelayed(c)
    <3>1. [pc EXCEPT ![c] = "returned"] \in [Threads -> ThreadStates]
      BY <2>8 DEF PushDelayed, ThreadStates
    <3>2. \A d \in Calls : pc'[d] = [pc EXCEPT ![c] = "returned"][d]
      BY <2>8, <3>1, WakeType DEF PushDelayed
    <3> QED BY <2>8, <2>0, <3>2
  <2>9. CASE InsertId(c)  BY <2>0, <2>9 DEF InsertId
  <2> QED BY <1>1, <1>2, <2>0, <2>1, <2>2, <2>3, <2>4, <2>5, <2>6, <2>7, <2>8, <2>9
             DEF CallStep
<1>3. ASSUME NEW t \in Loops, LoopStep(t) \/ SpuriousWakeUp(t) PROVE OnlyLoopsWait'
  <2>0. t \in Threads  BY DEF Threads
  <2>1. CASE BeginRun(t)  BY <2>0, <2>1 DEF BeginRun
  <2>2. CASE LoopLoad(t)  BY <2>0, <2>2 DEF LoopLoad
  <2>3. CASE WaitForTask(t)  BY <2>0, <2>3 DEF WaitForTask
  <2>4. CASE WaitForTime(t)  BY <2>0, <2>4 DEF WaitForTime
  <2>5. CASE PopTask(t)
    <3>1. \A c \in Calls : pc'[c] = pc[c]
      BY <2>5 DEF PopTask
    <3> QED BY <3>1
  <2>6. CASE RunDelayed(t)  BY <2>0, <2>6 DEF RunDelayed
  <2>7. CASE TimeOut(t)  BY <2>0, <2>7 DEF TimeOut
  <2>8. CASE SpuriousWakeUp(t)  BY <2>0, <2>8 DEF SpuriousWakeUp
  <2>9. CASE FindNoRun(t)  BY <2>0, <2>9 DEF FindNoRun
  <2>10. CASE WaitForRun(t)  BY <2>0, <2>10 DEF WaitForRun
  <2>11. CASE Leave(t)  BY <2>0, <2>11 DEF Leave
  <2> QED BY <1>1, <1>3, <2>0, <2>1, <2>2, <2>3, <2>4, <2>5, <2>6, <2>7, <2>8, <2>9, <2>10, <2>11
             DEF LoopStep
<1>4. ASSUME NEW c \in Repeated, CancelRepeatedTask(c) PROVE OnlyLoopsWait'
  BY <1>4 DEF CancelRepeatedTask
<1>5. CASE Stop  BY <1>5 DEF Stop
<1>6. CASE NotifyAll
  BY <1>6 DEF NotifyAll, WakeAll
<1>7. CASE Join  BY <1>7 DEF Join
<1>10. CASE StopPool  BY <1>10 DEF StopPool
<1>11. CASE NotifyPool
  BY <1>11 DEF NotifyPool, WakeAll
<1>8. CASE Tick
  BY <1>8 DEF Tick
<1>9. CASE UNCHANGED vars  BY <1>9 DEF vars
<1> QED BY <1>1, <1>2, <1>3, <1>4, <1>5, <1>6, <1>7, <1>8, <1>9, <1>10, <1>11 DEF Next, StopStep

\* What a step may do to the entries and the history.
Dealt ==
    \/ QuietStep \/ Tick
    \/ \E c \in Calls : StampDelayed(c) \/ PushDelayed(c) \/ InsertId(c) \/ CancelRepeatedTask(c)
    \/ \E p \in Threads : FindId(p) \/ RunRepeated(p) \/ Stamp(p) \/ PushRepeated(p)
    \/ \E t \in Loops : PopTask(t) \/ RunDelayed(t)

\* Every step is quiet or one of those that deal with an entry.
LEMMA Kinds == TypeOK /\ OnlyLoopsWait /\ [Next]_vars => Dealt
<1> SUFFICES ASSUME TypeOK, OnlyLoopsWait, [Next]_vars PROVE Dealt
  OBVIOUS
<1> USE DEF TypeOK, Dealt, QuietStep, history, pool, Move, Done, Holding, Before
<1>1. ASSUME NEW p \in Threads, Repeating(p) PROVE Dealt
  <2>1. CASE FindId(p)  BY <2>1
  <2>2. CASE RunRepeated(p)  BY <2>2
  <2>3. CASE Stamp(p)  BY <2>3
  <2>4. CASE PushRepeated(p)  BY <2>4
  <2>5. CASE NotifyOne(p)
    <3> DEFINE f == [pc EXCEPT ![p] = Done(p)]
    <3>1. f \in [Threads -> ThreadStates] /\ WakeOne(f)
      BY <2>5 DEF NotifyOne, ThreadStates
    <3>2. f[p] = Done(p) /\ pc[p] = "notify" /\ \A q \in Threads : q # p => f[q] = pc[q]
      BY <2>5 DEF NotifyOne
    <3> HIDE DEF f
    <3>3. \A q \in Threads :
             pc'[q] = f[q] \/ (q \in Loops /\ f[q] \in {"wait", "wait_for"} /\ pc'[q] = "load")
      BY <3>1, WakeType
    <3>4. \A q \in Threads : pc'[q] = pc[q] \/ {pc[q], pc'[q]} \intersect Holding = {}
      BY <3>2, <3>3
    <3>5. \A c \in Calls : pc'[c] = f[c] /\ c \in Threads
      BY <3>3, Distinct
    <3>6. \A c \in Calls : pc'[c] = pc[c] \/ (c = p /\ pc'[c] = "returned")
      BY <3>2, <3>5, Distinct
    <3> QED BY <2>5, <3>2, <3>4, <3>6 DEF NotifyOne
  <2> QED BY <1>1, <2>1, <2>2, <2>3, <2>4, <2>5 DEF Repeating
<1>2. ASSUME NEW c \in Calls, Post(c) \/ CallStep(c) PROVE Dealt
  <2>0. c \in Threads  BY DEF Threads
  <2>1. CASE Post(c)  BY <2>0, <2>1 DEF Post
  <2>2. CASE LoadRunning(c)  BY <2>0, <2>2 DEF LoadRunning
  <2>3. CASE StoreRunning(c)  BY <2>0, <2>3 DEF StoreRunning
  <2>4. CASE PoolLoad(c)  BY <2>0, <2>4 DEF PoolLoad
  <2>5. CASE PoolStart(c)  BY <2>0, Distinct, <2>5 DEF PoolStart
  <2>6. CASE SubmitRun(c)
    <3>1. \A p \in Threads : pc'[p] = pc[p] \/ {pc[p], pc'[p]} \intersect Holding = {}
      BY <2>6, SubmitWakes
    <3>2. \A d \in Calls : pc'[d] = pc[d] \/ (pc[d] = "submit" /\ pc'[d] = "post")
      BY <2>6, SubmitWakes, Distinct
    <3> QED BY <2>6, <3>1, <3>2 DEF SubmitRun
  <2>7. CASE StampDelayed(c)  BY <2>0, <2>7
  <2>8. CASE PushDelayed(c)  BY <2>0, <2>8
  <2>9. CASE InsertId(c)  BY <2>0, <2>9
  <2> QED BY <1>1, <1>2, <2>0, <2>1, <2>2, <2>3, <2>4, <2>5, <2>6, <2>7, <2>8, <2>9
             DEF CallStep
<1>3. ASSUME NEW t \in Loops, LoopStep(t) \/ SpuriousWakeUp(t) PROVE Dealt
  <2>0. t \in Threads  BY DEF Threads
  <2>1. CASE BeginRun(t)  BY <2>0, Distinct, <2>1 DEF BeginRun
  <2>2. CASE LoopLoad(t)  BY <2>0, Distinct, <2>2 DEF LoopLoad
  <2>3. CASE WaitForTask(t)  BY <2>0, Distinct, <2>3 DEF WaitForTask
  <2>4. CASE WaitForTime(t)  BY <2>0, Distinct, <2>4 DEF WaitForTime
  <2>5. CASE PopTask(t)  BY <2>0, <2>5
  <2>6. CASE RunDelayed(t)  BY <2>0, <2>6
  <2>7. CASE TimeOut(t)  BY <2>0, Distinct, <2>7 DEF TimeOut
  <2>8. CASE SpuriousWakeUp(t)  BY <2>0, Distinct, <2>8 DEF SpuriousWakeUp
  <2>9. CASE FindNoRun(t)  BY <2>0, Distinct, <2>9 DEF FindNoRun
  <2>10. CASE WaitForRun(t)  BY <2>0, Distinct, <2>10 DEF WaitForRun
  <2>11. CASE Leave(t)  BY <2>0, Distinct, <2>11 DEF Leave
  <2> QED BY <1>1, <1>3, <2>0, <2>1, <2>2, <2>3, <2>4, <2>5, <2>6, <2>7, <2>8, <2>9, <2>10, <2>11
             DEF LoopStep
<1>4. ASSUME NEW c \in Repeated, CancelRepeatedTask(c) PROVE Dealt
  BY <1>4, Distinct
<1>5. CASE Stop  BY <1>5 DEF Stop
<1>6. CASE NotifyAll
  <2>1. /\ \A p \in Threads : pc'[p] = pc[p] \/ (pc[p] \in {"wait", "wait_for"} /\ pc'[p] = "load")
        /\ \A c \in Calls : pc'[c] = pc[c]
    BY <1>6, Distinct DEF NotifyAll, WakeAll
  <2> QED BY <1>6, <2>1 DEF NotifyAll
<1>7. CASE Join  BY <1>7 DEF Join
<1>10. CASE StopPool  BY <1>10 DEF StopPool
<1>11. CASE NotifyPool
  <2>1. /\ \A p \in Threads : pc'[p] = pc[p] \/ (pc[p] = "asleep" /\ pc'[p] = "idle")
        /\ \A c \in Calls : pc'[c] = pc[c]
    BY <1>11, Distinct DEF NotifyPool, WakeAll
  <2> QED BY <1>11, <2>1 DEF NotifyPool
<1>8. CASE Tick
  BY <1>8
<1>9. CASE UNCHANGED vars  BY <1>9 DEF vars
<1> QED BY <1>1, <1>2, <1>3, <1>4, <1>5, <1>6, <1>7, <1>8, <1>9, <1>10, <1>11 DEF Next, StopStep

-----------------------------------------------------------------------------
(* What each of these steps does to the entries in hand. *)

\* Thread p acts: the hands of the others are as they were, and so are their places,
\* but for those of the loop that a notification wakes.
Others(p) ==
    \A q \in Threads : q # p =>
        /\ carry'[q] = carry[q]
        /\ pc'[q] = pc[q] \/ {pc[q], pc'[q]} \intersect Holding = {}
        /\ q \in Calls => pc'[q] = pc[q]

Takes(p, e, to) ==
    /\ carry[p] = Nothing /\ e # Nothing /\ carry'[p] = e
    /\ pc'[p] = to /\ to \in Holding /\ Others(p)
Keeps(p, to) ==
    /\ carry[p] # Nothing /\ carry'[p] # Nothing
    /\ carry'[p].call = carry[p].call /\ carry'[p].left = carry[p].left
    /\ pc'[p] = to /\ to \in Holding /\ Others(p)
Lays(p, to) ==
    /\ carry[p] # Nothing /\ carry'[p] = Nothing
    /\ pc'[p] = to /\ to \notin Holding /\ Others(p)

\* Only the run of the task of call c is new in the history.
Counts1(c) ==
    /\ ran'[c] = ran[c] + 1 /\ age'[c] = Delta[c]
    /\ late'[c] = IF c \in cancelled THEN late[c] + 1 ELSE late[c]
    /\ \A d \in Calls : d # c => ran'[d] = ran[d] /\ age'[d] = age[d] /\ late'[d] = late[d]
    /\ UNCHANGED <<asked, cancelled>>

\* The entry of a delayed task is made in its thread's hand ...
LEMMA StampDelayedEffect ==
    ASSUME TypeOK, InHand, NEW c \in Calls, StampDelayed(c)
    PROVE  /\ c \in Delayed /\ pc[c] = "post"
           /\ Takes(c, [call |-> c, left |-> 1, due |-> Delta[c]], "push")
           /\ age'[c] = Delta[c] /\ \A d \in Calls : d # c => age'[d] = age[d]
           /\ UNCHANGED <<queue, active, asked, ran, cancelled, late>>
<1>1. [call |-> c, left |-> 1, due |-> Delta[c]] \in Entry
  BY Distinct DEF Entry
<1>2. [call |-> c, left |-> 1, due |-> Delta[c]] # Nothing
  BY <1>1, Distinct
<1>3. carry[c] = Nothing /\ c \in Threads
  BY Distinct DEF InHand, Holding, StampDelayed, Move
<1> QED BY <1>2, <1>3, Distinct DEF TypeOK, StampDelayed, Move, Takes, Others, Holding

\* ... and goes into the queue, as it was.
LEMMA PushDelayedEffect ==
    ASSUME TypeOK, OnlyLoopsWait, InHand, NEW c \in Calls, PushDelayed(c)
    PROVE  /\ c \in Delayed /\ pc[c] = "push" /\ Lays(c, "returned")
           /\ queue' = queue \union {carry[c]} /\ carry[c] \in Entry /\ carry[c].call = c
           /\ UNCHANGED <<active, asked, ran, age, cancelled, late>>
<1> DEFINE f == [pc EXCEPT ![c] = "returned"]
<1>0. c \in Threads /\ c \notin Loops
  BY Distinct
<1>1. f \in [Threads -> ThreadStates] /\ WakeOne(f) /\ pc[c] = "push"
  BY DEF TypeOK, ThreadStates, PushDelayed
<1>2. f[c] = "returned" /\ \A q \in Threads : q # c => f[q] = pc[q]
  BY <1>0 DEF TypeOK
<1> HIDE DEF f
<1>3. \A q \in Threads :
         pc'[q] = f[q] \/ (q \in Loops /\ f[q] \in {"wait", "wait_for"} /\ pc'[q] = "load")
  BY <1>1, WakeType
<1>4. pc'[c] = "returned"
  BY <1>0, <1>2, <1>3
<1>5. carry[c] # Nothing /\ carry[c] \in Entry /\ carry[c].call = c
  BY <1>0, <1>1 DEF InHand, Holding, TypeOK
<1>6. carry'[c] = Nothing /\ \A q \in Threads : q # c => carry'[q] = carry[q]
  BY <1>0 DEF PushDelayed, TypeOK
<1>7. Others(c)
  BY <1>2, <1>3, <1>6, Distinct DEF Others, Holding
<1> QED BY <1>1, <1>4, <1>5, <1>6, <1>7 DEF PushDelayed, Lays, Holding, history

\* The entry of a repeated task begins with all its runs.
LEMMA InsertIdEffect ==
    ASSUME TypeOK, InHand, NEW c \in Calls, InsertId(c)
    PROVE  /\ c \in Repeated /\ pc[c] = "post"
           /\ asked'[c] \in Nat /\ \A d \in Calls : d # c => asked'[d] = asked[d]
           /\ Takes(c, [call |-> c, left |-> asked'[c], due |-> 0], "find")
           /\ active' = active \union {c}
           /\ UNCHANGED <<queue, ran, age, cancelled, late>>
<1>1. /\ asked'[c] \in Nat /\ \A d \in Calls : d # c => asked'[d] = asked[d]
      /\ UNCHANGED <<ran, age, cancelled, late>>
  BY TimerAssumption DEF TypeOK, InsertId, Asks
<1>2. [call |-> c, left |-> asked'[c], due |-> 0] \in Entry
  BY <1>1, Distinct DEF Entry
<1>3. [call |-> c, left |-> asked'[c], due |-> 0] # Nothing
  BY <1>2, Distinct
<1>4. carry[c] = Nothing /\ c \in Threads
  BY Distinct DEF InHand, Holding, InsertId, Move
<1> QED BY <1>1, <1>3, <1>4, Distinct DEF TypeOK, InsertId, Move, Takes, Others, Holding

\* An entry that may not run, or has no run left, is dropped.
LEMMA FindIdEffect ==
    ASSUME TypeOK, InHand, NEW p \in Threads, FindId(p)
    PROVE  /\ pc[p] = "find" /\ carry[p] # Nothing /\ carry[p] \in Entry
           /\ IF carry[p].call \notin active \/ carry[p].left = 0
              THEN Lays(p, Done(p))
              ELSE Keeps(p, "run")
           /\ UNCHANGED <<queue, active, asked, ran, age, cancelled, late>>
<1>1. pc[p] = "find" /\ carry[p] # Nothing /\ carry[p] \in Entry
  BY DEF FindId, Move, InHand, Holding, TypeOK
<1> QED BY <1>1 DEF TypeOK, FindId, Move, Done, Lays, Keeps, Others, Holding, history

\* A repeated task is run, and its thread keeps the entry ...
LEMMA RunRepeatedEffect ==
    ASSUME TypeOK, InHand, NEW p \in Threads, RunRepeated(p)
    PROVE  /\ pc[p] = "run" /\ carry[p] # Nothing /\ carry[p] \in Entry
           /\ carry[p].call \in Repeated /\ Keeps(p, "stamp") /\ Counts1(carry[p].call)
           /\ UNCHANGED <<queue, active>>
<1>1. pc[p] = "run" /\ carry[p] # Nothing /\ carry[p] \in Entry
  BY DEF RunRepeated, Move, InHand, Holding, TypeOK
<1>2. carry[p].call \in Repeated /\ carry[p].call \in Calls
  BY Distinct DEF RunRepeated
<1>3. Counts1(carry[p].call)
  BY <1>2, RunType DEF RunRepeated, Run, Counts1
<1> QED BY <1>1, <1>2, <1>3 DEF TypeOK, RunRepeated, Move, Keeps, Others, Holding

\* ... gives it a new time ...
LEMMA StampEffect ==
    ASSUME TypeOK, InHand, NEW p \in Threads, Stamp(p)
    PROVE  /\ pc[p] = "stamp" /\ carry[p] # Nothing /\ carry[p] \in Entry
           /\ Keeps(p, "push") /\ carry'[p].due = Delta[carry[p].call]
           /\ UNCHANGED <<queue, active, asked, ran, age, cancelled, late>>
<1>1. pc[p] = "stamp" /\ carry[p] # Nothing /\ carry[p] \in Entry
  BY DEF Stamp, Move, InHand, Holding, TypeOK
<1> DEFINE e == [carry[p] EXCEPT !.due = Delta[carry[p].call]]
<1>2. /\ e \in Entry /\ e.call = carry[p].call /\ e.left = carry[p].left
      /\ e.due = Delta[carry[p].call]
  BY <1>1, Distinct DEF Entry
<1>3. e # Nothing
  BY <1>2, Distinct
<1>4. carry' = [carry EXCEPT ![p] = e]
  BY DEF Stamp
<1> HIDE DEF e
<1>5. carry'[p] = e /\ \A q \in Threads : q # p => carry'[q] = carry[q]
  BY <1>4 DEF TypeOK
<1> QED BY <1>1, <1>2, <1>3, <1>5 DEF TypeOK, Stamp, Move, Keeps, Others, Holding, history

\* ... and queues it with one run less.
LEMMA PushRepeatedEffect ==
    ASSUME TypeOK, InHand, NEW p \in Threads, PushRepeated(p)
    PROVE  /\ pc[p] = "push" /\ carry[p] # Nothing /\ carry[p] \in Entry
           /\ carry[p].call \in Repeated /\ Lays(p, "notify")
           /\ \E e : /\ queue' = queue \union {e} /\ e.call = carry[p].call
                     /\ e.left = carry[p].left - 1 /\ e.due = carry[p].due
           /\ UNCHANGED <<active, asked, ran, age, cancelled, late>>
<1>1. pc[p] = "push" /\ carry[p] # Nothing /\ carry[p] \in Entry
  BY DEF PushRepeated, Move, InHand, Holding, TypeOK
<1> DEFINE e == [carry[p] EXCEPT !.left = carry[p].left - 1]
<1>2. e.call = carry[p].call /\ e.left = carry[p].left - 1 /\ e.due = carry[p].due
  BY <1>1 DEF Entry
<1>3. queue' = queue \union {e}
  BY DEF PushRepeated
<1>4. Lays(p, "notify")
  BY <1>1 DEF TypeOK, PushRepeated, Move, Lays, Others, Holding
<1> HIDE DEF e
<1> QED BY <1>1, <1>2, <1>3, <1>4 DEF PushRepeated, history

\* A thread of the loop takes an entry that is due out of the queue.
LEMMA PopTaskEffect ==
    ASSUME TypeOK, InHand, NEW t \in Loops, PopTask(t)
    PROVE  \E e \in queue :
              /\ e \in Entry /\ e.due = 0 /\ queue' = queue \ {e}
              /\ Takes(t, e, IF e.call \in Repeated THEN "find" ELSE "run")
              /\ UNCHANGED <<active, asked, ran, age, cancelled, late>>
<1>1. PICK e \in Earliest :
         /\ e.due = 0 /\ queue' = queue \ {e} /\ carry' = [carry EXCEPT ![t] = e]
         /\ pc' = [pc EXCEPT ![t] = IF e.call \in Repeated THEN "find" ELSE "run"]
  BY DEF PopTask
<1>2. e \in queue /\ e \in Entry /\ e # Nothing
  BY Distinct DEF Earliest, TypeOK
<1>3. t \in Threads /\ t \notin Calls /\ carry[t] = Nothing
  BY Distinct DEF PopTask, InHand, Holding
<1>4. Takes(t, e, IF e.call \in Repeated THEN "find" ELSE "run")
  BY <1>1, <1>2, <1>3 DEF TypeOK, Takes, Others, Holding
<1> QED BY <1>1, <1>2, <1>4 DEF PopTask, history

\* A delayed task is run and its entry done with.
LEMMA RunDelayedEffect ==
    ASSUME TypeOK, InHand, NEW t \in Loops, RunDelayed(t)
    PROVE  /\ t \in Threads /\ pc[t] = "run" /\ carry[t] # Nothing /\ carry[t] \in Entry
           /\ carry[t].call \in Delayed /\ Lays(t, "load") /\ Counts1(carry[t].call)
           /\ UNCHANGED <<queue, active>>
<1>1. t \in Threads /\ pc[t] = "run" /\ carry[t] # Nothing /\ carry[t] \in Entry
  BY Distinct DEF RunDelayed, Move, InHand, Holding, TypeOK
<1>2. carry[t].call \in Delayed /\ carry[t].call \in Calls
  BY Distinct DEF RunDelayed
<1>3. Counts1(carry[t].call)
  BY <1>2, RunType DEF RunDelayed, Run, Counts1
<1> QED BY <1>1, <1>2, <1>3 DEF TypeOK, RunDelayed, Move, Lays, Others, Holding

\* Time changes no entry but for when it is due.
LEMMA TickEffect ==
    ASSUME TypeOK, InHand, Tick
    PROVE  /\ UNCHANGED <<active, pc, asked, ran, cancelled, late>>
           /\ \A p \in Threads :
                 /\ carry'[p] # Nothing <=> carry[p] # Nothing
                 /\ carry[p] # Nothing =>
                       /\ carry'[p].call = carry[p].call /\ carry'[p].left = carry[p].left
                       /\ pc[p] = "push" => carry'[p].due = Less(carry[p].due)
           /\ \A e \in queue' : \E f \in queue :
                 e.call = f.call /\ e.left = f.left /\ e.due = Less(f.due)
           /\ \A f \in queue : \E e \in queue' : e.call = f.call
           /\ \A e \in queue' : \A f \in queue' :
                 (\A g \in queue : \A h \in queue : g.call = h.call => g = h)
                 => (e.call = f.call => e = f)
           /\ \A c \in Calls : age'[c] = Less(age[c]) /\ age[c] \in Nat
<1> DEFINE L(e) == [e EXCEPT !.due = Less(e.due)]
<1>1. ASSUME NEW e \in Entry
      PROVE  /\ L(e) \in Entry /\ L(e).call = e.call /\ L(e).left = e.left
             /\ L(e).due = Less(e.due) /\ L(e) # Nothing
  <2>1. /\ L(e) \in Entry /\ L(e).call = e.call /\ L(e).left = e.left
        /\ L(e).due = Less(e.due)
    BY DEF Entry, Less
  <2> QED BY <2>1, Distinct
<1>2. queue' = {L(e) : e \in queue} /\ queue \subseteq Entry
  BY DEF Tick, TypeOK
<1>3. \A p \in Threads : /\ pc[p] = "push" => carry'[p] = L(carry[p]) /\ carry[p] \in Entry
                         /\ pc[p] # "push" => carry'[p] = carry[p]
  BY DEF Tick, TypeOK, InHand, Holding
<1>4. /\ UNCHANGED <<active, pc, asked, ran, cancelled, late>>
      /\ \A c \in Calls : age'[c] = Less(age[c]) /\ age[c] \in Nat
  BY DEF Tick, TypeOK
<1> HIDE DEF L
<1>5. \A p \in Threads :
         /\ carry'[p] # Nothing <=> carry[p] # Nothing
         /\ carry[p] # Nothing =>
               /\ carry'[p].call = carry[p].call /\ carry'[p].left = carry[p].left
               /\ pc[p] = "push" => carry'[p].due = Less(carry[p].due)
  BY <1>1, <1>3, Distinct
<1> QED BY <1>1, <1>2, <1>4, <1>5

-----------------------------------------------------------------------------
(* The other parts of the invariant, action by action. *)

Parts == InHand /\ OneEntry /\ NotYet /\ ActiveIds /\ RunsLeft /\ AllRun /\ LateOnce /\ Spaced

\* What the actors other than p have in hand stays with them, where they are.
Same(p) ==
    \A q \in Threads : q # p =>
        /\ carry'[q] = carry[q]
        /\ carry[q] # Nothing => pc'[q] = pc[q]
        /\ pc[q] \in Holding <=> pc'[q] \in Holding
        /\ q \in Calls => pc'[q] = pc[q]

LEMMA OthersSame ==
    ASSUME InHand, NEW p \in Threads, Others(p)
    PROVE  Same(p)
BY DEF InHand, Others, Same

\* The values that entries and the history have.
LEMMA Values ==
    ASSUME TypeOK
    PROVE  /\ \A e \in queue : e.call \in Calls /\ e.left \in Nat /\ e.due \in Nat
           /\ \A p \in Threads : carry[p] # Nothing =>
                 carry[p].call \in Calls /\ carry[p].left \in Nat /\ carry[p].due \in Nat
           /\ \A c \in Calls : /\ ran[c] \in Nat /\ asked[c] \in Nat /\ age[c] \in Nat
                               /\ late[c] \in Nat /\ Delta[c] \in Nat
           /\ cancelled \subseteq Repeated /\ active \subseteq Repeated
<1>1. \A e \in Entry : e.call \in Calls /\ e.left \in Nat /\ e.due \in Nat
  BY DEF Entry
<1> QED BY <1>1, Distinct DEF TypeOK

\* A quiet step.
LEMMA QuietKeeps ==
    ASSUME IInv, QuietStep
    PROVE  Parts'
<1>1. /\ TypeOK /\ OnlyLoopsWait /\ InHand /\ OneEntry /\ NotYet /\ ActiveIds
      /\ RunsLeft /\ AllRun /\ LateOnce /\ Spaced
  BY DEF IInv
<1>2. /\ UNCHANGED <<queue, carry, active, asked, ran, age, cancelled, late>>
      /\ \A p \in Threads : /\ carry[p] # Nothing => pc'[p] = pc[p]
                            /\ pc[p] \in Holding <=> pc'[p] \in Holding
      /\ \A c \in Calls : /\ pc[c] \in Before <=> pc'[c] \in Before
                          /\ pc[c] = "returned" => pc'[c] = "returned"
  BY <1>1 DEF QuietStep, history, InHand
<1> USE Distinct, Values DEF Has, Same
<1>3. InHand'
  BY <1>1, <1>2 DEF InHand, Holding, Done
<1>4. OneEntry'
  BY <1>1, <1>2 DEF OneEntry
<1>5. NotYet'
  BY <1>1, <1>2 DEF NotYet, Before
<1>6. ActiveIds'
  BY <1>1, <1>2 DEF ActiveIds, Before
<1>7. RunsLeft'
  BY <1>1, <1>2 DEF RunsLeft
<1>8. AllRun'
  BY <1>1, <1>2 DEF AllRun, Before
<1>9. LateOnce'
  BY <1>1, <1>2 DEF LateOnce
<1>10. Spaced'
  BY <1>1, <1>2 DEF Spaced
<1> QED BY <1>3, <1>4, <1>5, <1>6, <1>7, <1>8, <1>9, <1>10 DEF Parts

\* A delayed task is given its time.
LEMMA StampDelayedKeeps ==
    ASSUME IInv, NEW c \in Calls, StampDelayed(c)
    PROVE  Parts'
<1>1. /\ TypeOK /\ OnlyLoopsWait /\ InHand /\ OneEntry /\ NotYet /\ ActiveIds
      /\ RunsLeft /\ AllRun /\ LateOnce /\ Spaced
  BY DEF IInv
<1>2. /\ c \in Delayed /\ pc[c] = "post"
      /\ Takes(c, [call |-> c, left |-> 1, due |-> Delta[c]], "push")
      /\ age'[c] = Delta[c] /\ \A d \in Calls : d # c => age'[d] = age[d]
      /\ UNCHANGED <<queue, active, asked, ran, cancelled, late>>
  BY <1>1, StampDelayedEffect
<1>3. /\ c \in Threads /\ c \notin Repeated /\ c \notin Loops
      /\ carry[c] = Nothing /\ carry'[c] # Nothing /\ pc'[c] = "push"
      /\ carry'[c].call = c /\ carry'[c].left = 1 /\ carry'[c].due = Delta[c] /\ Same(c)
  BY <1>1, <1>2, OthersSame, Distinct DEF Takes
<1>4. /\ \A e \in queue : e.call # c
      /\ \A q \in Threads : carry[q] # Nothing => carry[q].call # c
      /\ ran[c] = 0 /\ late[c] = 0 /\ c \notin cancelled
      /\ c \in Delayed => asked[c] = 1
  BY <1>1, <1>2 DEF NotYet, ActiveIds, Before, Has
<1> USE Distinct, Values DEF Has, Same
<1>5. InHand'
  BY <1>1, <1>2, <1>3, <1>4 DEF InHand, Holding, Done
<1>6. OneEntry'
  BY <1>1, <1>2, <1>3, <1>4 DEF OneEntry
<1>7. NotYet'
  BY <1>1, <1>2, <1>3, <1>4 DEF NotYet, Before
<1>8. ActiveIds'
  BY <1>1, <1>2, <1>3, <1>4 DEF ActiveIds, Before
<1>9. RunsLeft'
  BY <1>1, <1>2, <1>3, <1>4 DEF RunsLeft
<1>10. AllRun'
  BY <1>1, <1>2, <1>3, <1>4 DEF AllRun, Before
<1>11. LateOnce'
  BY <1>1, <1>2, <1>3, <1>4 DEF LateOnce
<1>12. Spaced'
  BY <1>1, <1>2, <1>3, <1>4 DEF Spaced
<1> QED BY <1>5, <1>6, <1>7, <1>8, <1>9, <1>10, <1>11, <1>12 DEF Parts

\* A delayed task is queued.
LEMMA PushDelayedKeeps ==
    ASSUME IInv, NEW c \in Calls, PushDelayed(c)
    PROVE  Parts'
<1>1. /\ TypeOK /\ OnlyLoopsWait /\ InHand /\ OneEntry /\ NotYet /\ ActiveIds
      /\ RunsLeft /\ AllRun /\ LateOnce /\ Spaced
  BY DEF IInv
<1>2. /\ c \in Delayed /\ pc[c] = "push" /\ Lays(c, "returned")
      /\ queue' = queue \union {carry[c]} /\ carry[c] \in Entry /\ carry[c].call = c
      /\ UNCHANGED <<active, asked, ran, age, cancelled, late>>
  BY <1>1, PushDelayedEffect
<1>3. /\ c \in Threads /\ c \notin Repeated /\ c \notin Loops
      /\ carry[c] # Nothing /\ carry'[c] = Nothing /\ pc'[c] = "returned" /\ Same(c)
  BY <1>1, <1>2, OthersSame, Distinct DEF Lays
<1> USE Distinct, Values DEF Has, Same
<1>4. InHand'
  BY <1>1, <1>2, <1>3 DEF InHand, Holding, Done
<1>5. OneEntry'
  BY <1>1, <1>2, <1>3 DEF OneEntry
<1>6. NotYet'
  BY <1>1, <1>2, <1>3 DEF NotYet, Before
<1>7. ActiveIds'
  BY <1>1, <1>2, <1>3 DEF ActiveIds, Before
<1>8. RunsLeft'
  BY <1>1, <1>2, <1>3 DEF RunsLeft
<1>9. AllRun'
  BY <1>1, <1>2, <1>3 DEF AllRun, Before
<1>10. LateOnce'
  BY <1>1, <1>2, <1>3 DEF LateOnce
<1>11. Spaced'
  BY <1>1, <1>2, <1>3 DEF Spaced
<1> QED BY <1>4, <1>5, <1>6, <1>7, <1>8, <1>9, <1>10, <1>11 DEF Parts

\* A repeated task gets its id and its runs.
LEMMA InsertIdKeeps ==
    ASSUME IInv, NEW c \in Calls, InsertId(c)
    PROVE  Parts'
<1>1. /\ TypeOK /\ OnlyLoopsWait /\ InHand /\ OneEntry /\ NotYet /\ ActiveIds
      /\ RunsLeft /\ AllRun /\ LateOnce /\ Spaced
  BY DEF IInv
<1>2. /\ c \in Repeated /\ pc[c] = "post"
      /\ asked'[c] \in Nat /\ \A d \in Calls : d # c => asked'[d] = asked[d]
      /\ Takes(c, [call |-> c, left |-> asked'[c], due |-> 0], "find")
      /\ active' = active \union {c}
      /\ UNCHANGED <<queue, ran, age, cancelled, late>>
  BY <1>1, InsertIdEffect
<1>3. /\ c \in Threads /\ c \notin Delayed /\ c \notin Loops
      /\ carry[c] = Nothing /\ carry'[c] # Nothing /\ pc'[c] = "find"
      /\ carry'[c].call = c /\ carry'[c].left = asked'[c] /\ carry'[c].due = 0 /\ Same(c)
  BY <1>1, <1>2, OthersSame, Distinct DEF Takes
<1>4. /\ \A e \in queue : e.call # c
      /\ \A q \in Threads : carry[q] # Nothing => carry[q].call # c
      /\ ran[c] = 0 /\ late[c] = 0 /\ c \notin cancelled
      /\ c \in Delayed => asked[c] = 1
  BY <1>1, <1>2 DEF NotYet, ActiveIds, Before, Has
<1> USE Distinct, Values DEF Has, Same
<1>5. InHand'
  BY <1>1, <1>2, <1>3, <1>4 DEF InHand, Holding, Done
<1>6. OneEntry'
  BY <1>1, <1>2, <1>3, <1>4 DEF OneEntry
<1>7. NotYet'
  BY <1>1, <1>2, <1>3, <1>4 DEF NotYet, Before
<1>8. ActiveIds'
  BY <1>1, <1>2, <1>3, <1>4 DEF ActiveIds, Before
<1>9. RunsLeft'
  BY <1>1, <1>2, <1>3, <1>4 DEF RunsLeft
<1>10. AllRun'
  BY <1>1, <1>2, <1>3, <1>4 DEF AllRun, Before
<1>11. LateOnce'
  BY <1>1, <1>2, <1>3, <1>4 DEF LateOnce
<1>12. Spaced'
  BY <1>1, <1>2, <1>3, <1>4 DEF Spaced
<1> QED BY <1>5, <1>6, <1>7, <1>8, <1>9, <1>10, <1>11, <1>12 DEF Parts

\* A task is cancelled.
LEMMA CancelKeeps ==
    ASSUME IInv, NEW c \in Calls, CancelRepeatedTask(c)
    PROVE  Parts'
<1>1. /\ TypeOK /\ OnlyLoopsWait /\ InHand /\ OneEntry /\ NotYet /\ ActiveIds
      /\ RunsLeft /\ AllRun /\ LateOnce /\ Spaced
  BY DEF IInv
<1>2. /\ pc[c] = "returned" /\ c \notin cancelled /\ active' = active \ {c}
      /\ cancelled' = cancelled \union {c}
      /\ UNCHANGED <<queue, pc, carry, asked, ran, age, late>>
  BY DEF CancelRepeatedTask
<1> USE Distinct, Values DEF Has, Same
<1>3. InHand'
  BY <1>1, <1>2 DEF InHand, Holding, Done
<1>4. OneEntry'
  BY <1>1, <1>2 DEF OneEntry
<1>5. NotYet'
  BY <1>1, <1>2 DEF NotYet, Before
<1>6. ActiveIds'
  BY <1>1, <1>2 DEF ActiveIds, Before
<1>7. RunsLeft'
  BY <1>1, <1>2 DEF RunsLeft
<1>8. AllRun'
  BY <1>1, <1>2 DEF AllRun, Before
<1>9. LateOnce'
  BY <1>1, <1>2 DEF LateOnce
<1>10. Spaced'
  BY <1>1, <1>2 DEF Spaced
<1> QED BY <1>3, <1>4, <1>5, <1>6, <1>7, <1>8, <1>9, <1>10 DEF Parts

\* An id is looked up.
LEMMA FindIdKeeps ==
    ASSUME IInv, NEW p \in Threads, FindId(p)
    PROVE  Parts'
<1>1. /\ TypeOK /\ OnlyLoopsWait /\ InHand /\ OneEntry /\ NotYet /\ ActiveIds
      /\ RunsLeft /\ AllRun /\ LateOnce /\ Spaced
  BY DEF IInv
<1>2. /\ pc[p] = "find" /\ carry[p] # Nothing /\ carry[p] \in Entry
      /\ IF carry[p].call \notin active \/ carry[p].left = 0
         THEN Lays(p, Done(p))
         ELSE Keeps(p, "run")
      /\ UNCHANGED <<queue, active, asked, ran, age, cancelled, late>>
  BY <1>1, FindIdEffect
<1>3. /\ Same(p)
      /\ \/ /\ carry[p].call \notin active \/ carry[p].left = 0
            /\ carry'[p] = Nothing /\ pc'[p] = Done(p)
         \/ /\ carry[p].call \in active /\ carry[p].left # 0
            /\ carry'[p] # Nothing /\ pc'[p] = "run"
            /\ carry'[p].call = carry[p].call /\ carry'[p].left = carry[p].left
  BY <1>1, <1>2, OthersSame DEF Lays, Keeps
<1>4. p \in Calls => p \notin Loops /\ carry[p].call = p
  BY <1>1, <1>2, Distinct DEF InHand
<1>5. carry[p].call \in Repeated /\ carry[p].call \notin Delayed
  BY <1>1, <1>2, Distinct, Values DEF InHand, Has
<1>6. p \in Calls => pc[p] \notin Before /\ pc'[p] \notin Before
  BY <1>2, <1>3, <1>4 DEF Before, Done
<1>7. /\ carry[p].call \in active => late[carry[p].call] = 0
      /\ carry[p].call \notin active => carry[p].call \in cancelled
      /\ carry[p].left = 0 => ran[carry[p].call] = asked[carry[p].call]
  BY <1>1, <1>2, <1>5, Distinct, Values DEF ActiveIds, NotYet, RunsLeft, LateOnce, Has
<1> USE Distinct, Values DEF Has, Same
<1>8. InHand'
  BY <1>1, <1>2, <1>3, <1>4, <1>5, <1>6, <1>7 DEF InHand, Holding, Done
<1>9. OneEntry'
  BY <1>1, <1>2, <1>3, <1>4, <1>5, <1>6, <1>7 DEF OneEntry
<1>10. NotYet'
  BY <1>1, <1>2, <1>3, <1>4, <1>5, <1>6, <1>7 DEF NotYet, Before
<1>11. ActiveIds'
  BY <1>1, <1>2, <1>3, <1>4, <1>5, <1>6, <1>7 DEF ActiveIds, Before
<1>12. RunsLeft'
  BY <1>1, <1>2, <1>3, <1>4, <1>5, <1>6, <1>7 DEF RunsLeft
<1>13. AllRun'
  BY <1>1, <1>2, <1>3, <1>4, <1>5, <1>6, <1>7 DEF AllRun, Before
<1>14. LateOnce'
  BY <1>1, <1>2, <1>3, <1>4, <1>5, <1>6, <1>7 DEF LateOnce
<1>15. Spaced'
  BY <1>1, <1>2, <1>3, <1>4, <1>5, <1>6, <1>7 DEF Spaced
<1> QED BY <1>8, <1>9, <1>10, <1>11, <1>12, <1>13, <1>14, <1>15 DEF Parts

\* A repeated task is run.
LEMMA RunRepeatedKeeps ==
    ASSUME IInv, NEW p \in Threads, RunRepeated(p)
    PROVE  Parts'
<1>1. /\ TypeOK /\ OnlyLoopsWait /\ InHand /\ OneEntry /\ NotYet /\ ActiveIds
      /\ RunsLeft /\ AllRun /\ LateOnce /\ Spaced
  BY DEF IInv
<1>2. /\ pc[p] = "run" /\ carry[p] # Nothing /\ carry[p] \in Entry
      /\ carry[p].call \in Repeated /\ Keeps(p, "stamp") /\ Counts1(carry[p].call)
      /\ UNCHANGED <<queue, active>>
  BY <1>1, RunRepeatedEffect
<1>3. /\ Same(p) /\ carry'[p] # Nothing /\ pc'[p] = "stamp"
      /\ carry'[p].call = carry[p].call /\ carry'[p].left = carry[p].left
  BY <1>1, <1>2, OthersSame DEF Keeps
<1>4. /\ p \in Calls => carry[p].call = p
      /\ carry[p].call \in Calls /\ carry[p].call \notin Delayed
  BY <1>1, <1>2, Distinct DEF InHand
<1>5. /\ \A f \in queue : f.call # carry[p].call
      /\ \A q \in Threads : q # p /\ carry[q] # Nothing => carry[q].call # carry[p].call
  BY <1>1, <1>2, <1>4, Values DEF OneEntry, Has
<1>6. /\ late[carry[p].call] = 0 /\ carry[p].left > 0
      /\ ran[carry[p].call] + carry[p].left = asked[carry[p].call]
  BY <1>1, <1>2, <1>4 DEF RunsLeft, LateOnce, Has
<1> USE Distinct, Values DEF Has, Same, Counts1
<1>7. InHand'
  BY <1>1, <1>2, <1>3, <1>4, <1>5, <1>6 DEF InHand, Holding, Done
<1>8. OneEntry'
  BY <1>1, <1>2, <1>3, <1>4, <1>5, <1>6 DEF OneEntry
<1>9. NotYet'
  BY <1>1, <1>2, <1>3, <1>4, <1>5, <1>6 DEF NotYet, Before
<1>10. ActiveIds'
  BY <1>1, <1>2, <1>3, <1>4, <1>5, <1>6 DEF ActiveIds, Before
<1>11. RunsLeft'
  <2>1. \A e \in queue' : /\ ran'[e.call] + e.left = asked'[e.call]
                          /\ e.call \in Delayed => e.left = 1
    BY <1>1, <1>2, <1>5 DEF RunsLeft
  <2>2. ASSUME NEW q \in Threads, NEW c \in Calls, Has(q, c)', q # p
        PROVE  /\ ran'[c] + carry'[q].left =
                     IF c \in Repeated /\ pc'[q] \in {"stamp", "push"} THEN asked'[c] + 1
                                                                       ELSE asked'[c]
               /\ c \in Delayed => carry'[q].left = 1
               /\ pc'[q] \in {"run", "stamp", "push"} => carry'[q].left > 0
    <3>1. /\ carry'[q] = carry[q] /\ pc'[q] = pc[q] /\ carry[q] # Nothing /\ carry[q].call = c
          /\ ran'[c] = ran[c] /\ asked'[c] = asked[c]
      BY <1>2, <1>3, <1>5, <2>2
    <3> QED BY <1>1, <3>1 DEF RunsLeft
  <2>3. /\ carry'[p].left > 0 /\ carry[p].call = carry'[p].call
        /\ ran'[carry[p].call] + carry'[p].left = asked'[carry[p].call] + 1
    BY <1>1, <1>2, <1>3, <1>4, <1>6
  <2> QED BY <1>2, <1>3, <1>4, <2>1, <2>2, <2>3 DEF RunsLeft
<1>12. AllRun'
  BY <1>1, <1>2, <1>3, <1>4, <1>5, <1>6 DEF AllRun, Before
<1>13. LateOnce'
  BY <1>1, <1>2, <1>3, <1>4, <1>5, <1>6 DEF LateOnce
<1>14. Spaced'
  BY <1>1, <1>2, <1>3, <1>4, <1>5, <1>6 DEF Spaced
<1> QED BY <1>7, <1>8, <1>9, <1>10, <1>11, <1>12, <1>13, <1>14 DEF Parts

\* A repeated task is given its next time.
LEMMA StampKeeps ==
    ASSUME IInv, NEW p \in Threads, Stamp(p)
    PROVE  Parts'
<1>1. /\ TypeOK /\ OnlyLoopsWait /\ InHand /\ OneEntry /\ NotYet /\ ActiveIds
      /\ RunsLeft /\ AllRun /\ LateOnce /\ Spaced
  BY DEF IInv
<1>2. /\ pc[p] = "stamp" /\ carry[p] # Nothing /\ carry[p] \in Entry
      /\ Keeps(p, "push") /\ carry'[p].due = Delta[carry[p].call]
      /\ UNCHANGED <<queue, active, asked, ran, age, cancelled, late>>
  BY <1>1, StampEffect
<1>3. /\ Same(p) /\ carry'[p] # Nothing /\ pc'[p] = "push"
      /\ carry'[p].call = carry[p].call /\ carry'[p].left = carry[p].left
  BY <1>1, <1>2, OthersSame DEF Keeps
<1>4. /\ p \in Calls => carry[p].call = p
      /\ carry[p].call \in Calls /\ carry[p].call \notin Delayed
  BY <1>1, <1>2, Distinct, Values DEF InHand, Has
<1> USE Distinct, Values DEF Has, Same
<1>5. InHand'
  BY <1>1, <1>2, <1>3, <1>4 DEF InHand, Holding, Done
<1>6. OneEntry'
  BY <1>1, <1>2, <1>3, <1>4 DEF OneEntry
<1>7. NotYet'
  BY <1>1, <1>2, <1>3, <1>4 DEF NotYet, Before
<1>8. ActiveIds'
  BY <1>1, <1>2, <1>3, <1>4 DEF ActiveIds, Before
<1>9. RunsLeft'
  BY <1>1, <1>2, <1>3, <1>4 DEF RunsLeft
<1>10. AllRun'
  BY <1>1, <1>2, <1>3, <1>4 DEF AllRun, Before
<1>11. LateOnce'
  BY <1>1, <1>2, <1>3, <1>4 DEF LateOnce
<1>12. Spaced'
  BY <1>1, <1>2, <1>3, <1>4 DEF Spaced
<1> QED BY <1>5, <1>6, <1>7, <1>8, <1>9, <1>10, <1>11, <1>12 DEF Parts

\* A repeated task is queued again.
LEMMA PushRepeatedKeeps ==
    ASSUME IInv, NEW p \in Threads, PushRepeated(p)
    PROVE  Parts'
<1>1. /\ TypeOK /\ OnlyLoopsWait /\ InHand /\ OneEntry /\ NotYet /\ ActiveIds
      /\ RunsLeft /\ AllRun /\ LateOnce /\ Spaced
  BY DEF IInv
<1>2. /\ pc[p] = "push" /\ carry[p] # Nothing /\ carry[p] \in Entry
      /\ carry[p].call \in Repeated /\ Lays(p, "notify")
      /\ UNCHANGED <<active, asked, ran, age, cancelled, late>>
  BY <1>1, PushRepeatedEffect
<1>3. PICK e : /\ queue' = queue \union {e} /\ e.call = carry[p].call
               /\ e.left = carry[p].left - 1 /\ e.due = carry[p].due
  BY <1>1, PushRepeatedEffect
<1>4. /\ Same(p) /\ carry'[p] = Nothing /\ pc'[p] = "notify"
      /\ p \in Calls => carry[p].call = p
      /\ carry[p].call \in Calls /\ carry[p].call \notin Delayed
  BY <1>1, <1>2, OthersSame, Distinct DEF Lays, InHand
<1>5. /\ \A f \in queue : f.call # carry[p].call
      /\ \A q \in Threads : q # p /\ carry[q] # Nothing => carry[q].call # carry[p].call
  BY <1>1, <1>2, <1>4, Values DEF OneEntry, Has
<1>6. carry[p].left > 0 /\ ran[carry[p].call] + carry[p].left = asked[carry[p].call] + 1
  BY <1>1, <1>2, <1>4 DEF RunsLeft, Has
<1>7. e.left \in Nat /\ ran[e.call] + e.left = asked[e.call]
  BY <1>1, <1>2, <1>3, <1>4, <1>6, Values
<1> USE Distinct, Values DEF Has, Same
<1>8. InHand'
  BY <1>1, <1>2, <1>3, <1>4, <1>5, <1>6, <1>7 DEF InHand, Holding, Done
<1>9. OneEntry'
  BY <1>1, <1>2, <1>3, <1>4, <1>5, <1>6, <1>7 DEF OneEntry
<1>10. NotYet'
  BY <1>1, <1>2, <1>3, <1>4, <1>5, <1>6, <1>7 DEF NotYet, Before
<1>11. ActiveIds'
  BY <1>1, <1>2, <1>3, <1>4, <1>5, <1>6, <1>7 DEF ActiveIds, Before
<1>12. RunsLeft'
  BY <1>1, <1>2, <1>3, <1>4, <1>5, <1>6, <1>7 DEF RunsLeft
<1>13. AllRun'
  BY <1>1, <1>2, <1>3, <1>4, <1>5, <1>6, <1>7 DEF AllRun, Before
<1>14. LateOnce'
  BY <1>1, <1>2, <1>3, <1>4, <1>5, <1>6, <1>7 DEF LateOnce
<1>15. Spaced'
  BY <1>1, <1>2, <1>3, <1>4, <1>5, <1>6, <1>7 DEF Spaced
<1> QED BY <1>8, <1>9, <1>10, <1>11, <1>12, <1>13, <1>14, <1>15 DEF Parts

\* A thread of the loop takes a task.
LEMMA PopTaskKeeps ==
    ASSUME IInv, NEW t \in Loops, PopTask(t)
    PROVE  Parts'
<1>1. /\ TypeOK /\ OnlyLoopsWait /\ InHand /\ OneEntry /\ NotYet /\ ActiveIds
      /\ RunsLeft /\ AllRun /\ LateOnce /\ Spaced
  BY DEF IInv
<1>2. PICK e \in queue :
         /\ e \in Entry /\ e.due = 0 /\ queue' = queue \ {e}
         /\ Takes(t, e, IF e.call \in Repeated THEN "find" ELSE "run")
         /\ UNCHANGED <<active, asked, ran, age, cancelled, late>>
  BY <1>1, PopTaskEffect
<1>3. /\ t \in Threads /\ t \notin Calls /\ Same(t) /\ e.call \in Calls
      /\ e # Nothing /\ carry[t] = Nothing /\ carry'[t] = e
      /\ pc'[t] = IF e.call \in Repeated THEN "find" ELSE "run"
  BY <1>1, <1>2, OthersSame, Distinct, Values DEF Takes
<1> USE Distinct, Values DEF Has, Same
<1>4. InHand'
  BY <1>1, <1>2, <1>3 DEF InHand, Holding, Done
<1>5. OneEntry'
  BY <1>1, <1>2, <1>3 DEF OneEntry
<1>6. NotYet'
  BY <1>1, <1>2, <1>3 DEF NotYet, Before
<1>7. ActiveIds'
  BY <1>1, <1>2, <1>3 DEF ActiveIds, Before
<1>8. RunsLeft'
  BY <1>1, <1>2, <1>3 DEF RunsLeft
<1>9. AllRun'
  BY <1>1, <1>2, <1>3 DEF AllRun, Before
<1>10. LateOnce'
  BY <1>1, <1>2, <1>3 DEF LateOnce
<1>11. Spaced'
  BY <1>1, <1>2, <1>3 DEF Spaced
<1> QED BY <1>4, <1>5, <1>6, <1>7, <1>8, <1>9, <1>10, <1>11 DEF Parts

\* A delayed task is run.
LEMMA RunDelayedKeeps ==
    ASSUME IInv, NEW t \in Loops, RunDelayed(t)
    PROVE  Parts'
<1>1. /\ TypeOK /\ OnlyLoopsWait /\ InHand /\ OneEntry /\ NotYet /\ ActiveIds
      /\ RunsLeft /\ AllRun /\ LateOnce /\ Spaced
  BY DEF IInv
<1>2. /\ t \in Threads /\ pc[t] = "run" /\ carry[t] # Nothing /\ carry[t] \in Entry
      /\ carry[t].call \in Delayed /\ Lays(t, "load") /\ Counts1(carry[t].call)
      /\ UNCHANGED <<queue, active>>
  BY <1>1, RunDelayedEffect
<1>3. /\ t \notin Calls /\ Same(t) /\ carry'[t] = Nothing /\ pc'[t] = "load"
      /\ carry[t].call \in Calls /\ carry[t].call \notin Repeated
  BY <1>1, <1>2, OthersSame, Distinct DEF Lays
<1>4. /\ \A f \in queue : f.call # carry[t].call
      /\ \A q \in Threads : q # t /\ carry[q] # Nothing => carry[q].call # carry[t].call
  BY <1>1, <1>2, <1>3, Values DEF OneEntry, Has
<1>5. /\ late[carry[t].call] = 0 /\ carry[t].left = 1
      /\ ran[carry[t].call] + carry[t].left = asked[carry[t].call]
  BY <1>1, <1>2, <1>3 DEF RunsLeft, LateOnce, Has
<1> USE Distinct, Values DEF Has, Same, Counts1
<1>6. InHand'
  BY <1>1, <1>2, <1>3, <1>4, <1>5 DEF InHand, Holding, Done
<1>7. OneEntry'
  BY <1>1, <1>2, <1>3, <1>4, <1>5 DEF OneEntry
<1>8. NotYet'
  BY <1>1, <1>2, <1>3, <1>4, <1>5 DEF NotYet, Before
<1>9. ActiveIds'
  BY <1>1, <1>2, <1>3, <1>4, <1>5 DEF ActiveIds, Before
<1>10. RunsLeft'
  BY <1>1, <1>2, <1>3, <1>4, <1>5 DEF RunsLeft
<1>11. AllRun'
  BY <1>1, <1>2, <1>3, <1>4, <1>5 DEF AllRun, Before
<1>12. LateOnce'
  BY <1>1, <1>2, <1>3, <1>4, <1>5 DEF LateOnce
<1>13. Spaced'
  BY <1>1, <1>2, <1>3, <1>4, <1>5 DEF Spaced
<1> QED BY <1>6, <1>7, <1>8, <1>9, <1>10, <1>11, <1>12, <1>13 DEF Parts

\* Time passes.
LEMMA TickKeeps ==
    ASSUME IInv, Tick
    PROVE  Parts'
<1>1. /\ TypeOK /\ OnlyLoopsWait /\ InHand /\ OneEntry /\ NotYet /\ ActiveIds
      /\ RunsLeft /\ AllRun /\ LateOnce /\ Spaced
  BY DEF IInv
<1>2. /\ UNCHANGED <<active, pc, asked, ran, cancelled, late>>
      /\ \A p \in Threads :
            /\ carry'[p] # Nothing <=> carry[p] # Nothing
            /\ carry[p] # Nothing =>
                  /\ carry'[p].call = carry[p].call /\ carry'[p].left = carry[p].left
                  /\ pc[p] = "push" => carry'[p].due = Less(carry[p].due)
      /\ \A e \in queue' : \E f \in queue :
            e.call = f.call /\ e.left = f.left /\ e.due = Less(f.due)
      /\ \A f \in queue : \E e \in queue' : e.call = f.call
      /\ \A e \in queue' : \A f \in queue' :
            (\A g \in queue : \A h \in queue : g.call = h.call => g = h)
            => (e.call = f.call => e = f)
      /\ \A c \in Calls : age'[c] = Less(age[c]) /\ age[c] \in Nat
  BY <1>1, TickEffect
<1> USE Distinct, Values DEF Has, Same, Less
<1>3. InHand'
  BY <1>1, <1>2 DEF InHand, Holding, Done
<1>4. OneEntry'
  BY <1>1, <1>2 DEF OneEntry
<1>5. NotYet'
  BY <1>1, <1>2 DEF NotYet, Before
<1>6. ActiveIds'
  BY <1>1, <1>2 DEF ActiveIds, Before
<1>7. RunsLeft'
  BY <1>1, <1>2 DEF RunsLeft
<1>8. AllRun'
  BY <1>1, <1>2 DEF AllRun, Before
<1>9. LateOnce'
  BY <1>1, <1>2 DEF LateOnce
<1>10. Spaced'
  BY <1>1, <1>2 DEF Spaced
<1> QED BY <1>3, <1>4, <1>5, <1>6, <1>7, <1>8, <1>9, <1>10 DEF Parts

-----------------------------------------------------------------------------
(* The invariant, and what follows from it. *)

LEMMA NextInvariant == IInv /\ [Next]_vars => IInv'
<1> SUFFICES ASSUME IInv, [Next]_vars PROVE IInv'
  OBVIOUS
<1>1. TypeOK /\ OnlyLoopsWait /\ InHand /\ RunsLeft
  BY DEF IInv
<1>2. TypeOK' /\ OnlyLoopsWait'
  BY <1>1, TypeStep, WaitStep
<1>3. Dealt
  BY <1>1, Kinds
<1>4. Parts'
  <2>1. CASE QuietStep  BY <2>1, QuietKeeps
  <2>2. CASE Tick  BY <2>2, TickKeeps
  <2>3. ASSUME NEW c \in Calls,
               StampDelayed(c) \/ PushDelayed(c) \/ InsertId(c) \/ CancelRepeatedTask(c)
        PROVE  Parts'
    BY <2>3, StampDelayedKeeps, PushDelayedKeeps, InsertIdKeeps, CancelKeeps
  <2>4. ASSUME NEW p \in Threads, FindId(p) \/ RunRepeated(p) \/ Stamp(p) \/ PushRepeated(p)
        PROVE  Parts'
    BY <2>4, FindIdKeeps, RunRepeatedKeeps, StampKeeps, PushRepeatedKeeps
  <2>5. ASSUME NEW t \in Loops, PopTask(t) \/ RunDelayed(t) PROVE Parts'
    BY <2>5, PopTaskKeeps, RunDelayedKeeps
  <2> QED BY <1>3, <2>1, <2>2, <2>3, <2>4, <2>5 DEF Dealt
<1> QED BY <1>2, <1>4 DEF IInv, Parts

\* The entries of a call, its runs and the clocks fit together in every state that the
\* posting threads, the loops, the owner and time can lead to.
THEOREM Invariance == Spec => []IInv
BY InitInvariant, NextInvariant, PTL DEF Spec

\* Whatever is equal to all the others in a set is alone in it.
LEMMA AtMostOne ==
    ASSUME NEW S, \A x, y \in S : x = y
    PROVE  Cardinality(S) <= 1
<1>1. CASE S = {}
  BY <1>1, FS_EmptySet
<1>2. ASSUME NEW x \in S PROVE Cardinality(S) <= 1
  <2>1. S = {x}
    OBVIOUS
  <2> QED BY <2>1, FS_Singleton
<1> QED BY <1>1, <1>2

\* A task that is posted runs as often as it was to, no more, and no less unless it is
\* cancelled or still on its way: PostRepeatedTask_ and Run_ neither double nor drop it.
THEOREM Counted == Spec => []RunsCounted
<1>1. IInv => RunsCounted
  <2> SUFFICES ASSUME IInv, NEW c \in Calls
               PROVE  /\ Cardinality(Chain(c)) <= 1
                      /\ ran[c] <= asked[c]
                      /\ (pc[c] = "returned" /\ Chain(c) = {} /\ c \notin cancelled)
                         => ran[c] = asked[c]
    BY DEF RunsCounted
  <2>1. OneEntry /\ AllRun
    BY DEF IInv
  <2>2. ASSUME NEW x \in Chain(c), NEW y \in Chain(c) PROVE x = y
    <3>1. \A z \in Chain(c) :
             (z \in queue /\ z.call = c) \/ (\E p \in Threads : Has(p, c) /\ z = carry[p])
      BY DEF Chain, Has
    <3>2. CASE x \in queue /\ x.call = c
      BY <3>1, <3>2, <2>1 DEF OneEntry
    <3>3. ASSUME NEW p \in Threads, Has(p, c), x = carry[p] PROVE x = y
      BY <3>1, <3>3, <2>1 DEF OneEntry
    <3> QED BY <3>1, <3>2, <3>3
  <2>3. Cardinality(Chain(c)) <= 1
    BY <2>2, AtMostOne
  <2>4. Chain(c) = {} => /\ \A e \in queue : e.call # c
                         /\ \A p \in Threads : ~Has(p, c)
    BY DEF Chain, Has
  <2> QED BY <2>1, <2>3, <2>4 DEF AllRun, Before
<1> QED BY <1>1, Invariance, PTL

\* CancelRepeatedTask lets through the one turn that had found the id, at the most.
THEOREM Cancelled == Spec => []CancelBites
<1>1. IInv => CancelBites
  BY DEF IInv, LateOnce, CancelBites
<1> QED BY <1>1, Invariance, PTL

\* A delayed task runs when its delay is over, and a repeated one a period after its last
\* run, however the waits of the loops end.
THEOREM RunsOnTime == Spec => Paced
<1>1. IInv /\ [Next]_vars =>
         [\A c \in Calls :
            (ran'[c] # ran[c] /\ (c \in Delayed \/ ran[c] > 0)) => age[c] = 0]_vars
  <2> SUFFICES ASSUME IInv, [Next]_vars, NEW c \in Calls, ran'[c] # ran[c],
                      c \in Delayed \/ ran[c] > 0
               PROVE  age[c] = 0
    OBVIOUS
  <2>1. TypeOK /\ OnlyLoopsWait /\ InHand /\ Spaced
    BY DEF IInv
  <2>2. \E p \in Threads : Has(p, c) /\ pc[p] = "run"
    <3>1. ASSUME NEW p \in Threads, RunRepeated(p) PROVE Has(p, c) /\ pc[p] = "run"
      BY <3>1, <2>1, RunRepeatedEffect, Distinct DEF Counts1, Has
    <3>2. ASSUME NEW t \in Loops, RunDelayed(t)
          PROVE  t \in Threads /\ Has(t, c) /\ pc[t] = "run"
      BY <3>2, <2>1, RunDelayedEffect, Distinct DEF Counts1, Has
    <3>3. ran' # ran
      OBVIOUS
    <3>4. \/ \E p \in Threads : RunRepeated(p)
          \/ \E t \in Loops : RunDelayed(t)
      BY <2>1, <3>3, Kinds DEF Dealt, QuietStep, Tick, StampDelayed, PushDelayed,
         InsertId, Asks,
         CancelRepeatedTask, FindId, Stamp, PushRepeated, PopTask, history
    <3> QED BY <3>1, <3>2, <3>4
  <2> QED BY <2>1, <2>2 DEF Spaced
<1> QED BY <1>1, Invariance, PTL DEF Spec, Paced
=============================================================================
