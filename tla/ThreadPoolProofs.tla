-------------------------- MODULE ThreadPoolProofs --------------------------
(***************************************************************************)
(* Proofs about ThreadPool, for every set of threads and of calls.         *)
(* The inductive invariant IInv is proved part by part: one lemma per      *)
(* part, one step per action of the pool that can disturb it.              *)
(***************************************************************************)
EXTENDS ThreadPool, FiniteSetTheorems, TLAPS

-----------------------------------------------------------------------------
(* What the operators on sequences do to the set of elements. *)

\* An appended element is the only new element.
LEMMA AppendElements ==
    ASSUME NEW S, NEW s \in Seq(S), NEW e \in S
    PROVE  ElementsOf(Append(s, e)) = ElementsOf(s) \union {e}
<1>1. DOMAIN Append(s, e) = 1 .. Len(s) + 1 /\ DOMAIN s = 1 .. Len(s)
  OBVIOUS
<1>2. \A i \in 1 .. Len(s) : Append(s, e)[i] = s[i]
  OBVIOUS
<1>3. Append(s, e)[Len(s) + 1] = e /\ Len(s) \in Nat
  OBVIOUS
<1>4. ElementsOf(s) \union {e} \subseteq ElementsOf(Append(s, e))
  BY <1>1, <1>2, <1>3 DEF ElementsOf
<1>5. ElementsOf(Append(s, e)) \subseteq ElementsOf(s) \union {e}
  <2> SUFFICES ASSUME NEW i \in 1 .. Len(s) + 1
               PROVE  Append(s, e)[i] \in ElementsOf(s) \union {e}
    BY <1>1 DEF ElementsOf
  <2>1. CASE i = Len(s) + 1
    BY <2>1, <1>3
  <2>2. CASE i # Len(s) + 1
    <3>1. i \in 1 .. Len(s)
      BY <2>2, <1>3
    <3> QED BY <3>1, <1>1, <1>2 DEF ElementsOf
  <2> QED BY <2>1, <2>2
<1> QED BY <1>4, <1>5

\* Popping the front of a queue brings no new element.
LEMMA TailElements ==
    ASSUME NEW S, NEW s \in Seq(S), s # <<>>
    PROVE  /\ ElementsOf(Tail(s)) \subseteq ElementsOf(s)
           /\ Head(s) \in S
           /\ Tail(s) \in Seq(S)
<1>1. Len(s) \in Nat \ {0} /\ DOMAIN Tail(s) = 1 .. Len(s) - 1 /\ DOMAIN s = 1 .. Len(s)
  OBVIOUS
<1>2. \A i \in 1 .. Len(s) - 1 : Tail(s)[i] = s[i + 1] /\ i + 1 \in 1 .. Len(s)
  BY <1>1
<1>3. ElementsOf(Tail(s)) \subseteq ElementsOf(s)
  BY <1>1, <1>2 DEF ElementsOf
<1> QED BY <1>3

-----------------------------------------------------------------------------
(* The parts of the invariant. *)

LEMMA InitInvariant == Init => IInv
<1> SUFFICES ASSUME Init PROVE IInv
  OBVIOUS
<1>1. TypeOK
  <2>1. wpc \in [Workers -> WorkerStates] /\ cpc \in [Calls -> CallStates]
    BY DEF Init, WorkerStates, CallStates
  <2>2. task \in [Workers -> Calls \union {NoOne}] /\ opc \in OwnerStates
    BY DEF Init, OwnerStates
  <2>3. tasks \in Seq(Calls) /\ accepted \in Seq(Calls) /\ executed \in Seq(Calls)
    BY DEF Init
  <2>4. calls \in Nat /\ is_available \in BOOLEAN /\ is_shutdown \in BOOLEAN
    BY DEF Init
  <2>5. mutex \in Threads \union {NoOne} /\ waiting \in SUBSET Workers /\ discarded \in SUBSET Calls
    BY DEF Init
  <2> QED BY <2>1, <2>2, <2>3, <2>4, <2>5 DEF TypeOK
<1>2. InHand /\ LockHeld /\ Asleep /\ OwnerFlags
  BY DEF Init, InHand, LockHeld, Asleep, OwnerFlags
<1>3. QuietAfterStop /\ Drained /\ NoPlainTaskDiscarded
  BY DEF Init, QuietAfterStop, Drained, ThreadGone, NoPlainTaskDiscarded
<1>4. Fresh
  BY DEF Init, Fresh, ElementsOf
<1> QED BY <1>1, <1>2, <1>3, <1>4 DEF IInv

\* Types: the only step that depends on another part is WorkerRun, which puts
\* the worker's task among the executed ones.
LEMMA TypeStep == TypeOK /\ InHand /\ [Next]_vars => TypeOK'
<1> SUFFICES ASSUME TypeOK, InHand, [Next]_vars PROVE TypeOK'
  OBVIOUS
<1> USE DEF TypeOK, Threads, flags, owner, worker, history,
            MoveWorker, MoveCall, MoveOwner, Acquire, Release
<1>1. ASSUME NEW w \in Workers, WorkerStep(w) \/ SpuriousWakeUp(w) PROVE TypeOK'
  <2> USE DEF WorkerStates
  <2>1. CASE WorkerLock(w)      BY <2>1 DEF WorkerLock
  <2>2. CASE WorkerMustWait(w)  BY <2>2 DEF WorkerMustWait
  <2>3. CASE WorkerBlock(w)     BY <2>3 DEF WorkerBlock
  <2>4. CASE WorkerExit(w)      BY <2>4 DEF WorkerExit
  <2>5. CASE WorkerPop(w)       BY <2>5, TailElements DEF WorkerPop
  <2>6. CASE WorkerRun(w)
    <3>1. task[w] \in Calls
      BY <2>6 DEF WorkerRun, InHand
    <3> QED BY <2>6, <3>1 DEF WorkerRun
  <2>7. CASE SpuriousWakeUp(w)  BY <2>7 DEF SpuriousWakeUp
  <2> QED BY <1>1, <2>1, <2>2, <2>3, <2>4, <2>5, <2>6, <2>7 DEF WorkerStep
<1>2. ASSUME NEW c \in Calls, CallBegin(c) \/ CallStep(c) PROVE TypeOK'
  <2> USE DEF CallStates
  <2>1. CASE CallBegin(c)        BY <2>1 DEF CallBegin
  <2>2. CASE LoadShutdown(c)     BY <2>2 DEF LoadShutdown
  <2>3. CASE LoadAvailable(c)    BY <2>3 DEF LoadAvailable
  <2>4. CASE CallLock(c)         BY <2>4 DEF CallLock
  <2>5. CASE RecheckShutdown(c)  BY <2>5 DEF RecheckShutdown
  <2>6. CASE RecheckAvailable(c) BY <2>6 DEF RecheckAvailable
  <2>7. CASE Emplace(c)          BY <2>7 DEF Emplace
  <2>8. CASE NotifyOne(c)        BY <2>8 DEF NotifyOne, WorkerStates
  <2> QED BY <1>2, <2>1, <2>2, <2>3, <2>4, <2>5, <2>6, <2>7, <2>8 DEF CallStep
<1>3. CASE Start \/ StartOrStopReturns \/ Stop \/ OwnerStep
  <2> USE PoolAssumption DEF OwnerStates
  <2>1. CASE Start               BY <2>1 DEF Start, OwnerCall
  <2>2. CASE StartOrStopReturns  BY <2>2 DEF StartOrStopReturns, OwnerCall
  <2>3. CASE Stop
    <3>1. is_available' \in BOOLEAN
      BY <2>3 DEF Stop
    <3>2. opc' \in OwnerStates /\ calls' \in Nat
      BY <2>3 DEF Stop, OwnerCall
    <3> QED BY <2>3, <3>1, <3>2 DEF Stop
  <2>4. CASE StoreShutdown       BY <2>4 DEF StoreShutdown
  <2>5. CASE NotifyAll           BY <2>5 DEF NotifyAll, WorkerStates
  <2>6. CASE ClearThreads        BY <2>6 DEF ClearThreads, WorkerStates
  <2>7. CASE ClearTasks
    <3>1. ElementsOf(tasks) \subseteq Calls
      BY DEF ElementsOf
    <3> QED BY <2>7, <3>1 DEF ClearTasks
  <2>8. ASSUME NEW w \in Workers, AddThread(w) PROVE TypeOK'
    BY <2>8 DEF AddThread, WorkerStates
  <2>9. ASSUME NEW w \in Workers, Join(w) PROVE TypeOK'
    BY <2>9 DEF Join, WorkerStates
  <2> QED BY <1>3, <2>1, <2>2, <2>3, <2>4, <2>5, <2>6, <2>7, <2>8, <2>9 DEF OwnerStep
<1>4. CASE UNCHANGED vars
  BY <1>4 DEF vars
<1> QED BY <1>1, <1>2, <1>3, <1>4 DEF Next
\* A worker takes a task when it starts to run it and lays it down when it ends.
LEMMA HandStep == TypeOK /\ InHand /\ Asleep /\ [Next]_vars => InHand'
<1> SUFFICES ASSUME TypeOK, InHand, Asleep, [Next]_vars PROVE InHand'
  OBVIOUS
<1> USE DEF TypeOK, InHand, flags, owner, worker, history, MoveWorker, MoveCall, MoveOwner
<1>1. ASSUME NEW w \in Workers, WorkerStep(w) \/ SpuriousWakeUp(w) PROVE InHand'
  <2>1. CASE WorkerLock(w)  BY <2>1 DEF WorkerLock
  <2>2. CASE WorkerMustWait(w)  BY <2>2 DEF WorkerMustWait
  <2>3. CASE WorkerBlock(w)  BY <2>3 DEF WorkerBlock
  <2>4. CASE WorkerExit(w)  BY <2>4 DEF WorkerExit
  <2>5. CASE WorkerPop(w)
    <3>1. Head(tasks) # NoOne
      BY <2>5, TailElements, PoolAssumption DEF WorkerPop, Threads
    <3> QED BY <2>5, <3>1 DEF WorkerPop
  <2>6. CASE WorkerRun(w)  BY <2>6 DEF WorkerRun
  <2>7. CASE SpuriousWakeUp(w)  BY <2>7 DEF SpuriousWakeUp
  <2> QED BY <1>1, <2>1, <2>2, <2>3, <2>4, <2>5, <2>6, <2>7 DEF WorkerStep
<1>2. ASSUME NEW c \in Calls, CallBegin(c) \/ CallStep(c) PROVE InHand'
  <2>1. CASE CallBegin(c)  BY <2>1 DEF CallBegin
  <2>2. CASE LoadShutdown(c)  BY <2>2 DEF LoadShutdown
  <2>3. CASE LoadAvailable(c)  BY <2>3 DEF LoadAvailable
  <2>4. CASE CallLock(c)  BY <2>4 DEF CallLock
  <2>5. CASE RecheckShutdown(c)  BY <2>5 DEF RecheckShutdown
  <2>6. CASE RecheckAvailable(c)  BY <2>6 DEF RecheckAvailable
  <2>7. CASE Emplace(c)  BY <2>7 DEF Emplace
  <2>8. CASE NotifyOne(c)  BY <2>8 DEF NotifyOne
  <2> QED BY <1>2, <2>1, <2>2, <2>3, <2>4, <2>5, <2>6, <2>7, <2>8 DEF CallStep
<1>3. CASE Start \/ StartOrStopReturns \/ Stop \/ OwnerStep
  <2>1. CASE Start  BY <2>1 DEF Start
  <2>2. CASE StartOrStopReturns  BY <2>2 DEF StartOrStopReturns
  <2>3. CASE Stop  BY <2>3 DEF Stop
  <2>4. CASE StoreShutdown  BY <2>4 DEF StoreShutdown
  <2>5. CASE NotifyAll  BY <2>5 DEF NotifyAll, Asleep
  <2>6. CASE ClearThreads  BY <2>6 DEF ClearThreads
  <2>7. CASE ClearTasks  BY <2>7 DEF ClearTasks
  <2>8. ASSUME NEW w \in Workers, AddThread(w) PROVE InHand'
    BY <2>8 DEF AddThread
  <2>9. ASSUME NEW w \in Workers, Join(w) PROVE InHand'
    BY <2>9 DEF Join
  <2> QED BY <1>3, <2>1, <2>2, <2>3, <2>4, <2>5, <2>6, <2>7, <2>8, <2>9 DEF OwnerStep
<1>4. CASE UNCHANGED vars
  BY <1>4 DEF vars
<1> QED BY <1>1, <1>2, <1>3, <1>4 DEF Next

\* task_mutex_ is taken and given back where the code says.
LEMMA LockStep == TypeOK /\ LockHeld /\ Asleep /\ [Next]_vars => LockHeld'
<1> SUFFICES ASSUME TypeOK, LockHeld, Asleep, [Next]_vars PROVE LockHeld'
  OBVIOUS
<1> USE DEF TypeOK, LockHeld, Acquire, Release, flags, owner, worker, history, MoveWorker, MoveCall, MoveOwner
<1>1. ASSUME NEW w \in Workers, WorkerStep(w) \/ SpuriousWakeUp(w) PROVE LockHeld'
  <2>1. CASE WorkerLock(w)  BY <2>1, PoolAssumption DEF WorkerLock, Threads
  <2>2. CASE WorkerMustWait(w)  BY <2>2, PoolAssumption DEF WorkerMustWait
  <2>3. CASE WorkerBlock(w)  BY <2>3, PoolAssumption DEF WorkerBlock
  <2>4. CASE WorkerExit(w)  BY <2>4, PoolAssumption DEF WorkerExit
  <2>5. CASE WorkerPop(w)  BY <2>5, PoolAssumption DEF WorkerPop
  <2>6. CASE WorkerRun(w)  BY <2>6, PoolAssumption DEF WorkerRun
  <2>7. CASE SpuriousWakeUp(w)  BY <2>7, PoolAssumption DEF SpuriousWakeUp
  <2> QED BY <1>1, <2>1, <2>2, <2>3, <2>4, <2>5, <2>6, <2>7 DEF WorkerStep
<1>2. ASSUME NEW c \in Calls, CallBegin(c) \/ CallStep(c) PROVE LockHeld'
  <2>1. CASE CallBegin(c)  BY <2>1, PoolAssumption DEF CallBegin
  <2>2. CASE LoadShutdown(c)  BY <2>2, PoolAssumption DEF LoadShutdown
  <2>3. CASE LoadAvailable(c)  BY <2>3, PoolAssumption DEF LoadAvailable
  <2>4. CASE CallLock(c)  BY <2>4, PoolAssumption DEF CallLock, Threads
  <2>5. CASE RecheckShutdown(c)  BY <2>5, PoolAssumption DEF RecheckShutdown
  <2>6. CASE RecheckAvailable(c)  BY <2>6, PoolAssumption DEF RecheckAvailable
  <2>7. CASE Emplace(c)  BY <2>7, PoolAssumption DEF Emplace
  <2>8. CASE NotifyOne(c)  BY <2>8, PoolAssumption DEF NotifyOne
  <2> QED BY <1>2, <2>1, <2>2, <2>3, <2>4, <2>5, <2>6, <2>7, <2>8 DEF CallStep
<1>3. CASE Start \/ StartOrStopReturns \/ Stop \/ OwnerStep
  <2>1. CASE Start  BY <2>1 DEF Start
  <2>2. CASE StartOrStopReturns  BY <2>2 DEF StartOrStopReturns
  <2>3. CASE Stop  BY <2>3 DEF Stop
  <2>4. CASE StoreShutdown  BY <2>4 DEF StoreShutdown
  <2>5. CASE NotifyAll  BY <2>5 DEF NotifyAll, Asleep
  <2>6. CASE ClearThreads  BY <2>6 DEF ClearThreads
  <2>7. CASE ClearTasks  BY <2>7 DEF ClearTasks
  <2>8. ASSUME NEW w \in Workers, AddThread(w) PROVE LockHeld'
    BY <2>8 DEF AddThread
  <2>9. ASSUME NEW w \in Workers, Join(w) PROVE LockHeld'
    BY <2>9 DEF Join
  <2> QED BY <1>3, <2>1, <2>2, <2>3, <2>4, <2>5, <2>6, <2>7, <2>8, <2>9 DEF OwnerStep
<1>4. CASE UNCHANGED vars
  BY <1>4 DEF vars
<1> QED BY <1>1, <1>2, <1>3, <1>4 DEF Next

\* The wait set follows the program counters.
LEMMA AsleepStep == TypeOK /\ Asleep /\ [Next]_vars => Asleep'
<1> SUFFICES ASSUME TypeOK, Asleep, [Next]_vars PROVE Asleep'
  OBVIOUS
<1> USE DEF TypeOK, Asleep, flags, owner, worker, history, MoveWorker, MoveCall, MoveOwner
<1>1. ASSUME NEW w \in Workers, WorkerStep(w) \/ SpuriousWakeUp(w) PROVE Asleep'
  <2>1. CASE WorkerLock(w)  BY <2>1 DEF WorkerLock
  <2>2. CASE WorkerMustWait(w)  BY <2>2 DEF WorkerMustWait
  <2>3. CASE WorkerBlock(w)  BY <2>3 DEF WorkerBlock
  <2>4. CASE WorkerExit(w)  BY <2>4 DEF WorkerExit
  <2>5. CASE WorkerPop(w)  BY <2>5 DEF WorkerPop
  <2>6. CASE WorkerRun(w)  BY <2>6 DEF WorkerRun
  <2>7. CASE SpuriousWakeUp(w)  BY <2>7 DEF SpuriousWakeUp
  <2> QED BY <1>1, <2>1, <2>2, <2>3, <2>4, <2>5, <2>6, <2>7 DEF WorkerStep
<1>2. ASSUME NEW c \in Calls, CallBegin(c) \/ CallStep(c) PROVE Asleep'
  <2>1. CASE CallBegin(c)  BY <2>1 DEF CallBegin
  <2>2. CASE LoadShutdown(c)  BY <2>2 DEF LoadShutdown
  <2>3. CASE LoadAvailable(c)  BY <2>3 DEF LoadAvailable
  <2>4. CASE CallLock(c)  BY <2>4 DEF CallLock
  <2>5. CASE RecheckShutdown(c)  BY <2>5 DEF RecheckShutdown
  <2>6. CASE RecheckAvailable(c)  BY <2>6 DEF RecheckAvailable
  <2>7. CASE Emplace(c)  BY <2>7 DEF Emplace
  <2>8. CASE NotifyOne(c)  BY <2>8 DEF NotifyOne
  <2> QED BY <1>2, <2>1, <2>2, <2>3, <2>4, <2>5, <2>6, <2>7, <2>8 DEF CallStep
<1>3. CASE Start \/ StartOrStopReturns \/ Stop \/ OwnerStep
  <2>1. CASE Start  BY <2>1 DEF Start
  <2>2. CASE StartOrStopReturns  BY <2>2 DEF StartOrStopReturns
  <2>3. CASE Stop  BY <2>3 DEF Stop
  <2>4. CASE StoreShutdown  BY <2>4 DEF StoreShutdown
  <2>5. CASE NotifyAll  BY <2>5 DEF NotifyAll
  <2>6. CASE ClearThreads  BY <2>6 DEF ClearThreads
  <2>7. CASE ClearTasks  BY <2>7 DEF ClearTasks
  <2>8. ASSUME NEW w \in Workers, AddThread(w) PROVE Asleep'
    BY <2>8 DEF AddThread
  <2>9. ASSUME NEW w \in Workers, Join(w) PROVE Asleep'
    BY <2>9 DEF Join
  <2> QED BY <1>3, <2>1, <2>2, <2>3, <2>4, <2>5, <2>6, <2>7, <2>8, <2>9 DEF OwnerStep
<1>4. CASE UNCHANGED vars
  BY <1>4 DEF vars
<1> QED BY <1>1, <1>2, <1>3, <1>4 DEF Next

\* is_available_ follows the owner's calls.
LEMMA FlagsStep == TypeOK /\ OwnerFlags /\ [Next]_vars => OwnerFlags'
<1> SUFFICES ASSUME TypeOK, OwnerFlags, [Next]_vars PROVE OwnerFlags'
  OBVIOUS
<1> USE DEF TypeOK, OwnerFlags, flags, owner, worker, history, MoveWorker, MoveCall, MoveOwner
<1>1. ASSUME NEW w \in Workers, WorkerStep(w) \/ SpuriousWakeUp(w) PROVE OwnerFlags'
  <2>1. CASE WorkerLock(w)  BY <2>1 DEF WorkerLock
  <2>2. CASE WorkerMustWait(w)  BY <2>2 DEF WorkerMustWait
  <2>3. CASE WorkerBlock(w)  BY <2>3 DEF WorkerBlock
  <2>4. CASE WorkerExit(w)  BY <2>4 DEF WorkerExit
  <2>5. CASE WorkerPop(w)  BY <2>5 DEF WorkerPop
  <2>6. CASE WorkerRun(w)  BY <2>6 DEF WorkerRun
  <2>7. CASE SpuriousWakeUp(w)  BY <2>7 DEF SpuriousWakeUp
  <2> QED BY <1>1, <2>1, <2>2, <2>3, <2>4, <2>5, <2>6, <2>7 DEF WorkerStep
<1>2. ASSUME NEW c \in Calls, CallBegin(c) \/ CallStep(c) PROVE OwnerFlags'
  <2>1. CASE CallBegin(c)  BY <2>1 DEF CallBegin
  <2>2. CASE LoadShutdown(c)  BY <2>2 DEF LoadShutdown
  <2>3. CASE LoadAvailable(c)  BY <2>3 DEF LoadAvailable
  <2>4. CASE CallLock(c)  BY <2>4 DEF CallLock
  <2>5. CASE RecheckShutdown(c)  BY <2>5 DEF RecheckShutdown
  <2>6. CASE RecheckAvailable(c)  BY <2>6 DEF RecheckAvailable
  <2>7. CASE Emplace(c)  BY <2>7 DEF Emplace
  <2>8. CASE NotifyOne(c)  BY <2>8 DEF NotifyOne
  <2> QED BY <1>2, <2>1, <2>2, <2>3, <2>4, <2>5, <2>6, <2>7, <2>8 DEF CallStep
<1>3. CASE Start \/ StartOrStopReturns \/ Stop \/ OwnerStep
  <2>1. CASE Start  BY <2>1 DEF Start
  <2>2. CASE StartOrStopReturns  BY <2>2 DEF StartOrStopReturns
  <2>3. CASE Stop  BY <2>3 DEF Stop
  <2>4. CASE StoreShutdown  BY <2>4 DEF StoreShutdown
  <2>5. CASE NotifyAll  BY <2>5 DEF NotifyAll
  <2>6. CASE ClearThreads  BY <2>6 DEF ClearThreads
  <2>7. CASE ClearTasks  BY <2>7 DEF ClearTasks
  <2>8. ASSUME NEW w \in Workers, AddThread(w) PROVE OwnerFlags'
    BY <2>8 DEF AddThread
  <2>9. ASSUME NEW w \in Workers, Join(w) PROVE OwnerFlags'
    BY <2>9 DEF Join
  <2> QED BY <1>3, <2>1, <2>2, <2>3, <2>4, <2>5, <2>6, <2>7, <2>8, <2>9 DEF OwnerStep
<1>4. CASE UNCHANGED vars
  BY <1>4 DEF vars
<1> QED BY <1>1, <1>2, <1>3, <1>4 DEF Next

\* Only Emplace adds to the accepted tasks, and its call goes on.
LEMMA FreshStep == TypeOK /\ Fresh /\ [Next]_vars => Fresh'
<1> SUFFICES ASSUME TypeOK, Fresh, [Next]_vars PROVE Fresh'
  OBVIOUS
<1> USE DEF TypeOK, Fresh, flags, owner, worker, history, MoveWorker, MoveCall, MoveOwner
<1>1. ASSUME NEW w \in Workers, WorkerStep(w) \/ SpuriousWakeUp(w) PROVE Fresh'
  <2>1. CASE WorkerLock(w)  BY <2>1 DEF WorkerLock
  <2>2. CASE WorkerMustWait(w)  BY <2>2 DEF WorkerMustWait
  <2>3. CASE WorkerBlock(w)  BY <2>3 DEF WorkerBlock
  <2>4. CASE WorkerExit(w)  BY <2>4 DEF WorkerExit
  <2>5. CASE WorkerPop(w)  BY <2>5 DEF WorkerPop
  <2>6. CASE WorkerRun(w)  BY <2>6 DEF WorkerRun
  <2>7. CASE SpuriousWakeUp(w)  BY <2>7 DEF SpuriousWakeUp
  <2> QED BY <1>1, <2>1, <2>2, <2>3, <2>4, <2>5, <2>6, <2>7 DEF WorkerStep
<1>2. ASSUME NEW c \in Calls, CallBegin(c) \/ CallStep(c) PROVE Fresh'
  <2>1. CASE CallBegin(c)  BY <2>1 DEF CallBegin
  <2>2. CASE LoadShutdown(c)  BY <2>2 DEF LoadShutdown
  <2>3. CASE LoadAvailable(c)  BY <2>3 DEF LoadAvailable
  <2>4. CASE CallLock(c)  BY <2>4 DEF CallLock
  <2>5. CASE RecheckShutdown(c)  BY <2>5 DEF RecheckShutdown
  <2>6. CASE RecheckAvailable(c)  BY <2>6 DEF RecheckAvailable
  <2>7. CASE Emplace(c)
    <3>1. ElementsOf(accepted') = ElementsOf(accepted) \union {c}
      BY <2>7, AppendElements DEF Emplace
    <3> QED BY <2>7, <3>1 DEF Emplace, CallStates
  <2>8. CASE NotifyOne(c)  BY <2>8 DEF NotifyOne
  <2> QED BY <1>2, <2>1, <2>2, <2>3, <2>4, <2>5, <2>6, <2>7, <2>8 DEF CallStep
<1>3. CASE Start \/ StartOrStopReturns \/ Stop \/ OwnerStep
  <2>1. CASE Start  BY <2>1 DEF Start
  <2>2. CASE StartOrStopReturns  BY <2>2 DEF StartOrStopReturns
  <2>3. CASE Stop  BY <2>3 DEF Stop
  <2>4. CASE StoreShutdown  BY <2>4 DEF StoreShutdown
  <2>5. CASE NotifyAll  BY <2>5 DEF NotifyAll
  <2>6. CASE ClearThreads  BY <2>6 DEF ClearThreads
  <2>7. CASE ClearTasks  BY <2>7 DEF ClearTasks
  <2>8. ASSUME NEW w \in Workers, AddThread(w) PROVE Fresh'
    BY <2>8 DEF AddThread
  <2>9. ASSUME NEW w \in Workers, Join(w) PROVE Fresh'
    BY <2>9 DEF Join
  <2> QED BY <1>3, <2>1, <2>2, <2>3, <2>4, <2>5, <2>6, <2>7, <2>8, <2>9 DEF OwnerStep
<1>4. CASE UNCHANGED vars
  BY <1>4 DEF vars
<1> QED BY <1>1, <1>2, <1>3, <1>4 DEF Next

\* A stopped pool has no thread, so nothing but the owner can move it.
LEMMA QuietStep == TypeOK /\ InHand /\ Asleep /\ OwnerFlags /\ QuietAfterStop /\ [Next]_vars => QuietAfterStop'
<1> SUFFICES ASSUME TypeOK, InHand, Asleep, OwnerFlags, QuietAfterStop, [Next]_vars PROVE QuietAfterStop'
  OBVIOUS
<1> USE DEF TypeOK, InHand, Asleep, OwnerFlags, QuietAfterStop, flags, owner, worker, history, MoveWorker, MoveCall, MoveOwner
<1>1. ASSUME NEW w \in Workers, WorkerStep(w) \/ SpuriousWakeUp(w) PROVE QuietAfterStop'
  <2>1. CASE WorkerLock(w)  BY <2>1 DEF WorkerLock
  <2>2. CASE WorkerMustWait(w)  BY <2>2 DEF WorkerMustWait
  <2>3. CASE WorkerBlock(w)  BY <2>3 DEF WorkerBlock
  <2>4. CASE WorkerExit(w)  BY <2>4 DEF WorkerExit
  <2>5. CASE WorkerPop(w)  BY <2>5 DEF WorkerPop
  <2>6. CASE WorkerRun(w)  BY <2>6 DEF WorkerRun
  <2>7. CASE SpuriousWakeUp(w)  BY <2>7 DEF SpuriousWakeUp
  <2> QED BY <1>1, <2>1, <2>2, <2>3, <2>4, <2>5, <2>6, <2>7 DEF WorkerStep
<1>2. ASSUME NEW c \in Calls, CallBegin(c) \/ CallStep(c) PROVE QuietAfterStop'
  <2>1. CASE CallBegin(c)  BY <2>1 DEF CallBegin
  <2>2. CASE LoadShutdown(c)  BY <2>2 DEF LoadShutdown
  <2>3. CASE LoadAvailable(c)  BY <2>3 DEF LoadAvailable
  <2>4. CASE CallLock(c)  BY <2>4 DEF CallLock
  <2>5. CASE RecheckShutdown(c)  BY <2>5 DEF RecheckShutdown
  <2>6. CASE RecheckAvailable(c)  BY <2>6 DEF RecheckAvailable
  <2>7. CASE Emplace(c)  BY <2>7 DEF Emplace
  <2>8. CASE NotifyOne(c)  BY <2>8 DEF NotifyOne
  <2> QED BY <1>2, <2>1, <2>2, <2>3, <2>4, <2>5, <2>6, <2>7, <2>8 DEF CallStep
<1>3. CASE Start \/ StartOrStopReturns \/ Stop \/ OwnerStep
  <2>1. CASE Start  BY <2>1 DEF Start
  <2>2. CASE StartOrStopReturns  BY <2>2 DEF StartOrStopReturns
  <2>3. CASE Stop  BY <2>3 DEF Stop
  <2>4. CASE StoreShutdown  BY <2>4 DEF StoreShutdown
  <2>5. CASE NotifyAll  BY <2>5 DEF NotifyAll
  <2>6. CASE ClearThreads  BY <2>6 DEF ClearThreads
  <2>7. CASE ClearTasks  BY <2>7 DEF ClearTasks
  <2>8. ASSUME NEW w \in Workers, AddThread(w) PROVE QuietAfterStop'
    BY <2>8 DEF AddThread
  <2>9. ASSUME NEW w \in Workers, Join(w) PROVE QuietAfterStop'
    BY <2>9 DEF Join
  <2> QED BY <1>3, <2>1, <2>2, <2>3, <2>4, <2>5, <2>6, <2>7, <2>8, <2>9 DEF OwnerStep
<1>4. CASE UNCHANGED vars
  BY <1>4 DEF vars
<1> QED BY <1>1, <1>2, <1>3, <1>4 DEF Next

\* A worker that leaves holds task_mutex_, has seen is_shutdown_ and an empty queue:
\* no SubmitTask is between its second look at is_shutdown_ and Emplace, and none
\* will get there later.
LEMMA DrainedStep == TypeOK /\ LockHeld /\ Asleep /\ Drained /\ [Next]_vars => Drained'
<1> SUFFICES ASSUME TypeOK, LockHeld, Asleep, Drained, [Next]_vars PROVE Drained'
  OBVIOUS
<1> USE DEF TypeOK, LockHeld, Drained, ThreadGone, flags, owner, worker, history, MoveWorker, MoveCall, MoveOwner
<1>1. ASSUME NEW w \in Workers, WorkerStep(w) \/ SpuriousWakeUp(w) PROVE Drained'
  <2>1. CASE WorkerLock(w)  BY <2>1 DEF WorkerLock
  <2>2. CASE WorkerMustWait(w)  BY <2>2 DEF WorkerMustWait
  <2>3. CASE WorkerBlock(w)  BY <2>3 DEF WorkerBlock
  <2>4. CASE WorkerExit(w)
    <3>1. ElementsOf(tasks') = {}
      BY <2>4 DEF WorkerExit, ElementsOf
    <3>2. mutex = w /\ w \notin Calls
      BY <2>4, PoolAssumption DEF WorkerExit
    <3> QED BY <2>4, <3>1, <3>2 DEF WorkerExit, Calls
  <2>5. CASE WorkerPop(w)
    <3>1. ElementsOf(tasks') \subseteq ElementsOf(tasks)
      BY <2>5, TailElements DEF WorkerPop
    <3> QED BY <2>5, <3>1 DEF WorkerPop
  <2>6. CASE WorkerRun(w)  BY <2>6 DEF WorkerRun
  <2>7. CASE SpuriousWakeUp(w)  BY <2>7 DEF SpuriousWakeUp
  <2> QED BY <1>1, <2>1, <2>2, <2>3, <2>4, <2>5, <2>6, <2>7 DEF WorkerStep
<1>2. ASSUME NEW c \in Calls, CallBegin(c) \/ CallStep(c) PROVE Drained'
  <2>1. CASE CallBegin(c)  BY <2>1 DEF CallBegin
  <2>2. CASE LoadShutdown(c)  BY <2>2 DEF LoadShutdown
  <2>3. CASE LoadAvailable(c)  BY <2>3 DEF LoadAvailable
  <2>4. CASE CallLock(c)  BY <2>4 DEF CallLock
  <2>5. CASE RecheckShutdown(c)  BY <2>5 DEF RecheckShutdown
  <2>6. CASE RecheckAvailable(c)  BY <2>6 DEF RecheckAvailable
  <2>7. CASE Emplace(c)
    <3>1. ElementsOf(tasks') = ElementsOf(tasks) \union {c}
      BY <2>7, AppendElements DEF Emplace
    <3> QED BY <2>7, <3>1 DEF Emplace
  <2>8. CASE NotifyOne(c)  BY <2>8 DEF NotifyOne
  <2> QED BY <1>2, <2>1, <2>2, <2>3, <2>4, <2>5, <2>6, <2>7, <2>8 DEF CallStep
<1>3. CASE Start \/ StartOrStopReturns \/ Stop \/ OwnerStep
  <2>1. CASE Start  BY <2>1 DEF Start
  <2>2. CASE StartOrStopReturns  BY <2>2 DEF StartOrStopReturns
  <2>3. CASE Stop  BY <2>3 DEF Stop
  <2>4. CASE StoreShutdown  BY <2>4 DEF StoreShutdown
  <2>5. CASE NotifyAll  BY <2>5 DEF NotifyAll, Asleep
  <2>6. CASE ClearThreads
    <3>1. \E w \in Workers : wpc[w] = "joined"
      BY <2>6, PoolAssumption DEF ClearThreads
    <3> QED BY <2>6, <3>1 DEF ClearThreads
  <2>7. CASE ClearTasks
    <3>1. ElementsOf(tasks') = {}
      BY <2>7 DEF ClearTasks, ElementsOf
    <3> QED BY <2>7, <3>1 DEF ClearTasks
  <2>8. ASSUME NEW w \in Workers, AddThread(w) PROVE Drained'
    BY <2>8 DEF AddThread
  <2>9. ASSUME NEW w \in Workers, Join(w) PROVE Drained'
    BY <2>9 DEF Join
  <2> QED BY <1>3, <2>1, <2>2, <2>3, <2>4, <2>5, <2>6, <2>7, <2>8, <2>9 DEF OwnerStep
<1>4. CASE UNCHANGED vars
  BY <1>4 DEF vars
<1> QED BY <1>1, <1>2, <1>3, <1>4 DEF Next

\* Only ClearTasks throws tasks away, and by then none of SubmitTask is left.
LEMMA DiscardStep == Drained /\ NoPlainTaskDiscarded /\ [Next]_vars => NoPlainTaskDiscarded'
<1> SUFFICES ASSUME Drained, NoPlainTaskDiscarded, [Next]_vars PROVE NoPlainTaskDiscarded'
  OBVIOUS
<1> USE DEF NoPlainTaskDiscarded, flags, owner, worker, history, MoveWorker, MoveCall, MoveOwner
<1>1. ASSUME NEW w \in Workers, WorkerStep(w) \/ SpuriousWakeUp(w) PROVE NoPlainTaskDiscarded'
  <2>1. CASE WorkerLock(w)  BY <2>1 DEF WorkerLock
  <2>2. CASE WorkerMustWait(w)  BY <2>2 DEF WorkerMustWait
  <2>3. CASE WorkerBlock(w)  BY <2>3 DEF WorkerBlock
  <2>4. CASE WorkerExit(w)  BY <2>4 DEF WorkerExit
  <2>5. CASE WorkerPop(w)  BY <2>5 DEF WorkerPop
  <2>6. CASE WorkerRun(w)  BY <2>6 DEF WorkerRun
  <2>7. CASE SpuriousWakeUp(w)  BY <2>7 DEF SpuriousWakeUp
  <2> QED BY <1>1, <2>1, <2>2, <2>3, <2>4, <2>5, <2>6, <2>7 DEF WorkerStep
<1>2. ASSUME NEW c \in Calls, CallBegin(c) \/ CallStep(c) PROVE NoPlainTaskDiscarded'
  <2>1. CASE CallBegin(c)  BY <2>1 DEF CallBegin
  <2>2. CASE LoadShutdown(c)  BY <2>2 DEF LoadShutdown
  <2>3. CASE LoadAvailable(c)  BY <2>3 DEF LoadAvailable
  <2>4. CASE CallLock(c)  BY <2>4 DEF CallLock
  <2>5. CASE RecheckShutdown(c)  BY <2>5 DEF RecheckShutdown
  <2>6. CASE RecheckAvailable(c)  BY <2>6 DEF RecheckAvailable
  <2>7. CASE Emplace(c)  BY <2>7 DEF Emplace
  <2>8. CASE NotifyOne(c)  BY <2>8 DEF NotifyOne
  <2> QED BY <1>2, <2>1, <2>2, <2>3, <2>4, <2>5, <2>6, <2>7, <2>8 DEF CallStep
<1>3. CASE Start \/ StartOrStopReturns \/ Stop \/ OwnerStep
  <2>1. CASE Start  BY <2>1 DEF Start
  <2>2. CASE StartOrStopReturns  BY <2>2 DEF StartOrStopReturns
  <2>3. CASE Stop  BY <2>3 DEF Stop
  <2>4. CASE StoreShutdown  BY <2>4 DEF StoreShutdown
  <2>5. CASE NotifyAll  BY <2>5 DEF NotifyAll
  <2>6. CASE ClearThreads  BY <2>6 DEF ClearThreads
  <2>7. CASE ClearTasks  BY <2>7 DEF ClearTasks, Drained, ThreadGone
  <2>8. ASSUME NEW w \in Workers, AddThread(w) PROVE NoPlainTaskDiscarded'
    BY <2>8 DEF AddThread
  <2>9. ASSUME NEW w \in Workers, Join(w) PROVE NoPlainTaskDiscarded'
    BY <2>9 DEF Join
  <2> QED BY <1>3, <2>1, <2>2, <2>3, <2>4, <2>5, <2>6, <2>7, <2>8, <2>9 DEF OwnerStep
<1>4. CASE UNCHANGED vars
  BY <1>4 DEF vars
<1> QED BY <1>1, <1>2, <1>3, <1>4 DEF Next

-----------------------------------------------------------------------------
(* The theorems. *)

\* IInv is an invariant: it holds at first and each part survives every step.
THEOREM Invariance == Spec => []IInv
<1>1. Init => IInv
  BY InitInvariant
<1>2. IInv /\ [Next]_vars => IInv'
  BY TypeStep, HandStep, LockStep, AsleepStep, FlagsStep, FreshStep, QuietStep,
     DrainedStep, DiscardStep DEF IInv
<1> QED BY <1>1, <1>2, PTL DEF Spec

\* Type correctness of the pool.
THEOREM TypeCorrect == Spec => []TypeOK
<1>1. IInv => TypeOK
  BY DEF IInv
<1> QED BY <1>1, Invariance, PTL

\* Stop throws away no task of SubmitTask, however many threads and calls.
THEOREM PlainTasksAreKept == Spec => []NoPlainTaskDiscarded
<1>1. IInv => NoPlainTaskDiscarded
  BY DEF IInv
<1> QED BY <1>1, Invariance, PTL

\* When Stop has joined its threads no thread of the pool is left.
THEOREM StoppedPoolIsQuiet == Spec => []QuietAfterStop
<1>1. IInv => QuietAfterStop
  BY DEF IInv
<1> QED BY <1>1, Invariance, PTL

\* Every step of the pool is a step of the abstract queue or leaves it alone.
LEMMA StepsRefine == IInv /\ [Next]_vars => [Queue!QNext]_Queue!qvars
<1> SUFFICES ASSUME IInv, [Next]_vars PROVE [Queue!QNext]_Queue!qvars
  OBVIOUS
<1> USE DEF flags, owner, worker, history, MoveWorker, MoveCall, MoveOwner, Queue!qvars
<1>1. ASSUME NEW w \in Workers, WorkerStep(w) \/ SpuriousWakeUp(w) PROVE [Queue!QNext]_Queue!qvars
  <2>1. CASE WorkerLock(w)  BY <2>1 DEF WorkerLock
  <2>2. CASE WorkerMustWait(w)  BY <2>2 DEF WorkerMustWait
  <2>3. CASE WorkerBlock(w)  BY <2>3 DEF WorkerBlock
  <2>4. CASE WorkerExit(w)  BY <2>4 DEF WorkerExit
  <2>5. CASE WorkerPop(w)
    <3>1. Queue!Begin(w)
      BY <2>5 DEF WorkerPop, Queue!Begin, IInv, InHand
    <3> QED BY <3>1 DEF Queue!QNext
  <2>6. CASE WorkerRun(w)
    <3>1. Queue!End(w)
      BY <2>6 DEF WorkerRun, Queue!End, IInv, InHand
    <3> QED BY <3>1 DEF Queue!QNext
  <2>7. CASE SpuriousWakeUp(w)  BY <2>7 DEF SpuriousWakeUp
  <2> QED BY <1>1, <2>1, <2>2, <2>3, <2>4, <2>5, <2>6, <2>7 DEF WorkerStep
<1>2. ASSUME NEW c \in Calls, CallBegin(c) \/ CallStep(c) PROVE [Queue!QNext]_Queue!qvars
  <2>1. CASE CallBegin(c)  BY <2>1 DEF CallBegin
  <2>2. CASE LoadShutdown(c)  BY <2>2 DEF LoadShutdown
  <2>3. CASE LoadAvailable(c)  BY <2>3 DEF LoadAvailable
  <2>4. CASE CallLock(c)  BY <2>4 DEF CallLock
  <2>5. CASE RecheckShutdown(c)  BY <2>5 DEF RecheckShutdown
  <2>6. CASE RecheckAvailable(c)  BY <2>6 DEF RecheckAvailable
  <2>7. CASE Emplace(c)
    <3>1. c \notin ElementsOf(accepted)
      BY <2>7 DEF Emplace, IInv, Fresh
    <3>2. Queue!Accept(c)
      BY <2>7, <3>1 DEF Emplace, Queue!Accept, Queue!Members, ElementsOf
    <3> QED BY <3>2 DEF Queue!QNext
  <2>8. CASE NotifyOne(c)  BY <2>8 DEF NotifyOne
  <2> QED BY <1>2, <2>1, <2>2, <2>3, <2>4, <2>5, <2>6, <2>7, <2>8 DEF CallStep
<1>3. CASE Start \/ StartOrStopReturns \/ Stop \/ OwnerStep
  <2>1. CASE Start  BY <2>1 DEF Start
  <2>2. CASE StartOrStopReturns  BY <2>2 DEF StartOrStopReturns
  <2>3. CASE Stop  BY <2>3 DEF Stop
  <2>4. CASE StoreShutdown  BY <2>4 DEF StoreShutdown
  <2>5. CASE NotifyAll  BY <2>5 DEF NotifyAll
  <2>6. CASE ClearThreads  BY <2>6 DEF ClearThreads
  <2>7. CASE ClearTasks
    <3>1. ElementsOf(tasks) \subseteq RetCalls
      BY <2>7 DEF ClearTasks, IInv, TypeOK, Drained, ThreadGone, ElementsOf, Calls
    <3>2. \A w \in Workers : task[w] = NoOne
      BY <2>7 DEF ClearTasks, IInv, QuietAfterStop
    <3>3. Queue!GiveUp
      BY <2>7, <3>1, <3>2 DEF ClearTasks, Queue!GiveUp, Queue!Members, ElementsOf
    <3> QED BY <3>3 DEF Queue!QNext
  <2>8. ASSUME NEW w \in Workers, AddThread(w) PROVE [Queue!QNext]_Queue!qvars
    BY <2>8 DEF AddThread
  <2>9. ASSUME NEW w \in Workers, Join(w) PROVE [Queue!QNext]_Queue!qvars
    BY <2>9 DEF Join
  <2> QED BY <1>3, <2>1, <2>2, <2>3, <2>4, <2>5, <2>6, <2>7, <2>8, <2>9 DEF OwnerStep
<1>4. CASE UNCHANGED vars
  BY <1>4 DEF vars
<1> QED BY <1>1, <1>2, <1>3, <1>4 DEF Next

\* The pool implements the abstract queue: tasks begin in the order they were
\* accepted, run once, and only those of SubmitRetTask may be given up, when no
\* thread runs any more.
THEOREM PoolImplementsQueue == Spec => ImplementsQueue
<1>1. Init => Queue!QInit
  BY DEF Init, Queue!QInit
<1>2. IInv /\ [Next]_vars => [Queue!QNext]_Queue!qvars
  BY StepsRefine
<1> QED BY <1>1, <1>2, Invariance, PTL DEF Spec, ImplementsQueue, Queue!QSpec

-----------------------------------------------------------------------------
(* Counting the copies of a task. *)

\* There are finitely many places in a sequence.
LEMMA PlacesFinite ==
    ASSUME NEW S, NEW s \in Seq(S), NEW c
    PROVE  IsFiniteSet(Places(s, c)) /\ Cardinality(Places(s, c)) \in Nat
<1>1. DOMAIN s = 1..Len(s) /\ Len(s) \in Nat
  OBVIOUS
<1>2. IsFiniteSet(1..Len(s))
  BY <1>1, FS_Interval
<1>3. IsFiniteSet(Places(s, c))
  BY <1>1, <1>2, FS_Subset DEF Places
<1> QED BY <1>3, FS_CardinalityType

\* A task has a place in a queue if and only if it is one of its elements.
LEMMA NoPlaces ==
    ASSUME NEW S, NEW s \in Seq(S), NEW c
    PROVE  Cardinality(Places(s, c)) = 0 <=> c \notin ElementsOf(s)
<1>1. Places(s, c) = {} <=> c \notin ElementsOf(s)
  BY DEF Places, ElementsOf
<1> QED BY <1>1, PlacesFinite, FS_EmptySet

\* A task enqueued has one more place.
LEMMA AppendPlaces ==
    ASSUME NEW S, NEW s \in Seq(S), NEW e \in S, NEW c
    PROVE  Cardinality(Places(Append(s, e), c)) =
              Cardinality(Places(s, c)) + (IF e = c THEN 1 ELSE 0)
<1>1. /\ DOMAIN s = 1..Len(s) /\ DOMAIN Append(s, e) = 1..(Len(s) + 1) /\ Len(s) \in Nat
      /\ Append(s, e)[Len(s) + 1] = e
      /\ \A i \in 1..Len(s) : Append(s, e)[i] = s[i]
  OBVIOUS
<1>2. Len(s) + 1 \notin Places(s, c)
  BY <1>1 DEF Places
<1>3. Places(Append(s, e), c) = IF e = c THEN Places(s, c) \union {Len(s) + 1} ELSE Places(s, c)
  BY <1>1 DEF Places
<1>4. Cardinality(Places(s, c) \union {Len(s) + 1}) = Cardinality(Places(s, c)) + 1
  BY <1>2, PlacesFinite, FS_AddElement
<1> QED BY <1>3, <1>4, PlacesFinite

\* A task taken from the front of the queue has one place less.
LEMMA TailPlaces ==
    ASSUME NEW S, NEW s \in Seq(S), s # <<>>, NEW c
    PROVE  Cardinality(Places(s, c)) =
              Cardinality(Places(Tail(s), c)) + (IF Head(s) = c THEN 1 ELSE 0)
<1> DEFINE P == Places(s, c) \ {1}
           T == Places(Tail(s), c)
           f == [i \in T |-> i + 1]
<1>1. /\ DOMAIN s = 1..Len(s) /\ DOMAIN Tail(s) = 1..(Len(s) - 1) /\ Len(s) \in Nat \ {0}
      /\ Head(s) = s[1]
      /\ \A i \in 1..(Len(s) - 1) : Tail(s)[i] = s[i + 1]
      /\ Tail(s) \in Seq(S)
  OBVIOUS
<1>2. \A i \in T : i \in Nat \ {0} /\ i + 1 \in P
  BY <1>1 DEF Places
<1>3. \A j \in P : j - 1 \in T /\ j = (j - 1) + 1
  BY <1>1 DEF Places
<1>4. f \in Bijection(T, P)
  <2>1. f \in [T -> P]
    BY <1>2
  <2>2. \A i, j \in T : f[i] = f[j] => i = j
    BY <1>2
  <2>3. \A j \in P : \E i \in T : f[i] = j
    BY <1>3
  <2> HIDE DEF f, T, P
  <2> QED BY <2>1, <2>2, <2>3 DEF Bijection, Injection, Surjection, IsInjective
<1>5. Cardinality(P) = Cardinality(T)
  <2>1. ExistsBijection(T, P)
    BY <1>4 DEF ExistsBijection
  <2>2. IsFiniteSet(T)
    BY <1>1, PlacesFinite
  <2> HIDE DEF T, P
  <2> QED BY <2>1, <2>2, FS_Bijection
<1>6. 1 \in Places(s, c) <=> Head(s) = c
  BY <1>1 DEF Places
<1>7. Cardinality(P) = IF 1 \in Places(s, c) THEN Cardinality(Places(s, c)) - 1
                                             ELSE Cardinality(Places(s, c))
  BY PlacesFinite, FS_RemoveElement
<1> QED BY <1>5, <1>6, <1>7, PlacesFinite

\* A worker without a task that is given one counts for that task.
LEMMA HolderMore ==
    ASSUME TypeOK, NEW w \in Workers, task[w] = NoOne, NEW e \in Calls, NEW c \in Calls,
           task' = [task EXCEPT ![w] = e]
    PROVE  Cardinality(Holders(c)') = Cardinality(Holders(c)) + (IF e = c THEN 1 ELSE 0)
<1>1. IsFiniteSet(Holders(c)) /\ Cardinality(Holders(c)) \in Nat
  BY PoolAssumption, FS_Subset, FS_CardinalityType DEF Holders
<1>2. w \notin Holders(c)
  BY PoolAssumption DEF Holders, Threads
<1>3. Holders(c)' = IF e = c THEN Holders(c) \union {w} ELSE Holders(c)
  BY <1>2 DEF Holders, TypeOK
<1>4. Cardinality(Holders(c) \union {w}) = Cardinality(Holders(c)) + 1
  BY <1>1, <1>2, FS_AddElement
<1> QED BY <1>1, <1>3, <1>4

\* A worker that lays its task down counts for it no longer.
LEMMA HolderLess ==
    ASSUME TypeOK, NEW w \in Workers, NEW c \in Calls, task' = [task EXCEPT ![w] = NoOne]
    PROVE  Cardinality(Holders(c)) = Cardinality(Holders(c)') + (IF task[w] = c THEN 1 ELSE 0)
<1>1. IsFiniteSet(Holders(c)) /\ Cardinality(Holders(c)) \in Nat
  BY PoolAssumption, FS_Subset, FS_CardinalityType DEF Holders
<1>2. Holders(c)' = Holders(c) \ {w}
  BY PoolAssumption DEF Holders, TypeOK, Threads
<1>3. w \in Holders(c) <=> task[w] = c
  BY DEF Holders
<1>4. Cardinality(Holders(c) \ {w}) = IF w \in Holders(c) THEN Cardinality(Holders(c)) - 1
                                                          ELSE Cardinality(Holders(c))
  BY <1>1, FS_RemoveElement
<1> QED BY <1>1, <1>2, <1>3, <1>4

\* The parts of a count are numbers.
LEMMA CountTypes ==
    ASSUME TypeOK, NEW c \in Calls
    PROVE  /\ Cardinality(Places(tasks, c)) \in Nat
           /\ Cardinality(Holders(c)) \in Nat
           /\ Cardinality(Places(executed, c)) \in Nat
<1>1. IsFiniteSet(Holders(c))
  BY PoolAssumption, FS_Subset DEF Holders
<1> QED BY <1>1, PlacesFinite, FS_CardinalityType DEF TypeOK

\* A step that touches neither queue nor hands nor history moves no task.
LEMMA CountSame ==
    ASSUME UNCHANGED <<tasks, task, history>>
    PROVE  ExactlyOnce => ExactlyOnce'
BY DEF ExactlyOnce, Copies, Holders, history

\* A task enqueued was nowhere before.
LEMMA EmplaceCount == ASSUME IInv, ExactlyOnce, NEW e \in Calls, Emplace(e) PROVE ExactlyOnce'
<1> SUFFICES ASSUME NEW c \in Calls
             PROVE  Copies(c)' = IF c \in ElementsOf(accepted') THEN 1 ELSE 0
  BY DEF ExactlyOnce
<1>1. TypeOK /\ e \notin ElementsOf(accepted)
  BY DEF IInv, Fresh, Emplace, MoveCall
<1>2. ElementsOf(accepted') = ElementsOf(accepted) \union {e}
  BY <1>1, AppendElements DEF Emplace, TypeOK
<1>3. Cardinality(Places(tasks', c)) = Cardinality(Places(tasks, c)) + (IF e = c THEN 1 ELSE 0)
  BY <1>1, AppendPlaces DEF Emplace, TypeOK
<1>4. Copies(c)' = Copies(c) + (IF e = c THEN 1 ELSE 0)
  <2>1. Holders(c)' = Holders(c) /\ executed' = executed /\ discarded' = discarded
    BY DEF Emplace, Holders, worker
  <2> QED BY <2>1, <1>1, <1>3, CountTypes DEF Copies
<1>5. Copies(c) = IF c \in ElementsOf(accepted) THEN 1 ELSE 0
  BY DEF ExactlyOnce
<1> QED BY <1>1, <1>2, <1>4, <1>5

\* A task goes from the front of the queue into the hands of the worker.
LEMMA PopCount == ASSUME IInv, ExactlyOnce, NEW w \in Workers, WorkerPop(w) PROVE ExactlyOnce'
<1> SUFFICES ASSUME NEW c \in Calls
             PROVE  Copies(c)' = IF c \in ElementsOf(accepted') THEN 1 ELSE 0
  BY DEF ExactlyOnce
<1>1. TypeOK /\ task[w] = NoOne
  BY DEF IInv, InHand, WorkerPop, MoveWorker
<1>2. Head(tasks) \in Calls
  BY <1>1, TailElements DEF WorkerPop, TypeOK
<1>3. Cardinality(Places(tasks, c)) =
         Cardinality(Places(tasks', c)) + (IF Head(tasks) = c THEN 1 ELSE 0)
  BY <1>1, TailPlaces DEF WorkerPop, TypeOK
<1>4. Cardinality(Holders(c)') = Cardinality(Holders(c)) + (IF Head(tasks) = c THEN 1 ELSE 0)
  BY <1>1, <1>2, HolderMore DEF WorkerPop
<1>5. Cardinality(Places(tasks', c)) \in Nat
  BY <1>1, TailElements, PlacesFinite DEF WorkerPop, TypeOK
<1>6. executed' = executed /\ discarded' = discarded /\ accepted' = accepted
  BY DEF WorkerPop, history
<1>7. Copies(c)' = Copies(c)
  BY <1>1, <1>3, <1>4, <1>5, <1>6, CountTypes DEF Copies
<1> QED BY <1>6, <1>7 DEF ExactlyOnce

\* A task goes from the hands of the worker to those that were run.
LEMMA RunCount == ASSUME IInv, ExactlyOnce, NEW w \in Workers, WorkerRun(w) PROVE ExactlyOnce'
<1> SUFFICES ASSUME NEW c \in Calls
             PROVE  Copies(c)' = IF c \in ElementsOf(accepted') THEN 1 ELSE 0
  BY DEF ExactlyOnce
<1>1. TypeOK /\ task[w] \in Calls
  BY DEF IInv, InHand, TypeOK, WorkerRun, MoveWorker
<1>2. Cardinality(Places(executed', c)) =
         Cardinality(Places(executed, c)) + (IF task[w] = c THEN 1 ELSE 0)
  BY <1>1, AppendPlaces DEF WorkerRun, TypeOK
<1>3. Cardinality(Holders(c)) = Cardinality(Holders(c)') + (IF task[w] = c THEN 1 ELSE 0)
  BY <1>1, HolderLess DEF WorkerRun
<1>4. Cardinality(Holders(c)') \in Nat
  <2>1. IsFiniteSet(Holders(c)')
    BY PoolAssumption, FS_Subset DEF Holders
  <2> QED BY <2>1, FS_CardinalityType
<1>5. tasks' = tasks /\ discarded' = discarded /\ accepted' = accepted
  BY DEF WorkerRun
<1>6. Copies(c)' = Copies(c)
  BY <1>1, <1>2, <1>3, <1>4, <1>5, CountTypes DEF Copies
<1> QED BY <1>5, <1>6 DEF ExactlyOnce

\* What is left in the queue goes to those that Stop threw away, and was not there.
LEMMA ClearCount == ASSUME IInv, ExactlyOnce, ClearTasks PROVE ExactlyOnce'
<1> SUFFICES ASSUME NEW c \in Calls
             PROVE  Copies(c)' = IF c \in ElementsOf(accepted') THEN 1 ELSE 0
  BY DEF ExactlyOnce
<1>1. TypeOK
  BY DEF IInv
<1>2. /\ tasks' = <<>> /\ discarded' = discarded \union ElementsOf(tasks)
      /\ executed' = executed /\ accepted' = accepted /\ Holders(c)' = Holders(c)
  BY DEF ClearTasks, Holders, worker
<1>3. Cardinality(Places(tasks', c)) = 0
  <2>1. Places(tasks', c) = {}
    BY <1>2 DEF Places
  <2> QED BY <2>1, FS_EmptySet
<1>4. Copies(c) \in {0, 1}
  BY DEF ExactlyOnce
<1>5. Cardinality(Places(tasks, c)) = 0 <=> c \notin ElementsOf(tasks)
  BY <1>1, NoPlaces DEF TypeOK
<1>6. Copies(c)' = Copies(c)
  BY <1>1, <1>2, <1>3, <1>4, <1>5, CountTypes DEF Copies
<1> QED BY <1>2, <1>6 DEF ExactlyOnce

\* At first there are no tasks.
LEMMA InitCount == Init => ExactlyOnce
<1> SUFFICES ASSUME Init, NEW c \in Calls
             PROVE  Copies(c) = IF c \in ElementsOf(accepted) THEN 1 ELSE 0
  BY DEF ExactlyOnce
<1>1. Places(tasks, c) = {} /\ Places(executed, c) = {} /\ ElementsOf(accepted) = {}
  BY DEF Init, Places, ElementsOf
<1>2. Holders(c) = {} /\ c \notin discarded
  BY PoolAssumption DEF Init, Holders, Threads
<1> QED BY <1>1, <1>2, FS_EmptySet DEF Copies

\* Only enqueueing, taking, running and clearing move tasks.
LEMMA CountStep == IInv /\ ExactlyOnce /\ [Next]_vars => ExactlyOnce'
<1> SUFFICES ASSUME IInv, ExactlyOnce, [Next]_vars PROVE ExactlyOnce'
  OBVIOUS
<1> USE DEF history, worker
<1>1. ASSUME NEW w \in Workers, WorkerStep(w) \/ SpuriousWakeUp(w) PROVE ExactlyOnce'
  <2>1. CASE WorkerLock(w)  BY <2>1, CountSame DEF WorkerLock
  <2>2. CASE WorkerMustWait(w)  BY <2>2, CountSame DEF WorkerMustWait
  <2>3. CASE WorkerBlock(w)  BY <2>3, CountSame DEF WorkerBlock
  <2>4. CASE WorkerExit(w)  BY <2>4, CountSame DEF WorkerExit
  <2>5. CASE WorkerPop(w)  BY <2>5, PopCount
  <2>6. CASE WorkerRun(w)  BY <2>6, RunCount
  <2>7. CASE SpuriousWakeUp(w)  BY <2>7, CountSame DEF SpuriousWakeUp
  <2> QED BY <1>1, <2>1, <2>2, <2>3, <2>4, <2>5, <2>6, <2>7 DEF WorkerStep
<1>2. ASSUME NEW c \in Calls, CallBegin(c) \/ CallStep(c) PROVE ExactlyOnce'
  <2>1. CASE CallBegin(c)  BY <2>1, CountSame DEF CallBegin
  <2>2. CASE LoadShutdown(c)  BY <2>2, CountSame DEF LoadShutdown
  <2>3. CASE LoadAvailable(c)  BY <2>3, CountSame DEF LoadAvailable
  <2>4. CASE CallLock(c)  BY <2>4, CountSame DEF CallLock
  <2>5. CASE RecheckShutdown(c)  BY <2>5, CountSame DEF RecheckShutdown
  <2>6. CASE RecheckAvailable(c)  BY <2>6, CountSame DEF RecheckAvailable
  <2>7. CASE Emplace(c)  BY <2>7, EmplaceCount
  <2>8. CASE NotifyOne(c)  BY <2>8, CountSame DEF NotifyOne
  <2> QED BY <1>2, <2>1, <2>2, <2>3, <2>4, <2>5, <2>6, <2>7, <2>8 DEF CallStep
<1>3. CASE Start \/ StartOrStopReturns \/ Stop \/ OwnerStep
  <2>1. CASE Start  BY <2>1, CountSame DEF Start
  <2>2. CASE StartOrStopReturns  BY <2>2, CountSame DEF StartOrStopReturns
  <2>3. CASE Stop  BY <2>3, CountSame DEF Stop
  <2>4. CASE StoreShutdown  BY <2>4, CountSame DEF StoreShutdown
  <2>5. CASE NotifyAll  BY <2>5, CountSame DEF NotifyAll
  <2>6. CASE ClearThreads  BY <2>6, CountSame DEF ClearThreads
  <2>7. CASE ClearTasks  BY <2>7, ClearCount
  <2>8. ASSUME NEW w \in Workers, AddThread(w) PROVE ExactlyOnce'
    BY <2>8, CountSame DEF AddThread
  <2>9. ASSUME NEW w \in Workers, Join(w) PROVE ExactlyOnce'
    BY <2>9, CountSame DEF Join
  <2> QED BY <1>3, <2>1, <2>2, <2>3, <2>4, <2>5, <2>6, <2>7, <2>8, <2>9 DEF OwnerStep
<1>4. CASE UNCHANGED vars
  BY <1>4, CountSame DEF vars
<1> QED BY <1>1, <1>2, <1>3, <1>4 DEF Next

\* An enqueued task is in one place and in one only: none is lost between queue,
\* workers and Stop, and none is run twice.
THEOREM EachTaskOnce == Spec => []ExactlyOnce
<1>1. Init => ExactlyOnce
  BY InitCount
<1>2. IInv /\ ExactlyOnce /\ [Next]_vars => ExactlyOnce'
  BY CountStep
<1> QED BY <1>1, <1>2, Invariance, PTL DEF Spec
=============================================================================
