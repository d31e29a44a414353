---------------------------- MODULE ExecutorProofs ----------------------------
(***************************************************************************)
(* Proofs about Executor, for any number of clients, whatever tags they    *)
(* ask for, and any range of the index.                                    *)
(***************************************************************************)
EXTENDS Executor, TLAPS

\* The next index is a tag.
LEMMA NextIndex ==
    ASSUME NEW i \in Tags
    PROVE  (i + 1) % Wrap \in Tags
<1>1. Wrap \in Nat /\ Wrap > 0
  BY ExecutorAssumption
<1>2. i + 1 \in Nat
  BY <1>1 DEF Tags
<1>3. (i + 1) % Wrap \in Nat /\ (i + 1) % Wrap < Wrap
  BY <1>1, <1>2
<1> QED BY <1>1, <1>3 DEF Tags

LEMMA InitInvariant == Init => IInv
<1> SUFFICES ASSUME Init PROVE IInv
  OBVIOUS
<1>1. Wrap \in Nat /\ Wrap > 0 /\ Wanted \in [Clients -> Tags] /\ MaxPosts \in Nat
  BY ExecutorAssumption DEF Tags
<1>2. 0 \in Tags /\ 0 \in 0..MaxPosts
  BY <1>1 DEF Tags
<1>3. TypeOK
  BY <1>1, <1>2 DEF Init, TypeOK
<1>4. LockHeld /\ AsWanted /\ OwnRunner
  BY DEF Init, LockHeld, AsWanted, OwnRunner
<1> QED BY <1>3, <1>4 DEF IInv

\* A step of client c that moves only c, and touches neither the dictionary nor
\* the mutex nor a tag.
LEMMA MoveOnly ==
    ASSUME IInv, NEW c \in Clients, NEW from, NEW to, Move(c, from, to),
           UNCHANGED <<dict, mutex, index, latest_tag>>,
           posts' \in [Clients -> 0..MaxPosts],
           to \in {"lock", "emplace", "ready", "get", "null"},
           to = "lock" => from = "new",
           to = "emplace" => from = "find" /\ dict[Wanted[c]] = NoOne,
           to \in {"ready", "get", "null"} => from \in {"ready", "get"}
    PROVE  IInv'
<1> USE DEF IInv, Move
<1>1. pc' = [pc EXCEPT ![c] = to] /\ pc[c] = from
  OBVIOUS
<1>2. TypeOK'
  BY <1>1 DEF TypeOK
<1>3. \A d \in Clients : pc'[d] = IF d = c THEN to ELSE pc[d]
  BY <1>1 DEF TypeOK
<1>4. LockHeld'
  BY <1>1, <1>3 DEF LockHeld
<1>5. AsWanted'
  BY <1>1, <1>3 DEF AsWanted
<1>6. OwnRunner'
  BY <1>1, <1>3 DEF OwnRunner
<1> QED BY <1>2, <1>4, <1>5, <1>6

LEMMA AddLockStep ==
    ASSUME IInv, NEW c \in Clients, AddLock(c)
    PROVE  IInv'
<1> USE DEF IInv
<1>1. /\ pc[c] = "lock" /\ pc' = [pc EXCEPT ![c] = "find"]
      /\ mutex = NoOne /\ mutex' = c
      /\ UNCHANGED <<dict, index, latest_tag, posts>>
  BY DEF AddLock, Move, Acquire
<1>2. \A d \in Clients : pc'[d] = IF d = c THEN "find" ELSE pc[d]
  BY <1>1 DEF TypeOK
<1>3. TypeOK'
  BY <1>1 DEF TypeOK
<1>4. LockHeld'
  BY <1>1, <1>2, ExecutorAssumption DEF LockHeld
<1>5. AsWanted'
  BY <1>1, <1>2 DEF AsWanted
<1>6. OwnRunner'
  BY <1>1, <1>2 DEF OwnRunner
<1> QED BY <1>3, <1>4, <1>5, <1>6

LEMMA NextRunnerTagStep ==
    ASSUME IInv, NEW c \in Clients, NextRunnerTag(c)
    PROVE  IInv'
<1> USE DEF IInv
<1>1. /\ pc[c] = "find" /\ dict[Wanted[c]] # NoOne
      /\ index' = (index + 1) % Wrap
      /\ latest_tag' = [latest_tag EXCEPT ![c] = index']
      /\ UNCHANGED <<dict, mutex, pc, posts>>
  BY DEF NextRunnerTag, NextTag
<1>2. index' \in Tags
  BY <1>1, NextIndex DEF TypeOK
<1>3. TypeOK'
  BY <1>1, <1>2 DEF TypeOK
<1>4. \A d \in Clients \ {c} : latest_tag'[d] = latest_tag[d]
  BY <1>1 DEF TypeOK
<1>5. LockHeld'
  BY <1>1 DEF LockHeld
<1>6. AsWanted'
  BY <1>1, <1>4 DEF AsWanted
<1>7. OwnRunner'
  BY <1>1, <1>4 DEF OwnRunner
<1> QED BY <1>3, <1>5, <1>6, <1>7

\* The runner is entered under a tag that is free, and nobody else is at it.
LEMMA EmplaceStep ==
    ASSUME IInv, NEW c \in Clients, Emplace(c)
    PROVE  IInv'
<1> USE DEF IInv
<1> DEFINE t == latest_tag[c]
<1>1. /\ pc[c] = "emplace" /\ pc' = [pc EXCEPT ![c] = "ready"]
      /\ dict' = [dict EXCEPT ![t] = IF @ = NoOne THEN c ELSE @]
      /\ mutex' = NoOne
      /\ UNCHANGED <<index, latest_tag, posts>>
  BY DEF Emplace, Move
<1>2. t \in Tags /\ dict[t] = NoOne /\ mutex = c
  BY <1>1 DEF TypeOK, AsWanted, LockHeld
<1>3. dict' = [dict EXCEPT ![t] = c]
  BY <1>1, <1>2 DEF TypeOK
<1> HIDE DEF t
<1>4. \A d \in Clients : pc'[d] = IF d = c THEN "ready" ELSE pc[d]
  BY <1>1 DEF TypeOK
<1>5. \A u \in Tags : dict'[u] = IF u = t THEN c ELSE dict[u]
  BY <1>2, <1>3 DEF TypeOK
<1>6. TypeOK'
  <2>1. dict' \in [Tags -> Clients \union {NoOne}]
    BY <1>3 DEF TypeOK
  <2>2. pc' \in [Clients -> {"new", "lock", "find", "emplace", "ready", "get", "null"}]
    BY <1>1 DEF TypeOK
  <2>3. UNCHANGED <<index, latest_tag, posts>> /\ mutex' = NoOne
    BY <1>1
  <2> QED BY <2>1, <2>2, <2>3 DEF TypeOK
<1>7. \A d \in Clients \ {c} : pc[d] \notin {"find", "emplace"}
  BY <1>2 DEF LockHeld
<1>8. LockHeld'
  BY <1>1, <1>4, <1>7 DEF LockHeld
<1>9. AsWanted'
  BY <1>1, <1>4, <1>7 DEF AsWanted
<1>10. OwnRunner'
  <2> SUFFICES ASSUME NEW d \in Clients, pc'[d] \in {"ready", "get", "null"}
               PROVE  dict'[latest_tag[d]] = d
    BY <1>1 DEF OwnRunner
  <2>1. latest_tag[d] \in Tags
    BY DEF TypeOK
  <2>2. CASE d = c
    BY <2>2, <1>2, <1>5 DEF t
  <2>3. CASE d # c
    <3>1. dict[latest_tag[d]] = d
      BY <2>3, <1>4 DEF OwnRunner
    <3>2. latest_tag[d] # t
      BY <3>1, <1>2, ExecutorAssumption
    <3> QED BY <3>1, <3>2, <2>1, <1>5
  <2> QED BY <2>2, <2>3
<1> QED BY <1>6, <1>8, <1>9, <1>10

-----------------------------------------------------------------------------

\* The inductive invariant: whoever asks for which tag, in whatever order.
THEOREM Invariance == Spec => []IInv
<1>1. Init => IInv
  BY InitInvariant
<1>2. IInv /\ [Next]_vars => IInv'
  <2> SUFFICES ASSUME IInv, [Next]_vars PROVE IInv'
    OBVIOUS
  <2>1. ASSUME NEW c \in Clients, AddTaskRunner(c) PROVE IInv'
    <3>1. posts' \in [Clients -> 0..MaxPosts]
      BY <2>1 DEF AddTaskRunner, IInv, TypeOK
    <3> QED BY <2>1, <3>1, MoveOnly DEF AddTaskRunner
  <2>2. ASSUME NEW c \in Clients, PostTask(c) PROVE IInv'
    <3>1. posts' \in [Clients -> 0..MaxPosts]
      BY <2>2, ExecutorAssumption DEF PostTask, IInv, TypeOK
    <3> QED BY <2>2, <3>1, MoveOnly DEF PostTask
  <2>3. ASSUME NEW c \in Clients, AddLock(c) PROVE IInv'
    BY <2>3, AddLockStep
  <2>4. ASSUME NEW c \in Clients, NextRunnerTag(c) PROVE IInv'
    BY <2>4, NextRunnerTagStep
  <2>5. ASSUME NEW c \in Clients, TagIsFree(c) PROVE IInv'
    <3>1. posts' \in [Clients -> 0..MaxPosts]
      BY <2>5 DEF TagIsFree, IInv, TypeOK
    <3> QED BY <2>5, <3>1, MoveOnly DEF TagIsFree
  <2>6. ASSUME NEW c \in Clients, Emplace(c) PROVE IInv'
    BY <2>6, EmplaceStep
  <2>7. ASSUME NEW c \in Clients, GetTaskRunner(c) PROVE IInv'
    <3>1. posts' \in [Clients -> 0..MaxPosts]
      BY <2>7 DEF GetTaskRunner, IInv, TypeOK
    <3> QED BY <2>7, <3>1, MoveOnly DEF GetTaskRunner
  <2>8. CASE UNCHANGED vars
    BY <2>8 DEF vars, IInv, TypeOK, LockHeld, AsWanted, OwnRunner
  <2> QED BY <2>1, <2>2, <2>3, <2>4, <2>5, <2>6, <2>7, <2>8 DEF Next, Step
<1> QED BY <1>1, <1>2, PTL DEF Spec

\* A client that has a tag has a runner of its own under it.
THEOREM RunnersAreOwn == Spec => []OwnRunner
<1>1. IInv => OwnRunner
  BY DEF IInv
<1> QED BY <1>1, Invariance, PTL
=============================================================================
