------------------------------- MODULE Executor -------------------------------
(***************************************************************************)
(* logger::ctx::Executor::ExecutorContext (mylogger/context/executor.cpp): *)
(* the dictionary of runners, pools of one thread that AddTaskRunner makes *)
(* and PostTask finds by their tags.                                       *)
(*                                                                         *)
(* The processes are clients, each of which asks for one runner and, once  *)
(* it has its tag, posts tasks to it.  What a runner does with a task is   *)
(* ThreadPool's matter.  A step is a mutex operation or, under the mutex,  *)
(* one turn of the loop that looks for a tag.                              *)
(***************************************************************************)
EXTENDS Naturals

CONSTANTS
    Clients,        \* threads that call AddTaskRunner and PostTask
    Wanted,         \* Wanted[c]: the tag client c asks for
    Wrap,           \* range of the uint64_t index of GetNextRunnerTag
    MaxPosts,       \* bound: calls of PostTask by each client
    NoOne           \* mutex_ is free

ASSUME ExecutorAssumption ==
    /\ Wrap \in Nat \ {0}
    /\ Wanted \in [Clients -> 0..(Wrap - 1)]
    /\ MaxPosts \in Nat
    /\ NoOne \notin Clients

VARIABLES
    dict,           \* task_runner_dict_: who made the runner of each tag, or NoOne
    mutex,          \* the client that holds mutex_, or NoOne
    index,          \* the static index of GetNextRunnerTag
    pc,             \* where each client is
    latest_tag,     \* latest_tag of each client, which AddTaskRunner returns
    posts           \* calls of PostTask by each client so far

vars == <<dict, mutex, index, pc, latest_tag, posts>>

Tags == 0..(Wrap - 1)

TypeOK ==
    /\ dict \in [Tags -> Clients \union {NoOne}]
    /\ mutex \in Clients \union {NoOne}
    /\ index \in Tags
    /\ pc \in [Clients -> {"new", "lock", "find", "emplace", "ready", "get", "null"}]
    /\ latest_tag \in [Clients -> Tags]
    /\ posts \in [Clients -> 0..MaxPosts]

Init ==
    /\ dict = [t \in Tags |-> NoOne]
    /\ mutex = NoOne
    /\ index = 0
    /\ pc = [c \in Clients |-> "new"]
    /\ latest_tag = Wanted
    /\ posts = [c \in Clients |-> 0]

Move(c, from, to) == pc[c] = from /\ pc' = [pc EXCEPT ![c] = to]
Acquire(c) == mutex = NoOne /\ mutex' = c

-----------------------------------------------------------------------------

AddTaskRunner(c) ==
    /\ Move(c, "new", "lock")
    /\ UNCHANGED <<dict, mutex, index, latest_tag, posts>>

\* Variant: AddTaskRunner does not lock.
AddUnlocked(c) ==
    /\ Move(c, "lock", "find")
    /\ UNCHANGED <<dict, mutex, index, latest_tag, posts>>

AddLock(c) ==
    /\ Move(c, "lock", "find")
    /\ Acquire(c)
    /\ UNCHANGED <<dict, index, latest_tag, posts>>

\* GetNextRunnerTag
NextTag == (index + 1) % Wrap

\* Variant: the tag that is drawn is taken as it is (an "if" for the "while").
DrawOnce(c) ==
    /\ dict[Wanted[c]] # NoOne
    /\ Move(c, "find", "emplace")
    /\ index' = NextTag
    /\ latest_tag' = [latest_tag EXCEPT ![c] = index']
    /\ UNCHANGED <<dict, mutex, posts>>

\* The loop looks for the tag that was asked for, not for the one it has drawn.
NextRunnerTag(c) ==
    /\ pc[c] = "find"
    /\ dict[Wanted[c]] # NoOne
    /\ index' = NextTag
    /\ latest_tag' = [latest_tag EXCEPT ![c] = index']
    /\ UNCHANGED <<dict, mutex, pc, posts>>

TagIsFree(c) ==
    /\ dict[Wanted[c]] = NoOne
    /\ Move(c, "find", "emplace")
    /\ UNCHANGED <<dict, mutex, index, latest_tag, posts>>

\* emplace leaves a runner that is there alone.
Emplace(c) ==
    /\ Move(c, "emplace", "ready")
    /\ dict' = [dict EXCEPT ![latest_tag[c]] = IF @ = NoOne THEN c ELSE @]
    /\ mutex' = NoOne
    /\ UNCHANGED <<index, latest_tag, posts>>

PostTask(c) ==
    /\ posts[c] < MaxPosts
    /\ Move(c, "ready", "get")
    /\ posts' = [posts EXCEPT ![c] = @ + 1]
    /\ UNCHANGED <<dict, mutex, index, latest_tag>>

\* GetTaskRunner, and SubmitTask on what it returns, which is not looked at.
GetTaskRunner(c) ==
    /\ Move(c, "get", IF dict[latest_tag[c]] = NoOne THEN "null" ELSE "ready")
    /\ mutex = NoOne
    /\ UNCHANGED <<dict, mutex, index, latest_tag, posts>>

Step(c) ==
    AddLock(c) \/ NextRunnerTag(c) \/ TagIsFree(c) \/ Emplace(c) \/ GetTaskRunner(c)

Next == \E c \in Clients : AddTaskRunner(c) \/ PostTask(c) \/ Step(c)
Spec == Init /\ [][Next]_vars

-----------------------------------------------------------------------------
(***************************************************************************)
(* Properties.                                                             *)
(***************************************************************************)

\* A client that has a tag has a runner of its own under it, which nobody
\* replaces: what it posts runs apart from what the others post.
OwnRunner == \A c \in Clients : pc[c] \in {"ready", "get", "null"} => dict[latest_tag[c]] = c

-----------------------------------------------------------------------------
(***************************************************************************)
(* The inductive invariant behind OwnRunner.                               *)
(***************************************************************************)

\* Who looks for a tag or enters a runner holds mutex_.
LockHeld == \A c \in Clients : pc[c] \in {"find", "emplace"} => mutex = c

\* A tag other than the one asked for is only drawn when that one is taken; as it
\* stays so, nobody leaves the loop with a tag that was drawn.
AsWanted ==
    \A c \in Clients :
        /\ pc[c] \in {"new", "lock"} => latest_tag[c] = Wanted[c]
        /\ pc[c] = "find" => latest_tag[c] = Wanted[c] \/ dict[Wanted[c]] # NoOne
        /\ pc[c] = "emplace" => dict[latest_tag[c]] = NoOne

IInv == TypeOK /\ LockHeld /\ AsWanted /\ OwnRunner
=============================================================================
