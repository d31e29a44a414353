------------------------------ MODULE TaskQueue ------------------------------
(***************************************************************************)
(* What a pool of threads promises to those who give it tasks: an accepted *)
(* task is begun in the order of acceptance, by one of the slots, and run  *)
(* once; the queue may be given up when the pool closes, but then only     *)
(* tasks in Droppable may still be in it.  Nothing is said of how threads  *)
(* wait, nor of when the pool closes.                                      *)
(***************************************************************************)
EXTENDS Naturals, Sequences

CONSTANTS
    Tasks,          \* every task ever offered
    Droppable,      \* the tasks whose loss is tolerated
    Slots,          \* the threads that run tasks
    Idle            \* what an idle slot runs

VARIABLES
    queue,          \* accepted, not begun
    slot,           \* the task each slot runs
    accepted,       \* in the order they were accepted
    done,           \* in the order they ended
    dropped         \* given up

qvars == <<queue, slot, accepted, done, dropped>>

Members(s) == {s[i] : i \in DOMAIN s}

QInit ==
    /\ queue = <<>>
    /\ slot = [s \in Slots |-> Idle]
    /\ accepted = <<>>
    /\ done = <<>>
    /\ dropped = {}

Accept(t) ==
    /\ t \notin Members(accepted)
    /\ queue' = Append(queue, t)
    /\ accepted' = Append(accepted, t)
    /\ UNCHANGED <<slot, done, dropped>>

Begin(s) ==
    /\ slot[s] = Idle
    /\ queue # <<>>
    /\ slot' = [slot EXCEPT ![s] = Head(queue)]
    /\ queue' = Tail(queue)
    /\ UNCHANGED <<accepted, done, dropped>>

End(s) ==
    /\ slot[s] # Idle
    /\ done' = Append(done, slot[s])
    /\ slot' = [slot EXCEPT ![s] = Idle]
    /\ UNCHANGED <<queue, accepted, dropped>>

GiveUp ==
    /\ Members(queue) \subseteq Droppable
    /\ \A s \in Slots : slot[s] = Idle
    /\ queue' = <<>>
    /\ dropped' = dropped \union Members(queue)
    /\ UNCHANGED <<slot, accepted, done>>

QNext ==
    \/ \E t \in Tasks : Accept(t)
    \/ \E s \in Slots : Begin(s) \/ End(s)
    \/ GiveUp

QSpec == QInit /\ [][QNext]_qvars
=============================================================================
