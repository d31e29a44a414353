---------------------------- MODULE EffectiveSink ----------------------------
(***************************************************************************)
(* logger::EffectiveSink (mylogger/sinks/effective_sink.{h,cpp}): log      *)
(* items go, encrypted, into the master cache, a file mapped into memory;  *)
(* when it is full the two caches change roles and a task on the sink's    *)
(* runner appends the content of the slave cache, as one chunk, to a log   *)
(* file.                                                                   *)
(*                                                                         *)
(* The processes are the client threads, which call Log and Flush, the     *)
(* thread that constructs the sink (Main), and the runner: a pool of one   *)
(* thread, used here as the queue that TaskQueue specifies.  Cache files   *)
(* are mapped shared, so they outlive a crash of the process; a new sink   *)
(* opens them by name, which is another process: the tag of the runner can *)
(* be had once only.                                                       *)
(*                                                                         *)
(* A step is one access to what threads share without a lock: a load or a  *)
(* store of is_slave_free_, one use of master_cache_ or slave_cache_, a    *)
(* Push, a task posted.  An item is two pieces, its LogItemHeader and its  *)
(* body, for Log pushes them one after the other.  Headers have one size,  *)
(* bodies any: so many bytes of one cache may end within a piece of the    *)
(* other.  Which log file comes next and the removal of old ones are left  *)
(* to LogFiles: here a file with SingleFile chunks may be over its size,   *)
(* the next may be any, and the timer only posts the task that removes.    *)
(***************************************************************************)
EXTENDS Naturals, Sequences, FiniteSets

CONSTANTS
    Clients,        \* the threads that call Log and Flush
    Main,           \* the thread that constructs the sink
    Full,           \* pieces in a cache from which GetRatio() > 0.8
    LogNames,       \* the names of log files
    SingleFile,     \* chunks in a log file from which it may be over its size
    MaxFaults,      \* bound: times that the log file cannot be opened or written
    MaxLogs,        \* bound: calls of Log
    MaxFlushes,     \* bound: calls of Flush
    MaxSessions     \* bound: constructions of the sink, all but one after a crash

Threads == Clients \union {Main}

ASSUME SinkAssumption ==
    /\ Main \notin Clients
    /\ {"write", "eliminate"} \intersect Threads = {}
    /\ "none" \notin LogNames
    /\ Full \in Nat \ {0}
    /\ SingleFile \in Nat /\ MaxFaults \in Nat
    /\ MaxLogs \in Nat /\ MaxFlushes \in Nat /\ MaxSessions \in Nat

VARIABLES
    session,        \* which construction of the sink is running: its key pair
    master,         \* the file master_cache_ maps; slave_cache_ maps the other
    cache,          \* the pieces each cache file holds
    is_slave_free,  \* is_slave_free_
    mutex,          \* the thread that holds mutex_, or {}
    queue,          \* tasks of the runner: "write" (CacheToFile_) or the thread
                    \* that waits for the runner to get there
                    \* or "eliminate" (ElimateFiles_)
    pc, op,         \* where each thread is, and in which function if not in Log
    item,           \* the item each client logs, or 0
    rpc,            \* where the runner is in CacheToFile_
    loaded,         \* the cache CacheToFile_ got when it last used slave_cache_
    rsize,          \* Log_chunk_header.size
    measured,       \* the cache that rsize is the size of
    log_file_path,  \* log_file_path_
    faults,         \* times that the log file could not be opened or written
    disk,           \* the chunks in each log file, in the order of writing
    logged,         \* calls of Log so far; also names the items
    flushes,        \* calls of Flush so far
    damaged,        \* the items whose compressed frame cannot be read
    pushed,         \* history: the items in the caches, in the order of pushing
    due,            \* history: what was pushed when each client called Flush
    switched        \* history: have the caches changed roles since CacheToFile_
                    \* got the cache whose size it reads?

thread  == <<pc, op>>
locals  == <<loaded, rsize, measured, switched>>
files   == <<log_file_path, faults, disk>>
runner  == <<rpc, locals, files>>
clients == <<item, damaged, logged, flushes, pushed, due>>
vars == <<session, master, cache, is_slave_free, mutex, queue, pc, op, item, rpc,
          loaded, rsize, measured, log_file_path, faults, disk, damaged, logged,
          flushes, pushed, due, switched>>

Files == {"master_cache", "slave_cache"}
Other(f) == CHOOSE g \in Files : g # f
slave == Other(master)

Piece == [item : 0..MaxLogs, part : {"head", "body", "rest"}, key : 1..MaxSessions]
Chunk == [size : Nat, key : 1..MaxSessions, data : Seq(Piece)]

Tasks == {"write", "eliminate"} \union Threads
ThreadStates ==
    {"idle", "down", "leftover_slave", "leftover_master", "up",
     "look", "reset", "lock", "compress", "head", "body", "ratio",
     "post1", "mark1", "wait1", "check", "claim", "switch", "post2", "mark2", "wait2",
     "flushed", "mark3", "wait3", "gone"}
RunnerStates == {"idle", "free?", "load1", "empty?", "load2", "size", "open", "load3",
                 "write", "clear", "release"}

\* Between the first of what goes into a chunk and the last.
Writing == {"size", "open", "load3", "write"}

TypeOK ==
    /\ session \in 0..MaxSessions
    /\ master \in Files
    /\ cache \in [Files -> Seq(Piece)]
    /\ is_slave_free \in BOOLEAN
    /\ mutex \in {{}} \union {{t} : t \in Threads}
    /\ queue \in Seq(Tasks)
    /\ pc \in [Threads -> ThreadStates]
    /\ op \in [Threads -> {"none", "ctor", "flush", "dtor"}]
    /\ item \in [Clients -> 0..MaxLogs]
    /\ rpc \in RunnerStates
    /\ loaded \in Files \union {"none"}
    /\ rsize \in Nat
    /\ measured \in Files \union {"none"}
    /\ log_file_path \in LogNames \union {"none"}
    /\ faults \in 0..MaxFaults
    /\ disk \in [LogNames -> Seq(Chunk)]
    /\ damaged \subseteq 1..MaxLogs
    /\ logged \in 0..MaxLogs
    /\ flushes \in 0..MaxFlushes
    /\ pushed \in Seq(1..MaxLogs)
    /\ due \in [Clients -> SUBSET (1..MaxLogs)]
    /\ switched \in BOOLEAN

Init ==
    /\ session = 0
    /\ master = "master_cache"
    /\ cache = [f \in Files |-> <<>>]
    /\ is_slave_free = TRUE
    /\ mutex = {}
    /\ queue = <<>>
    /\ pc = [t \in Threads |-> IF t = Main THEN "down" ELSE "idle"]
    /\ op = [t \in Threads |-> "none"]
    /\ item = [c \in Clients |-> 0]
    /\ rpc = "idle"
    /\ loaded = "none"
    /\ rsize = 0
    /\ measured = "none"
    /\ log_file_path = "none"
    /\ faults = 0
    /\ disk = [f \in LogNames |-> <<>>]
    /\ damaged = {}
    /\ logged = 0
    /\ flushes = 0
    /\ pushed = <<>>
    /\ due = [c \in Clients |-> {}]
    /\ switched = FALSE

ItemsIn(s) == {s[i].item : i \in {j \in DOMAIN s : s[j].part = "body"}}
OnDisk == UNION {UNION {ItemsIn(disk[f][k].data) : k \in DOMAIN disk[f]} : f \in LogNames}
PushedSet == {pushed[i] : i \in DOMAIN pushed}

Move(t, from, to) == pc[t] = from /\ pc' = [pc EXCEPT ![t] = to]
Call(c, to) == pc[Main] = "up" /\ Move(c, "idle", to)
Submit(task) == queue' = Append(queue, task)

\* MMapAux::Empty, called with and without mutex_.
Empty(f) == cache[f] = <<>>

-----------------------------------------------------------------------------
(***************************************************************************)
(* The constructor, from the point where the caches are mapped.            *)
(***************************************************************************)

Construct ==
    /\ session < MaxSessions
    /\ Move(Main, "down", "leftover_slave")
    /\ op' = [op EXCEPT ![Main] = "ctor"]
    /\ session' = session + 1
    /\ UNCHANGED <<master, cache, is_slave_free, mutex, queue, runner, clients>>

LeftoverInSlave ==
    /\ Move(Main, "leftover_slave", IF Empty(slave) THEN "leftover_master" ELSE "post1")
    /\ is_slave_free' = TRUE
    /\ UNCHANGED <<session, master, cache, mutex, queue, op, runner, clients>>

LeftoverInMaster ==
    /\ Move(Main, "leftover_master", IF Empty(master) THEN "up" ELSE "check")
    /\ UNCHANGED <<session, master, cache, is_slave_free, mutex, queue, op, runner, clients>>

-----------------------------------------------------------------------------
(***************************************************************************)
(* Log.                                                                    *)
(***************************************************************************)

Log(c) ==
    /\ logged < MaxLogs
    /\ Call(c, "look")
    /\ logged' = logged + 1
    /\ item' = [item EXCEPT ![c] = logged + 1]
    /\ UNCHANGED <<session, master, cache, is_slave_free, mutex, queue, op, runner,
                   damaged, flushes, pushed, due>>

\* master_cache_->Empty(), without the lock.
LookAtMaster(c) ==
    /\ Move(c, "look", IF Empty(master) THEN "reset" ELSE "lock")
    /\ UNCHANGED <<session, master, cache, is_slave_free, mutex, queue, op, runner, clients>>

\* The thread leaves ResetStream; it has been in it while it was at "reset".
ResetStream(c) ==
    /\ Move(c, "reset", "lock")
    /\ UNCHANGED <<session, master, cache, is_slave_free, mutex, queue, op, runner, clients>>

\* Variant: mutex_ is not taken.
LogUnlocked(c) ==
    /\ Move(c, "lock", "compress")
    /\ UNCHANGED <<session, master, cache, is_slave_free, mutex, queue, op, runner, clients>>

\* Variant: mutex_ is shared by those that log.
LogShared(c) ==
    /\ Move(c, "lock", "compress")
    /\ mutex' = mutex \union {c}
    /\ UNCHANGED <<session, master, cache, is_slave_free, queue, op, runner, clients>>

LogLock(c) ==
    /\ Move(c, "lock", "compress")
    /\ mutex = {}
    /\ mutex' = {c}
    /\ UNCHANGED <<session, master, cache, is_slave_free, queue, op, runner, clients>>

\* A thread that is in ResetStream meanwhile works on the same context, and the
\* frame may be damaged.
Compress(c) ==
    /\ Move(c, "compress", "head")
    /\ \/ UNCHANGED damaged
       \/ /\ \E d \in Clients : pc[d] = "reset"
          /\ damaged' = damaged \union {item[c]}
    /\ UNCHANGED <<session, master, cache, is_slave_free, mutex, queue, op, runner,
                   item, logged, flushes, pushed, due>>

\* Variant: an early return keeps mutex_.
RejectedLocked(c) ==
    /\ Move(c, "head", "idle")
    /\ item' = [item EXCEPT ![c] = 0]
    /\ UNCHANGED <<session, master, cache, is_slave_free, mutex, queue, op, runner, damaged,
                   logged, flushes, pushed, due>>

\* Compression or encryption gives nothing, or encryption throws: the item is
\* dropped.
Rejected(c) ==
    /\ Move(c, "head", "idle")
    /\ mutex' = {}
    /\ item' = [item EXCEPT ![c] = 0]
    /\ UNCHANGED <<session, master, cache, is_slave_free, queue, op, runner, damaged,
                   logged, flushes, pushed, due>>

Push(c, part) ==
    cache' = [cache EXCEPT ![master] =
                 Append(@, [item |-> item[c], part |-> part, key |-> session])]

PushHeader(c) ==
    /\ Move(c, "head", "body")
    /\ Push(c, "head")
    /\ UNCHANGED <<session, master, is_slave_free, mutex, queue, op, runner, clients>>

PushBody(c) ==
    /\ Move(c, "body", "ratio")
    /\ Push(c, "body")
    /\ mutex' = {}
    /\ pushed' = Append(pushed, item[c])
    /\ item' = [item EXCEPT ![c] = 0]
    /\ UNCHANGED <<session, master, is_slave_free, queue, op, runner, damaged, logged,
                   flushes, due>>

\* How much of a cache is used.  Nothing takes a lock here.
GetRatio(f) == Len(cache[f])

NeedCacheToFile(c) ==
    /\ Move(c, "ratio", IF GetRatio(master) >= Full THEN "check" ELSE "idle")
    /\ UNCHANGED <<session, master, cache, is_slave_free, mutex, queue, op, runner, clients>>

-----------------------------------------------------------------------------
(***************************************************************************)
(* What Log, Flush and the constructor share: test is_slave_free_, clear   *)
(* it, switch, post.  Nothing makes these one step.                        *)
(***************************************************************************)

CheckSlaveFree(t) ==
    /\ Move(t, "check", IF is_slave_free THEN "claim" ELSE "post2")
    /\ UNCHANGED <<session, master, cache, is_slave_free, mutex, queue, op, runner, clients>>

ClaimSlave(t) ==
    /\ Move(t, "claim", "switch")
    /\ is_slave_free' = FALSE
    /\ UNCHANGED <<session, master, cache, mutex, queue, op, runner, clients>>

\* Variant: the caches are switched without mutex_.
SwitchUnlocked(t) ==
    /\ Move(t, "switch", "post2")
    /\ master' = slave
    /\ switched' = (rpc \in Writing)
    /\ UNCHANGED <<session, cache, is_slave_free, mutex, queue, op, rpc, loaded, rsize,
                   measured, files, clients>>

SwitchCache(t) ==
    /\ Move(t, "switch", "post2")
    /\ mutex = {}
    /\ master' = slave
    /\ switched' = (rpc \in Writing)
    /\ UNCHANGED <<session, cache, is_slave_free, mutex, queue, op, rpc, loaded, rsize,
                   measured, files, clients>>

\* PrepareFile_; Log and the constructor end with it.
PostWrite(t) ==
    /\ Move(t, "post2", CASE op[t] = "flush" -> "mark2"
                          [] op[t] = "ctor"  -> "up"
                          [] OTHER           -> "idle")
    /\ Submit("write")
    /\ UNCHANGED <<session, master, cache, is_slave_free, mutex, op, runner, clients>>

\* The PrepareFile_ with which Flush, and the constructor on a leftover, begin.
PostFirstWrite(t) ==
    /\ Move(t, "post1", "mark1")
    /\ Submit("write")
    /\ UNCHANGED <<session, master, cache, is_slave_free, mutex, op, runner, clients>>

\* WAIT_TASK_IDLE posts an empty task and waits until the runner has run it.
WaitTaskIdle(t) ==
    /\ \/ Move(t, "mark1", "wait1")
       \/ Move(t, "mark2", "wait2")
       \/ Move(t, "mark3", "wait3")
    /\ Submit(t)
    /\ UNCHANGED <<session, master, cache, is_slave_free, mutex, op, runner, clients>>

Flush(c) ==
    /\ flushes < MaxFlushes
    /\ Call(c, "post1")
    /\ op' = [op EXCEPT ![c] = "flush"]
    /\ flushes' = flushes + 1
    /\ due' = [due EXCEPT ![c] = PushedSet]
    /\ UNCHANGED <<session, master, cache, is_slave_free, mutex, queue, runner,
                   item, damaged, logged, pushed>>

FlushReturns(c) ==
    /\ Move(c, "flushed", "idle")
    /\ op' = [op EXCEPT ![c] = "none"]
    /\ due' = [due EXCEPT ![c] = {}]
    /\ UNCHANGED <<session, master, cache, is_slave_free, mutex, queue, runner,
                   item, damaged, logged, flushes, pushed>>

\* Variant: the destructor does not wait.
DestroyAtOnce ==
    /\ \A c \in Clients : pc[c] = "idle"
    /\ Move(Main, "up", "gone")
    /\ UNCHANGED <<session, master, cache, is_slave_free, mutex, queue, op, runner, clients>>

\* ~EffectiveSink, called when nobody uses the sink any more.
Destroy ==
    /\ \A c \in Clients : pc[c] = "idle"
    /\ Move(Main, "up", "mark3")
    /\ op' = [op EXCEPT ![Main] = "dtor"]
    /\ UNCHANGED <<session, master, cache, is_slave_free, mutex, queue, runner, clients>>

\* The repeated task that the constructor sets up is never cancelled.  Its turns
\* are left out until the destructor is called, for till then they only delay the
\* runner; bound: one of them waits at a time.
TimerPosts ==
    /\ pc[Main] \in {"mark3", "wait3", "gone"}
    /\ \A i \in DOMAIN queue : queue[i] # "eliminate"
    /\ Submit("eliminate")
    /\ UNCHANGED <<session, master, cache, is_slave_free, mutex, thread, runner, clients>>

-----------------------------------------------------------------------------
(***************************************************************************)
(* The runner.  CacheToFile_ takes no lock, and gets the cache from        *)
(* slave_cache_ anew for each use.                                         *)
(***************************************************************************)

MoveRunner(from, to) == rpc = from /\ rpc' = to
Forget == loaded' = "none" /\ rsize' = 0 /\ measured' = "none" /\ switched' = FALSE

NextTask ==
    /\ rpc = "idle"
    /\ queue # <<>>
    /\ queue' = Tail(queue)
    /\ \/ /\ Head(queue) = "write"
          /\ rpc' = "free?"
          /\ UNCHANGED pc
       \/ /\ Head(queue) = "eliminate"
          /\ UNCHANGED <<rpc, pc>>
       \/ \E t \in Threads :
          /\ Head(queue) = t
          /\ \/ Move(t, "wait1", IF op[t] = "ctor" THEN "leftover_master" ELSE "check")
             \/ Move(t, "wait2", "flushed")
             \/ Move(t, "wait3", "gone")
          /\ UNCHANGED rpc
    /\ UNCHANGED <<session, master, cache, is_slave_free, mutex, op, locals, files, clients>>

WriteCheckFree ==
    /\ MoveRunner("free?", IF is_slave_free THEN "idle" ELSE "load1")
    /\ UNCHANGED <<session, master, cache, is_slave_free, mutex, queue, thread, locals,
                   files, clients>>

\* What slave_cache_ points to, for Empty, for Size and for the write.
LoadSlave ==
    /\ \/ MoveRunner("load1", "empty?")
       \/ MoveRunner("load2", "size")
       \/ MoveRunner("load3", "write")
    /\ loaded' = slave
    /\ UNCHANGED <<session, master, cache, is_slave_free, mutex, queue, thread, rsize,
                   measured, switched, files, clients>>

\* Variant: an empty slave cache ends the task without being released.
EmptyNotReleased ==
    /\ MoveRunner("empty?", IF Empty(loaded) THEN "idle" ELSE "load2")
    /\ Forget
    /\ UNCHANGED <<session, master, cache, is_slave_free, mutex, queue, thread, files, clients>>

WriteCheckEmpty ==
    /\ MoveRunner("empty?", IF Empty(loaded) THEN "release" ELSE "load2")
    /\ Forget
    /\ UNCHANGED <<session, master, cache, is_slave_free, mutex, queue, thread, files, clients>>

\* The size is that of the cache loaded before, slave or not by now.
ReadSize ==
    /\ MoveRunner("size", "open")
    /\ rsize' = Len(cache[loaded])
    /\ measured' = loaded
    /\ UNCHANGED <<session, master, cache, is_slave_free, mutex, queue, thread, loaded,
                   switched, files, clients>>

\* GetFilePath_: a process begins with a file of its own choice, which a process
\* before it may have written too, and goes on to another when the size of the file
\* is over the limit; the name of which may have been used as well.
GetFilePath(f) ==
    \/ log_file_path \in {"none", f}
    \/ log_file_path \in LogNames /\ Len(disk[log_file_path]) >= SingleFile

Faulty == faults < MaxFaults /\ faults' = faults + 1

\* A file that cannot be opened ends the task; is_slave_free_ stays false.
OpenFile ==
    /\ \E f \in LogNames : GetFilePath(f) /\ log_file_path' = f
    /\ \/ MoveRunner("open", "load3") /\ UNCHANGED <<locals, faults>>
       \/ MoveRunner("open", "idle") /\ Forget /\ Faulty
    /\ UNCHANGED <<session, master, cache, is_slave_free, mutex, queue, thread, disk, clients>>

\* What rsize bytes of the cache loaded last may be.  Of the cache they are the size
\* of, the pieces that were counted; of the other, they may end within a piece or
\* behind all that was pushed.
Remnant == [item |-> 0, part |-> "rest", key |-> session]
Read ==
    LET c == cache[loaded]
        first(n) == SubSeq(c, 1, n)
    IN  IF loaded = measured THEN {first(rsize)}
        ELSE IF rsize = 0 THEN {<<>>}
        ELSE {first(n) : n \in 1..Len(c)}
             \union {Append(first(n), Remnant) : n \in {m \in 0..Len(c) : m > 0 \/ c = <<>>}}

\* The chunk, or what there is of it when the write is cut short; its size counts the
\* pieces that the bytes are, a piece written in part as none.
Torn ==
    UNION {{[size |-> Len(data), key |-> session, data |-> SubSeq(data, 1, n)] :
               n \in 0..Len(data)} : data \in Read}
WriteTo(f, chunk) == disk' = [disk EXCEPT ![f] = Append(@, chunk)]

\* The header's size counts, whatever the slave cache now is.  A write that fails is
\* only reported.
WriteChunk ==
    /\ MoveRunner("write", "clear")
    /\ \E chunk \in Torn :
          /\ IF Len(chunk.data) = chunk.size THEN UNCHANGED faults ELSE Faulty
          /\ WriteTo(log_file_path, chunk)
    /\ Forget
    /\ UNCHANGED <<session, master, cache, is_slave_free, mutex, queue, thread,
                   log_file_path, clients>>

\* Variant: the slave cache, whichever it now is, is emptied.
ClearEmpties ==
    /\ MoveRunner("clear", "release")
    /\ cache' = [cache EXCEPT ![slave] = <<>>]
    /\ UNCHANGED <<session, master, is_slave_free, mutex, queue, thread, locals, files, clients>>

\* MMapAux::Clear returns at once when the mapping is valid.
ClearSlave ==
    /\ MoveRunner("clear", "release")
    /\ UNCHANGED <<session, master, cache, is_slave_free, mutex, queue, thread, locals,
                   files, clients>>

ReleaseSlave ==
    /\ MoveRunner("release", "idle")
    /\ is_slave_free' = TRUE
    /\ UNCHANGED <<session, master, cache, mutex, queue, thread, locals, files, clients>>

-----------------------------------------------------------------------------

\* The process dies: what is left is the cache files and the log files, the last
\* chunk of which may be torn.
Crash ==
    /\ pc[Main] # "down"
    /\ master' = "master_cache"
    /\ is_slave_free' = TRUE
    /\ mutex' = {}
    /\ queue' = <<>>
    /\ pc' = [t \in Threads |-> IF t = Main THEN "down" ELSE "idle"]
    /\ op' = [t \in Threads |-> "none"]
    /\ item' = [c \in Clients |-> 0]
    /\ due' = [c \in Clients |-> {}]
    /\ rpc' = "idle"
    /\ Forget
    /\ log_file_path' = "none"
    /\ \/ UNCHANGED disk
       \/ /\ rpc = "write"
          /\ \E chunk \in Torn : WriteTo(log_file_path, chunk)
    /\ UNCHANGED <<session, cache, faults, damaged, logged, flushes, pushed>>

ThreadStep(t) ==
    \/ CheckSlaveFree(t) \/ ClaimSlave(t) \/ SwitchCache(t)
    \/ PostWrite(t) \/ PostFirstWrite(t) \/ WaitTaskIdle(t)
ClientStep(c) ==
    \/ LookAtMaster(c) \/ ResetStream(c) \/ LogLock(c) \/ Compress(c) \/ Rejected(c)
    \/ PushHeader(c) \/ PushBody(c) \/ NeedCacheToFile(c) \/ FlushReturns(c) \/ ThreadStep(c)
MainStep == LeftoverInSlave \/ LeftoverInMaster \/ ThreadStep(Main)
RunnerStep ==
    \/ NextTask \/ WriteCheckFree \/ LoadSlave \/ WriteCheckEmpty \/ ReadSize
    \/ OpenFile \/ WriteChunk \/ ClearSlave \/ ReleaseSlave

Next ==
    \/ Construct \/ MainStep \/ RunnerStep \/ Destroy \/ TimerPosts \/ Crash
    \/ \E c \in Clients : Log(c) \/ Flush(c) \/ ClientStep(c)

Spec == Init /\ [][Next]_vars

\* Every thread that can run is run; nobody is made to call, or to crash.
FairSpec ==
    /\ Spec
    /\ \A c \in Clients : WF_vars(ClientStep(c))
    /\ WF_vars(MainStep)
    /\ WF_vars(RunnerStep)

-----------------------------------------------------------------------------
(***************************************************************************)
(* Properties.                                                             *)
(***************************************************************************)

\* Clients never mix the pieces of their items: in both cache files a body
\* follows its own header, and a header its own body unless it is the last
\* piece or a crash came between the two.
CacheWellFormed ==
    \A f \in Files : \A i \in DOMAIN cache[f] :
        LET p == cache[f][i] IN
        IF p.part = "body"
        THEN i > 1 /\ cache[f][i - 1] = [p EXCEPT !.part = "head"]
        ELSE \/ i = Len(cache[f])
             \/ cache[f][i + 1] = [p EXCEPT !.part = "body"]
             \/ cache[f][i + 1].key > p.key

\* Whatever the switches, failed writes and crashes, an item that Log pushed is
\* in a cache file or in a log file.
NothingLost ==
    PushedSet \subseteq UNION {ItemsIn(cache[f]) : f \in Files} \union OnDisk

\* When the destructor returns no CacheToFile_ is under way or waiting, although it
\* waits on one marker only: all that can still reach the runner are turns of the
\* repeated task.  (These do, on a sink that is gone.)
QuietWhenGone ==
    pc[Main] = "gone" => rpc = "idle" /\ \A i \in DOMAIN queue : queue[i] = "eliminate"

\* Log pushed item a before item b.
Before(a, b) == \E k, l \in DOMAIN pushed : k < l /\ pushed[k] = a /\ pushed[l] = b

\* The first sink's clients, pushing and posting as they may while the runner reads
\* without a lock, never make it write part of an item: unless the write was cut
\* short, or the caches changed roles between the load of the cache whose size was
\* read and the write, the chunk is whole items, in the order in which Log pushed them.
ChunkInOrder ==
    [][\A f \in LogNames : disk'[f] # disk[f] /\ session = 1 /\ ~switched =>
          LET chunk == disk'[f][Len(disk'[f])]
              data == chunk.data
              items == 1..(chunk.size \div 2)
          IN  Len(data) = chunk.size =>
                 /\ chunk.size % 2 = 0
                 /\ \A i \in items :
                       /\ data[2 * i] = [item |-> data[2 * i].item, part |-> "body", key |-> 1]
                       /\ data[2 * i - 1] = [data[2 * i] EXCEPT !.part = "head"]
                 /\ \A i, j \in items : i < j => Before(data[2 * i].item, data[2 * j].item)]_vars

\* When Flush returns, what had been pushed when it was called is in a log file.
FlushComplete == \A c \in Clients : pc[c] = "flushed" => due[c] \subseteq OnDisk

\* is_slave_free_ does not stay false: each thread that clears it posts a task
\* that sets it again, unless the log file cannot be opened.
SlaveFreed == ~is_slave_free ~> is_slave_free

\* Log and Flush return, and so does the destructor: no thread waits for ever on
\* mutex_ or on the runner.
CallsReturn ==
    /\ \A c \in Clients : pc[c] # "idle" ~> pc[c] = "idle"
    /\ pc[Main] = "mark3" ~> pc[Main] \in {"gone", "down"}

\* Once written, the slave cache is cleared: no item is written twice.
WrittenOnce ==
    \A f, g \in LogNames : \A j \in DOMAIN disk[f], k \in DOMAIN disk[g] :
        <<f, j>> # <<g, k>> => ItemsIn(disk[f][j].data) \intersect ItemsIn(disk[g][k].data) = {}

-----------------------------------------------------------------------------
(***************************************************************************)
(* The inductive invariant: why the properties above hold.                 *)
(***************************************************************************)

Logging == {"look", "reset", "lock", "compress", "head", "body"}
Locked  == {"compress", "head", "body"}
Waiting == {"wait1", "wait2", "wait3"}
Closing == {"mark3", "wait3", "gone"}

\* One client at a time is between taking mutex_ and releasing it.
LockHeld == \A c \in Clients : pc[c] \in Locked <=> mutex = {c}

\* Who logs has an item.
ItemNamed == \A c \in Clients : pc[c] \in Logging => item[c] # 0

\* While no process runs nobody is at work; while one runs it has a key pair.
DownIdle ==
    IF pc[Main] = "down"
    THEN /\ \A c \in Clients : pc[c] = "idle"
         /\ queue = <<>> /\ rpc = "idle"
    ELSE session # 0

\* A key is that of the present session or of an earlier one.
KeysPast == \A f \in Files : \A i \in DOMAIN cache[f] : cache[f][i].key <= session

Pending(c) == [item |-> item[c], part |-> "head", key |-> session]

\* Between the two pushes of Log the header is the last piece of the master cache.
HeaderPushed ==
    \A c \in Clients :
        pc[c] = "body" => cache[master] # <<>> /\ cache[master][Len(cache[master])] = Pending(c)

\* A cache ends with a body, or with a header whose body is about to be pushed, or
\* with one that a crash left behind.
LastPiece ==
    \A f \in Files : cache[f] # <<>> =>
        LET p == cache[f][Len(cache[f])] IN
        \/ p.part = "body"
        \/ p.key < session
        \/ pc[Main] = "down"
        \/ f = master /\ \E c \in Clients : pc[c] = "body"

\* The cache files are never emptied.
Kept == PushedSet \subseteq UNION {ItemsIn(cache[f]) : f \in Files}

\* Main's marker is in the queue once, and only while Main waits for it.
OneMarker ==
    \A i \in DOMAIN queue : queue[i] = Main =>
        /\ pc[Main] \in Waiting
        /\ \A j \in DOMAIN queue : queue[j] = Main => j = i

\* Once the destructor is called only the repeated task is posted behind its marker.
QuietBehind ==
    pc[Main] \in Closing =>
        /\ \A c \in Clients : pc[c] = "idle"
        /\ pc[Main] = "wait3" =>
              \A i, j \in DOMAIN queue : queue[i] = Main /\ i < j => queue[j] = "eliminate"

\* While CacheToFile_ writes, it has a file; and the pieces it counted are there.
Counted ==
    /\ rpc \in {"empty?", "size", "write"} => loaded \in Files
    /\ rpc \in {"load3", "write"} => log_file_path \in LogNames
    /\ rpc \in {"open", "load3", "write"} =>
          measured \in Files /\ rsize <= Len(cache[measured])

\* Unless the caches changed roles meanwhile, it reads and writes the slave.
ReadsSlave ==
    ~switched =>
        /\ rpc \in {"size", "write"} => loaded = slave
        /\ rpc \in {"open", "load3", "write"} => measured = slave

\* As long as no sink was there before, pieces are headers and bodies in turn, and
\* the runner counts as many of one as of the other, unless the caches change roles
\* between the load and the count: no client is between its two pushes into the
\* slave cache.
Alternate ==
    session <= 1 => \A f \in Files : \A i \in DOMAIN cache[f] :
        cache[f][i].part = IF i % 2 = 1 THEN "head" ELSE "body"
EvenSize ==
    session <= 1 /\ rpc \in {"open", "load3", "write"} /\ ~switched => rsize % 2 = 0

\* A cache holds bodies in the order of pushing.
CachedPushed ==
    \A f \in Files : \A i \in DOMAIN cache[f] :
        cache[f][i].part = "body" => cache[f][i].item \in PushedSet
PushOrder ==
    \A f \in Files : \A i, j \in DOMAIN cache[f] :
        cache[f][i].part = "body" /\ cache[f][j].part = "body" /\ i < j =>
            Before(cache[f][i].item, cache[f][j].item)

\* A chunk in the log files has no more than it says, and bodies behind their headers.
ChunksFormed ==
    \A f \in LogNames : \A k \in DOMAIN disk[f] :
        LET chunk == disk[f][k] IN
        /\ Len(chunk.data) <= chunk.size
        /\ \A i \in DOMAIN chunk.data : chunk.data[i].part = "body" =>
              /\ chunk.data[i].item # 0
              /\ i > 1 /\ chunk.data[i - 1].part = "head"

IInv ==
    /\ TypeOK /\ LockHeld /\ ItemNamed /\ DownIdle
    /\ KeysPast /\ HeaderPushed /\ LastPiece /\ CacheWellFormed
    /\ Kept /\ OneMarker /\ QuietBehind /\ QuietWhenGone
    /\ Counted /\ ReadsSlave /\ Alternate /\ EvenSize /\ CachedPushed /\ PushOrder /\ ChunksFormed
=============================================================================
