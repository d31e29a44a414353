# A TLA+ model of mylogger

This directory holds a formal model of mylogger, a C++ logger whose main sink
compresses and encrypts every message, collects the results in two files mapped
into memory that swap roles, and lets a background thread append them, chunk by
chunk, to log files; and of the program that reads these files. Paths below are
relative to `src/`; `mylogger/` is the logger itself, `decode/` the reader.

Every module is a translation of the source, not of its documentation. Where the
two disagree, the model follows the code and the disagreement is recorded
(section 5).

## 1. The system

| Component | State it keeps | Operations | Uses |
|---|---|---|---|
| `LogHandle`, `VariadicLogHandle`, `LogFactory`, macros (`log_handle.cpp`, `log_variadic_handle.h`, `log_factory.cpp`, `logger.h`) | atomic level, list of sinks; the default handle, a `shared_ptr` anyone may replace | `SetLogLevel`, `ShouldLog_`, `Log_` to every sink; `SetLogHandle`, `GetLogHandle` | sinks |
| `ConsoleSink`, formatters (`sinks/console_sink.cpp`, `formatter/`) | a formatter | `Log`: a message and a newline | - |
| `EffectiveSink` (`sinks/effective_sink.cpp`) | `master_cache_`, `slave_cache_`, `is_slave_free_`, `mutex_`, the compression context, `log_file_path_` | constructor, destructor, `Log`, `Flush`, `CacheToFile_`, `SwitchCache_`, `GetFilePath_`, `ElimateFiles_` | buffer, runner, timer, compression, encryption |
| `EffectiveMsg`, `EffectiveFormatter` (`proto/`, `formatter/effective_formatter.cpp`) | eight fields | accessors, serialize, length, parse, merge, copy | protobuf |
| `ZstdCompress`, `ZlibCompress` (`compress/`) | a compression and a decompression context | `ResetStream`, `Compress`, `Decompress` | libraries |
| `AESCrypt`, key exchange (`crypt/`) | the key | `GenerateECDHKey`, `GenerateECDHSharedKey`, `Encrypt`, `Decrypt` | library |
| `MMapAux` (`mmap/`) | mapping, capacity; in the file a header (magic, `mmap_size_`) and the bytes | constructor, `Push`, `Resize`, `Clear`, `Data`, `Size`, `GetRatio` | system calls of Linux or Windows |
| `Executor` (`context/executor.cpp`), `Context` | dictionary from tags to runners, `mutex_`, a static index | `AddTaskRunner`, `GetTaskRunner`, `PostTask` and its blocking form | thread pools of one thread |
| `ExecutorTimer` (same file) | `running_`, priority queue under `mutex_`, set of live ids under none | `Start`, `Stop`, `Run_`, `PostDelayedTask`, `PostRepeatedTask`, `CancelRepeatedTask` | a thread pool of one thread |
| `ThreadPool` (`context/thread_pool.{h,cpp}`) | two atomic flags, task queue, mutex, condition variable, threads | `Start`, `Stop`, `SubmitTask`, `SubmitRetTask`, `AddThread` | - |
| decoder (`decode/`) | a compiled pattern | a file into chunks, a chunk into items, an item into text | compression, encryption, messages |
| `space.h` | - | units of storage: conversion, comparison, arithmetic | - |
| `defer.h`, `time_count.h`, `internal_log.h`, `utils/` | - | scope guards, timing, diagnostics | - |

How they interact. A client thread calls a macro, which asks the factory for the
default handle, which calls each sink in the same thread. `EffectiveSink::Log` makes
a message of the log, serializes, compresses and encrypts it, and pushes it into the
master cache under `mutex_`; when the cache is four fifths full it takes the slave
cache by testing and clearing `is_slave_free_`, switches the two, and posts
`CacheToFile_` to its runner, a pool of one thread that it found by tag in the
executor. `Flush` posts, waits for the runner by posting an empty task
(`WAIT_TASK_IDLE`), switches, posts and waits again; so does, once, the destructor.
The timer posts `ElimateFiles_` to the same runner once a minute. The cache files
outlive the process, and the next sink on the same directory reads what they hold.
The decoder, another process, shares nothing with the sink but the format of the log
files and, by ECDH, a secret.

What is hard in it, and what would make it correct:

- **Thread pool.** Flags are read outside the mutex and looked at again under
  it by one of the two submit functions only; `Stop` may come between any two of
  these; the pool can be started again. Correct means: an accepted task is run
  once, in order, and not forgotten by `Stop`; `Stop` leaves no thread; every
  call returns.
- **Runners.** Two clients may ask for the same tag. Correct means: each gets a
  runner of its own and the call returns.
- **Timer.** Posting starts the loop; a task repeats itself by being pushed
  again; waits are timed, notified or spurious; cancelling is done without a
  lock. Correct means: the right number of runs, none early, none missed, and
  an end when told to.
- **Double buffer.** Test, claim, switch and post are four steps, done by any
  number of threads while the runner frees the slave. Correct means: no item
  lost, torn or mixed with another, none written twice, a `Flush` that flushes,
  a restart that picks up what is left, and a destructor after which nothing uses
  the sink.
- **Mapped buffer.** Growth by pages, a header to be counted, a 32-bit size,
  system calls that fail unnoticed, and a file found as an earlier process left
  it. Correct means: never an access outside the mapping or the file, and a
  header that says what was pushed.
- **Log files.** Names are made from seconds, sizes are checked before a write.
  Correct means: names that do not collide, a total that is kept to by removing
  the oldest; and limits in mixed units that mean what they say.
- **From a log to the text the decoder prints.** A chunk header names one key, an
  item is a frame in a cipher in a chunk, buffers end anywhere, and any of it may be
  cut short. Correct means: every item that was written whole is read as it was
  logged, and keys on both sides are the same.
- **Log handle.** The default handle may be replaced while others log through it,
  and a sink may throw. Correct means: a message goes to every sink of one handle or
  to none, and no destroyed handle is used.

`PROJECT.json` lists each such place with its line under `hazards`.

## 2. The modules

| Module | Models | Lines it stands for |
|---|---|---|
| `TaskQueue` | abstract: what a pool promises to those who give it tasks | - |
| `ThreadPool` | the pool, each access to shared state a step | `thread_pool.{h,cpp}` |
| `Executor` | the dictionary of runners | `executor.cpp` 30-103 |
| `ExecutorTimer` | the timer, its `Stop`, and what `Stop` needs of the timer's pool | `executor.cpp` 109-300, `thread_pool.cpp` 34-47 |
| `MMapAux` | the mapped buffer, and another thread that reads it | `mmap_aux.cc`, `mmap_linux.cpp`, `mmap_win.cpp` |
| `EffectiveSink` | the double buffer, over crashes, restarts and the destructor | `effective_sink.cpp` 34-260 |
| `SpaceUnits` | units of storage | `space.h` |
| `LogFiles` | naming, rolling over and removing log files; EXTENDS `SpaceUnits` | `effective_sink.cpp` 267-358 |
| `EffectiveMsg` | messages and their fields on the wire | `effective_msg.pb.{h,cc}`, `effective_formatter.cpp` |
| `DecodeFormatter` | patterns, compiled and applied | `decode_formatter.cpp` |
| `Compression` | how the streaming interfaces are called on buffers | `zstd_compress.cpp`, `zlib_compress.cpp` |
| `Decoder` | chunks, items, output; EXTENDS `EffectiveMsg`, `DecodeFormatter` | `decode.cpp` |
| `SinkDecoded` | composition: what the decoder reads of each log file that the sink writes; EXTENDS `EffectiveSink`, `Decoder`, `Compression` | - |
| `KeyExchange` | what becomes of a key between ECDH, hexadecimal and AES | `crypt.cpp`, `AES_crypt.cpp` |
| `LogHandle` | macros, default handle, filter, loop over the sinks, console | `logger.h`, `log_handle.cpp`, `log_factory.cpp`, `console_sink.cpp` |
| `ThreadPoolProofs`, `ExecutorProofs`, `ExecutorTimerProofs`, `MMapAuxProofs`, `EffectiveSinkProofs`, `LogFilesProofs`, `LogHandleProofs` | theorems (section 4) | - |
| `Recursion` | induction and recursion, as theorems about sets, for these proofs | - |
| `MC...` | constants that a `.cfg` cannot write | - |

**ThreadPool.** Processes are the workers, one thread per submitting call, and an
owner that calls `Start` and `Stop` in any order. Program counters (`wpc`, `cpc`,
`opc`) stand for the place in the function; `waiting` is the wait set of the
condition variable, so that a notification that comes before a thread has joined
it is lost, as in C++. `SubmitTask` and `SubmitRetTask` differ in the code by the
second look at the flags under the lock, and so they do in the model (`CallLock`
goes to `recheck_shutdown` or straight to `emplace`). Wake-ups without a
notification are an action of their own without fairness. `accepted`, `executed`
and `discarded` are history. Exceptions of a task itself are not modelled.

**TaskQueue** knows nothing of flags or waiting: `Accept`, `Begin`, `End`, and
`GiveUp`, which may drop only `Droppable` tasks and only when no slot is busy.
`ThreadPool` implements it with `RetCalls` as the droppable ones
(`ImplementsQueue`): that a task of `SubmitRetTask` may be dropped is a fact about
the code, written into the abstraction as a tolerance. `EffectiveSink` uses this
contract (one slot, in order) for its runner instead of the pool itself.

**Executor.** Clients ask for a runner and post to it. Under `mutex_` a turn of the
loop that looks for a free tag is a step, because the loop of the code tests the
tag asked for and never the one it has drawn; the static index is kept modulo
`Wrap`. What a runner does is `ThreadPool`'s matter.

**ExecutorTimer.** Time is relative: every entry, every timed wait and every task's
period is what is left of it, and `Tick` takes one from all. Entries overdue are
therefore equal, which only widens the choice of the loop. `Stop` clears `running_`,
notifies without the lock, and stops the timer's own pool, whose `Stop` stores
`is_shutdown_`, notifies without `task_mutex_` and joins: each is a step
(`NotifyAll`, `StopPool`, `NotifyPool`, `Join`), and is called when no post is under
way. So the pool's threads are in the model between two loops too: one that has seen
`is_shutdown_` clear and no task is `blind` until it waits (`asleep`), and `Join` waits
for it. With enough threads (`Loops`) for every start that slips through the test of
`running_`. Handing the user's task to its runner is one step.

**MMapAux.** One thread at a time pushes or cuts, as `mutex_` has it in the sink; the
runner reads and clears without that lock (`BeginRead`, `EndRead`, `Clear`). A growth
is therefore two steps, `Unmap_` (`Begin`) and `TryMap_` (`Grow`): a reader that is in
the buffer when it is unmapped is `dangling`, and gets the process killed unless the
next mapping comes to lie where the last one was. Other operations are one step with
all that they call. The outcomes of `TryMap_` are a set; `Faults` names the system
calls that may fail, `ftruncate` among them, and `Platforms` the builds: a run with both
lets each call go as in either, which covers each of the two by itself. They differ in
that `CreateFileMapping` never shortens a file and `MapViewOfFile` leaves null where
`mmap` leaves `MAP_FAILED`, which the code takes for an address. `Accessible` is what
the hardware does: beyond the mapping, or beyond the last page of its file, an access
kills the process (`faulted`). `Exit` may come at any time and keeps the file.
`bytes` is history, and so is `unbacked`: the last to set the size was a `Resize`, which
touches the header only, in a mapping longer than its file. Two things are left out: a
reader that reads the pointer itself while it is stored, and one that enters in the
middle of a growth, which finds `handle_` null and reads nothing.

**EffectiveSink.** Items are two pieces, for `Log` pushes header and body one after
the other under one lock. The rest is one access to shared state per step. `Full`
stands for the four fifths of the cache. `CacheToFile_` uses `slave_cache_` three times
and gets it anew each time, without the lock (`LoadSlave`): to see whether it is empty,
to read its size, to take its bytes. Between any two of these, and between the load and
the read of the size, the caches may be switched. `loaded` is the cache it last got,
`measured` the one `rsize` is the size of. While both are one, what it writes is the
pieces it has counted. If they are not, `rsize` is a number of bytes of one cache taken
off another whose bodies have other lengths: what is read (`Read`) ends behind any piece
or within one or behind the last, and what is no whole piece is of part `rest`.
`switched` is history: have the caches changed roles since the load before the count?

Log files have names (`LogNames`). A process begins with a file of its own choice, which
an earlier one may have written to, and goes on to another once the file may be over its
limit (`SingleFile` chunks); which name comes next is `LogFiles`' matter, so any may.
`MaxFaults` bounds how often a log file cannot be opened or written.

`Crash` may come anywhere and leaves the two cache files, and the log files with perhaps
part of the chunk under way; a return by `Construct` always finds `master_cache` as the
master, whichever of the files is the fuller. The destructor waits for a marker on the
runner; the repeated task, which nothing cancels, goes on posting after it. While one
thread is in `ResetStream`, without the lock, the frame that another compresses may come
out damaged: the outcome of the race is a choice. `Rejected` is every way in which `Log`
gives up an item after the lock, the exception of the cipher among them; with the key as
the code makes it that is the only way there is (`KeyExchange`), so the rest of the model
is the sink as it would be with a usable key. `key` marks which sink made an item. The
mapping of a cache does not grow here, and its size does not wrap: both are `MMapAux`'s.

**LogFiles.** The directory is a sequence in the order of writing. A file's name is
the second and the index of its making, and the index is always 0: the code counts the
file names in which the whole path, directory included, is found. `WriteChunk` covers
the naming and the write together with the open that fails; `ElimateFiles` is the loop
over the files from the youngest, a recursive function of the number of turns (`Turns`).
A removal that is tried succeeds, is refused (the file stays and the loop goes on), or
throws, which nobody catches: the process ends (`last` is `died`), and a new sink
follows. The limits come from `SpaceUnits`, where a space is a count and the exponent of
its unit, counts keep the width of their rep, and the mix of `size_t` (bytes) and
`int64_t` (the others) follows the code's templates. The ratios of the units are written
out (`Ratio`), for `space.h` defines one after the other and there are no more than
these. The clock is not set back.

**EffectiveMsg, Compression, DecodeFormatter, Decoder** are operators, no machines.
A wire is a sequence of fields, a compressed stream a sequence of symbols, a pattern
one of characters, a log file one of units (header of a chunk, header of an item,
body, or bytes that are none of these); a text in a field is a string, and `NotUtf8` says which are not UTF-8.
The loops of the code (`Serialize`, `CompilePattern`, `ZlibDecompress`,
`ZstdDecompress`) are recursive functions, over the fields, the characters, the
states of a stream. The libraries inside (`Decode`, `Take`, `Emit`) do what the code
expects of them; the loops around them, with their buffers, are those of the code.

**SinkDecoded** gives `DecodeLogFile` each log file of `EffectiveSink` that was written,
after the write, by itself, as the decoder is given one file. `Spoilt` lists what makes
a chunk unreadable.

**KeyExchange.** A string is a sequence of bytes, some of which are the characters of
digits; hexadecimal conversion and its decoder, which passes over what is no digit,
are those of the library as the code uses them.

**LogHandle.** A logger asks the factory twice, as the macro does, and holds a raw
pointer. A handle lives while the application or the factory holds it. What happens
in a handle that was destroyed is not followed: the logger stops there, and
`HandleOutlivesUse` says when that may be. Of the constructors, that of one sink and that
of a list in braces refuse null sinks (`Construct`), that of a pair of iterators checks
nothing (`ConstructFromRange`): a logger that comes to a null sink gets the process killed
(`NullSink`, `killer`).

## 3. What is checked

All runs use TLC; `PROJECT.json` gives each its properties, and each property a
variant of the code (the definitions commented "Variant:") that breaks it.

| Run | Bounds | Question | Result |
|---|---|---|---|
| `Pool` | 2 workers, 2 calls (one of each kind), 4 owner calls | `IInv`, `ExactlyOnce`, `NoPlainTaskDiscarded`, `QuietAfterStop`; implements `TaskQueue`; `AcceptedTaskRuns` | hold |
| `PoolStop` | 2 workers, 1 call, 2 owner calls | does `Stop` return? | **no** |
| `Runners` | 3 clients, 2 with one tag, index modulo 4 | `IInv`, `OwnRunner` | hold |
| `Timer` | a delayed task, one for 0 or 3 runs, 2 loops, `Stop` | `IInv`, `RunsCounted`, `CancelBites`, `Paced`, `PostedTaskRuns`, `StopEnds` | hold |
| `SinkSafety` | 2 clients, 2 items, 1 flush, 2 sinks, crash, 2 log files of 2 chunks or more, 1 failed open or write | `IInv`, `CacheWellFormed`, `NothingLost`, `QuietWhenGone`, `ChunkInOrder`, `ReadUpToSpoilt`; the laws `PatternFaithful`, `ParseInverse`, `DecompressWhole` | hold |
| `SinkLive` | 2 clients, 2 items, 1 flush, a disk that works | `SlaveFreed`, `CallsReturn` | hold |
| `SinkFlush` | 1 client, 4 items, 3 flushes | is everything on disk after `Flush`? | **no** |
| `SinkOnce` | 1 client, 3 items | is an item written once? | **no** |
| `KeyLost` | 4-byte secrets of 4 kinds of byte, base 2, 2 items | is what is logged encrypted into the cache? | **no** |
| `MMap` | pages of 8, header of 2, size field modulo 32, both platforms, `open`, `ftruncate` and the mapping may fail, another thread reads | `IInv`, `InBounds`, `FileCovers`, `NoFault`, `SizeExact` | hold |
| `Files` | 5 chunks of 2 or 5 bytes, files of 1 MB, 3 MB in all, 3 seconds; 1 KB is 2 bytes, 256 values to a count; any removal may be refused or throw | `TotalBounded`, `OldestRemoved`, `RollOverInTurn`; the laws `SizesCompare`, `CastTruncates`, `MembersAgree` | hold |
| `Handle` | 2 loggers, 2 handles, 2 messages, 2 replacements, 1 change of level; lists with a sink twice, empty, with a null, by braces and by iterators | `IInv`, `HandleOutlivesUse`, `AllOrNone`, `ThreadLines` | hold |

What the deeper of them say.

- `ReadUpToSpoilt`: the decoder prints, in order, every item of every chunk of a file
  before the first that is spoilt, and nothing after it. A chunk is spoilt by a write cut
  short, by bytes that end within a piece (the caches switched within `CacheToFile_`), by
  a header that a crash left alone or that was counted before its body came, by an item
  of an earlier sink, a damaged frame or a text that is not UTF-8. So one such item costs
  all that is ever written after it to that file; other files are not touched by it.
- `ChunkInOrder`: in the first sink's life, if nothing cut the chunk short and the caches
  did not change roles between the load before the count and the write, it is whole items
  in the order of their pushing, although the runner reads without a lock. It says
  nothing of a chunk that was switched: such a chunk may well have odd pieces.
- `NothingLost` holds because the caches are never emptied (section 5, 3). It guards
  against a `Clear` that would begin to work.
- `QuietWhenGone`: one marker is enough for the destructor to outwait every
  `CacheToFile_`, whoever posted it, but not the repeated task.
- `SlaveFreed` is for a disk that works: after a failed open nothing says when the slave
  is freed.
- `StopEnds`: the timer's `Stop` gets past its first notification if no loop is between
  its look at `running_` and its wait, and past its second, that of the timer's own pool,
  if besides no thread is between its look at `is_shutdown_` and its wait there. In
  either window it may hang, as the pool's does (`PoolStop`).
- `NoFault`: the process is killed only if a system call failed, so that there is no
  mapping or its file is too short, or if another thread reads or clears what is being
  unmapped for a growth. Both happen; the property says that nothing else does.
- `RollOverInTurn`: a chunk goes to a file named no earlier than any other, and to one
  that is over the limit only in the second in which it was named. In that second it
  does, since the index is always 0 (section 5).
- `TotalBounded`, `OldestRemoved`: after `ElimateFiles_` the total is kept to but for the
  oldest files, if none of these could be removed; and a file is removed only if it
  would not fit with those written after it, older ones staying only if their removal was
  refused, or a removal has thrown.
- `HandleOutlivesUse`: a logger loses its handle under its feet only if `SetLogHandle` was
  called since the macro first asked; that case itself is not ruled out by the code.
  `AllOrNone`: level and sinks are those of one handle, and the level is one the handle
  had meanwhile. `IInv` of the handle says among the rest that only a handle made from a
  range has a null sink.
- `SizesCompare` and its like are about counts that are not negative.

The laws are about operators, not about steps, and hold in every state or in none; a
run looks at them in its initial state, over all patterns, contents and messages of
the bound. `IInv` is the invariant that the proofs of section 4 rest on; the run
looks at it on the small instance.

Why the bounds are enough to mean something. `Pool`: four owner calls make a
start, a stop, a restart and a second stop, which is the shortest history in which
a restarted pool could throw a task away; two workers are the least that can
steal each other's wake-ups; the proofs take over for any number. `Timer`: three
runs pass the entry from the poster to the loop and back to the loop; two calls can
both be the first. `SinkSafety`: two items fill a cache, so a chunk may hold one or
two, and `Flush` and the constructor switch sooner (in `SinkLive` each `Log` switches);
one client can be anywhere while the other does so, and be between its two pushes when
the runner counts; the second item's text is not UTF-8; with two sinks a cache can hold
items under both keys, and two log files are enough for one to be rolled over and for
the other to be come back to. Patterns of up to three
of four characters have every pair that the compiler's two states tell apart; contents
of up to three symbols of up to three bytes meet a buffer of three at every offset;
messages have each field at its default or not. `MMap`: pushes of up to 15 into
pages of 8 cross page borders at every offset, header included, and 40 bytes
overrun the field of 32. `Files`: chunks longer than the limit of one file, and
more of them than fit together; spaces of every unit with lengths up to the middle
of the range. `Handle`: one logger can be at every step while the handle it has is
replaced, dropped and retuned; the list with one sink twice tells order and number.
`KeyLost`: half of the bytes are characters of digits, so secrets of which everything,
something or nothing is left all occur; which of these is likely is for the finding
to say.

Deadlock is not checked where the actors may simply be through with their calls
(pool, runners, timer, sink, handle); `MMap` and `Files` are checked for it.

Fairness. Weak fairness of every thread's own steps: the operating system runs a
thread that can go on. Nobody is made to begin a call, to crash, to wake without a
notification, or to fail. The timer's clock is fair, and so, strongly, is the lock of
its pool (`SubmitRun`): a spurious wake-up may have it taken again and again, and the
caller that waits for it gets it in the end. `PoolStop` uses strong fairness
of the lock steps in addition, so that the counterexample is the lost wake-up and
not a thread that is passed over at the mutex. `FairSpec` of the pool needs no
strong fairness for `AcceptedTaskRuns`: the calls are finitely many, and while tasks
are queued a worker that gets the mutex takes one, so nobody holds it against the
others for ever.

## 4. What is proved

Every safety property that the passing runs check is proved with TLAPS. The proofs hold
for every value of the constants that the named assumptions allow:

| Assumption | What it asks for, and why the code justifies it |
|---|---|
| `PoolAssumption`, `ExecutorAssumption`, `TimerAssumption` | names of threads and calls do not collide; a pool has threads, and finitely many; enough of them for the loops of the timer |
| `SinkAssumption` | the same of clients, tasks and log files; a cache takes something before it is switched |
| `MMapAssumption` | pages, header and capacities are numbers, in the order the code takes them for |
| `SpaceAssumption` | a kilobyte is more than a byte; a rep has more values than a kilobyte has bytes, and an even number of them. 1024 and 2^64 are a case of it |
| `FilesAssumption` | the limit for all files, in bytes, fits in a rep; chunks are not empty, for they have a header |
| `FrontAssumption` | lists of sinks are lists of sinks or nulls, levels are those of `LogMsg` |
| `CompressionAssumption` | buffers have a length |
| `TextAssumption` | the empty string is UTF-8 |
| `LawsAssumption` | patterns are strings, contents byte strings, messages have the eight fields, numbers or texts |
| `TextsAssumption` | what is logged is text, and paths and names of functions are UTF-8; what stands for no result is neither a text nor a list of texts (it is a value of its own, for the code ends there) |

**`ThreadPoolProofs`.** `Invariance` proves `IInv`, for any number of workers and
calls and any sequence of `Start` and `Stop`. The point is `NoPlainTaskDiscarded`,
which is not inductive: nothing in it says why the queue `Stop` clears holds no
task of `SubmitTask`. `Drained` says why: once one thread has left its loop,
`is_shutdown_` is set (it never goes back), the queue holds no such task, and no
`SubmitTask` is past its second look at the flag. A thread leaves only with the
mutex, having seen the flag set and the queue empty; `LockHeld` then keeps any
`SubmitTask` from being between look and enqueue. `OwnerFlags` and `QuietAfterStop`
carry this over restarts, when there are no threads. From `IInv` follow
`PlainTasksAreKept`, `StoppedPoolIsQuiet` and `PoolImplementsQueue`: each step of
the pool is a step of `TaskQueue` or stutters on it. `Drained` and
`QuietAfterStop` justify `GiveUp`, `Fresh` the enqueueing. `EachTaskOnce` proves
`ExactlyOnce` by counting: the copies of a task, in the queue, in hands, run and
thrown away, are one in number while it moves from one of these sets to the next.

**`ExecutorProofs`.** `RunnersAreOwn` proves `OwnRunner`. It rests on `mutex_` being
held from the search for a tag to the entry of the runner (`LockHeld`), and on
`AsWanted`: since a tag once taken stays taken, a client leaves the loop only with
the tag it asked for, and that one is free. The proof thus shows why the loop's
wrong test does no harm to the runners of others; whoever is in the loop with a tag
that is taken never leaves it.

**`ExecutorTimerProofs`.** `Counted`, `Cancelled` and `RunsOnTime` prove `RunsCounted`,
`CancelBites` and `Paced`. A repeated task queues itself anew, from threads that
nothing synchronises but the queue's mutex, so the argument is that the chain of a
call has one link: `OneEntry` (in the queue or in the hands of one thread), `NotYet`
(none before the call has made it), `RunsLeft` (the link knows how many runs are left)
and `AllRun` (with no link none is left). `ActiveIds` and `LateOnce` bound what a
cancellation lets through: only the thread that had found the id before. `Spaced`
relates what is left of a period to when the link is due. `NotYet` had held in every
state of the run and was not inductive: it did not say that a delayed task not yet
posted was asked for once, which its first queueing needs. It says so now.

**`MMapAuxProofs`.** On either platform or both, whichever of `open`, `ftruncate` and the
mapping fail and whoever reads meanwhile: `IInv`, and from it `DataInBounds`,
`DataInFile`, `FaultsExplained` and `HeaderExact`. The strengthening is `InFile` (a file
is not longer than its mapping; after a failed `ftruncate` it is shorter), `Headed` (a
buffer in use has its magic number, and nothing was pushed before there is one) and
`Pending` (what waits between the two steps of a growth is one `Push` or `Resize`, and
counts what it will have pushed). On Windows `InFile` rests on capacities never shrinking
below the length of the file, which `Mapping` shows of all outcomes of `TryMap_` at once.
`FileCovers` is what a new process relies on, so the proof of `Open` turns the one into
the other. A `Push` into a file that is too short touches what it counts, and is killed
before it can count it; a `Resize` does not, and is the exception (`unbacked`) in
`InBounds` and `FileCovers`. The arithmetic is in `RoundedUp`, `RoundedMonotone`,
`GrownEnough` (pages) and `WrappedSum` (the size field).

**`EffectiveSinkProofs`, the double buffer.** For any number of clients, items, flushes
and sinks on the same caches and any number of log files, with a disk that may fail and a
crash anywhere:

- `WellFormed` (`CacheWellFormed`): whoever is between the two pushes of `Log` holds
  `mutex_` (`LockHeld`), has its header as the last piece of the master
  (`HeaderPushed`), and no other cache ends with a header unless a crash left it there
  (`LastPiece`).
- `NoItemLost` (`NothingLost`): no cache is ever emptied (`Kept`), which is what the
  code does whatever `Clear` was meant for (section 5, 3).
- `DestructorQuiet` (`QuietWhenGone`): the destructor's marker is in the queue once
  (`OneMarker`), and once there only the repeated task is posted behind it
  (`QuietBehind`), since every client is out of the sink.
- `WholeItems` (`ChunkInOrder`, an action property): while there was no sink before,
  pieces are headers and bodies in turn (`Alternate`), and bodies are in the order of
  pushing (`CachedPushed`, `PushOrder`). As long as the caches have not changed roles
  since the runner loaded one of them, it is still the slave (`ReadsSlave`), nobody
  pushes into it, and its length is even (`EvenSize`): whoever switched them to it
  waited for `mutex_`, which who pushes holds from the first push to the second. What was
  counted stays there, for caches only grow (`Counted`), so what is written is what was
  counted. `Invariance` needs no such condition: after a switch within `CacheToFile_` an
  odd length is possible, and in reach of the run.

**`EffectiveSinkProofs`, the laws.** What an item goes through before and after, for
every message, pattern and content:

- `MessagesReturn` (`ParseInverse`): `Serialize` and `Parse` are followed field by field;
  after the k-th field of a message the parser holds what the message says of the fields
  so far and what was there before of the others (`ParsedTo`). Merging is the same
  statement with something there before.
- `PatternsMean` (`PatternFaithful`): `Meaning` reads a pattern from the left,
  `CompilePattern` is a scanner with a buffer. The relation between them (`HalfRead`)
  is that what was compiled, what is in the buffer and the meaning of the characters not
  yet read make up the meaning of the whole; it is kept by every character, an
  unfinished `%` included.
- `ContentsReturn` (`DecompressWhole`): the loops of `Decompress` end when the input is
  used up, not when the output is. That nothing is left inside the library then rests on
  `Held`: what a call wrote, what waits and what is unread make up what there was, and
  input is left behind only when something waits before it. For zlib the last symbol is
  the empty block of the flush, which cannot wait (`Ending`), and each call that is given
  room leaves less to be done (`Ahead`). For zstd the first buffer is as long as the
  header of the frame says, and one call is enough.

**`EffectiveSinkProofs`, sink and decoder together.** `ReadBack` proves
`ReadUpToSpoilt`: what the decoder gives of a log file is the text of every item up
to the first chunk that is spoilt, and nothing behind it, for any number of files and
chunks. Of
the writing it takes one more invariant, `ChunksFormed`: a chunk has no more than its
header says, and a body only behind its header, whatever a crash or a failing disk left
of it. Of the reading it follows the decoder from the header of one chunk to that of the
next (`Placed`, `ReadTurns`). The pieces of a chunk that is not spoilt are item headers
and bodies in turn (`InTurn`), and each pair gives its text (`ChunkRead`). Everything that
spoils a chunk puts something that is no item header on an odd place, or something that
cannot be read on an even one, or leaves the decoder with half an item (`SpoiltFails`);
of a chunk cut short it is the header of the next chunk that comes to stand there, or
the file ends too early. That the decoder never goes on reading in the wrong place rests
on this.

**`LogHandleProofs`.** `HandleLives`, `MessageToAllOrNone` and `LinesPerThread` prove
`HandleOutlivesUse`, `AllOrNone` and `ThreadLines`. A logger's handle is the installed one
as long as nothing was installed since it first asked (`Installed`), and the level that
handle has is one of those it had meanwhile (`LevelSeen`). `Progress` counts: a sink was
given the message as often as it is listed among the sinks the logger is done with, the
console perhaps less often. `Numbered` says that a message has a number and a writer of
its own, so that steps of others do not count; `LastMessage`, that a thread about to write
its newline wrote its message last. The invariant is in two parts: `FrontInv`,
which knows nothing of nulls, and `NullSinks`: a null is in the list of a handle only if
it was made from a range, and only a logger in such a handle gets the process killed.

**`LogFilesProofs`.** `RolledOverInTurn` proves `RollOverInTurn` from `InTime`: no file is
named later than now, and a path that is kept is named no earlier than any file.
`KeptWithinLimit` and `RemovedOldest` prove `TotalBounded` and `OldestRemoved` by
induction over the turns of the loop in `ElimateFiles_`, for every outcome of every
removal: what was added up are all the files so far, kept or not, so once the limit is
passed it stays passed, and from then on a file stays only if its removal was refused or
the loop had ended. `SpacesCompare`, `CastsTruncate` and
`SpaceMembersAgree` prove the laws of `space.h`: counts and casts of the five units
compare, add up and divide as the lengths in bytes they stand for, for every size of a
kilobyte and every width of a rep, which the run can look at for 2 and 256 only.

**`Recursion`** holds what these proofs need of recursion: induction over the numbers
(`Induction`), stated about sets, from the well-foundedness of inclusion between finite
sets; and that there is a function as its definition says, for definitions that go
forward (`Iterates`), backward (`Recurs`) and for loops over states, whether they end
or not (`Loops`, as the least relation between states and results).

**Only model-checked.** Everything about liveness (`AcceptedTaskRuns`, `PostedTaskRuns`,
`StopEnds`, `SlaveFreed`, `CallsReturn`): fairness and ENABLED are out of this prover's
reach. And the four runs of section 5, whose claims are false.

## 5. Where the code and its documentation disagree

Four are kept as runs, with the lines quoted in `PROJECT.json`:

1. `Stop` of the pool may join for ever (`PoolStop`): the store of `is_shutdown_` and
   `notify_all` are made without `task_mutex_` (`thread_pool.cpp:35-37`).
2. `Flush` may return with items still in the caches only (`SinkFlush`,
   `effective_sink.cpp:164`).
3. Items are written again with the next chunk (`SinkOnce`): `MMapAux::Clear` returns
   for a valid mapping (`mmap_aux.cc:78`).
4. The sink gives `AESCrypt` the shared secret as bytes where it expects hexadecimal
   (`KeyLost`, `effective_sink.cpp:58`): what is left of it is hardly ever the length
   of a key, and `Encrypt` throws out of `Log`.

Seen while modelling and not kept as runs, because another run stands for the same
mechanism or a property already says how far it goes:

- `AddTaskRunner` with a tag that is taken never returns, and keeps `mutex_`
  (`executor.cpp:67`); `EffectiveSink` asks for the fixed tag 10086, so a process can
  have one such sink.
- `Stop` of the timer can miss its loop as that of the pool misses a worker
  (`executor.cpp:151`), and the pool it stops next can miss a thread of its own
  (`executor.cpp:152`, `thread_pool.cpp:37`); `StopEnds` leaves out just these windows.
- A cancelled task may run once more (`executor.cpp:270`; `CancelBites` bounds it by
  one); two first posts may start two timer loops (`executor.cpp:131`; the timer's
  properties hold with both).
- A leftover in the slave cache is not written by the next sink's constructor, for
  `is_slave_free_` is set before the write is posted (`effective_sink.cpp:69`);
  `NothingLost` still holds, as the item stays.
- The repeated task runs on a destroyed sink (`effective_sink.cpp:84`).
- The runner may write from a cache that is meanwhile switched, so that the chunk ends
  within an item, or count one that is being pushed to (`effective_sink.cpp:206`, `:219`); a chunk that mixes items of two sinks names one key
  (`effective_sink.cpp:208`); `ReadUpToSpoilt` has both among what spoils a chunk.
- `ResetStream` is called outside the lock (`effective_sink.cpp:115`).
- A failed mapping is read through on Linux instead of being reported, and so is a
  mapping whose `ftruncate` failed (`mmap_linux.cpp:41`, `:45`); a growth unmaps what the
  runner may be reading without the lock (`mmap_aux.cc:159`, `effective_sink.cpp:206`);
  `NoFault` says that nothing else kills the process; the size field wraps at
  4 GiB (`mmap_aux.cc:94`; `SizeExact` says how).
- `effective_sink.cpp:265` has the index make file names unique, but the index is always
  0: a second roll-over in one second goes on with a file that exists and is over the
  limit (`effective_sink.cpp:301`; `RollOverInTurn` says that nothing worse happens).
- A file that cannot be removed is passed over, and an exception of `remove` ends the
  process (`effective_sink.cpp:353`; `TotalBounded`, `OldestRemoved`).
- The constructor from iterators lets null sinks in, which the others refuse
  (`log_handle.h:33`).
- `-=` on sizes of mixed units takes off less than `-` does (`space.h:107`).
- The formatter stamps messages in microseconds, the decoder reads milliseconds
  (`effective_formatter.cpp:33`, `decode_formatter.cpp:215`).

## 6. What is not modelled

- Data races as such: a step is one access, and its outcome is that of an atomic
  one. Unsynchronised containers (the timer's set of ids, the dictionary of work
  threads with two starts) could do worse in the build. The one race whose outcome
  the model widens is that on the compression context.
- Destruction of the singletons at the end of the process, and its order
  (`executor.cpp:24`): the timer's thread may post to a dictionary that is gone.
- The wording of `DefaultFormatter` (which puts all 32 bytes of its time buffer,
  NULs included, into the line) and `SourceLocation`, which cuts a path; the
  replacement of a sink's formatter; arenas and the transfer of string ownership in
  generated code; floating-point reps of `space`.
- The ciphers and compressors themselves.
- `sys_util_linux.cpp` passes the arguments of `localtime_r` in the wrong order and
  would not compile as it stands; the model takes local time as given.
- `main` of the decoder, which is compiled out (`#if 0`): the model takes from it the
  order of the calls only.
- Scope guards, timing and diagnostics; vendored libraries, tests and examples. The
  tests were read for what they expect.
- What a build directory left in the repository: two files that make CMake tell the
  compiler (1823 lines) and a second copy of the generated message code (1031
  lines). They hold no logic of the logger, and are about three tenths of all its
  lines of C and C++ outside the tests.

## 7. Plan

What is left, in this order:

1. The lemma that one-slot instances of `TaskQueue` run tasks in the order of
   acceptance, which the sink relies on.
2. The sink over `MMapAux` with a buffer that cannot be mapped; the sink composed with
   the timer proper instead of the reduced `TimerPosts`; the destruction of the
   singletons.

## 8. Running it

    tlc -workers 2 -config Pool.cfg MCThreadPool
    tlapm ThreadPoolProofs.tla

and likewise for the other rows of the table: `PROJECT.json` names the module of
each. `MMap` and `Files` run on `MMapAux` and `LogFiles` themselves. The longest run,
`SinkSafety`, takes one to two minutes. Of the proofs, `EffectiveSinkProofs` takes
about eight minutes from nothing, `LogHandleProofs`, `LogFilesProofs` and
`ExecutorTimerProofs` between one and two each, the others less than one.
