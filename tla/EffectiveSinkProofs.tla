------------------------- MODULE EffectiveSinkProofs -------------------------
(***************************************************************************)
(* Proofs about EffectiveSink, for every set of clients, every size of the *)
(* caches and every number of calls and of crashes: no item that was       *)
(* pushed is lost, clients never mix the pieces of their items, and the    *)
(* destructor leaves the runner quiet.  The inductive invariant IInv is    *)
(* proved part by part.                                                    *)
(*                                                                         *)
(* And about what an item goes through before and after, for every         *)
(* message, pattern and content (SinkDecoded): a message that is sent      *)
(* comes back, a pattern is compiled into what it means, what was          *)
(* compressed is decompressed whole, and what is decoded of the log files  *)
(* is the text of every item up to the first chunk that is spoilt.         *)
(***************************************************************************)
EXTENDS SinkDecoded, Recursion

-----------------------------------------------------------------------------
(* Operators of the model. *)

\* There are two cache files, and slave_cache_ is the one that master_cache_ is not.
LEMMA OtherFile == ASSUME NEW f \in Files PROVE Other(f) \in Files /\ Other(f) # f
<1>1. \E g \in Files : g # f
  BY DEF Files
<1> QED BY <1>1 DEF Other

\* What is read of a cache: pieces from its start, as many as were counted if they were
\* counted there, and otherwise perhaps one more that is none of its pieces.
ReadOf(data, c) ==
    /\ data \in Seq(Piece)
    /\ \A i \in DOMAIN data :
          \/ i \in DOMAIN c /\ \A j \in 1..i : data[j] = c[j]
          \/ data[i].part = "rest"

\* Some pieces from the start of a cache.
LEMMA FirstRead ==
    ASSUME NEW c \in Seq(Piece), NEW n \in 0..Len(c)
    PROVE  /\ SubSeq(c, 1, n) \in Seq(Piece) /\ Len(SubSeq(c, 1, n)) = n
           /\ \A i \in 1..n : SubSeq(c, 1, n)[i] = c[i]
           /\ ReadOf(SubSeq(c, 1, n), c)
<1> DEFINE d == SubSeq(c, 1, n)
<1>1. n \in Nat /\ n <= Len(c) /\ Len(c) \in Nat /\ DOMAIN c = 1..Len(c)
  OBVIOUS
<1>2. d \in Seq(Piece) /\ Len(d) = n /\ DOMAIN d = 1..n /\ \A i \in 1..n : d[i] = c[i]
  BY <1>1
<1> HIDE DEF d
<1>3. \A i \in 1..n : i \in 1..Len(c) /\ \A j \in 1..i : j \in 1..n
  BY <1>1
<1>4. ReadOf(d, c)
  BY <1>1, <1>2, <1>3 DEF ReadOf
<1> QED BY <1>2, <1>4 DEF d

\* The beginning of what is read is read as well.
LEMMA FirstOfRead ==
    ASSUME NEW c, NEW data, ReadOf(data, c), NEW n \in 0..Len(data)
    PROVE  /\ ReadOf(SubSeq(data, 1, n), c) /\ Len(SubSeq(data, 1, n)) = n
           /\ \A i \in 1..n : SubSeq(data, 1, n)[i] = data[i]
<1>1. data \in Seq(Piece) /\ Len(data) \in Nat /\ DOMAIN data = 1..Len(data)
  BY DEF ReadOf
<1> DEFINE d == SubSeq(data, 1, n)
<1>2. /\ d \in Seq(Piece) /\ Len(d) = n /\ DOMAIN d = 1..n
      /\ \A i \in 1..n : d[i] = data[i]
  BY <1>1
<1>3. \A i \in 1..n : i \in 1..Len(data) /\ \A j \in 1..i : j \in 1..n
  BY <1>1
<1> HIDE DEF d
<1>4. ReadOf(d, c)
  BY <1>1, <1>2, <1>3 DEF ReadOf
<1> QED BY <1>2, <1>4 DEF d

\* What the runner reads, of either cache.
LEMMA ReadIsData ==
    ASSUME TypeOK, session # 0, Counted, rpc = "write"
    PROVE  /\ loaded \in Files /\ cache[loaded] \in Seq(Piece)
           /\ \A data \in Read : ReadOf(data, cache[loaded])
           /\ loaded = measured =>
                 /\ rsize \in 0..Len(cache[loaded])
                 /\ Read = {SubSeq(cache[loaded], 1, rsize)}
<1> DEFINE c == cache[loaded]
           first(n) == SubSeq(c, 1, n)
<1>1. loaded \in Files /\ measured \in Files /\ rsize <= Len(cache[measured])
  BY DEF Counted
<1>2. c \in Seq(Piece) /\ rsize \in Nat /\ Len(c) \in Nat
  BY <1>1 DEF TypeOK
<1>3. \A n \in 0..Len(c) :
        /\ first(n) \in Seq(Piece) /\ Len(first(n)) = n /\ ReadOf(first(n), c)
        /\ \A i \in 1..n : first(n)[i] = c[i]
  BY <1>2, FirstRead
<1>4. Remnant \in Piece /\ Remnant.part = "rest"
  <2>1. session \in 1..MaxSessions /\ 0 \in 0..MaxLogs
    BY SinkAssumption DEF TypeOK
  <2>2. [item |-> 0, part |-> "rest", key |-> session] \in Piece
    BY <2>1 DEF Piece
  <2> QED BY <2>2 DEF Remnant
<1>5. loaded = measured => rsize \in 0..Len(c) /\ Read = {first(rsize)}
  BY <1>1, <1>2 DEF Read
<1>6. 0 \in 0..Len(c) /\ \A n \in 1..Len(c) : n \in 0..Len(c)
  BY <1>2
<1>7. first(0) = <<>>
  BY <1>2
<1> HIDE DEF c
<1>8. ASSUME NEW n \in 0..Len(c)
      PROVE  ReadOf(Append(first(n), Remnant), c)
  <2> DEFINE f == first(n)
             d == Append(f, Remnant)
  <2>1. f \in Seq(Piece) /\ Len(f) = n /\ ReadOf(f, c) /\ n \in Nat
    BY <1>3
  <2> HIDE DEF f, first
  <2>2. /\ d \in Seq(Piece) /\ DOMAIN d = 1..n + 1 /\ DOMAIN f = 1..n
        /\ d[n + 1] = Remnant /\ \A i \in 1..n : d[i] = f[i]
    BY <1>4, <2>1
  <2>3. \A i \in 1..n + 1 : i = n + 1 \/ (i \in 1..n /\ \A j \in 1..i : j \in 1..n)
    BY <2>1
  <2> HIDE DEF d
  <2>4. ASSUME NEW i \in DOMAIN d
        PROVE  (i \in DOMAIN c /\ \A j \in 1..i : d[j] = c[j]) \/ d[i].part = "rest"
    <3>1. CASE i = n + 1
      BY <1>4, <2>2, <3>1
    <3>2. CASE i \in 1..n /\ \A j \in 1..i : j \in 1..n
      <4>1. d[i] = f[i] /\ i \in DOMAIN f /\ \A j \in 1..i : d[j] = f[j]
        BY <2>2, <3>2
      <4>2. (i \in DOMAIN c /\ \A j \in 1..i : f[j] = c[j]) \/ f[i].part = "rest"
        BY <2>1, <4>1 DEF ReadOf
      <4> QED BY <4>1, <4>2
    <3> QED BY <2>2, <2>3, <2>4, <3>1, <3>2
  <2>5. ReadOf(d, c)
    BY <2>2, <2>4 DEF ReadOf
  <2> QED BY <2>5 DEF d, f, first
<1>9. ASSUME NEW data \in Read PROVE ReadOf(data, c)
  <2>1. \/ \E n \in 0..Len(c) : data = first(n)
        \/ \E n \in 0..Len(c) : data = Append(first(n), Remnant)
    <3>1. CASE loaded = measured
      BY <1>5, <3>1
    <3>2. CASE loaded # measured /\ rsize = 0
      <4>1. data = <<>>
        BY <3>2 DEF Read
      <4> QED BY <1>6, <1>7, <4>1
    <3>3. CASE loaded # measured /\ rsize # 0
      <4>0. Read = {first(n) : n \in 1..Len(c)} \union
                      {Append(first(n), Remnant) : n \in {m \in 0..Len(c) : m > 0 \/ c = <<>>}}
        BY <3>3 DEF Read, c
      <4>1. \/ \E n \in 1..Len(c) : data = first(n)
            \/ \E n \in 0..Len(c) : data = Append(first(n), Remnant)
        BY <4>0
      <4> HIDE DEF first
      <4> QED BY <1>6, <4>1
    <3> QED BY <3>1, <3>2, <3>3
  <2> HIDE DEF first
  <2> QED BY <1>3, <1>8, <2>1
<1> QED BY <1>1, <1>2, <1>5, <1>9 DEF c

\* A chunk, whole or torn, says how many pieces it should have and has some of them.
LEMMA TornIsChunk ==
    ASSUME TypeOK, session # 0, Counted, rpc = "write", NEW chunk \in Torn
    PROVE  /\ chunk \in Chunk /\ chunk.key = session
           /\ Len(chunk.data) <= chunk.size
           /\ ReadOf(chunk.data, cache[loaded])
           /\ loaded = measured =>
                 /\ chunk.size = rsize
                 /\ \A i \in DOMAIN chunk.data : i \in DOMAIN cache[loaded]
                                              /\ chunk.data[i] = cache[loaded][i]
<1> DEFINE c == cache[loaded]
<1>1. PICK data \in Read : \E n \in 0..Len(data) :
         chunk = [size |-> Len(data), key |-> session, data |-> SubSeq(data, 1, n)]
  BY DEF Torn
<1>2. PICK n \in 0..Len(data) :
         chunk = [size |-> Len(data), key |-> session, data |-> SubSeq(data, 1, n)]
  BY <1>1
<1>3. loaded \in Files /\ c \in Seq(Piece) /\ ReadOf(data, c)
  BY ReadIsData
<1>4. ReadOf(SubSeq(data, 1, n), c) /\ Len(SubSeq(data, 1, n)) = n
      /\ \A i \in 1..n : SubSeq(data, 1, n)[i] = data[i]
  BY <1>3, FirstOfRead
<1> DEFINE d == SubSeq(data, 1, n)
<1>5. d \in Seq(Piece) /\ data \in Seq(Piece)
  BY <1>3, <1>4 DEF ReadOf
<1>6. session \in 1..MaxSessions /\ Len(data) \in Nat /\ n <= Len(data) /\ DOMAIN d = 1..n
  BY <1>4, <1>5, SinkAssumption DEF TypeOK
<1>7. ASSUME loaded = measured
      PROVE  /\ chunk.size = rsize
             /\ \A i \in DOMAIN d : i \in DOMAIN c /\ d[i] = c[i]
  <2>1. rsize \in 0..Len(c) /\ data = SubSeq(c, 1, rsize)
    BY <1>7, ReadIsData
  <2>2. Len(data) = rsize /\ \A i \in 1..rsize : data[i] = c[i]
    BY <1>3, <2>1, FirstRead
  <2>3. \A i \in 1..n : i \in 1..rsize /\ i \in DOMAIN c
    BY <1>3, <1>6, <2>1, <2>2
  <2> HIDE DEF c
  <2> QED BY <1>2, <1>4, <1>6, <2>2, <2>3
<1> HIDE DEF d
<1>8. chunk = [size |-> Len(data), key |-> session, data |-> d]
  BY <1>2 DEF d
<1>9. chunk \in Chunk /\ chunk.key = session /\ chunk.data = d /\ chunk.size = Len(data)
  BY <1>5, <1>6, <1>8 DEF Chunk
<1>10. Len(d) <= Len(data) /\ ReadOf(d, c)
  BY <1>4, <1>6 DEF d
<1> QED BY <1>7, <1>9, <1>10

\* The last piece of a cache has a key.
LEMMA LastKey ==
    ASSUME TypeOK, NEW f \in Files, cache[f] # <<>>
    PROVE  /\ Len(cache[f]) \in DOMAIN cache[f]
           /\ cache[f][Len(cache[f])].key \in Nat
<1>1. cache[f] \in Seq(Piece)
  BY DEF TypeOK
<1>2. Len(cache[f]) \in DOMAIN cache[f] /\ cache[f][Len(cache[f])] \in Piece
  BY <1>1
<1> QED BY <1>2, SinkAssumption DEF Piece

\* An appended element is the last one.
LEMMA AppendLast ==
    ASSUME NEW S, NEW s \in Seq(S), NEW e
    PROVE  Append(s, e) # <<>> /\ Append(s, e)[Len(Append(s, e))] = e
OBVIOUS

\* The items in the history are items.
LEMMA PushedItems == ASSUME NEW S, pushed \in Seq(S) PROVE PushedSet \subseteq S
BY DEF PushedSet

\* A thread that takes a step is at work, so a process runs.
LEMMA AtWork ==
    ASSUME DownIdle, NEW c \in Clients, pc[c] # "idle"
    PROVE  session # 0
BY DEF DownIdle

-----------------------------------------------------------------------------
(* The parts of the invariant. *)

LEMMA InitInvariant == Init => IInv
<1> SUFFICES ASSUME Init PROVE IInv
  OBVIOUS
<1> USE SinkAssumption DEF Init, Threads
<1>1. TypeOK
  <2>1. /\ master \in Files /\ cache \in [Files -> Seq(Piece)] /\ queue \in Seq(Tasks)
        /\ pushed \in Seq(1..MaxLogs) /\ disk \in [LogNames -> Seq(Chunk)]
    BY DEF Files
  <2>2. /\ pc \in [Threads -> ThreadStates] /\ rpc \in RunnerStates
        /\ op \in [Threads -> {"none", "ctor", "flush", "dtor"}]
    BY DEF ThreadStates, RunnerStates
  <2>3. /\ session \in 0..MaxSessions /\ item \in [Clients -> 0..MaxLogs] /\ rsize \in Nat
        /\ faults \in 0..MaxFaults /\ logged \in 0..MaxLogs /\ flushes \in 0..MaxFlushes
    OBVIOUS
  <2> QED BY <2>1, <2>2, <2>3 DEF TypeOK
<1>2. LockHeld /\ ItemNamed /\ DownIdle /\ HeaderPushed
  BY DEF LockHeld, ItemNamed, DownIdle, HeaderPushed, Locked, Logging
<1>3. KeysPast /\ LastPiece /\ CacheWellFormed
  BY DEF KeysPast, LastPiece, CacheWellFormed
<1>4. Kept
  BY DEF Kept, PushedSet
<1>5. OneMarker /\ QuietBehind /\ QuietWhenGone
  BY DEF OneMarker, QuietBehind, QuietWhenGone, Closing
<1>6. Counted /\ ReadsSlave /\ Alternate /\ EvenSize /\ CachedPushed /\ PushOrder
  BY DEF Counted, ReadsSlave, Alternate, EvenSize, CachedPushed, PushOrder
<1>7. ChunksFormed
  BY DEF ChunksFormed
<1> QED BY <1>1, <1>2, <1>3, <1>4, <1>5, <1>6, <1>7 DEF IInv

\* Types.  A piece has an item and a key for a client that pushes has both; a chunk
\* has a key for the runner is at work.
LEMMA TypeStep == TypeOK /\ ItemNamed /\ DownIdle /\ Counted /\ [Next]_vars => TypeOK'
<1> SUFFICES ASSUME TypeOK, ItemNamed, DownIdle, Counted, [Next]_vars PROVE TypeOK'
  OBVIOUS
<1> USE DEF TypeOK, ItemNamed, ThreadStates, RunnerStates, Tasks, Logging, Move, Call,
        Submit, MoveRunner, thread, runner, locals, files, clients,
        Forget
<1>1. ASSUME NEW t \in Threads, ThreadStep(t) PROVE TypeOK'
  <2>1. CASE CheckSlaveFree(t)  BY <2>1 DEF CheckSlaveFree
  <2>2. CASE ClaimSlave(t)  BY <2>2 DEF ClaimSlave
  <2>3. CASE SwitchCache(t)
    BY <2>3, OtherFile DEF SwitchCache, slave
  <2>4. CASE PostWrite(t)  BY <2>4 DEF PostWrite
  <2>5. CASE PostFirstWrite(t)  BY <2>5 DEF PostFirstWrite
  <2>6. CASE WaitTaskIdle(t)
    <3>1. queue' \in Seq(Tasks)
      BY <2>6 DEF WaitTaskIdle
    <3>2. pc' \in [Threads -> ThreadStates]
      BY ZenonT(40), <2>6 DEF WaitTaskIdle
    <3> QED BY <2>6, <3>1, <3>2 DEF WaitTaskIdle
  <2> QED BY <1>1, <2>1, <2>2, <2>3, <2>4, <2>5, <2>6 DEF ThreadStep
<1>2. ASSUME NEW c \in Clients, Log(c) \/ Flush(c) \/ ClientStep(c) PROVE TypeOK'
  <2>0. c \in Threads  BY DEF Threads
  <2>1. CASE Log(c)  BY <2>0, SinkAssumption, <2>1 DEF Log
  <2>2. CASE Flush(c)
    <3>0. PushedSet \subseteq 1..MaxLogs
      BY PushedItems
    <3>1. due' \in [Clients -> SUBSET (1..MaxLogs)]
      BY <2>2, <3>0 DEF Flush
    <3>2. flushes' \in 0..MaxFlushes
      BY <2>2, SinkAssumption DEF Flush
    <3> QED BY <2>2, <2>0, <3>1, <3>2 DEF Flush
  <2>3. CASE LookAtMaster(c)  BY <2>0, <2>3 DEF LookAtMaster
  <2>4. CASE ResetStream(c)  BY <2>0, <2>4 DEF ResetStream
  <2>5. CASE LogLock(c)  BY <2>0, <2>5 DEF LogLock
  <2>6. CASE Compress(c)
    <3>0. item[c] \in 1..MaxLogs
      BY <2>6, SinkAssumption DEF Compress
    <3>1. damaged' \subseteq 1..MaxLogs
      BY <2>6, <3>0 DEF Compress
    <3> QED BY <2>6, <2>0, <3>1 DEF Compress
  <2>7. CASE Rejected(c)
    <3>1. item' \in [Clients -> 0..MaxLogs]
      BY <2>7, SinkAssumption DEF Rejected
    <3> QED BY <2>0, <2>7, <3>1 DEF Rejected
  <2>8. CASE PushHeader(c)
    <3>1. [item |-> item[c], part |-> "head", key |-> session] \in Piece
      BY <2>8, AtWork, SinkAssumption DEF PushHeader, Piece
    <3>2. cache' \in [Files -> Seq(Piece)]
      BY <2>8, <3>1 DEF PushHeader, Push
    <3> QED BY <2>8, <2>0, <3>2, SMTT(20) DEF PushHeader
  <2>9. CASE PushBody(c)
    <3>1. [item |-> item[c], part |-> "body", key |-> session] \in Piece
      BY <2>9, AtWork, SinkAssumption DEF PushBody, Piece
    <3>2. cache' \in [Files -> Seq(Piece)]
      BY <2>9, <3>1 DEF PushBody, Push
    <3>3. item[c] \in 1..MaxLogs
      BY <2>9, SinkAssumption DEF PushBody
    <3>4. pushed' \in Seq(1..MaxLogs)
      BY <2>9, <3>3 DEF PushBody
    <3>5. item' \in [Clients -> 0..MaxLogs]
      BY <2>9, SinkAssumption DEF PushBody
    <3> QED BY <2>9, <2>0, <3>2, <3>4, <3>5 DEF PushBody
  <2>10. CASE NeedCacheToFile(c)  BY <2>0, <2>10 DEF NeedCacheToFile
  <2>11. CASE FlushReturns(c)  BY <2>0, <2>11 DEF FlushReturns
  <2> QED BY <1>1, <1>2, <2>0, <2>1, <2>2, <2>3, <2>4, <2>5, <2>6, <2>7, <2>8, <2>9,
             <2>10, <2>11 DEF ClientStep
<1>3. ASSUME Construct \/ MainStep \/ Destroy \/ TimerPosts PROVE TypeOK'
  <2>0. Main \in Threads  BY DEF Threads
  <2>1. CASE Construct  BY <2>0, SinkAssumption, <2>1 DEF Construct
  <2>2. CASE LeftoverInSlave  BY <2>0, <2>2 DEF LeftoverInSlave
  <2>3. CASE LeftoverInMaster  BY <2>0, <2>3 DEF LeftoverInMaster
  <2>4. CASE Destroy  BY <2>0, <2>4 DEF Destroy
  <2>5. CASE TimerPosts  BY <2>0, <2>5 DEF TimerPosts
  <2> QED BY <1>1, <1>3, <2>0, <2>1, <2>2, <2>3, <2>4, <2>5 DEF MainStep
<1>4. ASSUME RunnerStep PROVE TypeOK'
  <2>1. CASE NextTask
    <3>1. queue' \in Seq(Tasks) /\ rpc' \in RunnerStates
      BY <2>1 DEF NextTask
    <3>2. pc' \in [Threads -> ThreadStates]
      BY <2>1 DEF NextTask
    <3> QED BY <2>1, <3>1, <3>2 DEF NextTask
  <2>2. CASE WriteCheckFree  BY <2>2 DEF WriteCheckFree
  <2>3. CASE WriteCheckEmpty  BY <2>3 DEF WriteCheckEmpty
  <2>4. CASE ReadSize
    <3>1. loaded \in Files
      BY <2>4 DEF ReadSize, Counted
    <3>2. Len(cache[loaded]) \in Nat
      BY <3>1
    <3> QED BY <2>4, <3>1, <3>2 DEF ReadSize
  <2>5. CASE OpenFile
    <3>1. log_file_path' \in LogNames
      BY <2>5 DEF OpenFile
    <3>2. faults' \in 0..MaxFaults
      BY <2>5, SinkAssumption DEF OpenFile, Faulty
    <3>3. /\ rpc' \in RunnerStates /\ loaded' \in Files \union {"none"}
          /\ measured' \in Files \union {"none"} /\ rsize' \in Nat /\ switched' \in BOOLEAN
      <4>1. CASE rpc' = "load3" /\ UNCHANGED locals
        BY <4>1
      <4>2. CASE rpc' = "idle" /\ Forget
        BY <4>2
      <4> QED BY <2>5, <4>1, <4>2 DEF OpenFile
    <3> QED BY <2>5, <3>1, <3>2, <3>3 DEF OpenFile
  <2>6. CASE WriteChunk
    <3>1. Torn \subseteq Chunk /\ log_file_path \in LogNames
      BY <2>6, TornIsChunk DEF WriteChunk, DownIdle, Counted
    <3>2. faults' \in 0..MaxFaults
      BY <2>6, SinkAssumption DEF WriteChunk, Faulty
    <3>3. disk' \in [LogNames -> Seq(Chunk)]
      BY <2>6, <3>1 DEF WriteChunk, WriteTo
    <3> QED BY <2>6, <3>2, <3>3 DEF WriteChunk
  <2>7. CASE ClearSlave  BY <2>7 DEF ClearSlave
  <2>8. CASE ReleaseSlave  BY <2>8 DEF ReleaseSlave
  <2>9. CASE LoadSlave  BY <2>9, OtherFile DEF LoadSlave, slave
  <2> QED BY <1>4, <2>1, <2>2, <2>3, <2>4, <2>5, <2>6, <2>7, <2>8, <2>9 DEF RunnerStep
<1>5. CASE Crash
  <2>1. disk' \in [LogNames -> Seq(Chunk)]
    <3>1. CASE UNCHANGED disk  BY <3>1
    <3>2. ASSUME rpc = "write", NEW chunk \in Torn, WriteTo(log_file_path, chunk)
          PROVE  disk' \in [LogNames -> Seq(Chunk)]
      <4>1. chunk \in Chunk /\ log_file_path \in LogNames
        BY <1>5, <3>2, TornIsChunk DEF Crash, DownIdle, Counted
      <4> QED BY <3>2, <4>1 DEF WriteTo
    <3> QED BY <1>5, <3>1, <3>2 DEF Crash
  <2>2. master' \in Files
    BY <1>5 DEF Crash, Files
  <2>3. /\ queue' \in Seq(Tasks) /\ mutex' = {} /\ rpc' \in RunnerStates
        /\ is_slave_free' \in BOOLEAN /\ log_file_path' \in LogNames \union {"none"}
    BY <1>5 DEF Crash
  <2>4. /\ pc' \in [Threads -> ThreadStates]
        /\ op' \in [Threads -> {"none", "ctor", "flush", "dtor"}]
    BY <1>5 DEF Crash
  <2>5. /\ item' \in [Clients -> 0..MaxLogs] /\ due' \in [Clients -> SUBSET (1..MaxLogs)]
    BY <1>5, SinkAssumption DEF Crash
  <2>6. /\ loaded' \in Files \union {"none"} /\ measured' \in Files \union {"none"}
        /\ rsize' \in Nat /\ switched' \in BOOLEAN
    BY <1>5 DEF Crash
  <2>7. UNCHANGED <<session, cache, faults, damaged, logged, flushes, pushed>>
    BY <1>5 DEF Crash
  <2> QED BY <2>1, <2>2, <2>3, <2>4, <2>5, <2>6, <2>7
<1>6. CASE UNCHANGED vars  BY <1>6 DEF vars
<1> QED BY <1>1, <1>2, <1>3, <1>4, <1>5, <1>6 DEF Next

\* Log numbers the item before it does anything with it.
LEMMA ItemStep == TypeOK /\ ItemNamed /\ [Next]_vars => ItemNamed'
<1> SUFFICES ASSUME TypeOK, ItemNamed, [Next]_vars PROVE ItemNamed'
  OBVIOUS
<1> USE SinkAssumption DEF TypeOK, ItemNamed, Logging, Threads, Move, Call, Submit,
        MoveRunner, thread, runner, locals, files, clients,
        Forget
<1>1. ASSUME NEW t \in Threads, ThreadStep(t) PROVE ItemNamed'
  <2>1. CASE CheckSlaveFree(t)  BY <2>1 DEF CheckSlaveFree
  <2>2. CASE ClaimSlave(t)  BY <2>2 DEF ClaimSlave
  <2>3. CASE SwitchCache(t)  BY <2>3 DEF SwitchCache
  <2>4. CASE PostWrite(t)  BY <2>4 DEF PostWrite
  <2>5. CASE PostFirstWrite(t)  BY <2>5 DEF PostFirstWrite
  <2>6. CASE WaitTaskIdle(t)  BY <2>6 DEF WaitTaskIdle
  <2> QED BY <1>1, <2>1, <2>2, <2>3, <2>4, <2>5, <2>6 DEF ThreadStep
<1>2. ASSUME NEW c \in Clients, Log(c) \/ Flush(c) \/ ClientStep(c) PROVE ItemNamed'
  <2>0. c \in Threads  BY DEF Threads
  <2>1. CASE Log(c)  BY <2>0, <2>1 DEF Log
  <2>2. CASE Flush(c)  BY <2>0, <2>2 DEF Flush
  <2>3. CASE LookAtMaster(c)  BY <2>0, <2>3 DEF LookAtMaster
  <2>4. CASE ResetStream(c)  BY <2>0, <2>4 DEF ResetStream
  <2>5. CASE LogLock(c)  BY <2>0, <2>5 DEF LogLock
  <2>6. CASE Compress(c)  BY <2>0, <2>6 DEF Compress
  <2>7. CASE Rejected(c)  BY <2>0, <2>7 DEF Rejected
  <2>8. CASE PushHeader(c)  BY <2>0, <2>8 DEF PushHeader
  <2>9. CASE PushBody(c)  BY <2>0, <2>9 DEF PushBody
  <2>10. CASE NeedCacheToFile(c)  BY <2>0, <2>10 DEF NeedCacheToFile
  <2>11. CASE FlushReturns(c)  BY <2>0, <2>11 DEF FlushReturns
  <2> QED BY <1>1, <1>2, <2>0, <2>1, <2>2, <2>3, <2>4, <2>5, <2>6, <2>7, <2>8, <2>9,
             <2>10, <2>11 DEF ClientStep
<1>3. ASSUME Construct \/ MainStep \/ Destroy \/ TimerPosts PROVE ItemNamed'
  <2>0. Main \in Threads  BY DEF Threads
  <2>1. CASE Construct  BY <2>0, <2>1 DEF Construct
  <2>2. CASE LeftoverInSlave  BY <2>0, <2>2 DEF LeftoverInSlave
  <2>3. CASE LeftoverInMaster  BY <2>0, <2>3 DEF LeftoverInMaster
  <2>4. CASE Destroy  BY <2>0, <2>4 DEF Destroy
  <2>5. CASE TimerPosts  BY <2>0, <2>5 DEF TimerPosts
  <2> QED BY <1>1, <1>3, <2>0, <2>1, <2>2, <2>3, <2>4, <2>5 DEF MainStep
<1>4. ASSUME RunnerStep PROVE ItemNamed'
  <2>1. CASE NextTask  BY <2>1 DEF NextTask
  <2>2. CASE WriteCheckFree  BY <2>2 DEF WriteCheckFree
  <2>3. CASE WriteCheckEmpty  BY <2>3 DEF WriteCheckEmpty
  <2>4. CASE ReadSize  BY <2>4 DEF ReadSize
  <2>5. CASE OpenFile  BY <2>5 DEF OpenFile
  <2>6. CASE WriteChunk  BY <2>6 DEF WriteChunk
  <2>7. CASE ClearSlave  BY <2>7 DEF ClearSlave
  <2>8. CASE ReleaseSlave  BY <2>8 DEF ReleaseSlave
  <2>9. CASE LoadSlave  BY <2>9 DEF LoadSlave
  <2> QED BY <1>4, <2>1, <2>2, <2>3, <2>4, <2>5, <2>6, <2>7, <2>8, <2>9 DEF RunnerStep
<1>5. CASE Crash  BY <1>5 DEF Crash
<1>6. CASE UNCHANGED vars  BY <1>6 DEF vars
<1> QED BY <1>1, <1>2, <1>3, <1>4, <1>5, <1>6 DEF Next

\* Only LogLock takes mutex_, and it waits for it.
LEMMA LockStep == TypeOK /\ LockHeld /\ [Next]_vars => LockHeld'
<1> SUFFICES ASSUME TypeOK, LockHeld, [Next]_vars PROVE LockHeld'
  OBVIOUS
<1> USE SinkAssumption DEF TypeOK, LockHeld, Locked, Threads, Move, Call, Submit,
        MoveRunner, thread, runner, locals, files, clients,
        Forget
<1>1. ASSUME NEW t \in Threads, ThreadStep(t) PROVE LockHeld'
  <2>1. CASE CheckSlaveFree(t)  BY <2>1 DEF CheckSlaveFree
  <2>2. CASE ClaimSlave(t)  BY <2>2 DEF ClaimSlave
  <2>3. CASE SwitchCache(t)  BY <2>3 DEF SwitchCache
  <2>4. CASE PostWrite(t)  BY <2>4 DEF PostWrite
  <2>5. CASE PostFirstWrite(t)  BY <2>5 DEF PostFirstWrite
  <2>6. CASE WaitTaskIdle(t)  BY <2>6 DEF WaitTaskIdle
  <2> QED BY <1>1, <2>1, <2>2, <2>3, <2>4, <2>5, <2>6 DEF ThreadStep
<1>2. ASSUME NEW c \in Clients, Log(c) \/ Flush(c) \/ ClientStep(c) PROVE LockHeld'
  <2>0. c \in Threads  BY DEF Threads
  <2>1. CASE Log(c)  BY <2>0, <2>1 DEF Log
  <2>2. CASE Flush(c)  BY <2>0, <2>2 DEF Flush
  <2>3. CASE LookAtMaster(c)  BY <2>0, <2>3 DEF LookAtMaster
  <2>4. CASE ResetStream(c)  BY <2>0, <2>4 DEF ResetStream
  <2>5. CASE LogLock(c)  BY <2>0, <2>5 DEF LogLock
  <2>6. CASE Compress(c)  BY <2>0, <2>6 DEF Compress
  <2>7. CASE Rejected(c)  BY <2>0, <2>7 DEF Rejected
  <2>8. CASE PushHeader(c)  BY <2>0, <2>8 DEF PushHeader
  <2>9. CASE PushBody(c)  BY <2>0, <2>9 DEF PushBody
  <2>10. CASE NeedCacheToFile(c)  BY <2>0, <2>10 DEF NeedCacheToFile
  <2>11. CASE FlushReturns(c)  BY <2>0, <2>11 DEF FlushReturns
  <2> QED BY <1>1, <1>2, <2>0, <2>1, <2>2, <2>3, <2>4, <2>5, <2>6, <2>7, <2>8, <2>9,
             <2>10, <2>11 DEF ClientStep
<1>3. ASSUME Construct \/ MainStep \/ Destroy \/ TimerPosts PROVE LockHeld'
  <2>0. Main \in Threads  BY DEF Threads
  <2>1. CASE Construct  BY <2>0, <2>1 DEF Construct
  <2>2. CASE LeftoverInSlave  BY <2>0, <2>2 DEF LeftoverInSlave
  <2>3. CASE LeftoverInMaster  BY <2>0, <2>3 DEF LeftoverInMaster
  <2>4. CASE Destroy  BY <2>0, <2>4 DEF Destroy
  <2>5. CASE TimerPosts  BY <2>0, <2>5 DEF TimerPosts
  <2> QED BY <1>1, <1>3, <2>0, <2>1, <2>2, <2>3, <2>4, <2>5 DEF MainStep
<1>4. ASSUME RunnerStep PROVE LockHeld'
  <2>1. CASE NextTask  BY <2>1 DEF NextTask
  <2>2. CASE WriteCheckFree  BY <2>2 DEF WriteCheckFree
  <2>3. CASE WriteCheckEmpty  BY <2>3 DEF WriteCheckEmpty
  <2>4. CASE ReadSize  BY <2>4 DEF ReadSize
  <2>5. CASE OpenFile  BY <2>5 DEF OpenFile
  <2>6. CASE WriteChunk  BY <2>6 DEF WriteChunk
  <2>7. CASE ClearSlave  BY <2>7 DEF ClearSlave
  <2>8. CASE ReleaseSlave  BY <2>8 DEF ReleaseSlave
  <2>9. CASE LoadSlave  BY <2>9 DEF LoadSlave
  <2> QED BY <1>4, <2>1, <2>2, <2>3, <2>4, <2>5, <2>6, <2>7, <2>8, <2>9 DEF RunnerStep
<1>5. CASE Crash  BY <1>5 DEF Crash
<1>6. CASE UNCHANGED vars  BY <1>6 DEF vars
<1> QED BY <1>1, <1>2, <1>3, <1>4, <1>5, <1>6 DEF Next

\* Calls and tasks begin only while the sink is up.
LEMMA DownStep == TypeOK /\ DownIdle /\ [Next]_vars => DownIdle'
<1> SUFFICES ASSUME TypeOK, DownIdle, [Next]_vars PROVE DownIdle'
  OBVIOUS
<1> USE SinkAssumption DEF TypeOK, DownIdle, Threads, Move, Call, Submit, MoveRunner,
        thread, runner, locals, files, clients,
        Forget
<1>1. ASSUME NEW t \in Threads, ThreadStep(t) PROVE DownIdle'
  <2>1. CASE CheckSlaveFree(t)  BY <2>1 DEF CheckSlaveFree
  <2>2. CASE ClaimSlave(t)  BY <2>2 DEF ClaimSlave
  <2>3. CASE SwitchCache(t)  BY <2>3 DEF SwitchCache
  <2>4. CASE PostWrite(t)  BY <2>4 DEF PostWrite
  <2>5. CASE PostFirstWrite(t)  BY <2>5 DEF PostFirstWrite
  <2>6. CASE WaitTaskIdle(t)
    <3>1. pc[Main] # "down"
      BY <2>6 DEF WaitTaskIdle
    <3>2. pc'[Main] # "down" /\ session' = session
      BY <2>6, <3>1 DEF WaitTaskIdle
    <3> QED BY <3>1, <3>2
  <2> QED BY <1>1, <2>1, <2>2, <2>3, <2>4, <2>5, <2>6 DEF ThreadStep
<1>2. ASSUME NEW c \in Clients, Log(c) \/ Flush(c) \/ ClientStep(c) PROVE DownIdle'
  <2>0. c \in Threads  BY DEF Threads
  <2>1. CASE Log(c)  BY <2>0, <2>1 DEF Log
  <2>2. CASE Flush(c)  BY <2>0, <2>2 DEF Flush
  <2>3. CASE LookAtMaster(c)  BY <2>0, <2>3 DEF LookAtMaster
  <2>4. CASE ResetStream(c)  BY <2>0, <2>4 DEF ResetStream
  <2>5. CASE LogLock(c)  BY <2>0, <2>5 DEF LogLock
  <2>6. CASE Compress(c)  BY <2>0, <2>6 DEF Compress
  <2>7. CASE Rejected(c)  BY <2>0, <2>7 DEF Rejected
  <2>8. CASE PushHeader(c)  BY <2>0, <2>8 DEF PushHeader
  <2>9. CASE PushBody(c)  BY <2>0, <2>9 DEF PushBody
  <2>10. CASE NeedCacheToFile(c)  BY <2>0, <2>10 DEF NeedCacheToFile
  <2>11. CASE FlushReturns(c)  BY <2>0, <2>11 DEF FlushReturns
  <2> QED BY <1>1, <1>2, <2>0, <2>1, <2>2, <2>3, <2>4, <2>5, <2>6, <2>7, <2>8, <2>9,
             <2>10, <2>11 DEF ClientStep
<1>3. ASSUME Construct \/ MainStep \/ Destroy \/ TimerPosts PROVE DownIdle'
  <2>0. Main \in Threads  BY DEF Threads
  <2>1. CASE Construct  BY <2>0, <2>1 DEF Construct
  <2>2. CASE LeftoverInSlave  BY <2>0, <2>2 DEF LeftoverInSlave
  <2>3. CASE LeftoverInMaster  BY <2>0, <2>3 DEF LeftoverInMaster
  <2>4. CASE Destroy  BY <2>0, <2>4 DEF Destroy
  <2>5. CASE TimerPosts  BY <2>0, <2>5 DEF TimerPosts
  <2> QED BY <1>1, <1>3, <2>0, <2>1, <2>2, <2>3, <2>4, <2>5 DEF MainStep
<1>4. ASSUME RunnerStep PROVE DownIdle'
  <2>1. CASE NextTask
    <3>1. pc[Main] # "down"
      BY <2>1 DEF NextTask
    <3>2. pc'[Main] # "down" /\ session' = session
      BY <2>1, <3>1 DEF NextTask
    <3> QED BY <3>1, <3>2
  <2>2. CASE WriteCheckFree  BY <2>2 DEF WriteCheckFree
  <2>3. CASE WriteCheckEmpty  BY <2>3 DEF WriteCheckEmpty
  <2>4. CASE ReadSize  BY <2>4 DEF ReadSize
  <2>5. CASE OpenFile  BY <2>5 DEF OpenFile
  <2>6. CASE WriteChunk  BY <2>6 DEF WriteChunk
  <2>7. CASE ClearSlave  BY <2>7 DEF ClearSlave
  <2>8. CASE ReleaseSlave  BY <2>8 DEF ReleaseSlave
  <2>9. CASE LoadSlave  BY <2>9 DEF LoadSlave
  <2> QED BY <1>4, <2>1, <2>2, <2>3, <2>4, <2>5, <2>6, <2>7, <2>8, <2>9 DEF RunnerStep
<1>5. CASE Crash
  <2>1. pc'[Main] = "down" /\ \A c \in Clients : pc'[c] = "idle"
    BY <1>5 DEF Crash
  <2>2. queue' = <<>> /\ rpc' = "idle"
    BY <1>5 DEF Crash
  <2> QED BY <2>1, <2>2
<1>6. CASE UNCHANGED vars  BY <1>6 DEF vars
<1> QED BY <1>1, <1>2, <1>3, <1>4, <1>5, <1>6 DEF Next

\* Whoever is between its two pushes holds mutex_: nobody else pushes or switches.
LEMMA HeaderStep == TypeOK /\ LockHeld /\ DownIdle /\ HeaderPushed /\ [Next]_vars => HeaderPushed'
<1> SUFFICES ASSUME TypeOK, LockHeld, DownIdle, HeaderPushed, [Next]_vars PROVE HeaderPushed'
  OBVIOUS
<1> USE SinkAssumption DEF TypeOK, LockHeld, Locked, HeaderPushed, Pending, Threads, Move,
        Call, Submit, MoveRunner, thread, runner, locals, files, clients,
        Forget
<1>1. ASSUME NEW t \in Threads, ThreadStep(t) PROVE HeaderPushed'
  <2>1. CASE CheckSlaveFree(t)  BY <2>1 DEF CheckSlaveFree
  <2>2. CASE ClaimSlave(t)  BY <2>2 DEF ClaimSlave
  <2>3. CASE SwitchCache(t)  BY <2>3 DEF SwitchCache
  <2>4. CASE PostWrite(t)  BY <2>4 DEF PostWrite
  <2>5. CASE PostFirstWrite(t)  BY <2>5 DEF PostFirstWrite
  <2>6. CASE WaitTaskIdle(t)  BY <2>6 DEF WaitTaskIdle
  <2> QED BY <1>1, <2>1, <2>2, <2>3, <2>4, <2>5, <2>6 DEF ThreadStep
<1>2. ASSUME NEW c \in Clients, Log(c) \/ Flush(c) \/ ClientStep(c) PROVE HeaderPushed'
  <2>0. c \in Threads  BY DEF Threads
  <2>1. CASE Log(c)  BY <2>0, <2>1 DEF Log
  <2>2. CASE Flush(c)  BY <2>0, <2>2 DEF Flush
  <2>3. CASE LookAtMaster(c)  BY <2>0, <2>3 DEF LookAtMaster
  <2>4. CASE ResetStream(c)  BY <2>0, <2>4 DEF ResetStream
  <2>5. CASE LogLock(c)  BY <2>0, <2>5 DEF LogLock
  <2>6. CASE Compress(c)  BY <2>0, <2>6 DEF Compress
  <2>7. CASE Rejected(c)  BY <2>0, <2>7 DEF Rejected
  <2>8. CASE PushHeader(c)
    <3>1. cache[master] \in Seq(Piece) /\ master \in Files /\ cache \in [Files -> Seq(Piece)]
      OBVIOUS
    <3>2. cache'[master] = Append(cache[master], Pending(c))
      BY <2>8, <3>1 DEF PushHeader, Push, Pending
    <3>6. \A e : /\ Append(cache[master], e) # <<>>
                 /\ Append(cache[master], e)[Len(Append(cache[master], e))] = e
      BY <3>1, AppendLast
    <3>3. cache'[master] # <<>> /\ cache'[master][Len(cache'[master])] = Pending(c)
      BY <3>2, <3>6
    <3>4. \A d \in Clients : pc'[d] = "body" => d = c
      BY <2>8, <2>0 DEF PushHeader
    <3>5. UNCHANGED <<master, session, item>> /\ Pending(c)' = Pending(c)
      BY <2>8 DEF PushHeader, Pending
    <3> QED BY <3>3, <3>4, <3>5
  <2>9. CASE PushBody(c)  BY ZenonT(40), <2>0, <2>9 DEF PushBody
  <2>10. CASE NeedCacheToFile(c)  BY <2>0, <2>10 DEF NeedCacheToFile
  <2>11. CASE FlushReturns(c)  BY <2>0, <2>11 DEF FlushReturns
  <2> QED BY <1>1, <1>2, <2>0, <2>1, <2>2, <2>3, <2>4, <2>5, <2>6, <2>7, <2>8, <2>9,
             <2>10, <2>11 DEF ClientStep
<1>3. ASSUME Construct \/ MainStep \/ Destroy \/ TimerPosts PROVE HeaderPushed'
  <2>0. Main \in Threads  BY DEF Threads
  <2>1. CASE Construct
    BY <2>1 DEF Construct, DownIdle
  <2>2. CASE LeftoverInSlave  BY <2>0, <2>2 DEF LeftoverInSlave
  <2>3. CASE LeftoverInMaster  BY <2>0, <2>3 DEF LeftoverInMaster
  <2>4. CASE Destroy  BY <2>0, <2>4 DEF Destroy
  <2>5. CASE TimerPosts  BY <2>0, <2>5 DEF TimerPosts
  <2> QED BY <1>1, <1>3, <2>0, <2>1, <2>2, <2>3, <2>4, <2>5 DEF MainStep
<1>4. ASSUME RunnerStep PROVE HeaderPushed'
  <2>1. CASE NextTask  BY <2>1 DEF NextTask
  <2>2. CASE WriteCheckFree  BY <2>2 DEF WriteCheckFree
  <2>3. CASE WriteCheckEmpty  BY <2>3 DEF WriteCheckEmpty
  <2>4. CASE ReadSize  BY <2>4 DEF ReadSize
  <2>5. CASE OpenFile  BY <2>5 DEF OpenFile
  <2>6. CASE WriteChunk  BY <2>6 DEF WriteChunk
  <2>7. CASE ClearSlave  BY <2>7 DEF ClearSlave
  <2>8. CASE ReleaseSlave  BY <2>8 DEF ReleaseSlave
  <2>9. CASE LoadSlave  BY <2>9 DEF LoadSlave
  <2> QED BY <1>4, <2>1, <2>2, <2>3, <2>4, <2>5, <2>6, <2>7, <2>8, <2>9 DEF RunnerStep
<1>5. CASE Crash  BY <1>5 DEF Crash
<1>6. CASE UNCHANGED vars  BY <1>6 DEF vars
<1> QED BY <1>1, <1>2, <1>3, <1>4, <1>5, <1>6 DEF Next

\* A task that is nobody's marker joins the queue.
LEMMA OtherQueued ==
    ASSUME TypeOK, OneMarker, NEW task, task # Main, Submit(task),
           pc[Main] \in Waiting => pc'[Main] \in Waiting
    PROVE  OneMarker'
<1>1. queue \in Seq(Tasks)
  BY DEF TypeOK
<1>2. /\ DOMAIN queue = 1 .. Len(queue) /\ Len(queue) \in Nat
      /\ DOMAIN queue' = 1 .. Len(queue) + 1
      /\ queue'[Len(queue) + 1] = task
      /\ \A i \in DOMAIN queue : queue'[i] = queue[i]
  BY <1>1 DEF Submit
<1>3. \A i \in DOMAIN queue' : queue'[i] = Main => i \in DOMAIN queue /\ queue[i] = Main
  BY <1>2
<1> QED BY <1>3 DEF OneMarker

\* Main posts its marker and waits.
LEMMA MarkerStep == TypeOK /\ OneMarker /\ [Next]_vars => OneMarker'
<1> SUFFICES ASSUME TypeOK, OneMarker, [Next]_vars PROVE OneMarker'
  OBVIOUS
<1> USE SinkAssumption DEF TypeOK, OneMarker, Waiting, Threads, Move, Call, Submit,
        MoveRunner, thread, runner, locals, files, clients,
        Forget
<1>1. ASSUME NEW t \in Threads, ThreadStep(t) PROVE OneMarker'
  <2>1. CASE CheckSlaveFree(t)  BY <2>1 DEF CheckSlaveFree
  <2>2. CASE ClaimSlave(t)  BY <2>2 DEF ClaimSlave
  <2>3. CASE SwitchCache(t)  BY <2>3 DEF SwitchCache
  <2>4. CASE PostWrite(t)
    <3>1. Submit("write") /\ "write" # Main
      BY <2>4 DEF PostWrite
    <3>2. pc[Main] \in Waiting => pc'[Main] \in Waiting
      BY <2>4 DEF PostWrite
    <3> QED BY <3>1, <3>2, OtherQueued
  <2>5. CASE PostFirstWrite(t)
    <3>1. Submit("write") /\ "write" # Main
      BY <2>5 DEF PostFirstWrite
    <3>2. pc[Main] \in Waiting => pc'[Main] \in Waiting
      BY <2>5 DEF PostFirstWrite
    <3> QED BY <3>1, <3>2, OtherQueued
  <2>6. CASE WaitTaskIdle(t)
    <3>1. queue' = Append(queue, t) /\ queue \in Seq(Tasks) /\ t \in Tasks
      BY <2>6 DEF WaitTaskIdle, Tasks
    <3>2. /\ Len(queue') = Len(queue) + 1 /\ DOMAIN queue' = 1 .. Len(queue) + 1
          /\ Len(queue) \in Nat /\ DOMAIN queue = 1 .. Len(queue)
          /\ queue'[Len(queue) + 1] = t
          /\ \A i \in DOMAIN queue : queue'[i] = queue[i]
          /\ \A i \in DOMAIN queue' : i \in DOMAIN queue \/ i = Len(queue) + 1
      BY <3>1, SMTT(20)
    <3>3. CASE t = Main
      <4>1. \A i \in DOMAIN queue : queue[i] # Main
        BY <2>6, <3>3 DEF WaitTaskIdle
      <4>2. pc'[Main] \in Waiting
        BY <2>6, <3>3 DEF WaitTaskIdle
      <4>3. \A i \in DOMAIN queue' : queue'[i] = Main => i = Len(queue) + 1
        BY <3>2, <4>1
      <4> QED BY <4>2, <4>3
    <3>4. CASE t # Main
      <4>1. pc'[Main] = pc[Main]
        BY <2>6, <3>4 DEF WaitTaskIdle
      <4>2. \A i \in DOMAIN queue' : queue'[i] = Main => i \in DOMAIN queue /\ queue[i] = Main
        BY <3>2, <3>4
      <4> QED BY <4>1, <4>2
    <3> QED BY <3>3, <3>4
  <2> QED BY <1>1, <2>1, <2>2, <2>3, <2>4, <2>5, <2>6 DEF ThreadStep
<1>2. ASSUME NEW c \in Clients, Log(c) \/ Flush(c) \/ ClientStep(c) PROVE OneMarker'
  <2>0. c \in Threads  BY DEF Threads
  <2>1. CASE Log(c)  BY <2>0, <2>1 DEF Log
  <2>2. CASE Flush(c)  BY <2>0, <2>2 DEF Flush
  <2>3. CASE LookAtMaster(c)  BY <2>0, <2>3 DEF LookAtMaster
  <2>4. CASE ResetStream(c)  BY <2>0, <2>4 DEF ResetStream
  <2>5. CASE LogLock(c)  BY <2>0, <2>5 DEF LogLock
  <2>6. CASE Compress(c)  BY <2>0, <2>6 DEF Compress
  <2>7. CASE Rejected(c)  BY <2>0, <2>7 DEF Rejected
  <2>8. CASE PushHeader(c)  BY <2>0, <2>8 DEF PushHeader
  <2>9. CASE PushBody(c)  BY <2>0, <2>9 DEF PushBody
  <2>10. CASE NeedCacheToFile(c)  BY <2>0, <2>10 DEF NeedCacheToFile
  <2>11. CASE FlushReturns(c)  BY <2>0, <2>11 DEF FlushReturns
  <2> QED BY <1>1, <1>2, <2>0, <2>1, <2>2, <2>3, <2>4, <2>5, <2>6, <2>7, <2>8, <2>9,
             <2>10, <2>11 DEF ClientStep
<1>3. ASSUME Construct \/ MainStep \/ Destroy \/ TimerPosts PROVE OneMarker'
  <2>0. Main \in Threads  BY DEF Threads
  <2>1. CASE Construct  BY <2>0, <2>1 DEF Construct
  <2>2. CASE LeftoverInSlave  BY <2>0, <2>2 DEF LeftoverInSlave
  <2>3. CASE LeftoverInMaster  BY <2>0, <2>3 DEF LeftoverInMaster
  <2>4. CASE Destroy  BY <2>0, <2>4 DEF Destroy
  <2>5. CASE TimerPosts
    <3>1. Submit("eliminate") /\ "eliminate" # Main
      BY <2>5 DEF TimerPosts
    <3>2. pc'[Main] = pc[Main]
      BY <2>5 DEF TimerPosts
    <3> QED BY <3>1, <3>2, OtherQueued
  <2> QED BY <1>1, <1>3, <2>0, <2>1, <2>2, <2>3, <2>4, <2>5 DEF MainStep
<1>4. ASSUME RunnerStep PROVE OneMarker'
  <2>1. CASE NextTask  BY SMTT(20), <2>1 DEF NextTask
  <2>2. CASE WriteCheckFree  BY <2>2 DEF WriteCheckFree
  <2>3. CASE WriteCheckEmpty  BY <2>3 DEF WriteCheckEmpty
  <2>4. CASE ReadSize  BY <2>4 DEF ReadSize
  <2>5. CASE OpenFile  BY <2>5 DEF OpenFile
  <2>6. CASE WriteChunk  BY <2>6 DEF WriteChunk
  <2>7. CASE ClearSlave  BY <2>7 DEF ClearSlave
  <2>8. CASE ReleaseSlave  BY <2>8 DEF ReleaseSlave
  <2>9. CASE LoadSlave  BY <2>9 DEF LoadSlave
  <2> QED BY <1>4, <2>1, <2>2, <2>3, <2>4, <2>5, <2>6, <2>7, <2>8, <2>9 DEF RunnerStep
<1>5. CASE Crash  BY <1>5 DEF Crash
<1>6. CASE UNCHANGED vars  BY <1>6 DEF vars
<1> QED BY <1>1, <1>2, <1>3, <1>4, <1>5, <1>6 DEF Next

-----------------------------------------------------------------------------
(* The caches. *)

\* What Push does: one more piece in the master cache.
Grown(c, part) ==
    /\ \A f \in Files : f # master => cache'[f] = cache[f]
    /\ \A i \in DOMAIN cache[master] : cache'[master][i] = cache[master][i]
    /\ Len(cache[master]) \in Nat
    /\ DOMAIN cache[master] = 1 .. Len(cache[master])
    /\ Len(cache'[master]) = Len(cache[master]) + 1
    /\ cache'[master][Len(cache[master]) + 1]
          = [item |-> item[c], part |-> part, key |-> session]
    /\ \A i : i \in DOMAIN cache'[master]
                 <=> i \in DOMAIN cache[master] \/ i = Len(cache[master]) + 1

\* Push appends.
LEMMA PushEffect ==
    ASSUME TypeOK, NEW c, NEW part, Push(c, part)
    PROVE  Grown(c, part)
<1> DEFINE s == cache[master]
           e == [item |-> item[c], part |-> part, key |-> session]
<1>1. s \in Seq(Piece) /\ master \in Files /\ cache \in [Files -> Seq(Piece)]
  BY DEF TypeOK
<1>2. cache'[master] = Append(s, e) /\ \A f \in Files : f # master => cache'[f] = cache[f]
  BY <1>1 DEF Push
<1> HIDE DEF e, s
<1>3. /\ Len(s) \in Nat /\ DOMAIN s = 1 .. Len(s)
      /\ Len(Append(s, e)) = Len(s) + 1 /\ DOMAIN Append(s, e) = 1 .. Len(s) + 1
      /\ Append(s, e)[Len(s) + 1] = e
      /\ \A i \in 1 .. Len(s) : Append(s, e)[i] = s[i]
  BY <1>1
<1>4. \A i : i \in 1 .. Len(s) + 1 <=> i \in 1 .. Len(s) \/ i = Len(s) + 1
  BY <1>3
<1> QED BY <1>2, <1>3, <1>4 DEF e, s, Grown

\* What a step does to the cache files, the history of the pushes and the key pair.
CacheStep ==
    \/ UNCHANGED <<cache, pushed>> /\ session' >= session
    \/ \E d \in Clients : PushHeader(d) \/ PushBody(d)

\* The cache files and the history change in the two pushes of Log only, and a key
\* pair is not used again.
LEMMA CacheSteps == TypeOK /\ [Next]_vars => CacheStep
<1> SUFFICES ASSUME TypeOK, [Next]_vars PROVE CacheStep
  OBVIOUS
<1> USE DEF TypeOK, CacheStep, Move, Call, Submit, MoveRunner, thread, runner, locals, files, clients,
        Forget
<1>1. ASSUME NEW t \in Threads, ThreadStep(t) PROVE CacheStep
  <2>1. CASE CheckSlaveFree(t)  BY <2>1 DEF CheckSlaveFree
  <2>2. CASE ClaimSlave(t)  BY <2>2 DEF ClaimSlave
  <2>3. CASE SwitchCache(t)  BY <2>3 DEF SwitchCache
  <2>4. CASE PostWrite(t)  BY <2>4 DEF PostWrite
  <2>5. CASE PostFirstWrite(t)  BY <2>5 DEF PostFirstWrite
  <2>6. CASE WaitTaskIdle(t)  BY <2>6 DEF WaitTaskIdle
  <2> QED BY <1>1, <2>1, <2>2, <2>3, <2>4, <2>5, <2>6 DEF ThreadStep
<1>2. ASSUME NEW c \in Clients, Log(c) \/ Flush(c) \/ ClientStep(c) PROVE CacheStep
  <2>0. c \in Threads  BY DEF Threads
  <2>1. CASE Log(c)  BY <2>0, <2>1 DEF Log
  <2>2. CASE Flush(c)  BY <2>0, <2>2 DEF Flush
  <2>3. CASE LookAtMaster(c)  BY <2>0, <2>3 DEF LookAtMaster
  <2>4. CASE ResetStream(c)  BY <2>0, <2>4 DEF ResetStream
  <2>5. CASE LogLock(c)  BY <2>0, <2>5 DEF LogLock
  <2>6. CASE Compress(c)  BY <2>0, <2>6 DEF Compress
  <2>7. CASE Rejected(c)  BY <2>0, <2>7 DEF Rejected
  <2>8. CASE PushHeader(c)  BY <2>0, <2>8 DEF PushHeader
  <2>9. CASE PushBody(c)  BY <2>0, <2>9 DEF PushBody
  <2>10. CASE NeedCacheToFile(c)  BY <2>0, <2>10 DEF NeedCacheToFile
  <2>11. CASE FlushReturns(c)  BY <2>0, <2>11 DEF FlushReturns
  <2> QED BY <1>1, <1>2, <2>0, <2>1, <2>2, <2>3, <2>4, <2>5, <2>6, <2>7, <2>8, <2>9,
             <2>10, <2>11 DEF ClientStep
<1>3. ASSUME Construct \/ MainStep \/ Destroy \/ TimerPosts PROVE CacheStep
  <2>0. Main \in Threads  BY DEF Threads
  <2>1. CASE Construct  BY <2>0, <2>1 DEF Construct
  <2>2. CASE LeftoverInSlave  BY <2>0, <2>2 DEF LeftoverInSlave
  <2>3. CASE LeftoverInMaster  BY <2>0, <2>3 DEF LeftoverInMaster
  <2>4. CASE Destroy  BY <2>0, <2>4 DEF Destroy
  <2>5. CASE TimerPosts  BY <2>0, <2>5 DEF TimerPosts
  <2> QED BY <1>1, <1>3, <2>0, <2>1, <2>2, <2>3, <2>4, <2>5 DEF MainStep
<1>4. ASSUME RunnerStep PROVE CacheStep
  <2>1. CASE NextTask  BY <2>1 DEF NextTask
  <2>2. CASE WriteCheckFree  BY <2>2 DEF WriteCheckFree
  <2>3. CASE WriteCheckEmpty  BY <2>3 DEF WriteCheckEmpty
  <2>4. CASE ReadSize  BY <2>4 DEF ReadSize
  <2>5. CASE OpenFile  BY <2>5 DEF OpenFile
  <2>6. CASE WriteChunk  BY <2>6 DEF WriteChunk
  <2>7. CASE ClearSlave  BY <2>7 DEF ClearSlave
  <2>8. CASE ReleaseSlave  BY <2>8 DEF ReleaseSlave
  <2>9. CASE LoadSlave  BY <2>9 DEF LoadSlave
  <2> QED BY <1>4, <2>1, <2>2, <2>3, <2>4, <2>5, <2>6, <2>7, <2>8, <2>9 DEF RunnerStep
<1>5. CASE Crash  BY <1>5 DEF Crash
<1>6. CASE UNCHANGED vars  BY <1>6 DEF vars
<1> QED BY <1>1, <1>2, <1>3, <1>4, <1>5, <1>6 DEF Next

\* A push carries the present key, and keys do not come back.
LEMMA KeysStep == TypeOK /\ TypeOK' /\ KeysPast /\ [Next]_vars => KeysPast'
<1> SUFFICES ASSUME TypeOK, TypeOK', KeysPast, [Next]_vars PROVE KeysPast'
  OBVIOUS
<1>0. session \in Nat /\ \A f \in Files : \A i \in DOMAIN cache[f] : cache[f][i].key \in Nat
  <2>1. \A p \in Piece : p.key \in Nat
    BY SinkAssumption DEF Piece
  <2> QED BY SMTT(20), <2>1, SinkAssumption DEF TypeOK
<1>1. CASE UNCHANGED <<cache, pushed>> /\ session' >= session
  <2>1. session' \in Nat
    BY SinkAssumption DEF TypeOK
  <2> QED BY <1>0, <1>1, <2>1 DEF KeysPast
<1>2. ASSUME NEW c, NEW part, Push(c, part), session' = session PROVE KeysPast'
  <2>0. Grown(c, part)
    BY <1>2, PushEffect
  <2>1. \A f \in Files : f # master => cache'[f] = cache[f]
    BY <2>0 DEF Grown
  <2>2. \A i \in DOMAIN cache'[master] :
           \/ cache'[master][i] = cache[master][i] /\ i \in DOMAIN cache[master]
           \/ cache'[master][i].key = session
    BY <2>0 DEF Grown
  <2>3. master \in Files
    BY DEF TypeOK
  <2>4. ASSUME NEW f \in Files, NEW i \in DOMAIN cache'[f] PROVE cache'[f][i].key <= session
    BY <1>0, <2>1, <2>2, <2>3 DEF KeysPast
  <2> QED BY <1>2, <2>4 DEF KeysPast
<1>3. ASSUME NEW c \in Clients, PushHeader(c) \/ PushBody(c) PROVE KeysPast'
  BY <1>2, <1>3 DEF PushHeader, PushBody
<1> QED BY <1>1, <1>3, CacheSteps DEF CacheStep

\* A header is pushed behind a body or behind what a crash left; a body is pushed
\* behind its header.
LEMMA WellFormedStep ==
    TypeOK /\ LockHeld /\ DownIdle /\ HeaderPushed /\ LastPiece /\ CacheWellFormed /\ [Next]_vars
    => CacheWellFormed'
<1> SUFFICES ASSUME TypeOK, LockHeld, DownIdle, HeaderPushed, LastPiece, CacheWellFormed, [Next]_vars
             PROVE  CacheWellFormed'
  OBVIOUS
<1>1. CASE UNCHANGED <<cache, pushed>>
  BY <1>1 DEF CacheWellFormed
<1> DEFINE n == Len(cache[master])
           Fits(s, i) == IF s[i].part = "body"
                         THEN i > 1 /\ s[i - 1] = [s[i] EXCEPT !.part = "head"]
                         ELSE \/ i = Len(s)
                              \/ s[i + 1] = [s[i] EXCEPT !.part = "body"]
                              \/ s[i + 1].key > s[i].key
<1>2. ASSUME NEW c \in Clients, NEW part, Push(c, part),
             n # 0 => Fits(cache'[master], n),
             Fits(cache'[master], n + 1)
      PROVE  CacheWellFormed'
  <2>0. Grown(c, part) /\ master \in Files
    BY <1>2, PushEffect DEF TypeOK
  <2>1. ASSUME NEW f \in Files, f # master, NEW i \in DOMAIN cache'[f] PROVE Fits(cache'[f], i)
    <3>1. cache'[f] = cache[f]
      BY <2>0, <2>1 DEF Grown
    <3> QED BY <2>1, <3>1 DEF CacheWellFormed
  <2>2. ASSUME NEW i \in DOMAIN cache[master], i # n PROVE Fits(cache'[master], i)
    <3>1. Fits(cache[master], i)
      BY <2>0 DEF CacheWellFormed
    <3>2. i \in 1..n - 1 /\ n \in Nat
      BY <2>0, <2>2 DEF Grown
    <3>3. /\ cache'[master][i] = cache[master][i]
          /\ i > 1 => cache'[master][i - 1] = cache[master][i - 1]
          /\ cache'[master][i + 1] = cache[master][i + 1]
      <4>1. \A j \in 1..n : cache'[master][j] = cache[master][j]
        BY <2>0 DEF Grown
      <4>2. i \in 1..n /\ i + 1 \in 1..n /\ (i > 1 => i - 1 \in 1..n)
        BY <3>2
      <4> HIDE DEF n
      <4> QED BY <4>1, <4>2
    <3>4. Len(cache'[master]) = n + 1
      BY <2>0 DEF Grown
    <3> QED BY <3>1, <3>2, <3>3, <3>4
  <2>3. \A i \in DOMAIN cache'[master] : Fits(cache'[master], i)
    <3>1. \A i \in DOMAIN cache'[master] : (i \in DOMAIN cache[master] /\ i # n) \/ i = n \/ i = n + 1
      BY <2>0 DEF Grown
    <3>2. ASSUME NEW i \in DOMAIN cache'[master], i = n PROVE n # 0
      <4>1. n \in Nat /\ DOMAIN cache[master] = 1..n /\ (i \in DOMAIN cache[master] \/ i = n + 1)
        BY <2>0, <3>2 DEF Grown
      <4> QED BY <3>2, <4>1
    <3> QED BY <1>2, <2>2, <3>1, <3>2
  <2> QED BY <2>1, <2>3 DEF CacheWellFormed
<1>3. ASSUME NEW c \in Clients, PushHeader(c) PROVE CacheWellFormed'
  <2>1. Push(c, "head") /\ pc[c] = "head"
    BY <1>3 DEF PushHeader, Move
  <2>0. Grown(c, "head")
    BY <2>1, PushEffect
  <2>2. Fits(cache'[master], n + 1)
    BY <2>0 DEF Grown
  <2>3. n # 0 => Fits(cache'[master], n)
    <3> SUFFICES ASSUME n # 0 PROVE Fits(cache'[master], n)
      OBVIOUS
    <3>1. \A d \in Clients : pc[d] # "body"
      BY <2>1 DEF LockHeld, Locked
    <3>2. pc[Main] # "down"
      BY <2>1 DEF DownIdle
    <3>3. cache[master] # <<>> /\ n \in DOMAIN cache[master] /\ n > 0
      BY <2>0 DEF Grown
    <3>4. cache'[master][n] = cache[master][n] /\ cache'[master][n + 1].key = session
      BY <2>0, <3>3 DEF Grown
    <3>5. CASE cache[master][n].part = "body"
      <4>1. n > 1 /\ cache[master][n - 1] = [cache[master][n] EXCEPT !.part = "head"]
        BY <3>3, <3>5 DEF CacheWellFormed, TypeOK
      <4>2. cache'[master][n - 1] = cache[master][n - 1]
        BY <2>0, <3>3, <4>1 DEF Grown
      <4> QED BY <3>4, <3>5, <4>1, <4>2
    <3>6. CASE cache[master][n].key < session /\ cache[master][n].part # "body"
      <4>1. session \in Nat /\ cache[master][n] \in Piece
        BY SinkAssumption, <2>0, <3>3 DEF TypeOK, Grown
      <4>2. cache[master][n].key \in Nat
        BY <4>1, SinkAssumption DEF Piece
      <4> QED BY <3>4, <3>6, <4>1, <4>2
    <3> QED BY <3>1, <3>2, <3>3, <3>5, <3>6 DEF LastPiece, TypeOK
  <2> QED BY <1>2, <2>1, <2>2, <2>3
<1>4. ASSUME NEW c \in Clients, PushBody(c) PROVE CacheWellFormed'
  <2>1. Push(c, "body") /\ pc[c] = "body"
    BY <1>4 DEF PushBody, Move
  <2>0. Grown(c, "body")
    BY <2>1, PushEffect
  <2>2. n \in DOMAIN cache[master] /\ n > 0
    <3>1. cache[master] # <<>> /\ cache[master] \in Seq(Piece)
      BY <2>1 DEF HeaderPushed, TypeOK
    <3> QED BY <3>1
  <2>3. /\ cache'[master][n] = [item |-> item[c], part |-> "head", key |-> session]
        /\ cache'[master][n + 1] = [item |-> item[c], part |-> "body", key |-> session]
    BY <2>0, <2>1, <2>2 DEF HeaderPushed, Pending, Grown
  <2>4. n \in Nat
    BY <2>0 DEF Grown
  <2>5. Fits(cache'[master], n + 1)
    BY <2>2, <2>3, <2>4
  <2>6. n # 0 => Fits(cache'[master], n)
    BY <2>2, <2>3, <2>4
  <2> QED BY <1>2, <2>1, <2>5, <2>6
<1> QED BY <1>1, <1>3, <1>4, CacheSteps DEF CacheStep

\* Nothing empties a cache file, and what enters the history is in one.
LEMMA KeptStep == TypeOK /\ Kept /\ [Next]_vars => Kept'
<1> SUFFICES ASSUME TypeOK, Kept, [Next]_vars PROVE Kept'
  OBVIOUS
<1>1. CASE UNCHANGED <<cache, pushed>>
  BY <1>1 DEF Kept, PushedSet
<1>2. ASSUME NEW c, NEW part, Push(c, part)
      PROVE  /\ \A f \in Files : ItemsIn(cache[f]) \subseteq ItemsIn(cache'[f])
             /\ part = "body" => item[c] \in ItemsIn(cache'[master])
  <2>1. Grown(c, part)
    BY <1>2, PushEffect
  <2>2. \A f \in Files : \A i \in DOMAIN cache[f] : i \in DOMAIN cache'[f] /\ cache'[f][i] = cache[f][i]
    BY <2>1 DEF Grown
  <2>3. part = "body" => item[c] \in ItemsIn(cache'[master])
    BY <2>1 DEF Grown, ItemsIn
  <2> QED BY <2>2, <2>3 DEF ItemsIn
<1>3. ASSUME NEW c \in Clients, PushHeader(c) PROVE Kept'
  <2>1. \A f \in Files : ItemsIn(cache[f]) \subseteq ItemsIn(cache'[f])
    BY <1>2, <1>3 DEF PushHeader
  <2>2. PushedSet' = PushedSet
    BY <1>3 DEF PushHeader, PushedSet, clients
  <2> QED BY <2>1, <2>2 DEF Kept
<1>4. ASSUME NEW c \in Clients, PushBody(c) PROVE Kept'
  <2>1. /\ \A f \in Files : ItemsIn(cache[f]) \subseteq ItemsIn(cache'[f])
        /\ item[c] \in ItemsIn(cache'[master])
    BY <1>2, <1>4 DEF PushBody
  <2>2. PushedSet' \subseteq PushedSet \union {item[c]}
    <3>1. pushed \in Seq(1..MaxLogs) /\ pushed' = Append(pushed, item[c])
      BY <1>4 DEF TypeOK, PushBody
    <3>2. /\ \A i \in DOMAIN pushed' : i \in DOMAIN pushed \/ i = Len(pushed) + 1
          /\ \A i \in DOMAIN pushed : pushed'[i] = pushed[i]
          /\ pushed'[Len(pushed) + 1] = item[c]
      BY <3>1
    <3> QED BY <3>2 DEF PushedSet
  <2>3. master \in Files
    BY DEF TypeOK
  <2> QED BY <2>1, <2>2, <2>3 DEF Kept
<1> QED BY <1>1, <1>3, <1>4, CacheSteps DEF CacheStep

\* The last piece of a cache.  A header is left there by a push, which holds mutex_
\* till its body follows, or by a crash, after which the keys are others.
LEMMA LastStep ==
    TypeOK /\ LockHeld /\ DownIdle /\ KeysPast /\ LastPiece /\ [Next]_vars
    => LastPiece'
<1> SUFFICES ASSUME TypeOK, LockHeld, DownIdle, KeysPast, LastPiece, [Next]_vars
             PROVE LastPiece'
  OBVIOUS
<1> USE SinkAssumption DEF TypeOK, LockHeld, Locked, LastPiece, Threads, Move, Call,
        Submit, MoveRunner, thread, runner, locals, files, clients,
        Forget
<1>1. ASSUME NEW t \in Threads, ThreadStep(t) PROVE LastPiece'
  <2>1. CASE CheckSlaveFree(t)  BY <2>1 DEF CheckSlaveFree
  <2>2. CASE ClaimSlave(t)  BY <2>2 DEF ClaimSlave
  <2>3. CASE SwitchCache(t)  BY <2>3 DEF SwitchCache
  <2>4. CASE PostWrite(t)  BY <2>4 DEF PostWrite
  <2>5. CASE PostFirstWrite(t)  BY <2>5 DEF PostFirstWrite
  <2>6. CASE WaitTaskIdle(t)  BY <2>6 DEF WaitTaskIdle
  <2> QED BY <1>1, <2>1, <2>2, <2>3, <2>4, <2>5, <2>6 DEF ThreadStep
<1>2. ASSUME NEW c \in Clients, Log(c) \/ Flush(c) \/ ClientStep(c) PROVE LastPiece'
  <2>0. c \in Threads  BY DEF Threads
  <2>1. CASE Log(c)  BY <2>0, <2>1 DEF Log
  <2>2. CASE Flush(c)  BY <2>0, <2>2 DEF Flush
  <2>3. CASE LookAtMaster(c)  BY <2>0, <2>3 DEF LookAtMaster
  <2>4. CASE ResetStream(c)  BY <2>0, <2>4 DEF ResetStream
  <2>5. CASE LogLock(c)  BY <2>0, <2>5 DEF LogLock
  <2>6. CASE Compress(c)  BY <2>0, <2>6 DEF Compress
  <2>7. CASE Rejected(c)  BY <2>0, <2>7 DEF Rejected
  <2>8. CASE PushHeader(c)
    <3>1. Grown(c, "head") /\ UNCHANGED <<master, session>> /\ pc'[c] = "body"
      BY <2>8, <2>0, PushEffect DEF PushHeader
    <3>2. \A f \in Files : f # master => cache'[f] = cache[f]
      BY <3>1 DEF Grown
    <3>3. \A d \in Clients : pc[d] # "body"
      BY <2>8 DEF PushHeader
    <3>4. pc'[Main] = pc[Main]
      BY <2>8, <2>0 DEF PushHeader
    <3> QED BY <3>1, <3>2, <3>3, <3>4
  <2>9. CASE PushBody(c)
    <3>1. Grown(c, "body") /\ UNCHANGED <<master, session>>
      BY <2>9, PushEffect DEF PushBody
    <3>2. \A f \in Files : f # master => cache'[f] = cache[f]
      BY <3>1 DEF Grown
    <3>3. cache'[master][Len(cache'[master])].part = "body"
      BY <3>1 DEF Grown
    <3>4. pc'[Main] = pc[Main]
      BY <2>9, <2>0 DEF PushBody
    <3>5. ASSUME NEW f \in Files, f # master, cache'[f] # <<>>
          PROVE  \/ cache'[f][Len(cache'[f])].part = "body"
                 \/ cache'[f][Len(cache'[f])].key < session'
                 \/ pc'[Main] = "down"
      BY <3>1, <3>2, <3>4, <3>5 DEF LastPiece
    <3> QED BY <3>1, <3>3, <3>5 DEF LastPiece
  <2>10. CASE NeedCacheToFile(c)  BY <2>0, <2>10 DEF NeedCacheToFile
  <2>11. CASE FlushReturns(c)  BY <2>0, <2>11 DEF FlushReturns
  <2> QED BY <1>1, <1>2, <2>0, <2>1, <2>2, <2>3, <2>4, <2>5, <2>6, <2>7, <2>8, <2>9,
             <2>10, <2>11 DEF ClientStep
<1>3. ASSUME Construct \/ MainStep \/ Destroy \/ TimerPosts PROVE LastPiece'
  <2>0. Main \in Threads  BY DEF Threads
  <2>1. CASE Construct
    <3>1. \A f \in Files : cache[f] # <<>> =>
             /\ cache[f][Len(cache[f])].key \in Nat
             /\ cache[f][Len(cache[f])].key <= session
      BY LastKey DEF KeysPast
    <3>2. UNCHANGED cache /\ session' = session + 1 /\ session \in Nat
      BY <2>1 DEF Construct
    <3> QED BY <3>1, <3>2
  <2>2. CASE LeftoverInSlave  BY <2>0, <2>2 DEF LeftoverInSlave
  <2>3. CASE LeftoverInMaster  BY <2>0, <2>3 DEF LeftoverInMaster
  <2>4. CASE Destroy  BY <2>0, <2>4 DEF Destroy
  <2>5. CASE TimerPosts  BY <2>0, <2>5 DEF TimerPosts
  <2> QED BY <1>1, <1>3, <2>0, <2>1, <2>2, <2>3, <2>4, <2>5 DEF MainStep
<1>4. ASSUME RunnerStep PROVE LastPiece'
  <2>1. CASE NextTask  BY <2>1 DEF NextTask
  <2>2. CASE WriteCheckFree  BY <2>2 DEF WriteCheckFree
  <2>3. CASE WriteCheckEmpty  BY <2>3 DEF WriteCheckEmpty
  <2>4. CASE ReadSize  BY <2>4 DEF ReadSize
  <2>5. CASE OpenFile  BY <2>5 DEF OpenFile
  <2>6. CASE WriteChunk  BY <2>6 DEF WriteChunk
  <2>7. CASE ClearSlave  BY <2>7 DEF ClearSlave
  <2>8. CASE ReleaseSlave  BY <2>8 DEF ReleaseSlave
  <2>9. CASE LoadSlave  BY <2>9 DEF LoadSlave
  <2> QED BY <1>4, <2>1, <2>2, <2>3, <2>4, <2>5, <2>6, <2>7, <2>8, <2>9 DEF RunnerStep
<1>5. CASE Crash
  <2>1. UNCHANGED cache /\ pc'[Main] = "down"
    BY <1>5 DEF Crash
  <2> QED BY <2>1
<1>6. CASE UNCHANGED vars  BY <1>6 DEF vars
<1> QED BY <1>1, <1>2, <1>3, <1>4, <1>5, <1>6 DEF Next

\* Behind the destructor's marker only the repeated task is posted: the clients are
\* idle, and Main waits for the marker, which it posted once.
LEMMA QuietStep ==
    TypeOK /\ DownIdle /\ OneMarker /\ QuietBehind /\ QuietWhenGone /\ [Next]_vars
    => (QuietBehind /\ QuietWhenGone)'
<1> SUFFICES ASSUME TypeOK, DownIdle, OneMarker, QuietBehind, QuietWhenGone, [Next]_vars
             PROVE (QuietBehind /\ QuietWhenGone)'
  OBVIOUS
<1> USE SinkAssumption DEF TypeOK, QuietBehind, QuietWhenGone, Closing, Threads, Move,
        Call, Submit, MoveRunner, thread, runner, locals, files, clients,
        Forget
<1>1. ASSUME NEW t \in Threads, ThreadStep(t) PROVE (QuietBehind /\ QuietWhenGone)'
  <2>1. CASE CheckSlaveFree(t)  BY <2>1 DEF CheckSlaveFree
  <2>2. CASE ClaimSlave(t)  BY <2>2 DEF ClaimSlave
  <2>3. CASE SwitchCache(t)  BY <2>3 DEF SwitchCache
  <2>4. CASE PostWrite(t)  BY <2>4 DEF PostWrite
  <2>5. CASE PostFirstWrite(t)  BY <2>5 DEF PostFirstWrite
  <2>6. CASE WaitTaskIdle(t)
    <3>1. CASE t \in Clients
      <4>1. pc[t] # "idle" /\ pc'[Main] = pc[Main]
        BY <2>6, <3>1 DEF WaitTaskIdle
      <4> QED BY <3>1, <4>1
    <3>2. CASE t = Main /\ pc[Main] # "mark3"
      <4>1. pc'[Main] \in {"wait1", "wait2"}
        BY <2>6, <3>2 DEF WaitTaskIdle
      <4> QED BY <4>1
    <3>3. CASE t = Main /\ pc[Main] = "mark3"
      <4>1. pc'[Main] = "wait3" /\ \A c \in Clients : pc'[c] = pc[c]
        BY <2>6, <3>3 DEF WaitTaskIdle
      <4>2. queue' = Append(queue, Main) /\ queue \in Seq(Tasks)
        BY <2>6, <3>3 DEF WaitTaskIdle
      <4>3. \A i \in DOMAIN queue : queue[i] # Main
        BY <3>3 DEF OneMarker, Waiting
      <4>4. /\ \A i \in DOMAIN queue : queue'[i] = queue[i]
            /\ Len(queue) \in Nat /\ DOMAIN queue = 1..Len(queue)
            /\ DOMAIN queue' = 1..Len(queue) + 1
        BY <4>2
      <4>5. ASSUME NEW i \in DOMAIN queue', NEW j \in DOMAIN queue', queue'[i] = Main, i < j
            PROVE  FALSE
        <5>1. i \in DOMAIN queue
          BY <4>4, <4>5
        <5> QED BY <4>3, <4>4, <4>5, <5>1
      <4> QED BY <3>3, <4>1, <4>5
    <3> QED BY <3>1, <3>2, <3>3
  <2> QED BY <1>1, <2>1, <2>2, <2>3, <2>4, <2>5, <2>6 DEF ThreadStep
<1>2. ASSUME NEW c \in Clients, Log(c) \/ Flush(c) \/ ClientStep(c) PROVE (QuietBehind /\ QuietWhenGone)'
  <2>0. c \in Threads  BY DEF Threads
  <2>1. CASE Log(c)  BY <2>0, <2>1 DEF Log
  <2>2. CASE Flush(c)  BY <2>0, <2>2 DEF Flush
  <2>3. CASE LookAtMaster(c)  BY <2>0, <2>3 DEF LookAtMaster
  <2>4. CASE ResetStream(c)  BY <2>0, <2>4 DEF ResetStream
  <2>5. CASE LogLock(c)  BY <2>0, <2>5 DEF LogLock
  <2>6. CASE Compress(c)  BY <2>0, <2>6 DEF Compress
  <2>7. CASE Rejected(c)  BY <2>0, <2>7 DEF Rejected
  <2>8. CASE PushHeader(c)  BY <2>0, <2>8 DEF PushHeader
  <2>9. CASE PushBody(c)  BY <2>0, <2>9 DEF PushBody
  <2>10. CASE NeedCacheToFile(c)  BY <2>0, <2>10 DEF NeedCacheToFile
  <2>11. CASE FlushReturns(c)  BY <2>0, <2>11 DEF FlushReturns
  <2> QED BY <1>1, <1>2, <2>0, <2>1, <2>2, <2>3, <2>4, <2>5, <2>6, <2>7, <2>8, <2>9,
             <2>10, <2>11 DEF ClientStep
<1>3. ASSUME Construct \/ MainStep \/ Destroy \/ TimerPosts PROVE (QuietBehind /\ QuietWhenGone)'
  <2>0. Main \in Threads  BY DEF Threads
  <2>1. CASE Construct  BY <2>0, <2>1 DEF Construct
  <2>2. CASE LeftoverInSlave  BY <2>0, <2>2 DEF LeftoverInSlave
  <2>3. CASE LeftoverInMaster  BY <2>0, <2>3 DEF LeftoverInMaster
  <2>4. CASE Destroy  BY <2>0, <2>4 DEF Destroy
  <2>5. CASE TimerPosts  BY <2>0, <2>5 DEF TimerPosts
  <2> QED BY <1>1, <1>3, <2>0, <2>1, <2>2, <2>3, <2>4, <2>5 DEF MainStep
<1>4. ASSUME RunnerStep PROVE (QuietBehind /\ QuietWhenGone)'
  <2>1. CASE NextTask
    <3>1. /\ queue' = Tail(queue) /\ queue # <<>> /\ rpc = "idle"
          /\ Head(queue) = queue[1] /\ 1 \in DOMAIN queue
          /\ \A i \in DOMAIN queue' : i + 1 \in DOMAIN queue /\ queue'[i] = queue[i + 1] /\ i > 0
      <4>1. queue \in Seq(Tasks) /\ queue # <<>> /\ queue' = Tail(queue) /\ rpc = "idle"
        BY <2>1 DEF NextTask
      <4> QED BY <4>1, SMTT(20)
    <3>2. \A i, j \in DOMAIN queue' : i < j => i + 1 < j + 1
      BY <3>1
    <3>3. CASE UNCHANGED pc
      <4>1. pc[Main] = "gone" => rpc' = "idle"
        BY <2>1, <3>1 DEF NextTask
      <4>2. pc[Main] = "gone" => \A i \in DOMAIN queue' : queue'[i] = "eliminate"
        BY <3>1
      <4>3. pc[Main] = "wait3" =>
               \A i, j \in DOMAIN queue' : queue'[i] = Main /\ i < j => queue'[j] = "eliminate"
        BY <3>1, <3>2
      <4> QED BY <3>3, <4>1, <4>2, <4>3
    <3>4. ASSUME NEW c \in Clients, pc[c] \in Waiting, pc' = [pc EXCEPT ![c] = pc'[c]]
          PROVE  (QuietBehind /\ QuietWhenGone)'
      <4>1. pc[Main] \notin Closing /\ pc'[Main] = pc[Main]
        BY <3>4 DEF Waiting
      <4> QED BY <4>1
    <3>5. CASE Head(queue) = Main /\ pc[Main] = "wait3" /\ pc' = [pc EXCEPT ![Main] = "gone"]
      <4>1. pc'[Main] = "gone" /\ \A c \in Clients : pc'[c] = pc[c]
        BY <3>5
      <4>2. rpc' = "idle"
        BY <2>1, <3>1, <3>5 DEF NextTask
      <4>3. \A i \in DOMAIN queue' : queue'[i] = "eliminate"
        <5> SUFFICES ASSUME NEW i \in DOMAIN queue' PROVE queue'[i] = "eliminate"
          OBVIOUS
        <5>1. queue[1] = Main /\ i + 1 \in DOMAIN queue /\ 1 < i + 1 /\ queue'[i] = queue[i + 1]
          BY <3>1, <3>5
        <5> QED BY <3>1, <3>5, <5>1
      <4> QED BY <3>5, <4>1, <4>2, <4>3
    <3>6. CASE pc[Main] \in {"wait1", "wait2"} /\ pc' = [pc EXCEPT ![Main] = pc'[Main]]
               /\ pc'[Main] \in {"leftover_master", "check", "flushed"}
      BY <3>6
    <3> QED BY <2>1, <3>1, <3>3, <3>4, <3>5, <3>6 DEF NextTask, Waiting
  <2>2. CASE WriteCheckFree  BY <2>2 DEF WriteCheckFree
  <2>3. CASE WriteCheckEmpty  BY <2>3 DEF WriteCheckEmpty
  <2>4. CASE ReadSize  BY <2>4 DEF ReadSize
  <2>5. CASE OpenFile  BY <2>5 DEF OpenFile
  <2>6. CASE WriteChunk  BY <2>6 DEF WriteChunk
  <2>7. CASE ClearSlave  BY <2>7 DEF ClearSlave
  <2>8. CASE ReleaseSlave  BY <2>8 DEF ReleaseSlave
  <2>9. CASE LoadSlave  BY <2>9 DEF LoadSlave
  <2> QED BY <1>4, <2>1, <2>2, <2>3, <2>4, <2>5, <2>6, <2>7, <2>8, <2>9 DEF RunnerStep
<1>5. CASE Crash  BY <1>5 DEF Crash
<1>6. CASE UNCHANGED vars  BY <1>6 DEF vars
<1> QED BY <1>1, <1>2, <1>3, <1>4, <1>5, <1>6 DEF Next

\* What the last piece of a cache says of its length.
LEMMA LengthEven ==
    ASSUME TypeOK, DownIdle, KeysPast, LastPiece, Alternate, session <= 1,
           NEW f \in Files, pc[Main] # "down",
           f # master \/ \A c \in Clients : pc[c] # "body"
    PROVE  Len(cache[f]) % 2 = 0
<1> DEFINE n == Len(cache[f])
<1>1. cache[f] \in Seq(Piece) /\ n \in Nat /\ session \in Nat
  BY SinkAssumption DEF TypeOK
<1>2. CASE cache[f] = <<>>
  <2>1. n = 0
    BY <1>2
  <2>2. \A k \in Nat : k = 0 => k % 2 = 0
    OBVIOUS
  <2> QED BY <2>1, <2>2
<1>3. CASE cache[f] # <<>>
  <2>1. n \in DOMAIN cache[f] /\ cache[f][n] \in Piece
    BY <1>1, <1>3
  <2>2. ~ (cache[f][n].key < session)
    <3>1. cache[f][n].key \in 1..MaxSessions
      BY <2>1 DEF Piece
    <3> QED BY <3>1, <1>1, SinkAssumption
  <2>3. cache[f][n].part = "body"
    BY <2>2, <1>3 DEF LastPiece
  <2>4. n % 2 # 1
    BY <2>1, <2>3 DEF Alternate
  <2>5. \A k \in Nat : k % 2 # 1 => k % 2 = 0
    OBVIOUS
  <2> QED BY <2>4, <2>5, <1>1
<1> QED BY <1>2, <1>3

\* Log pushes a header behind a body, and a body behind its header.
LEMMA AlternateStep ==
    TypeOK /\ TypeOK' /\ LockHeld /\ DownIdle /\ KeysPast /\ HeaderPushed /\ LastPiece
    /\ Alternate /\ [Next]_vars => Alternate'
<1> SUFFICES ASSUME TypeOK, TypeOK', LockHeld, DownIdle, KeysPast, HeaderPushed, LastPiece, Alternate,
                    [Next]_vars
             PROVE  Alternate'
  OBVIOUS
<1>0. session \in Nat
  BY SinkAssumption DEF TypeOK
<1>1. CASE UNCHANGED <<cache, pushed>> /\ session' >= session
  <2>1. session' <= 1 => session <= 1
    <3>1. session' \in Nat
      BY SinkAssumption DEF TypeOK
    <3> QED BY <1>0, <1>1, <3>1
  <2> QED BY <1>1, <2>1 DEF Alternate
<1> DEFINE n == Len(cache[master])
<1>2. ASSUME NEW c, NEW part, Push(c, part), session' = session,
             session <= 1 => part = IF (n + 1) % 2 = 1 THEN "head" ELSE "body"
      PROVE  Alternate'
  <2>1. Grown(c, part)
    BY <1>2, PushEffect
  <2>2. \A f \in Files : f # master => cache'[f] = cache[f]
    BY <2>1 DEF Grown
  <2>3. \A i \in DOMAIN cache'[master] :
           \/ cache'[master][i] = cache[master][i] /\ i \in DOMAIN cache[master]
           \/ i = n + 1 /\ cache'[master][i].part = part
    BY <2>1 DEF Grown
  <2>4. master \in Files
    BY DEF TypeOK
  <2> SUFFICES ASSUME session <= 1, NEW f \in Files, NEW i \in DOMAIN cache'[f]
               PROVE  cache'[f][i].part = IF i % 2 = 1 THEN "head" ELSE "body"
    BY <1>2 DEF Alternate
  <2> HIDE DEF n
  <2>5. CASE f # master
    BY <2>2, <2>5 DEF Alternate
  <2>6. CASE f = master
    <3>1. CASE cache'[master][i] = cache[master][i] /\ i \in DOMAIN cache[master]
      BY <2>4, <2>6, <3>1 DEF Alternate
    <3>2. CASE i = n + 1 /\ cache'[master][i].part = part
      BY <1>2, <2>6, <3>2
    <3> QED BY <2>3, <2>6, <3>1, <3>2
  <2> QED BY <2>5, <2>6
<1>3. ASSUME NEW c \in Clients, PushHeader(c) PROVE Alternate'
  <2>1. Push(c, "head") /\ pc[c] = "head" /\ session' = session
    BY <1>3 DEF PushHeader, Move
  <2>2. session <= 1 => n % 2 = 0
    <3>1. \A d \in Clients : pc[d] # "body"
      BY <2>1 DEF LockHeld, Locked
    <3>2. pc[Main] # "down"
      BY <2>1 DEF DownIdle
    <3>3. master \in Files
      BY DEF TypeOK
    <3> QED BY <3>1, <3>2, <3>3, LengthEven
  <2>3. n \in Nat
    BY <2>1, PushEffect DEF Grown
  <2> HIDE DEF n
  <2>4. session <= 1 => (n + 1) % 2 = 1
    BY <2>2, <2>3
  <2> QED BY <1>2, <2>1, <2>4 DEF n
<1>4. ASSUME NEW c \in Clients, PushBody(c) PROVE Alternate'
  <2>1. Push(c, "body") /\ pc[c] = "body" /\ session' = session
    BY <1>4 DEF PushBody, Move, clients, runner
  <2>2. n \in Nat /\ n \in DOMAIN cache[master] /\ cache[master][n].part = "head"
    <3>0. cache[master] # <<>> /\ cache[master][n] = Pending(c)
      BY <2>1 DEF HeaderPushed
    <3>1. cache[master] # <<>> /\ cache[master][n].part = "head"
      BY <3>0 DEF Pending
    <3>2. cache[master] \in Seq(Piece)
      BY DEF TypeOK
    <3> QED BY <3>1, <3>2
  <2>3. session <= 1 => n % 2 = 1
    BY <2>2 DEF Alternate, TypeOK
  <2> HIDE DEF n
  <2>4. session <= 1 => (n + 1) % 2 # 1
    BY <2>2, <2>3
  <2> QED BY <1>2, <2>1, <2>4 DEF n
<1> QED BY <1>1, <1>3, <1>4, CacheSteps DEF CacheStep

\* What a step does to what the runner has of a chunk, and to the log files.  The steps
\* of others leave it alone, but for a switch, which is taken note of; the runner's own
\* begin or go on with a chunk, or write it, or the process dies.
Busy == {"empty?", "size", "open", "load3", "write"}
OthersStep ==
    /\ UNCHANGED <<rpc, loaded, rsize, measured, log_file_path, disk>> /\ session' >= session
    /\ UNCHANGED <<master, switched>> \/ switched' = (rpc \in Writing)
WriteStep ==
    \/ OthersStep
    \/ LoadSlave \/ ReadSize
    \/ OpenFile /\ rpc' = "load3" /\ UNCHANGED locals
    \/ UNCHANGED disk /\ rpc' \notin Busy
    \/ /\ rpc = "write" /\ rpc' \notin Busy
       /\ UNCHANGED session
       /\ \E chunk \in Torn : WriteTo(log_file_path, chunk)

LEMMA WriteSteps == TypeOK /\ [Next]_vars => WriteStep
<1> SUFFICES ASSUME TypeOK, [Next]_vars PROVE WriteStep
  OBVIOUS
<1> USE SinkAssumption DEF TypeOK, WriteStep, OthersStep, Busy, Threads, Move, Call, Submit,
        MoveRunner, thread, runner, locals, files, clients,
        Forget
<1>1. ASSUME NEW t \in Threads, ThreadStep(t) PROVE WriteStep
  <2>1. CASE CheckSlaveFree(t)  BY <2>1 DEF CheckSlaveFree
  <2>2. CASE ClaimSlave(t)  BY <2>2 DEF ClaimSlave
  <2>3. CASE SwitchCache(t)  BY <2>3 DEF SwitchCache
  <2>4. CASE PostWrite(t)  BY <2>4 DEF PostWrite
  <2>5. CASE PostFirstWrite(t)  BY <2>5 DEF PostFirstWrite
  <2>6. CASE WaitTaskIdle(t)  BY <2>6 DEF WaitTaskIdle
  <2> QED BY <1>1, <2>1, <2>2, <2>3, <2>4, <2>5, <2>6 DEF ThreadStep
<1>2. ASSUME NEW c \in Clients, Log(c) \/ Flush(c) \/ ClientStep(c) PROVE WriteStep
  <2>0. c \in Threads  BY DEF Threads
  <2>1. CASE Log(c)  BY <2>0, <2>1 DEF Log
  <2>2. CASE Flush(c)  BY <2>0, <2>2 DEF Flush
  <2>3. CASE LookAtMaster(c)  BY <2>0, <2>3 DEF LookAtMaster
  <2>4. CASE ResetStream(c)  BY <2>0, <2>4 DEF ResetStream
  <2>5. CASE LogLock(c)  BY <2>0, <2>5 DEF LogLock
  <2>6. CASE Compress(c)  BY <2>0, <2>6 DEF Compress
  <2>7. CASE Rejected(c)  BY <2>0, <2>7 DEF Rejected
  <2>8. CASE PushHeader(c)  BY <2>0, <2>8 DEF PushHeader
  <2>9. CASE PushBody(c)  BY <2>0, <2>9 DEF PushBody
  <2>10. CASE NeedCacheToFile(c)  BY <2>0, <2>10 DEF NeedCacheToFile
  <2>11. CASE FlushReturns(c)  BY <2>0, <2>11 DEF FlushReturns
  <2> QED BY <1>1, <1>2, <2>0, <2>1, <2>2, <2>3, <2>4, <2>5, <2>6, <2>7, <2>8, <2>9,
             <2>10, <2>11 DEF ClientStep
<1>3. ASSUME Construct \/ MainStep \/ Destroy \/ TimerPosts PROVE WriteStep
  <2>0. Main \in Threads  BY DEF Threads
  <2>1. CASE Construct  BY <2>0, <2>1 DEF Construct
  <2>2. CASE LeftoverInSlave  BY <2>0, <2>2 DEF LeftoverInSlave
  <2>3. CASE LeftoverInMaster  BY <2>0, <2>3 DEF LeftoverInMaster
  <2>4. CASE Destroy  BY <2>0, <2>4 DEF Destroy
  <2>5. CASE TimerPosts  BY <2>0, <2>5 DEF TimerPosts
  <2> QED BY <1>1, <1>3, <2>0, <2>1, <2>2, <2>3, <2>4, <2>5 DEF MainStep
<1>4. ASSUME RunnerStep PROVE WriteStep
  <2>1. CASE NextTask  BY <2>1 DEF NextTask
  <2>2. CASE WriteCheckFree  BY <2>2 DEF WriteCheckFree
  <2>3. CASE WriteCheckEmpty  BY <2>3 DEF WriteCheckEmpty
  <2>4. CASE ReadSize  BY <2>4 DEF ReadSize
  <2>5. CASE OpenFile  BY <2>5 DEF OpenFile
  <2>6. CASE WriteChunk  BY <2>6 DEF WriteChunk
  <2>7. CASE ClearSlave  BY <2>7 DEF ClearSlave
  <2>8. CASE ReleaseSlave  BY <2>8 DEF ReleaseSlave
  <2>9. CASE LoadSlave  BY <2>9 DEF LoadSlave
  <2> QED BY <1>4, <2>1, <2>2, <2>3, <2>4, <2>5, <2>6, <2>7, <2>8, <2>9 DEF RunnerStep
<1>5. CASE Crash  BY <1>5 DEF Crash
<1>6. CASE UNCHANGED vars  BY <1>6 DEF vars
<1> QED BY <1>1, <1>2, <1>3, <1>4, <1>5, <1>6 DEF Next

\* No cache gets shorter.
LEMMA NoneShorter ==
    ASSUME TypeOK, [Next]_vars, NEW f \in Files
    PROVE  Len(cache[f]) \in Nat /\ Len(cache'[f]) \in Nat /\ Len(cache[f]) <= Len(cache'[f])
<1>0. cache[f] \in Seq(Piece) /\ Len(cache[f]) \in Nat
  BY DEF TypeOK
<1>1. CASE UNCHANGED <<cache, pushed>>
  BY <1>0, <1>1
<1>2. ASSUME NEW c, NEW part, Push(c, part)
      PROVE  Len(cache'[f]) \in Nat /\ Len(cache[f]) <= Len(cache'[f])
  <2>1. Grown(c, part)
    BY <1>2, PushEffect
  <2>2. CASE f = master
    <3>1. Len(cache'[f]) = Len(cache[f]) + 1
      BY <2>1, <2>2 DEF Grown
    <3> QED BY <1>0, <3>1
  <2>3. CASE f # master
    <3>1. cache'[f] = cache[f]
      BY <2>1, <2>3 DEF Grown
    <3> QED BY <1>0, <3>1
  <2> QED BY <2>2, <2>3
<1> QED BY <1>0, <1>1, <1>2, CacheSteps DEF CacheStep, PushHeader, PushBody

\* What was counted in a cache stays in it, till the chunk is written.
LEMMA CountedStep ==
    TypeOK /\ Counted /\ [Next]_vars => Counted'
<1> SUFFICES ASSUME TypeOK, Counted, [Next]_vars PROVE Counted'
  OBVIOUS
<1>0. rsize \in Nat
  BY DEF TypeOK
<1>1. CASE OthersStep
  <2>1. ASSUME rpc \in {"open", "load3", "write"} PROVE rsize <= Len(cache'[measured])
    <3>1. measured \in Files /\ rsize <= Len(cache[measured])
      BY <2>1 DEF Counted
    <3>2. Len(cache[measured]) \in Nat /\ Len(cache'[measured]) \in Nat
          /\ Len(cache[measured]) <= Len(cache'[measured])
      BY <3>1, NoneShorter
    <3> QED BY <1>0, <3>1, <3>2
  <2> QED BY <1>1, <2>1 DEF OthersStep, Counted
<1>2. CASE LoadSlave
  <2>1. slave \in Files
    BY OtherFile DEF slave, TypeOK
  <2>2. CASE rpc = "load3" /\ rpc' = "write"
    BY <1>2, <2>1, <2>2 DEF LoadSlave, Counted, files
  <2>3. CASE rpc' \in {"empty?", "size"}
    BY <1>2, <2>1, <2>3 DEF LoadSlave, Counted
  <2> QED BY <1>2, <2>2, <2>3 DEF LoadSlave, MoveRunner
<1>3. CASE ReadSize
  <2>1. rpc' = "open" /\ loaded \in Files /\ measured' = loaded /\ rsize' = Len(cache[loaded])
        /\ UNCHANGED cache
    BY <1>3 DEF ReadSize, MoveRunner, Counted
  <2>2. Len(cache[loaded]) \in Nat
    BY <2>1, NoneShorter
  <2> QED BY <2>1, <2>2 DEF Counted
<1>4. CASE OpenFile /\ rpc' = "load3" /\ UNCHANGED locals
  <2>1. rpc = "open" /\ log_file_path' \in LogNames /\ UNCHANGED <<cache, measured, rsize>>
    BY <1>4 DEF OpenFile, MoveRunner, locals
  <2> QED BY <1>4, <2>1 DEF Counted
<1>5. CASE rpc' \notin Busy
  BY <1>5 DEF Counted, Busy
<1> QED BY <1>1, <1>2, <1>3, <1>4, <1>5, WriteSteps DEF WriteStep

\* Unless there was a switch, the slave cache is the one that was loaded.
LEMMA SlaveStep == TypeOK /\ ReadsSlave /\ [Next]_vars => ReadsSlave'
<1> SUFFICES ASSUME TypeOK, ReadsSlave, [Next]_vars, ~switched' PROVE ReadsSlave'
  BY DEF ReadsSlave
<1>1. CASE OthersStep
  <2>1. CASE UNCHANGED <<master, switched>>
    BY <1>1, <2>1 DEF OthersStep, ReadsSlave, slave
  <2>2. CASE switched' = (rpc \in Writing)
    <3>1. rpc' \notin Writing
      BY <1>1, <2>2 DEF OthersStep
    <3> QED BY <3>1 DEF ReadsSlave, Writing
  <2> QED BY <1>1, <2>1, <2>2 DEF OthersStep
<1>2. CASE LoadSlave
  <2>1. loaded' = slave /\ UNCHANGED <<master, measured, switched>>
        /\ (rpc' \in {"empty?", "size"} \/ (rpc = "load3" /\ rpc' = "write"))
    BY <1>2 DEF LoadSlave, MoveRunner
  <2> QED BY <2>1 DEF ReadsSlave, slave
<1>3. CASE ReadSize
  BY <1>3 DEF ReadSize, MoveRunner, ReadsSlave, slave
<1>4. CASE OpenFile /\ rpc' = "load3" /\ UNCHANGED locals
  BY <1>4 DEF OpenFile, MoveRunner, locals, ReadsSlave, slave
<1>5. CASE rpc' \notin Busy
  BY <1>5 DEF ReadsSlave, Busy
<1> QED BY <1>1, <1>2, <1>3, <1>4, <1>5, WriteSteps DEF WriteStep

\* The runner counts in the slave cache, into which nobody is pushing, unless there was
\* a switch.
LEMMA EvenStep ==
    TypeOK /\ TypeOK' /\ DownIdle /\ KeysPast /\ LastPiece /\ ReadsSlave /\ Alternate
    /\ EvenSize /\ [Next]_vars => EvenSize'
<1> SUFFICES ASSUME TypeOK, TypeOK', DownIdle, KeysPast, LastPiece, ReadsSlave, Alternate,
                    EvenSize, [Next]_vars, session' <= 1,
                    rpc' \in {"open", "load3", "write"}, ~switched'
             PROVE  rsize' % 2 = 0
  BY DEF EvenSize
<1>1. session \in Nat /\ session' \in Nat
  BY SinkAssumption DEF TypeOK
<1>2. CASE OthersStep
  <2>1. rpc' = rpc /\ UNCHANGED rsize /\ session' >= session
    BY <1>2 DEF OthersStep
  <2>2. ~switched
    BY <1>2, <2>1 DEF OthersStep, Writing
  <2>3. session <= 1
    BY <1>1, <2>1
  <2> QED BY <2>1, <2>2, <2>3 DEF EvenSize
<1>3. CASE ReadSize
  <2>1. rpc = "size" /\ rsize' = Len(cache[loaded]) /\ session' = session /\ ~switched
    BY <1>3 DEF ReadSize, MoveRunner
  <2>2. pc[Main] # "down"
    BY <2>1 DEF DownIdle
  <2>3. slave \in Files /\ slave # master /\ loaded = slave
    BY <2>1, OtherFile DEF slave, TypeOK, ReadsSlave
  <2>4. Len(cache[slave]) % 2 = 0
    BY <2>1, <2>2, <2>3, LengthEven
  <2> QED BY <2>1, <2>3, <2>4
<1>4. CASE LoadSlave
  BY <1>4 DEF LoadSlave, MoveRunner, EvenSize
<1>5. CASE OpenFile /\ rpc' = "load3" /\ UNCHANGED locals
  BY <1>5 DEF OpenFile, MoveRunner, locals, EvenSize
<1> QED BY <1>2, <1>3, <1>4, <1>5, WriteSteps DEF WriteStep, Busy

\* PushBody appends to a cache and to the history at once.
LEMMA OrderStep ==
    TypeOK /\ CachedPushed /\ PushOrder /\ [Next]_vars => CachedPushed' /\ PushOrder'
<1> SUFFICES ASSUME TypeOK, CachedPushed, PushOrder, [Next]_vars
             PROVE  CachedPushed' /\ PushOrder'
  OBVIOUS
<1>0. /\ pushed \in Seq(1..MaxLogs) /\ Len(pushed) \in Nat
      /\ DOMAIN pushed = 1..Len(pushed) /\ master \in Files
  BY DEF TypeOK
<1>1. CASE UNCHANGED <<cache, pushed>>
  BY <1>1 DEF CachedPushed, PushOrder, PushedSet, Before
<1>2. ASSUME NEW c \in Clients, PushHeader(c) PROVE CachedPushed' /\ PushOrder'
  <2>1. Grown(c, "head") /\ UNCHANGED pushed
    BY <1>2, PushEffect DEF PushHeader, clients
  <2>2. \A f \in Files : \A i \in DOMAIN cache'[f] :
            cache'[f][i].part = "body" => i \in DOMAIN cache[f] /\ cache'[f][i] = cache[f][i]
    BY <2>1 DEF Grown
  <2>3. PushedSet' = PushedSet /\ \A a, b : Before(a, b)' <=> Before(a, b)
    BY <2>1 DEF PushedSet, Before
  <2>4. CachedPushed'
    BY <2>2, <2>3 DEF CachedPushed
  <2>5. PushOrder'
    BY <2>1, <2>2 DEF PushOrder, Before
  <2> QED BY <2>4, <2>5
<1>3. ASSUME NEW c \in Clients, PushBody(c) PROVE CachedPushed' /\ PushOrder'
  <2> DEFINE n == Len(cache[master])
             m == Len(pushed)
  <2>1. Grown(c, "body") /\ pushed' = Append(pushed, item[c])
    BY <1>3, PushEffect DEF PushBody
  <2>2. /\ \A f \in Files : f # master => cache'[f] = cache[f]
        /\ \A i \in DOMAIN cache'[master] :
              \/ i \in DOMAIN cache[master] /\ cache'[master][i] = cache[master][i]
              \/ i = n + 1 /\ cache'[master][i].item = item[c]
        /\ DOMAIN cache[master] = 1..n /\ n \in Nat
    BY <2>1 DEF Grown
  <2>3. /\ \A k \in 1..m : pushed'[k] = pushed[k]
        /\ pushed'[m + 1] = item[c] /\ DOMAIN pushed' = 1..m + 1
    BY <1>0, <2>1
  <2>4. PushedSet \subseteq PushedSet' /\ item[c] \in PushedSet'
    BY <1>0, <2>3 DEF PushedSet
  <2>5. \A a, b : Before(a, b) => \E k, l \in DOMAIN pushed' : k < l /\ pushed'[k] = a /\ pushed'[l] = b
    BY <1>0, <2>3 DEF Before
  <2>6. \A a \in PushedSet :
            \E k, l \in DOMAIN pushed' : k < l /\ pushed'[k] = a /\ pushed'[l] = item[c]
    <3> SUFFICES ASSUME NEW k \in 1..m
                 PROVE  k \in DOMAIN pushed' /\ m + 1 \in DOMAIN pushed' /\ k < m + 1
                        /\ pushed'[k] = pushed[k]
      BY <1>0, <2>3 DEF PushedSet
    <3> QED BY <1>0, <2>3
  <2> HIDE DEF n, m
  <2>7. CachedPushed'
    BY <1>0, <2>2, <2>4 DEF CachedPushed
  <2>8. ASSUME NEW f \in Files, NEW i \in DOMAIN cache'[f], NEW j \in DOMAIN cache'[f],
               cache'[f][i].part = "body", cache'[f][j].part = "body", i < j
        PROVE  \E k, l \in DOMAIN pushed' :
                   k < l /\ pushed'[k] = cache'[f][i].item /\ pushed'[l] = cache'[f][j].item
    <3>1. CASE f # master \/ (i \in DOMAIN cache[f] /\ j \in DOMAIN cache[f])
      <4>1. /\ i \in DOMAIN cache[f] /\ cache'[f][i] = cache[f][i]
            /\ j \in DOMAIN cache[f] /\ cache'[f][j] = cache[f][j]
        BY <2>2, <3>1
      <4>2. Before(cache[f][i].item, cache[f][j].item)
        BY <4>1, <2>8 DEF PushOrder
      <4> QED BY <4>1, <4>2, <2>5
    <3>2. CASE f = master /\ j \notin DOMAIN cache[f]
      <4>1. j = n + 1 /\ cache'[f][j].item = item[c]
        BY <2>2, <3>2
      <4>2. i \in DOMAIN cache[f] /\ cache'[f][i] = cache[f][i]
        BY <2>2, <2>8, <3>2, <4>1
      <4>3. cache[f][i].item \in PushedSet
        BY <4>2, <2>8 DEF CachedPushed
      <4> QED BY <4>1, <4>2, <4>3, <2>6
    <3>3. CASE f = master /\ i \notin DOMAIN cache[f]
      <4>1. i = n + 1 /\ j \in 1..n + 1
        BY <2>2, <3>3
      <4> QED BY <4>1, <2>2, <2>8
    <3> QED BY <3>1, <3>2, <3>3
  <2>9. PushOrder'
    BY <2>8 DEF PushOrder, Before
  <2> QED BY <2>7, <2>9
<1> QED BY <1>1, <1>2, <1>3, CacheSteps DEF CacheStep

\* A chunk is written of what a cache holds, from the beginning of it.
LEMMA ReadFormed ==
    ASSUME TypeOK, CacheWellFormed, CachedPushed, NEW f \in Files, NEW data,
           ReadOf(data, cache[f]), NEW i \in DOMAIN data, data[i].part = "body"
    PROVE  data[i].item # 0 /\ i > 1 /\ data[i - 1].part = "head"
<1> DEFINE c == cache[f]
<1>1. c \in Seq(Piece) /\ DOMAIN c = 1..Len(c) /\ Len(c) \in Nat
  BY DEF TypeOK
<1>2. i \in DOMAIN c /\ \A j \in 1..i : data[j] = c[j]
  BY DEF ReadOf
<1>3. i \in 1..i /\ i \in Nat
  BY <1>1, <1>2
<1>4. data[i] = c[i] /\ c[i].part = "body"
  BY <1>2, <1>3
<1>5. i > 1 /\ c[i - 1] = [c[i] EXCEPT !.part = "head"]
  BY <1>2, <1>4 DEF CacheWellFormed
<1>6. i - 1 \in 1..i
  BY <1>3, <1>5
<1>7. data[i - 1] = c[i - 1]
  BY <1>2, <1>6
<1>8. c[i] \in Piece /\ \A p \in Piece : [p EXCEPT !.part = "head"].part = "head"
  <2>1. c[i] \in Piece
    BY <1>1, <1>2
  <2>2. \A p \in Piece : [p EXCEPT !.part = "head"].part = "head"
    BY DEF Piece
  <2> QED BY <2>1, <2>2
<1>9. c[i].item \in PushedSet /\ PushedSet \subseteq 1..MaxLogs /\ 0 \notin 1..MaxLogs
  BY <1>2, <1>4, PushedItems, SinkAssumption DEF CachedPushed, TypeOK
<1> QED BY <1>4, <1>5, <1>7, <1>8, <1>9

\* What WriteTo does: one more chunk in one log file.
Lengthened(f, chunk) ==
    /\ \A g \in LogNames : g # f => disk'[g] = disk[g]
    /\ Len(disk[f]) \in Nat /\ Len(disk'[f]) = Len(disk[f]) + 1
    /\ disk'[f][Len(disk[f]) + 1] = chunk
    /\ \A k \in DOMAIN disk'[f] :
          \/ k \in DOMAIN disk[f] /\ disk'[f][k] = disk[f][k]
          \/ k = Len(disk[f]) + 1

\* WriteTo appends.
LEMMA WriteEffect ==
    ASSUME TypeOK, NEW f \in LogNames, NEW chunk \in Chunk, WriteTo(f, chunk)
    PROVE  Lengthened(f, chunk)
<1> DEFINE s == disk[f]
           t == disk'[f]
<1>1. s \in Seq(Chunk) /\ disk \in [LogNames -> Seq(Chunk)]
  BY DEF TypeOK
<1>2. t = Append(s, chunk) /\ \A g \in LogNames : g # f => disk'[g] = disk[g]
  BY <1>1 DEF WriteTo
<1> HIDE DEF s, t
<1>3. /\ Len(s) \in Nat /\ DOMAIN s = 1..Len(s)
      /\ Len(t) = Len(s) + 1 /\ DOMAIN t = 1..Len(s) + 1
      /\ t[Len(s) + 1] = chunk
      /\ \A k \in 1..Len(s) : t[k] = s[k]
  BY <1>1, <1>2
<1>4. \A k \in 1..Len(s) + 1 : k \in 1..Len(s) \/ k = Len(s) + 1
  BY <1>3
<1>5. \A k \in DOMAIN t : (k \in DOMAIN s /\ t[k] = s[k]) \/ k = Len(s) + 1
  BY <1>3, <1>4
<1> QED BY <1>2, <1>3, <1>5 DEF Lengthened, s, t

\* Only a chunk that is written changes the log files.
LEMMA DiskSteps ==
    ASSUME TypeOK, DownIdle, Counted, [Next]_vars, ~ UNCHANGED disk
    PROVE  /\ rpc = "write" /\ session # 0 /\ UNCHANGED session /\ log_file_path \in LogNames
           /\ \E chunk \in Torn : Lengthened(log_file_path, chunk)
<1>1. rpc = "write" /\ UNCHANGED session /\ \E chunk \in Torn : WriteTo(log_file_path, chunk)
  BY WriteSteps DEF WriteStep, OthersStep, LoadSlave, ReadSize, OpenFile, files
<1>2. session # 0 /\ log_file_path \in LogNames
  BY <1>1 DEF DownIdle, Counted
<1>3. \A chunk \in Torn : chunk \in Chunk
  BY <1>1, <1>2, TornIsChunk
<1> QED BY <1>1, <1>2, <1>3, WriteEffect

\* So what is written has bodies behind their headers.
LEMMA FormedStep ==
    TypeOK /\ DownIdle /\ Counted /\ CacheWellFormed /\ CachedPushed /\ ChunksFormed
    /\ [Next]_vars => ChunksFormed'
<1> SUFFICES ASSUME TypeOK, DownIdle, Counted, CacheWellFormed, CachedPushed, ChunksFormed,
                    [Next]_vars
             PROVE  ChunksFormed'
  OBVIOUS
<1> DEFINE GoodChunk(chunk) ==
              /\ Len(chunk.data) <= chunk.size
              /\ \A i \in DOMAIN chunk.data : chunk.data[i].part = "body" =>
                    /\ chunk.data[i].item # 0
                    /\ i > 1 /\ chunk.data[i - 1].part = "head"
<1>1. CASE UNCHANGED disk
  BY <1>1 DEF ChunksFormed
<1>2. CASE ~ UNCHANGED disk
  <2>1. /\ rpc = "write" /\ session # 0 /\ log_file_path \in LogNames
        /\ \E chunk \in Torn : Lengthened(log_file_path, chunk)
    BY <1>2, DiskSteps
  <2>2. PICK chunk \in Torn : Lengthened(log_file_path, chunk)
    BY <2>1
  <2>3. GoodChunk(chunk)
    <3>1. Len(chunk.data) <= chunk.size /\ ReadOf(chunk.data, cache[loaded]) /\ loaded \in Files
      BY <2>1, TornIsChunk, ReadIsData
    <3>2. \A i \in DOMAIN chunk.data : chunk.data[i].part = "body" =>
             chunk.data[i].item # 0 /\ i > 1 /\ chunk.data[i - 1].part = "head"
      BY <3>1, ReadFormed
    <3> QED BY <3>1, <3>2
  <2>4. \A f \in LogNames : \A k \in DOMAIN disk[f] : GoodChunk(disk[f][k])
    BY DEF ChunksFormed
  <2> HIDE DEF GoodChunk
  <2>5. \A f \in LogNames : \A k \in DOMAIN disk'[f] : GoodChunk(disk'[f][k])
    BY <2>1, <2>2, <2>3, <2>4 DEF Lengthened
  <2> QED BY <2>5 DEF ChunksFormed, GoodChunk
<1> QED BY <1>1, <1>2

-----------------------------------------------------------------------------
(* The theorems. *)

\* The invariant is inductive.
LEMMA NextInvariant == IInv /\ [Next]_vars => IInv'
BY TypeStep, ItemStep, LockStep, DownStep, HeaderStep, MarkerStep, KeysStep, WellFormedStep,
   KeptStep, LastStep, QuietStep, CountedStep, SlaveStep, AlternateStep, EvenStep, OrderStep,
   FormedStep DEF IInv

\* The invariant holds in every state the sink can be in.
THEOREM Invariance == Spec => []IInv
<1>1. Init => IInv
  BY InitInvariant
<1>2. IInv /\ [Next]_vars => IInv'
  BY NextInvariant
<1> QED BY <1>1, <1>2, PTL DEF Spec

\* However the calls of Log overlap with the switches of the caches and with crashes,
\* what is in a cache file parses: a body follows its own header.
THEOREM WellFormed == Spec => []CacheWellFormed
<1>1. IInv => CacheWellFormed
  BY DEF IInv
<1> QED BY <1>1, Invariance, PTL

\* No item that Log has pushed is lost: not by a switch that comes between two pushes,
\* not by a log file that cannot be opened or written, and not by a crash.
THEOREM NoItemLost == Spec => []NothingLost
<1>1. IInv => NothingLost
  BY DEF IInv, Kept, NothingLost
<1> QED BY <1>1, Invariance, PTL

\* When the destructor has returned no write of the slave cache is under way or waiting,
\* although it waits for one marker only.
THEOREM DestructorQuiet == Spec => []QuietWhenGone
<1>1. IInv => QuietWhenGone
  BY DEF IInv
<1> QED BY <1>1, Invariance, PTL

\* What the theorem below says of one log file.
InOrderIn(f) ==
    disk'[f] # disk[f] /\ session = 1 /\ ~switched =>
      LET chunk == disk'[f][Len(disk'[f])]
          data == chunk.data
          items == 1..(chunk.size \div 2)
      IN  Len(data) = chunk.size =>
             /\ chunk.size % 2 = 0
             /\ \A i \in items :
                   /\ data[2 * i] = [item |-> data[2 * i].item, part |-> "body", key |-> 1]
                   /\ data[2 * i - 1] = [data[2 * i] EXCEPT !.part = "head"]
             /\ \A i, j \in items : i < j => Before(data[2 * i].item, data[2 * j].item)

\* The chunk that a step writes.
LEMMA ChunkStep == ASSUME IInv, [Next]_vars, NEW f \in LogNames PROVE InOrderIn(f)
<1> DEFINE chunk == disk'[f][Len(disk'[f])]
           data == chunk.data
           n == chunk.size
           items == 1..(n \div 2)
<1> SUFFICES ASSUME disk'[f] # disk[f], session = 1, ~switched, Len(data) = n
             PROVE  /\ n % 2 = 0
                    /\ \A i \in items :
                          /\ data[2 * i] = [item |-> data[2 * i].item, part |-> "body", key |-> 1]
                          /\ data[2 * i - 1] = [data[2 * i] EXCEPT !.part = "head"]
                    /\ \A i, j \in items : i < j => Before(data[2 * i].item, data[2 * j].item)
  BY DEF InOrderIn
<1>1. /\ rpc = "write" /\ session # 0
      /\ \E torn \in Torn : Lengthened(log_file_path, torn)
  BY DiskSteps DEF IInv
<1>2. chunk \in Torn
  <2>1. PICK torn \in Torn : Lengthened(log_file_path, torn)
    BY <1>1
  <2>2. f = log_file_path
    BY <2>1 DEF Lengthened
  <2> QED BY <2>1, <2>2 DEF Lengthened
<1> DEFINE s == cache[slave]
<1>3. loaded = slave /\ measured = slave
  BY <1>1 DEF IInv, ReadsSlave
<1>4. slave \in Files /\ s \in Seq(Piece) /\ rsize \in Nat
  BY OtherFile DEF slave, IInv, TypeOK
<1>5. /\ n = rsize /\ data \in Seq(Piece)
      /\ \A i \in DOMAIN data : i \in DOMAIN s /\ data[i] = s[i]
  <2>1. TypeOK /\ Counted
    BY DEF IInv
  <2> HIDE DEF chunk
  <2>2. chunk \in Chunk
    BY <1>1, <1>2, <2>1, TornIsChunk
  <2>3. /\ chunk.size = rsize
        /\ \A i \in DOMAIN chunk.data : i \in DOMAIN cache[loaded]
                                     /\ chunk.data[i] = cache[loaded][i]
    BY <1>1, <1>2, <1>3, <2>1, TornIsChunk
  <2> QED BY <1>3, <2>2, <2>3 DEF Chunk
<1>6. DOMAIN data = 1..n
  BY <1>4, <1>5
<1> HIDE DEF chunk, data, n, s
<1>7. \A i \in 1..n : i \in DOMAIN s /\ data[i] = s[i]
  BY <1>5, <1>6
<1>8. n \in Nat /\ n % 2 = 0
  BY <1>1, <1>4, <1>5 DEF IInv, EvenSize
<1>9. \A i \in items : /\ 2 * i \in 1..n /\ 2 * i - 1 \in 1..n /\ (2 * i) % 2 # 1
                       /\ 2 * i > 1
  BY <1>8
<1>10. ASSUME NEW i \in items
       PROVE  /\ data[2 * i] = s[2 * i] /\ data[2 * i - 1] = s[2 * i - 1]
              /\ 2 * i \in DOMAIN s /\ s[2 * i].part = "body" /\ s[2 * i].key = 1
              /\ s[2 * i] \in Piece
              /\ s[2 * i - 1] = [s[2 * i] EXCEPT !.part = "head"]
  <2> DEFINE j == 2 * i
  <2>1. j \in 1..n /\ j - 1 \in 1..n /\ j % 2 # 1
    BY <1>9
  <2> HIDE DEF j
  <2>2. data[j] = s[j] /\ data[j - 1] = s[j - 1] /\ j \in DOMAIN s /\ s[j] \in Piece
    BY <1>4, <1>7, <2>1
  <2>3. s[j].part = "body"
    BY <1>4, <2>1, <2>2 DEF IInv, Alternate, s
  <2>4. s[j - 1] = [s[j] EXCEPT !.part = "head"]
    BY <1>4, <2>2, <2>3 DEF IInv, CacheWellFormed, s
  <2>5. s[j].key = 1
    <3>1. s[j].key <= 1
      BY <1>4, <2>2 DEF IInv, KeysPast, s
    <3>2. s[j].key \in 1..MaxSessions
      BY <2>2 DEF Piece
    <3> QED BY <3>1, <3>2, SinkAssumption
  <2> QED BY <2>2, <2>3, <2>4, <2>5 DEF j
<1>11. ASSUME NEW i \in items
       PROVE  /\ data[2 * i] = [item |-> data[2 * i].item, part |-> "body", key |-> 1]
              /\ data[2 * i - 1] = [data[2 * i] EXCEPT !.part = "head"]
  <2> DEFINE d == data[2 * i]
  <2>1. d \in Piece /\ d.part = "body" /\ d.key = 1
    BY <1>10
  <2> HIDE DEF d
  <2>2. d = [item |-> d.item, part |-> "body", key |-> 1]
    BY <2>1 DEF Piece
  <2> QED BY <1>10, <2>2 DEF d
<1>12. ASSUME NEW i \in items, NEW j \in items, i < j
       PROVE  Before(data[2 * i].item, data[2 * j].item)
  <2>1. 2 * i < 2 * j
    BY <1>8, <1>12
  <2>2. Before(s[2 * i].item, s[2 * j].item)
    BY <1>4, <1>10, <2>1 DEF IInv, PushOrder, s
  <2> QED BY <1>10, <2>2
<1> QED BY <1>8, <1>11, <1>12

\* A chunk of the first sink is whole items in the order of their pushing, though the
\* runner gets the slave cache, its size and its bytes one after the other without a
\* lock, unless the caches changed roles in between: who switches waits for those that
\* push, and what is in a cache stays, from its start on.
THEOREM WholeItems == Spec => ChunkInOrder
<1> DEFINE A == \A f \in LogNames : InOrderIn(f)
<1>1. IInv /\ [Next]_vars => [A]_vars
  BY ChunkStep
<1>2. Spec => [][A]_vars
  <2> HIDE DEF A
  <2> QED BY <1>1, Invariance, PTL DEF Spec
<1> QED BY <1>2 DEF ChunkInOrder, InOrderIn

-----------------------------------------------------------------------------
(* Messages: what a buffer holds and what comes back from it. *)

\* What is appended behind sequences that are joined.
LEMMA AppendBehind ==
    ASSUME NEW S, NEW s \in Seq(S), NEW t \in Seq(S), NEW x \in S
    PROVE  s \o Append(t, x) = Append(s \o t, x) /\ s \o t \in Seq(S)
  OBVIOUS

\* Fields on the wire, and what may be parsed of them, for values V.
Sent(V) == [field : Fields, value : V]
Parsed(V) == [Fields -> V] \union {Failure}

\* A field that is read leaves a message, or a failure.
LEMMA ParseTyped ==
    ASSUME NEW V, NEW acc \in Parsed(V), NEW w \in Sent(V)
    PROVE  ParseField(acc, w) \in Parsed(V)
  BY DEF Parsed, Sent, ParseField, Set, SetString, SetNumber

\* Parsing takes the fields in turn.
LEMMA ParseTurns ==
    ASSUME NEW V, EmptyMsg \in [Fields -> V], NEW wire \in Seq(Sent(V))
    PROVE  \E g \in [0..Len(wire) -> Parsed(V)] :
              /\ g[0] = EmptyMsg /\ Parse(wire) = g[Len(wire)]
              /\ \A k \in 1..Len(wire) : g[k] = ParseField(g[k - 1], wire[k])
<1> DEFINE n == Len(wire)
           F == [p \in (1..n) \X Parsed(V) |-> ParseField(p[2], wire[p[1]])]
           Def(g) == [k \in 0..n |-> IF k = 0 THEN EmptyMsg ELSE ParseField(g[k - 1], wire[k])]
<1>1. n \in Nat /\ EmptyMsg \in Parsed(V) /\ \A k \in 1..n : wire[k] \in Sent(V)
  BY DEF Parsed
<1>2. F \in Maps(n, Parsed(V))
  <2>1. \A p \in (1..n) \X Parsed(V) : ParseField(p[2], wire[p[1]]) \in Parsed(V)
    <3> HIDE DEF n
    <3> QED BY <1>1, ParseTyped
  <2> QED BY <2>1 DEF Maps
<1>3. PICK g \in [0..n -> Parsed(V)] :
         g[0] = EmptyMsg /\ \A k \in 1..n : g[k] = F[<<k, g[k - 1]>>]
  <2> HIDE DEF n, F
  <2>1. Iterated(n, Parsed(V), EmptyMsg, F) # {}
    BY <1>1, <1>2, Iterates
  <2> QED BY <2>1 DEF Iterated
<1>4. \A k \in 1..n : g[k] = ParseField(g[k - 1], wire[k])
  <2> SUFFICES ASSUME NEW k \in 1..n PROVE g[k] = ParseField(g[k - 1], wire[k])
    OBVIOUS
  <2>1. k - 1 \in 0..n
    BY <1>1
  <2>2. <<k, g[k - 1]>> \in (1..n) \X Parsed(V)
    <3> HIDE DEF n
    <3> QED BY <2>1, <1>3
  <2> HIDE DEF n
  <2> QED BY <2>2, <1>3
<1>5. g = Def(g)
  <2> HIDE DEF n, F
  <2> QED BY <1>1, <1>3, <1>4
<1> DEFINE G == CHOOSE h : h = Def(h)
<1>6. G = Def(G) /\ Parse(wire) = G[n]
  <2>1. Parse(wire) = G[n]
    BY DEF Parse
  <2> HIDE DEF Def
  <2> QED BY <2>1, <1>5
<1>7. G[0] = EmptyMsg /\ \A k \in 1..n : G[k] = ParseField(G[k - 1], wire[k])
  <2> HIDE DEF G, n
  <2> QED BY <1>1, <1>6
<1>8. \A k \in 0..n : G[k] = g[k]
  <2> DEFINE T == {k \in Nat : k <= n => G[k] = g[k]}
  <2>1. 0 \in T
    BY <1>3, <1>7
  <2>2. ASSUME NEW k \in Nat, k \in T PROVE k + 1 \in T
    <3> SUFFICES ASSUME k + 1 <= n PROVE G[k + 1] = g[k + 1]
      OBVIOUS
    <3>1. k + 1 \in 1..n /\ (k + 1) - 1 = k /\ G[k] = g[k]
      BY <2>2, <1>1
    <3> HIDE DEF G, n
    <3> QED BY <3>1, <1>4, <1>7
  <2>3. Nat \subseteq T
    <3> HIDE DEF T
    <3> QED BY <2>1, <2>2, Induction
  <2> HIDE DEF G, n
  <2> QED BY <2>3
<1>9. Parse(wire) = g[n]
  <2> HIDE DEF G
  <2> QED BY <1>1, <1>6, <1>8
<1> QED BY <1>3, <1>4, <1>9

\* What is parsed of a wire that is longer by one field.
LEMMA ParseNext ==
    ASSUME NEW V, EmptyMsg \in [Fields -> V], NEW wire \in Seq(Sent(V)), NEW w \in Sent(V)
    PROVE  /\ Parse(wire) \in Parsed(V)
           /\ Parse(Append(wire, w)) = ParseField(Parse(wire), w)
<1> DEFINE n == Len(wire)
           more == Append(wire, w)
<1>1. PICK g \in [0..n -> Parsed(V)] :
         /\ g[0] = EmptyMsg /\ Parse(wire) = g[n]
         /\ \A k \in 1..n : g[k] = ParseField(g[k - 1], wire[k])
  BY ParseTurns
<1>2. /\ n \in Nat /\ more \in Seq(Sent(V)) /\ Len(more) = n + 1 /\ more[n + 1] = w
      /\ \A k \in 1..n : more[k] = wire[k]
  OBVIOUS
<1>3. PICK h \in [0..n + 1 -> Parsed(V)] :
         /\ h[0] = EmptyMsg /\ Parse(more) = h[n + 1]
         /\ \A k \in 1..n + 1 : h[k] = ParseField(h[k - 1], more[k])
  <2>1. \E h \in [0..Len(more) -> Parsed(V)] :
           /\ h[0] = EmptyMsg /\ Parse(more) = h[Len(more)]
           /\ \A k \in 1..Len(more) : h[k] = ParseField(h[k - 1], more[k])
    <3> HIDE DEF more
    <3> QED BY <1>2, ParseTurns
  <2> HIDE DEF more, n
  <2> QED BY <2>1, <1>2
<1> DEFINE T == {k \in Nat : k <= n => h[k] = g[k]}
<1> HIDE DEF more, n
<1>4. 0 \in T
  BY <1>1, <1>3
<1>5. ASSUME NEW k \in Nat, k \in T PROVE k + 1 \in T
  <2> SUFFICES ASSUME k + 1 <= n PROVE h[k + 1] = g[k + 1]
    OBVIOUS
  <2>1. k + 1 \in 1..n /\ k + 1 \in 1..n + 1 /\ (k + 1) - 1 = k /\ h[k] = g[k]
    BY <1>2, <1>5
  <2>2. h[k + 1] = ParseField(h[k], wire[k + 1])
    BY <2>1, <1>2, <1>3
  <2>3. g[k + 1] = ParseField(g[k], wire[k + 1])
    BY <2>1, <1>1
  <2> QED BY <2>1, <2>2, <2>3
<1>6. Nat \subseteq T
  <2> HIDE DEF T
  <2> QED BY <1>4, <1>5, Induction
<1>7. h[n] = g[n] /\ n + 1 \in 1..n + 1 /\ (n + 1) - 1 = n
  BY <1>2, <1>6
<1>8. Parse(more) = ParseField(g[n], w)
  BY <1>2, <1>3, <1>7
<1> QED BY <1>1, <1>2, <1>8 DEF more

\* The same, with other fields before.
LEMMA ParseFurther ==
    ASSUME NEW V, EmptyMsg \in [Fields -> V],
           NEW wire \in Seq(Sent(V)), NEW s \in Seq(Sent(V)), NEW w \in Sent(V)
    PROVE  Parse(wire \o Append(s, w)) = ParseField(Parse(wire \o s), w)
<1>1. wire \o Append(s, w) = Append(wire \o s, w) /\ wire \o s \in Seq(Sent(V))
  BY AppendBehind
<1>2. Parse(Append(wire \o s, w)) = ParseField(Parse(wire \o s), w)
  BY <1>1, ParseNext
<1> QED BY <1>1, <1>2

\* Nothing is parsed of nothing.
LEMMA ParseNothing ==
    ASSUME NEW V, EmptyMsg \in [Fields -> V]
    PROVE  Parse(<<>>) = EmptyMsg
<1>1. <<>> \in Seq(Sent(V)) /\ Len(<<>>) = 0
  OBVIOUS
<1>2. PICK g \in [0..0 -> Parsed(V)] : g[0] = EmptyMsg /\ Parse(<<>>) = g[0]
  BY <1>1, ParseTurns
<1> QED BY <1>2

\* The field of a message that is written n-th, if it is.
Sending(m, n) == [field |-> FieldOrder[n], value |-> m[FieldOrder[n]]]

\* Serialize goes through the fields in turn.
LEMMA SerializeTurns ==
    ASSUME NEW V, NEW m \in [Fields -> V]
    PROVE  \E g \in [0..8 -> Seq(Sent(V))] :
              /\ g[0] = <<>> /\ Serialize(m) = g[8]
              /\ \A k \in 1..8 : g[k] = IF FieldOrder[k] \in Present(m)
                                        THEN Append(g[k - 1], Sending(m, k)) ELSE g[k - 1]
<1> DEFINE Turn(k, s) == IF FieldOrder[k] \in Present(m) THEN Append(s, Sending(m, k)) ELSE s
           F == [p \in (1..8) \X Seq(Sent(V)) |-> Turn(p[1], p[2])]
           Def(g) == [k \in 0..8 |-> IF k = 0 THEN <<>> ELSE Turn(k, g[k - 1])]
<1>1. \A k \in 1..8 : FieldOrder[k] \in Fields
  BY DEF FieldOrder, Fields, Numbers, Strings
<1>2. F \in Maps(8, Seq(Sent(V)))
  <2>1. \A k \in 1..8 : Sending(m, k) \in Sent(V)
    BY <1>1 DEF Sending, Sent
  <2>2. \A p \in (1..8) \X Seq(Sent(V)) : Turn(p[1], p[2]) \in Seq(Sent(V))
    BY <2>1
  <2> QED BY <2>2 DEF Maps
<1>3. PICK g \in [0..8 -> Seq(Sent(V))] :
         g[0] = <<>> /\ \A k \in 1..8 : g[k] = F[<<k, g[k - 1]>>]
  <2> HIDE DEF F
  <2>1. 8 \in Nat /\ <<>> \in Seq(Sent(V))
    OBVIOUS
  <2>2. Iterated(8, Seq(Sent(V)), <<>>, F) # {}
    BY <2>1, <1>2, Iterates
  <2> QED BY <2>2 DEF Iterated
<1>4. \A k \in 1..8 : g[k] = Turn(k, g[k - 1])
  <2> SUFFICES ASSUME NEW k \in 1..8 PROVE g[k] = Turn(k, g[k - 1])
    OBVIOUS
  <2>1. k - 1 \in 0..8
    OBVIOUS
  <2>2. <<k, g[k - 1]>> \in (1..8) \X Seq(Sent(V))
    BY <2>1, <1>3
  <2> HIDE DEF Turn
  <2> QED BY <2>2, <1>3
<1>5. g = Def(g)
  <2> HIDE DEF Turn, F
  <2> QED BY <1>3, <1>4
<1> DEFINE G == CHOOSE h : h = Def(h)
<1>6. G = Def(G) /\ Serialize(m) = G[8]
  <2>1. Serialize(m) = G[8]
    BY DEF Serialize, Sending, FieldOrder
  <2> HIDE DEF Def
  <2> QED BY <2>1, <1>5
<1>7. G[0] = <<>> /\ \A k \in 1..8 : G[k] = Turn(k, G[k - 1])
  <2> HIDE DEF G, Turn
  <2> QED BY <1>6
<1>8. G[8] = g[8]
  <2> HIDE DEF G, Turn
  <2>1. \A k \in 0..7 : G[k] = g[k] => G[k + 1] = g[k + 1]
    <3> SUFFICES ASSUME NEW k \in 0..7, G[k] = g[k] PROVE G[k + 1] = g[k + 1]
      OBVIOUS
    <3>1. k + 1 \in 1..8 /\ (k + 1) - 1 = k
      OBVIOUS
    <3> QED BY <3>1, <1>4, <1>7
  <2>2. G[0] = g[0]
    BY <1>3, <1>7
  <2> QED BY <2>1, <2>2
<1>9. Serialize(m) = g[8]
  <2> HIDE DEF G
  <2> QED BY <1>6, <1>8
<1> QED BY <1>3, <1>4, <1>9

\* Every field has its place.
LEMMA Places ==
    /\ \A f \in Fields : \E j \in 1..8 : FieldOrder[j] = f
    /\ \A j \in 1..8 : FieldOrder[j] \in Fields
    /\ "end" \notin Fields
  BY DEF Fields, Numbers, Strings, FieldOrder

\* Intervals that end in the next number.
LEMMA UpToNext == ASSUME NEW k \in Nat PROVE 1..k + 1 = 1..k \union {k + 1}
  OBVIOUS

\* No field is written twice.
LEMMA NoFieldTwice ==
    \A i \in 1..8 : \A j \in 1..8 : i # j => FieldOrder[i] # FieldOrder[j]
  BY DEF FieldOrder

\* What is parsed of the fields of a message that come before the k-th, and of that:
\* nothing of them if a text among them is not UTF-8.
Spoiling(m, k) == \E j \in 1..k : FieldOrder[j] \in Strings /\ m[FieldOrder[j]] \in NotUtf8
Merged(acc, m, k) ==
    [f \in Fields |-> IF f \in Present(m) /\ (\E j \in 1..k : FieldOrder[j] = f)
                      THEN m[f] ELSE acc[f]]

ParsedTo(acc, m, k) == IF Spoiling(m, k) THEN Failure ELSE Merged(acc, m, k)

\* One field more.
LEMMA MergedNext ==
    ASSUME NEW V, Failure \notin [Fields -> V],
           NEW acc \in [Fields -> V], NEW m \in [Fields -> V]
    PROVE  \A k \in 0..7 : \A before : before = ParsedTo(acc, m, k) =>
              (IF FieldOrder[k + 1] \in Present(m) THEN ParseField(before, Sending(m, k + 1)) ELSE before)
                = ParsedTo(acc, m, k + 1)
<1> SUFFICES ASSUME NEW k \in 0..7, NEW before, before = ParsedTo(acc, m, k)
             PROVE  (IF FieldOrder[k + 1] \in Present(m)
                     THEN ParseField(before, Sending(m, k + 1)) ELSE before)
                       = ParsedTo(acc, m, k + 1)
  OBVIOUS
<1> USE DEF ParsedTo
<1> DEFINE f == FieldOrder[k + 1]
           bad == f \in Strings /\ m[f] \in NotUtf8
<1>1. k + 1 \in 1..8 /\ f \in Fields /\ "end" # f
  <2>1. k + 1 \in 1..8
    OBVIOUS
  <2> QED BY <2>1, Places
<1>2. Spoiling(m, k + 1) <=> Spoiling(m, k) \/ bad
  <2>1. 1..k + 1 = 1..k \union {k + 1}
    OBVIOUS
  <2> QED BY <2>1 DEF Spoiling
<1>3. bad => f \in Present(m)
  BY <1>1, TextAssumption DEF Present, Default
<1>4. \A h \in Fields : (\E j \in 1..k + 1 : FieldOrder[j] = h)
                          <=> (\E j \in 1..k : FieldOrder[j] = h) \/ h = f
  <2>1. 1..k + 1 = 1..k \union {k + 1}
    OBVIOUS
  <2> QED BY <2>1
<1>5. Merged(acc, m, k) \in [Fields -> V] /\ Merged(acc, m, k) # Failure
  <2>1. Merged(acc, m, k) \in [Fields -> V]
    BY DEF Merged
  <2> QED BY <2>1
<1>6. Sending(m, k + 1).field = f /\ Sending(m, k + 1).value = m[f]
  BY DEF Sending
<1> HIDE DEF f, bad
<1>7. CASE f \notin Present(m)
  <2>1. Merged(acc, m, k + 1) = Merged(acc, m, k)
    BY <1>4, <1>7 DEF Merged
  <2> QED BY <1>2, <1>3, <1>7, <2>1 DEF f
<1>8. CASE f \in Present(m) /\ Spoiling(m, k)
  BY <1>2, <1>8 DEF ParseField, f
<1>9. CASE f \in Present(m) /\ ~Spoiling(m, k) /\ bad
  <2>1. ParseField(before, Sending(m, k + 1)) = Failure
    BY <1>1, <1>5, <1>6, <1>9 DEF ParseField, bad
  <2> QED BY <1>2, <1>9, <2>1 DEF f
<1>10. CASE f \in Present(m) /\ ~Spoiling(m, k) /\ ~bad
  <2>1. before = Merged(acc, m, k)
    BY <1>10
  <2>2. ParseField(before, Sending(m, k + 1)) = [Merged(acc, m, k) EXCEPT ![f] = m[f]]
    BY <1>1, <1>5, <1>6, <1>10, <2>1 DEF ParseField, bad, Set, SetString, SetNumber
  <2>3. [Merged(acc, m, k) EXCEPT ![f] = m[f]] = Merged(acc, m, k + 1)
    BY <1>1, <1>4, <1>10 DEF Merged
  <2> QED BY <1>2, <1>10, <2>2, <2>3 DEF f
<1> QED BY <1>7, <1>8, <1>9, <1>10

\* A message that is written behind others is merged with what is parsed of them, or
\* nothing comes back.
LEMMA ParsedBehind ==
    ASSUME NEW V, {0, NoText} \subseteq V, Failure \notin [Fields -> V],
           NEW wire \in Seq(Sent(V)), Parse(wire) \in [Fields -> V], NEW m \in [Fields -> V]
    PROVE  Parse(wire \o Serialize(m)) = IF Sendable(m) THEN MergeFrom(Parse(wire), m) ELSE Failure
<1>0. \A k \in Nat : k + 1 <= 8 =>
         k \in 0..7 /\ k + 1 \in 1..8 /\ (k + 1) - 1 = k /\ k \in 0..8 /\ k <= 8
  OBVIOUS
<1> DEFINE acc == Parse(wire)
<1>1. \A t \in Seq(Sent(V)), y \in Sent(V) :
         Parse(wire \o Append(t, y)) = ParseField(Parse(wire \o t), y)
  <2>1. EmptyMsg \in [Fields -> V]
    BY DEF EmptyMsg, Default
  <2> QED BY <2>1, ParseFurther
<1>2. PICK g \in [0..8 -> Seq(Sent(V))] :
         /\ g[0] = <<>> /\ Serialize(m) = g[8]
         /\ \A k \in 1..8 : g[k] = IF FieldOrder[k] \in Present(m)
                                   THEN Append(g[k - 1], Sending(m, k)) ELSE g[k - 1]
  BY SerializeTurns
<1> DEFINE T == {k \in Nat : k <= 8 => Parse(wire \o g[k]) = ParsedTo(acc, m, k)}
<1>3. 0 \in T
  <2>1. wire \o <<>> = wire
    OBVIOUS
  <2>2. ~Spoiling(m, 0) /\ Merged(acc, m, 0) = acc
    BY DEF Spoiling, Merged
  <2> QED BY <1>2, <2>1, <2>2 DEF ParsedTo
<1>4. ASSUME NEW k \in Nat, k \in T PROVE k + 1 \in T
  <2> SUFFICES ASSUME k + 1 <= 8 PROVE Parse(wire \o g[k + 1]) = ParsedTo(acc, m, k + 1)
    OBVIOUS
  <2> DEFINE f == FieldOrder[k + 1]
             s == wire \o g[k]
  <2>0. k \in 0..7 /\ k + 1 \in 1..8 /\ (k + 1) - 1 = k /\ k \in 0..8 /\ k <= 8
    BY <1>0
  <2>1. Parse(s) = ParsedTo(acc, m, k)
    BY <1>4, <2>0
  <2>2. g[k] \in Seq(Sent(V)) /\ s \in Seq(Sent(V))
    <3>1. g[k] \in Seq(Sent(V))
      BY <1>2, <2>0
    <3> QED BY <3>1
  <2>3. Sending(m, k + 1) \in Sent(V)
    BY <2>0, Places DEF Sending, Sent
  <2>4. Parse(wire \o Append(g[k], Sending(m, k + 1))) = ParseField(Parse(s), Sending(m, k + 1))
    <3> DEFINE x == Sending(m, k + 1)
    <3>1. x \in Sent(V) /\ g[k] \in Seq(Sent(V))
      BY <2>2, <2>3
    <3> HIDE DEF x
    <3> QED BY <1>1, <3>1 DEF x
  <2>6. Parse(wire \o g[k + 1])
           = IF f \in Present(m) THEN ParseField(Parse(s), Sending(m, k + 1)) ELSE Parse(s)
    <3>1. g[k + 1] = IF f \in Present(m) THEN Append(g[k], Sending(m, k + 1)) ELSE g[k]
      BY <1>2, <2>0
    <3> QED BY <3>1, <2>4
  <2>7. (IF f \in Present(m) THEN ParseField(Parse(s), Sending(m, k + 1)) ELSE Parse(s))
           = ParsedTo(acc, m, k + 1)
    <3>1. \A j \in 0..7 : \A before : before = ParsedTo(acc, m, j) =>
             (IF FieldOrder[j + 1] \in Present(m) THEN ParseField(before, Sending(m, j + 1)) ELSE before)
               = ParsedTo(acc, m, j + 1)
      BY MergedNext
    <3> HIDE DEF s
    <3> QED BY <2>0, <2>1, <3>1
  <2> QED BY <2>6, <2>7
<1>5. Nat \subseteq T
  <2> HIDE DEF T
  <2> QED BY <1>3, <1>4, Induction
<1>6. Parse(wire \o Serialize(m)) = ParsedTo(acc, m, 8)
  <2>1. 8 \in T /\ 8 <= 8
    <3> HIDE DEF T
    <3> QED BY <1>5
  <2> QED BY <1>2, <2>1
<1>7. Spoiling(m, 8) <=> ~Sendable(m)
  <2>1. Strings \subseteq Fields
    BY DEF Fields
  <2> QED BY <2>1, Places DEF Spoiling, Sendable
<1>8. Merged(acc, m, 8) = MergeFrom(acc, m)
  BY Places DEF Merged, MergeFrom
<1> QED BY <1>6, <1>7, <1>8 DEF ParsedTo

\* The length told beforehand is the length written.
LEMMA LengthTold ==
    ASSUME NEW V, NEW m \in [Fields -> V]
    PROVE  Serialize(m) \in Seq(Sent(V)) /\ FormatMsg(m) = Serialize(m)
<1>1. PICK g \in [0..8 -> Seq(Sent(V))] :
         /\ g[0] = <<>> /\ Serialize(m) = g[8]
         /\ \A k \in 1..8 : g[k] = IF FieldOrder[k] \in Present(m)
                                   THEN Append(g[k - 1], Sending(m, k)) ELSE g[k - 1]
  BY SerializeTurns
<1> DEFINE Placed(k) == {f \in Present(m) : \E j \in 1..k : FieldOrder[j] = f}
           T == {k \in Nat : k <= 8 =>
                    IsFiniteSet(Placed(k)) /\ Cardinality(Placed(k)) = Len(g[k])}
<1>2. 0 \in T
  <2>1. Placed(0) = {}
    OBVIOUS
  <2>2. Len(g[0]) = 0
    BY <1>1
  <2> HIDE DEF Placed
  <2> QED BY <2>1, <2>2, FS_EmptySet
<1>3. ASSUME NEW k \in Nat, k \in T PROVE k + 1 \in T
  <2> SUFFICES ASSUME k + 1 <= 8
               PROVE  IsFiniteSet(Placed(k + 1)) /\ Cardinality(Placed(k + 1)) = Len(g[k + 1])
    OBVIOUS
  <2> DEFINE f == FieldOrder[k + 1]
  <2>1. k + 1 \in 1..8 /\ (k + 1) - 1 = k /\ k \in 0..8 /\ k <= 8 /\ k + 1 \in 0..8
    OBVIOUS
  <2>2. IsFiniteSet(Placed(k)) /\ Cardinality(Placed(k)) = Len(g[k])
    BY <1>3, <2>1
  <2>3. f \notin Placed(k)
    <3>1. \A j \in 1..8 : j # k + 1 => FieldOrder[j] # FieldOrder[k + 1]
      BY <2>1, NoFieldTwice
    <3>2. \A j \in 1..k : j \in 1..8 /\ j # k + 1
      BY <2>1, SMTT(20)
    <3> QED BY <3>1, <3>2
  <2>4. Placed(k + 1) = IF f \in Present(m) THEN Placed(k) \union {f} ELSE Placed(k)
    <3>1. 1..k + 1 = 1..k \union {k + 1}
      BY UpToNext
    <3> QED BY <3>1
  <2>5. Len(g[k + 1]) = IF f \in Present(m) THEN Len(g[k]) + 1 ELSE Len(g[k])
    <3>1. g[k + 1] = IF f \in Present(m) THEN Append(g[k], Sending(m, k + 1)) ELSE g[k]
      BY <1>1, <2>1
    <3>2. g[k] \in Seq(Sent(V))
      BY <1>1, <2>1
    <3> QED BY <3>1, <3>2
  <2> DEFINE P == Placed(k)
             Q == Placed(k + 1)
  <2>6. IsFiniteSet(P \union {f}) /\ Cardinality(P \union {f}) = Cardinality(P) + 1
    <3> HIDE DEF f, Placed
    <3> QED BY <2>2, <2>3, FS_AddElement
  <2> HIDE DEF P, Q
  <2>7. Q = IF f \in Present(m) THEN P \union {f} ELSE P
    BY <2>4 DEF P, Q
  <2>8. IsFiniteSet(P) /\ Cardinality(P) = Len(g[k])
    BY <2>2 DEF P
  <2>9. IsFiniteSet(Q) /\ Cardinality(Q) = Len(g[k + 1])
    BY <2>5, <2>6, <2>7, <2>8
  <2> QED BY <2>9 DEF Q
<1>4. 8 \in T /\ 8 <= 8
  <2>1. Nat \subseteq T
    <3> HIDE DEF T
    <3> QED BY <1>2, <1>3, Induction
  <2> HIDE DEF T
  <2> QED BY <2>1
<1>5. Placed(8) = Present(m)
  BY Places DEF Present
<1>6. Len(Serialize(m)) = ByteSizeLong(m)
  <2> HIDE DEF Placed
  <2> QED BY <1>1, <1>4, <1>5 DEF ByteSizeLong
<1>7. Serialize(m) \in Seq(Sent(V))
  BY <1>1
<1> QED BY <1>6, <1>7 DEF FormatMsg

\* A message comes back, if its texts are UTF-8, and is what it was before if nothing else
\* is written.
LEMMA ParsedBack ==
    ASSUME NEW m \in [Fields -> Values]
    PROVE  /\ FormatMsg(m) = Serialize(m) /\ FormatMsg(m) \in Seq(Sent(Values))
           /\ Parse(<<>>) = EmptyMsg /\ MergeFrom(EmptyMsg, m) = m
           /\ Parse(FormatMsg(m)) = IF Sendable(m) THEN m ELSE Failure
<1>1. {0, NoText} \subseteq Values /\ Failure \notin [Fields -> Values]
  BY LawsAssumption DEF Values
<1>2. EmptyMsg \in [Fields -> Values]
  BY <1>1 DEF EmptyMsg, Default
<1>3. FormatMsg(m) = Serialize(m) /\ FormatMsg(m) \in Seq(Sent(Values))
  BY LengthTold
<1>4. MergeFrom(EmptyMsg, m) = m
  <2>1. m = [f \in Fields |-> m[f]]
    OBVIOUS
  <2>2. \A f \in Fields : (IF f \in Present(m) THEN m[f] ELSE EmptyMsg[f]) = m[f]
    BY DEF Present, EmptyMsg
  <2> QED BY <2>1, <2>2 DEF MergeFrom
<1>5. <<>> \in Seq(Sent(Values)) /\ Parse(<<>>) = EmptyMsg
  BY <1>2, ParseNothing
<1>6. Parse(<<>> \o Serialize(m)) = IF Sendable(m) THEN MergeFrom(Parse(<<>>), m) ELSE Failure
  BY <1>1, <1>2, <1>5, ParsedBehind
<1>7. <<>> \o Serialize(m) = Serialize(m)
  BY <1>3
<1> QED BY <1>3, <1>4, <1>5, <1>6, <1>7

\* Messages come back from what is written of them.
THEOREM MessagesReturn == Spec => []ParseInverse
<1>1. MessagesAstray = {}
  <2> SUFFICES ASSUME NEW m \in Messages
               PROVE  /\ Parse(FormatMsg(m)) = IF Sendable(m) THEN m ELSE Failure
                      /\ Copied(m) = m
                      /\ \A n \in Messages :
                            /\ CopyFrom(n, m) = m
                            /\ Sendable(m) /\ Sendable(n) =>
                                  Parse(FormatMsg(m) \o FormatMsg(n)) = MergeFrom(m, n)
    BY DEF MessagesAstray
  <2>1. {0, NoText} \subseteq Values /\ Failure \notin [Fields -> Values]
    BY LawsAssumption DEF Values
  <2>2. \A n \in Messages : n \in [Fields -> Values]
    <3> SUFFICES ASSUME NEW n \in Messages PROVE n \in [Fields -> Values]
      OBVIOUS
    <3>1. n = [f \in Fields |-> n[f]]
      BY LawsAssumption
    <3>2. \A f \in Fields : n[f] \in Values
      <4>1. (\A f \in Numbers : n[f] \in Int) /\ (\A f \in Strings : n[f] \in STRING)
        BY LawsAssumption
      <4> QED BY <4>1 DEF Fields, Values
    <3> QED BY <3>1, <3>2
  <2>3. \A n \in Messages :
           /\ FormatMsg(n) = Serialize(n) /\ FormatMsg(n) \in Seq(Sent(Values))
           /\ MergeFrom(EmptyMsg, n) = n
           /\ Parse(FormatMsg(n)) = IF Sendable(n) THEN n ELSE Failure
    BY <2>2, ParsedBack
  <2>4. Copied(m) = m
    <3>1. m = [f \in Fields |-> m[f]]
      BY <2>2
    <3>2. \A f \in Fields :
             (IF f \in Numbers \/ f \in Present(m) THEN m[f] ELSE Default(f)) = m[f]
      BY DEF Present
    <3> QED BY <3>1, <3>2 DEF Copied
  <2>5. ASSUME NEW n \in Messages, Sendable(m), Sendable(n)
        PROVE  Parse(FormatMsg(m) \o FormatMsg(n)) = MergeFrom(m, n)
    <3>1. Parse(FormatMsg(m)) = m /\ m \in [Fields -> Values]
      BY <2>2, <2>3, <2>5
    <3>2. Parse(FormatMsg(m) \o Serialize(n)) = IF Sendable(n) THEN MergeFrom(m, n) ELSE Failure
      BY <2>1, <2>2, <2>3, <3>1, ParsedBehind
    <3> QED BY <2>3, <2>5, <3>2
  <2> QED BY <2>3, <2>4, <2>5 DEF CopyFrom
<1> QED BY <1>1, PTL DEF ParseInverse

-----------------------------------------------------------------------------
(* Sequences that are joined. *)

Join(s, t) == s \o t

\* Joining takes three sequences in either order, and nothing changes nothing.
LEMMA JoinLaws ==
    ASSUME NEW O
    PROVE  \A s \in Seq(O) :
              /\ Join(<<>>, s) = s /\ Join(s, <<>>) = s
              /\ \A t \in Seq(O) :
                    /\ Join(s, t) \in Seq(O)
                    /\ \A u \in Seq(O) : Join(Join(s, t), u) = Join(s, Join(t, u))
<1> SUFFICES ASSUME NEW s \in Seq(O)
             PROVE  /\ <<>> \o s = s /\ s \o <<>> = s
                    /\ \A t \in Seq(O) : s \o t \in Seq(O) /\ \A u \in Seq(O) : (s \o t) \o u = s \o (t \o u)
  BY DEF Join
<1>1. <<>> \o s = s /\ s \o <<>> = s
  OBVIOUS
<1>2. ASSUME NEW t \in Seq(O) PROVE s \o t \in Seq(O) /\ \A u \in Seq(O) : (s \o t) \o u = s \o (t \o u)
  <2>1. s \o t \in Seq(O)
    OBVIOUS
  <2>2. \A u \in Seq(O) : (s \o t) \o u = s \o (t \o u)
    BY ConcatAssociative
  <2> QED BY <2>1, <2>2
<1> QED BY <1>1, <1>2

\* Four of them.
LEMMA Regroup ==
    ASSUME NEW O, NEW s \in Seq(O)
    PROVE  \A a \in Seq(O), b \in Seq(O), t \in Seq(O) :
              /\ Join(Join(s, a), t) = Join(s, Join(a, t))
              /\ Join(Join(s, a), <<>>) = Join(s, a)
              /\ Join(Join(s, a), Join(b, t)) = Join(Join(s, Join(a, b)), t)
  BY JoinLaws

\* A sequence that has grown is longer by one, and ends in what was appended.
LEMMA Appended ==
    ASSUME NEW S
    PROVE  \A s \in Seq(S) : \A x \in S :
              /\ Append(s, x) \in Seq(S)
              /\ Len(Append(s, x)) = Len(s) + 1 /\ Append(s, x)[Len(s) + 1] = x
  OBVIOUS

\* It is not empty.
LEMMA NotEmptied ==
    ASSUME NEW S
    PROVE  \A s \in Seq(S) : \A x \in S : Append(s, x) \in Seq(S) /\ Append(s, x) # <<>>
<1> SUFFICES ASSUME NEW s \in Seq(S), NEW x \in S
             PROVE  Append(s, x) \in Seq(S) /\ Append(s, x) # <<>>
  OBVIOUS
<1> DEFINE t == Append(s, x)
<1>1. t \in Seq(S) /\ Len(t) # 0
  OBVIOUS
<1>2. Len(<<>>) = 0
  OBVIOUS
<1> HIDE DEF t
<1> QED BY <1>1, <1>2 DEF t

\* FlattenSeq joins them in turn.
LEMMA FlattenTurns ==
    ASSUME NEW O, NEW ss \in Seq(Seq(O))
    PROVE  \E g \in [0..Len(ss) -> Seq(O)] :
              /\ g[0] = <<>> /\ FlattenSeq(ss) = g[Len(ss)]
              /\ \A k \in 1..Len(ss) : g[k] = g[k - 1] \o ss[k]
<1> DEFINE n == Len(ss)
           F == [p \in (1..n) \X Seq(O) |-> p[2] \o ss[p[1]]]
           Def(g) == [k \in 1..n |-> IF k = 1 THEN ss[k] ELSE g[k - 1] \o ss[k]]
<1>1. n \in Nat /\ \A k \in 1..n : ss[k] \in Seq(O)
  OBVIOUS
<1>2. F \in Maps(n, Seq(O)) /\ <<>> \in Seq(O)
  <2>1. \A p \in (1..n) \X Seq(O) : p[2] \o ss[p[1]] \in Seq(O)
    <3> HIDE DEF n
    <3> QED BY <1>1
  <2> QED BY <2>1 DEF Maps
<1>3. PICK g \in [0..n -> Seq(O)] : g[0] = <<>> /\ \A k \in 1..n : g[k] = F[<<k, g[k - 1]>>]
  <2> HIDE DEF n, F
  <2>1. Iterated(n, Seq(O), <<>>, F) # {}
    BY <1>1, <1>2, Iterates
  <2> QED BY <2>1 DEF Iterated
<1>4. \A k \in 1..n : g[k] = g[k - 1] \o ss[k]
  <2> SUFFICES ASSUME NEW k \in 1..n PROVE g[k] = g[k - 1] \o ss[k]
    OBVIOUS
  <2>1. k - 1 \in 0..n
    BY <1>1
  <2>2. <<k, g[k - 1]>> \in (1..n) \X Seq(O)
    <3> HIDE DEF n
    <3> QED BY <2>1, <1>3
  <2> HIDE DEF n
  <2> QED BY <2>2, <1>3
<1>4a. 1 \in 1..n => g[1] = ss[1] /\ ss[1] \in Seq(O)
  <2> SUFFICES ASSUME 1 \in 1..n PROVE g[1] = ss[1] /\ ss[1] \in Seq(O)
    OBVIOUS
  <2>1. 1 - 1 = 0 /\ ss[1] \in Seq(O)
    BY <1>1
  <2>2. g[1] = g[1 - 1] \o ss[1]
    <3> HIDE DEF n
    <3> QED BY <1>4
  <2>3. g[1] = <<>> \o ss[1]
    BY <1>3, <2>1, <2>2
  <2>4. \A t \in Seq(O) : <<>> \o t = t
    BY ConcatEmptySeq
  <2> QED BY <2>1, <2>3, <2>4
<1>5. CASE n = 0
  <2>1. ss = <<>> /\ FlattenSeq(ss) = ss
    BY <1>5 DEF FlattenSeq
  <2> QED BY <1>3, <1>5, <2>1
<1>6. CASE n # 0
  <2> DEFINE q == [k \in 1..n |-> g[k]]
             G == CHOOSE h : h = Def(h)
  <2>1. q = Def(q)
    <3> SUFFICES ASSUME NEW k \in 1..n
                 PROVE  g[k] = IF k = 1 THEN ss[k] ELSE q[k - 1] \o ss[k]
      OBVIOUS
    <3>1. CASE k = 1
      BY <1>4a, <3>1
    <3>2. CASE k # 1
      <4>1. k - 1 \in 1..n
        BY <1>1, <3>2
      <4> HIDE DEF n
      <4> QED BY <1>4, <3>2, <4>1
    <3> QED BY <3>1, <3>2
  <2>2. G = Def(G) /\ FlattenSeq(ss) = G[n]
    <3>1. FlattenSeq(ss) = G[n]
      BY <1>6 DEF FlattenSeq
    <3> HIDE DEF Def, q
    <3> QED BY <2>1, <3>1
  <2>3. \A k \in 1..n : G[k] = IF k = 1 THEN ss[k] ELSE G[k - 1] \o ss[k]
    <3> HIDE DEF G, n
    <3> QED BY <2>2
  <2> DEFINE T == {k \in Nat : k + 1 <= n => G[k + 1] = g[k + 1]}
  <2>4. 0 \in T
    <3>1. 0 + 1 \in 1..n /\ 0 + 1 = 1
      BY <1>1, <1>6
    <3>2. g[1] = ss[1]
      BY <1>4a, <3>1
    <3>3. G[1] = ss[1]
      <4> HIDE DEF G, n
      <4> QED BY <2>3, <3>1
    <3> HIDE DEF G
    <3> QED BY <3>1, <3>2, <3>3
  <2>5. ASSUME NEW k \in Nat, k \in T PROVE k + 1 \in T
    <3> SUFFICES ASSUME (k + 1) + 1 <= n PROVE G[(k + 1) + 1] = g[(k + 1) + 1]
      OBVIOUS
    <3> DEFINE j == (k + 1) + 1
    <3>1. j \in 1..n /\ j # 1 /\ j - 1 = k + 1 /\ k + 1 <= n
      BY <1>1
    <3>2. G[k + 1] = g[k + 1]
      <4> HIDE DEF G
      <4> QED BY <2>5, <3>1
    <3> HIDE DEF G, n, j
    <3>3. G[j] = G[k + 1] \o ss[j] /\ g[j] = g[k + 1] \o ss[j]
      BY <1>4, <2>3, <3>1
    <3>4. G[j] = g[j]
      BY <3>2, <3>3
    <3> QED BY <3>4 DEF j
  <2>6. Nat \subseteq T
    <3> HIDE DEF T
    <3> QED BY <2>4, <2>5, Induction
  <2>7. G[n] = g[n]
    <3>1. n - 1 \in Nat /\ (n - 1) + 1 = n /\ n <= n
      BY <1>1, <1>6
    <3> HIDE DEF G, n
    <3> QED BY <2>6, <3>1
  <2>8. FlattenSeq(ss) = g[n]
    <3> HIDE DEF G, n
    <3> QED BY <2>2, <2>7
  <2> QED BY <1>3, <1>4, <2>8
<1> QED BY <1>5, <1>6

\* Nothing joined is nothing.
LEMMA FlattenNothing == FlattenSeq(<<>>) = <<>>
  BY DEF FlattenSeq

\* One sequence more.
LEMMA FlattenNext ==
    ASSUME NEW O, NEW ss \in Seq(Seq(O)), NEW s \in Seq(O)
    PROVE  /\ FlattenSeq(<<>>) = <<>>
           /\ FlattenSeq(ss) \in Seq(O)
           /\ FlattenSeq(Append(ss, s)) = Join(FlattenSeq(ss), s)
<1> DEFINE n == Len(ss)
           more == Append(ss, s)
<1>0. FlattenSeq(<<>>) = <<>>
  BY DEF FlattenSeq
<1>1. PICK g \in [0..n -> Seq(O)] :
         /\ g[0] = <<>> /\ FlattenSeq(ss) = g[n]
         /\ \A k \in 1..n : g[k] = g[k - 1] \o ss[k]
  BY FlattenTurns
<1>2. /\ n \in Nat /\ more \in Seq(Seq(O)) /\ Len(more) = n + 1 /\ more[n + 1] = s
      /\ \A k \in 1..n : more[k] = ss[k]
  OBVIOUS
<1>3. PICK h \in [0..n + 1 -> Seq(O)] :
         /\ h[0] = <<>> /\ FlattenSeq(more) = h[n + 1]
         /\ \A k \in 1..n + 1 : h[k] = h[k - 1] \o more[k]
  <2>1. \E h \in [0..Len(more) -> Seq(O)] :
           /\ h[0] = <<>> /\ FlattenSeq(more) = h[Len(more)]
           /\ \A k \in 1..Len(more) : h[k] = h[k - 1] \o more[k]
    <3> HIDE DEF more
    <3> QED BY <1>2, FlattenTurns
  <2> HIDE DEF more, n
  <2> QED BY <2>1, <1>2
<1> DEFINE T == {k \in Nat : k <= n => h[k] = g[k]}
<1> HIDE DEF more, n
<1>4. 0 \in T
  BY <1>1, <1>3
<1>5. ASSUME NEW k \in Nat, k \in T PROVE k + 1 \in T
  <2> SUFFICES ASSUME k + 1 <= n PROVE h[k + 1] = g[k + 1]
    OBVIOUS
  <2>1. k + 1 \in 1..n /\ k + 1 \in 1..n + 1 /\ (k + 1) - 1 = k /\ h[k] = g[k]
    BY <1>2, <1>5
  <2>2. h[k + 1] = h[k] \o ss[k + 1]
    BY <2>1, <1>2, <1>3
  <2>3. g[k + 1] = g[k] \o ss[k + 1]
    BY <2>1, <1>1
  <2> QED BY <2>1, <2>2, <2>3
<1>6. Nat \subseteq T
  <2> HIDE DEF T
  <2> QED BY <1>4, <1>5, Induction
<1>7. h[n] = g[n] /\ n + 1 \in 1..n + 1 /\ (n + 1) - 1 = n
  BY <1>2, <1>6
<1>8. FlattenSeq(more) = g[n] \o s
  BY <1>2, <1>3, <1>7
<1>9. FlattenSeq(ss) \in Seq(O)
  BY <1>1, <1>2
<1> QED BY <1>0, <1>1, <1>8, <1>9 DEF more, Join

-----------------------------------------------------------------------------
(* Patterns: what is compiled from them, and what that writes. *)

\* Formatters, and the states of the compiler, for patterns of the characters C.
Formatters(C) == [flag : Flags \union {"chars"}, str : Seq(C)]
Scanning(C) == [out : Seq(Formatters(C)), normal : Seq(C), percent : BOOLEAN]
Begin == [out |-> <<>>, normal |-> <<>>, percent |-> FALSE]

\* What the formatters append to one another.
Written(fs, m) == FlattenSeq([k \in DOMAIN fs |-> Formatted(fs[k], m)])

\* Characters one by one, and those that follow others.
LEMMA SmallSeqs ==
    ASSUME NEW C, NEW c \in C, NEW d \in C
    PROVE  <<>> \in Seq(C) /\ <<c>> \in Seq(C) /\ <<c, d>> \in Seq(C)
  OBVIOUS

\* A character leaves the compiler in one of its states.
LEMMA ScanTyped ==
    ASSUME NEW C, "%" \in C, NEW acc \in Scanning(C), NEW c \in C
    PROVE  Scan(acc, c) \in Scanning(C) /\ PushNormal(acc) \in Seq(Formatters(C))
<1>1. acc.out \in Seq(Formatters(C)) /\ acc.normal \in Seq(C) /\ acc.percent \in BOOLEAN
  BY DEF Scanning
<1>2. \A s \in Seq(C) : Aggregate(s) \in Formatters(C)
  BY DEF Aggregate, Formatters
<1>3. <<"%">> \in Seq(C) /\ <<"%", c>> \in Seq(C) /\ <<>> \in Seq(C)
  BY SmallSeqs
<1>4. HandleFlag(c) \in Formatters(C)
  <2>1. CASE c \in Flags
    BY <1>3, <2>1 DEF HandleFlag, Formatters
  <2>2. CASE c \notin Flags
    BY <1>2, <1>3, <2>2 DEF HandleFlag
  <2> QED BY <2>1, <2>2
<1>5. PushNormal(acc) \in Seq(Formatters(C))
  <2>1. Aggregate(acc.normal) \in Formatters(C)
    BY <1>1, <1>2
  <2> HIDE DEF Scanning
  <2> QED BY <1>1, <2>1 DEF PushNormal
<1>6. \A x \in Formatters(C) : Append(acc.out, x) \in Seq(Formatters(C))
  BY <1>1
<1>7. Append(acc.normal, c) \in Seq(C)
  BY <1>1
<1>8. CASE acc.percent
  <2>1. (IF c = "%" THEN Aggregate(<<"%">>) ELSE HandleFlag(c)) \in Formatters(C)
    BY <1>2, <1>3, <1>4
  <2>2. Scan(acc, c) = [out |-> Append(acc.out, IF c = "%" THEN Aggregate(<<"%">>) ELSE HandleFlag(c)),
                        normal |-> <<>>, percent |-> FALSE]
    BY <1>8 DEF Scan
  <2> QED BY <1>3, <1>5, <1>6, <2>1, <2>2 DEF Scanning
<1>9. CASE ~acc.percent /\ c = "%"
  BY <1>3, <1>5, <1>9 DEF Scan, Scanning
<1>10. CASE ~acc.percent /\ c # "%"
  BY <1>5, <1>7, <1>10 DEF Scan, Scanning
<1> QED BY <1>1, <1>8, <1>9, <1>10

\* Compiling takes the characters in turn.
LEMMA CompileTurns ==
    ASSUME NEW C, "%" \in C, NEW p \in Seq(C)
    PROVE  \E g \in [0..Len(p) -> Scanning(C)] :
              /\ g[0] = Begin
              /\ \A k \in 1..Len(p) : g[k] = Scan(g[k - 1], p[k])
              /\ CompilePattern(p) = IF g[Len(p)].percent
                                     THEN Append(g[Len(p)].out, Aggregate(<<"%">>))
                                     ELSE PushNormal(g[Len(p)])
<1> DEFINE n == Len(p)
           F == [q \in (1..n) \X Scanning(C) |-> Scan(q[2], p[q[1]])]
           Def(g) == [k \in 0..n |-> IF k = 0 THEN Begin ELSE Scan(g[k - 1], p[k])]
<1>1. n \in Nat /\ Begin \in Scanning(C) /\ \A k \in 1..n : p[k] \in C
  BY DEF Begin, Scanning
<1>2. F \in Maps(n, Scanning(C))
  <2>1. \A q \in (1..n) \X Scanning(C) : Scan(q[2], p[q[1]]) \in Scanning(C)
    <3> HIDE DEF n
    <3> QED BY <1>1, ScanTyped
  <2> QED BY <2>1 DEF Maps
<1>3. PICK g \in [0..n -> Scanning(C)] :
         g[0] = Begin /\ \A k \in 1..n : g[k] = F[<<k, g[k - 1]>>]
  <2> HIDE DEF n, F
  <2>1. Iterated(n, Scanning(C), Begin, F) # {}
    BY <1>1, <1>2, Iterates
  <2> QED BY <2>1 DEF Iterated
<1>4. \A k \in 1..n : g[k] = Scan(g[k - 1], p[k])
  <2> SUFFICES ASSUME NEW k \in 1..n PROVE g[k] = Scan(g[k - 1], p[k])
    OBVIOUS
  <2>1. k - 1 \in 0..n
    BY <1>1
  <2>2. <<k, g[k - 1]>> \in (1..n) \X Scanning(C)
    <3> HIDE DEF n
    <3> QED BY <2>1, <1>3
  <2> HIDE DEF n
  <2> QED BY <2>2, <1>3
<1>5. g = Def(g)
  <2> HIDE DEF n, F
  <2> QED BY <1>1, <1>3, <1>4
<1> DEFINE G == CHOOSE h : h = Def(h)
<1>6. /\ G = Def(G)
      /\ CompilePattern(p) = IF G[n].percent THEN Append(G[n].out, Aggregate(<<"%">>))
                                            ELSE PushNormal(G[n])
  <2>1. CompilePattern(p) = IF G[n].percent THEN Append(G[n].out, Aggregate(<<"%">>))
                                            ELSE PushNormal(G[n])
    BY DEF CompilePattern, Begin
  <2> HIDE DEF Def
  <2> QED BY <2>1, <1>5
<1>7. G[0] = Begin /\ \A k \in 1..n : G[k] = Scan(G[k - 1], p[k])
  <2> HIDE DEF G, n
  <2> QED BY <1>1, <1>6
<1> DEFINE T == {k \in Nat : k <= n => G[k] = g[k]}
<1>8. 0 \in T
  BY <1>3, <1>7
<1>9. ASSUME NEW k \in Nat, k \in T PROVE k + 1 \in T
  <2> SUFFICES ASSUME k + 1 <= n PROVE G[k + 1] = g[k + 1]
    OBVIOUS
  <2>1. k + 1 \in 1..n /\ (k + 1) - 1 = k /\ G[k] = g[k]
    BY <1>9, <1>1
  <2> HIDE DEF G, n
  <2> QED BY <2>1, <1>4, <1>7
<1>10. Nat \subseteq T
  <2> HIDE DEF T
  <2> QED BY <1>8, <1>9, Induction
<1>11. G[n] = g[n]
  <2> HIDE DEF G, n
  <2> QED BY <1>1, <1>10
<1>12. CompilePattern(p) = IF g[n].percent THEN Append(g[n].out, Aggregate(<<"%">>))
                                          ELSE PushNormal(g[n])
  <2> HIDE DEF G, n
  <2> QED BY <1>6, <1>11
<1> QED BY <1>3, <1>4, <1>12

\* What a pattern means from its k-th character on, told by what it means from later ones.
From(p, m, k, g) ==
    IF k > Len(p) THEN <<>>
    ELSE IF p[k] # "%" THEN Join(<<Char(p[k])>>, g[k + 1])
    ELSE IF k = Len(p) THEN <<Char("%")>>
    ELSE IF p[k + 1] \in Flags THEN Join(Formatted(HandleFlag(p[k + 1]), m), g[k + 2])
    ELSE IF p[k + 1] = "%" THEN Join(<<Char("%")>>, g[k + 2])
    ELSE Join(<<Char("%"), Char(p[k + 1])>>, g[k + 2])

\* Pieces that characters are, and that formatters write for a message.
Spelt(C, O) == \A c \in C : Char(c) \in O

Writes(C, m, O) ==
    /\ Spelt(C, O)
    /\ \A x \in Formatters(C) : Formatted(x, m) \in Seq(O)

\* It is a sequence of pieces.
LEMMA FromTyped ==
    ASSUME NEW C, "%" \in C, NEW p \in Seq(C), NEW m, NEW O, Writes(C, m, O),
           NEW k \in 1..Len(p) + 1, NEW g, \A j \in k + 1 .. Len(p) + 1 : g[j] \in Seq(O)
    PROVE  From(p, m, k, g) \in Seq(O)
<1> DEFINE n == Len(p)
<1>1. n \in Nat /\ \A j \in 1..n : p[j] \in C /\ Char(p[j]) \in O
  BY DEF Writes, Spelt
<1>2. Char("%") \in O
  BY DEF Writes, Spelt
<1>3. \A s \in Seq(O), t \in Seq(O) : Join(s, t) \in Seq(O)
  BY JoinLaws
<1>4. CASE k > n
  BY <1>4 DEF From
<1>5. CASE k <= n /\ p[k] # "%"
  <2>1. k \in 1..n /\ k + 1 \in k + 1 .. n + 1
    BY <1>1, <1>5
  <2>2. <<Char(p[k])>> \in Seq(O) /\ g[k + 1] \in Seq(O)
    BY <1>1, <2>1
  <2>3. From(p, m, k, g) = Join(<<Char(p[k])>>, g[k + 1])
    BY <1>1, <1>5, <2>1 DEF From
  <2> QED BY <1>3, <2>2, <2>3
<1>6. CASE k = n /\ p[k] = "%"
  <2>1. <<Char("%")>> \in Seq(O)
    BY <1>2
  <2> QED BY <1>1, <1>6, <2>1 DEF From
<1>7. CASE k < n /\ p[k] = "%"
  <2>1. k + 1 \in 1..n /\ k + 2 \in k + 1 .. n + 1
    BY <1>1, <1>7
  <2>2. p[k + 1] \in C /\ Char(p[k + 1]) \in O /\ g[k + 2] \in Seq(O)
    BY <1>1, <2>1
  <2>3. p[k + 1] \in Flags => Formatted(HandleFlag(p[k + 1]), m) \in Seq(O)
    <3>1. p[k + 1] \in Flags => HandleFlag(p[k + 1]) \in Formatters(C)
      BY DEF HandleFlag, Formatters
    <3> QED BY <3>1 DEF Writes
  <2>4. <<Char("%")>> \in Seq(O) /\ <<Char("%"), Char(p[k + 1])>> \in Seq(O)
    BY <1>2, <2>2, SmallSeqs
  <2>5. From(p, m, k, g) =
          IF p[k + 1] \in Flags THEN Join(Formatted(HandleFlag(p[k + 1]), m), g[k + 2])
          ELSE IF p[k + 1] = "%" THEN Join(<<Char("%")>>, g[k + 2])
          ELSE Join(<<Char("%"), Char(p[k + 1])>>, g[k + 2])
    BY <1>1, <1>7 DEF From
  <2> QED BY <1>3, <2>2, <2>3, <2>4, <2>5
<1>8. k > n \/ (k <= n /\ p[k] # "%") \/ (k = n /\ p[k] = "%") \/ (k < n /\ p[k] = "%")
  BY <1>1
<1> QED BY <1>4, <1>5, <1>6, <1>7, <1>8

\* A pattern is read character by character.
LEMMA MeaningTurns ==
    ASSUME NEW C, "%" \in C, NEW p \in Seq(C), NEW m, NEW O, Writes(C, m, O)
    PROVE  \E g \in [1..Len(p) + 1 -> Seq(O)] :
              Meaning(p, m) = g[1] /\ \A k \in 1..Len(p) + 1 : g[k] = From(p, m, k, g)
<1> DEFINE n == Len(p)
           S == Seq(O)
           D == UNION {{k} \X After(k, n + 1, S) : k \in 1..n + 1}
           F == [q \in D |-> From(p, m, q[1], q[2])]
           Def(g) == [k \in 1..n + 1 |-> From(p, m, k, g)]
<1>1. n \in Nat /\ n + 1 \in Nat
  OBVIOUS
<1>2. F \in BackMaps(n + 1, S)
  <2>1. ASSUME NEW q \in D PROVE From(p, m, q[1], q[2]) \in S
    <3>1. q[1] \in 1..n + 1 /\ q[2] \in After(q[1], n + 1, S)
      OBVIOUS
    <3>2. \A j \in q[1] + 1 .. n + 1 : q[2][j] \in S
      BY <3>1 DEF After
    <3> HIDE DEF D
    <3> QED BY <3>1, <3>2, FromTyped
  <2> QED BY <2>1 DEF BackMaps
<1>3. PICK g \in [1..n + 1 -> S] : \A k \in 1..n + 1 : g[k] = F[<<k, Rest(g, k, n + 1)>>]
  <2> HIDE DEF n, F, S
  <2>1. Backward(n + 1, S, F) # {}
    BY <1>1, <1>2, Recurs
  <2> QED BY <2>1 DEF Backward
<1>4. ASSUME NEW k \in 1..n + 1 PROVE g[k] = From(p, m, k, g)
  <2> DEFINE r == Rest(g, k, n + 1)
  <2>1. r \in After(k, n + 1, S)
    BY <1>3 DEF Rest, After
  <2>2. <<k, r>> \in D
    <3> HIDE DEF r
    <3> QED BY <2>1
  <2>3. g[k] = From(p, m, k, r)
    <3> HIDE DEF r, D, n
    <3> QED BY <1>3, <2>2 DEF r
  <2>4. From(p, m, k, r) = From(p, m, k, g)
    <3>1. \A j \in k + 1 .. n + 1 : r[j] = g[j]
      BY DEF Rest
    <3>2. k <= n => k + 1 \in k + 1 .. n + 1
      BY <1>1
    <3>3. k <= n /\ k # n => k + 2 \in k + 1 .. n + 1
      BY <1>1
    <3>4. k > n \/ k <= n
      BY <1>1
    <3> HIDE DEF r
    <3> QED BY <3>1, <3>2, <3>3, <3>4 DEF From
  <2> QED BY <2>3, <2>4
<1>5. g = Def(g)
  <2> HIDE DEF n
  <2> QED BY <1>3, <1>4
<1> DEFINE G == CHOOSE h : h = Def(h)
<1>6. G = Def(G) /\ Meaning(p, m) = G[1]
  <2>1. Meaning(p, m) = G[1]
    BY DEF Meaning, From, Join
  <2> HIDE DEF Def
  <2> QED BY <2>1, <1>5
<1>7. \A k \in 1..n + 1 : G[k] = From(p, m, k, G)
  <2> HIDE DEF G, n
  <2> QED BY <1>6
<1> DEFINE T == {d \in Nat : \A k \in 1..n + 1 : k + d > n => G[k] \in S}
<1>8. 0 \in T
  <2> SUFFICES ASSUME NEW k \in 1..n + 1, k + 0 > n PROVE G[k] \in S
    OBVIOUS
  <2>1. k > n
    BY <1>1
  <2>2. G[k] = From(p, m, k, G)
    <3> HIDE DEF G, n
    <3> QED BY <1>7
  <2> HIDE DEF G
  <2> QED BY <2>1, <2>2 DEF From
<1>9. ASSUME NEW d \in Nat, d \in T PROVE d + 1 \in T
  <2> SUFFICES ASSUME NEW k \in 1..n + 1, k + (d + 1) > n PROVE G[k] \in S
    OBVIOUS
  <2>1. \A j \in k + 1 .. n + 1 : j \in 1..n + 1 /\ j + d > n
    BY <1>1
  <2>2. \A j \in k + 1 .. n + 1 : G[j] \in S
    <3> HIDE DEF G
    <3> QED BY <1>9, <2>1
  <2> HIDE DEF G
  <2>3. From(p, m, k, G) \in S
    BY <2>2, FromTyped
  <2>4. G[k] = From(p, m, k, G)
    <3> HIDE DEF n
    <3> QED BY <1>7
  <2> QED BY <2>3, <2>4
<1>10. Nat \subseteq T
  <2> HIDE DEF T
  <2> QED BY <1>8, <1>9, Induction
<1>11. \A k \in 1..n + 1 : G[k] \in S
  <2>1. \A k \in 1..n + 1 : k + n > n
    BY <1>1
  <2> HIDE DEF G
  <2> QED BY <1>1, <1>10, <2>1
<1>12. G \in [1..n + 1 -> S]
  <2> HIDE DEF G, n, S
  <2> QED BY <1>6, <1>11
<1> HIDE DEF G
<1> QED BY <1>6, <1>7, <1>12

\* The formatters compiled so far, and one more.
LEMMA WrittenNext ==
    ASSUME NEW C, NEW m, NEW O, Writes(C, m, O)
    PROVE  \A fs \in Seq(Formatters(C)), x \in Formatters(C) :
              /\ Written(<<>>, m) = <<>>
              /\ Written(fs, m) \in Seq(O) /\ Formatted(x, m) \in Seq(O)
              /\ Written(Append(fs, x), m) = Join(Written(fs, m), Formatted(x, m))
<1> SUFFICES ASSUME NEW fs \in Seq(Formatters(C)), NEW x \in Formatters(C)
             PROVE  /\ Written(<<>>, m) = <<>>
                    /\ Written(fs, m) \in Seq(O) /\ Formatted(x, m) \in Seq(O)
                    /\ Written(Append(fs, x), m) = Join(Written(fs, m), Formatted(x, m))
  OBVIOUS
<1> DEFINE One(s) == [k \in DOMAIN s |-> Formatted(s[k], m)]
<1>1. \A y \in Formatters(C) : Formatted(y, m) \in Seq(O)
  BY DEF Writes
<1>2. One(fs) \in Seq(Seq(O)) /\ Formatted(x, m) \in Seq(O)
  <2>1. \A k \in 1..Len(fs) : fs[k] \in Formatters(C)
    OBVIOUS
  <2>2. \A k \in 1..Len(fs) : Formatted(fs[k], m) \in Seq(O)
    BY <1>1, <2>1
  <2>3. DOMAIN fs = 1..Len(fs) /\ Len(fs) \in Nat
    OBVIOUS
  <2>4. One(fs) \in [1..Len(fs) -> Seq(O)]
    BY <2>2, <2>3
  <2>5. \A n \in Nat : \A s \in [1..n -> Seq(O)] : s \in Seq(Seq(O))
    BY SeqDef
  <2> HIDE DEF One
  <2> QED BY <1>1, <2>3, <2>4, <2>5
<1>3. One(Append(fs, x)) = Append(One(fs), Formatted(x, m))
  <2> DEFINE a == One(Append(fs, x))
             b == Append(One(fs), Formatted(x, m))
             n == Len(fs)
  <2>1. n \in Nat /\ a \in Seq(Seq(O)) /\ Len(a) = n + 1 /\ DOMAIN a = 1..n + 1
    <3>1. Append(fs, x) \in Seq(Formatters(C)) /\ Len(Append(fs, x)) = n + 1
      OBVIOUS
    <3>2. \A k \in 1..n + 1 : Append(fs, x)[k] \in Formatters(C)
      BY <3>1
    <3>3. \A k \in 1..n + 1 : Formatted(Append(fs, x)[k], m) \in Seq(O)
      BY <1>1, <3>2
    <3> QED BY <3>1, <3>3
  <2>2. b \in Seq(Seq(O)) /\ Len(b) = n + 1 /\ DOMAIN b = 1..n + 1
    <3>1. Len(One(fs)) = n
      OBVIOUS
    <3> DEFINE o == One(fs)
    <3> HIDE DEF o, n
    <3> QED BY <1>2, <3>1 DEF o
  <2>3. \A k \in 1..n + 1 : a[k] = b[k]
    <3> SUFFICES ASSUME NEW k \in 1..n + 1 PROVE a[k] = b[k]
      OBVIOUS
    <3>1. a[k] = Formatted(Append(fs, x)[k], m)
      OBVIOUS
    <3>2. CASE k = n + 1
      <4>1. a[k] = Formatted(x, m)
        BY <3>1, <3>2
      <4>2. b[k] = Formatted(x, m)
        BY <1>2, <3>2
      <4> QED BY <4>1, <4>2
    <3>3. CASE k # n + 1
      <4>1. k \in 1..n /\ Append(fs, x)[k] = fs[k]
        BY <3>3
      <4>2. b[k] = One(fs)[k]
        BY <1>2, <4>1
      <4> QED BY <3>1, <4>1, <4>2
    <3> QED BY <3>2, <3>3
  <2> HIDE DEF a, b, n
  <2>4. a = b
    BY <2>1, <2>2, <2>3
  <2> QED BY <2>4 DEF a, b
<1>4. One(<<>>) = <<>>
  OBVIOUS
<1>5. Written(fs, m) = FlattenSeq(One(fs)) /\ Written(<<>>, m) = FlattenSeq(One(<<>>))
      /\ Written(Append(fs, x), m) = FlattenSeq(One(Append(fs, x)))
  BY DEF Written
<1> HIDE DEF One
<1> QED BY <1>2, <1>3, <1>4, <1>5, FlattenNext

\* Characters as they are written.
LEMMA CharsAre ==
    ASSUME NEW C, NEW O, Spelt(C, O)
    PROVE  \A s \in Seq(C) :
              /\ Chars(s) \in Seq(O)
              /\ \A c \in C : Chars(Append(s, c)) = Join(Chars(s), <<Char(c)>>)
<1> SUFFICES ASSUME NEW s \in Seq(C)
             PROVE  /\ Chars(s) \in Seq(O)
                    /\ \A c \in C : Chars(Append(s, c)) = Join(Chars(s), <<Char(c)>>)
  OBVIOUS
<1>1. Chars(s) \in Seq(O)
  <2>1. \A k \in 1..Len(s) : s[k] \in C
    OBVIOUS
  <2>2. \A k \in 1..Len(s) : Char(s[k]) \in O
    BY <2>1 DEF Spelt
  <2>3. DOMAIN s = 1..Len(s) /\ Len(s) \in Nat
    OBVIOUS
  <2>4. Chars(s) \in [1..Len(s) -> O]
    BY <2>2, <2>3 DEF Chars
  <2> QED BY <2>3, <2>4, SeqDef
<1>2. ASSUME NEW c \in C PROVE Chars(Append(s, c)) = Join(Chars(s), <<Char(c)>>)
  <2> DEFINE n == Len(s)
             a == Chars(Append(s, c))
             b == Join(Chars(s), <<Char(c)>>)
  <2>1. n \in Nat /\ DOMAIN s = 1..n /\ Append(s, c) \in Seq(C)
        /\ DOMAIN Append(s, c) = 1..n + 1 /\ Append(s, c)[n + 1] = c
        /\ \A k \in 1..n : Append(s, c)[k] = s[k]
    OBVIOUS
  <2>2. DOMAIN a = 1..n + 1 /\ a[n + 1] = Char(c) /\ \A k \in 1..n : a[k] = Char(s[k])
    BY <2>1 DEF Chars
  <2>3. a = [k \in 1..n + 1 |-> a[k]]
    BY <2>1 DEF Chars
  <2>4. Len(Chars(s)) = n /\ \A k \in 1..n : Chars(s)[k] = Char(s[k])
    BY <2>1 DEF Chars
  <2>5. b \in Seq(O) /\ Len(b) = n + 1 /\ b[n + 1] = Char(c)
        /\ \A k \in 1..n : b[k] = Chars(s)[k]
    <3>1. Char(c) \in O
      BY DEF Spelt
    <3> QED BY <1>1, <2>1, <2>4, <3>1 DEF Join
  <2> HIDE DEF a, b, n
  <2>6. b = [k \in 1..n + 1 |-> b[k]]
    BY <2>5
  <2>7. \A k \in 1..n + 1 : a[k] = b[k]
    <3> SUFFICES ASSUME NEW k \in 1..n + 1 PROVE a[k] = b[k]
      OBVIOUS
    <3>1. k = n + 1 \/ k \in 1..n
      BY <2>1
    <3> QED BY <3>1, <2>2, <2>4, <2>5
  <2>8. a = b
    BY <2>3, <2>6, <2>7
  <2> QED BY <2>8 DEF a, b
<1> QED BY <1>1, <1>2

\* What is left over when characters are collected.
LEMMA PushedNormal ==
    ASSUME NEW C, NEW m, NEW O, Writes(C, m, O), "%" \in C, NEW acc \in Scanning(C)
    PROVE  Written(PushNormal(acc), m) = Join(Written(acc.out, m), Chars(acc.normal))
<1>1. acc.out \in Seq(Formatters(C)) /\ acc.normal \in Seq(C)
  BY DEF Scanning
<1>2. Aggregate(acc.normal) \in Formatters(C) /\ Formatted(Aggregate(acc.normal), m) = Chars(acc.normal)
  BY <1>1 DEF Aggregate, Formatters, Formatted
<1>3. CASE acc.normal = <<>>
  <2>1. Chars(acc.normal) = <<>>
    BY <1>3 DEF Chars
  <2>2. Written(acc.out, m) \in Seq(O)
    BY <1>1, <1>2, WrittenNext
  <2>3. Join(Written(acc.out, m), <<>>) = Written(acc.out, m)
    BY <2>2, JoinLaws
  <2> QED BY <1>3, <2>1, <2>3 DEF PushNormal
<1>4. CASE acc.normal # <<>>
  <2>1. PushNormal(acc) = Append(acc.out, Aggregate(acc.normal))
    BY <1>4 DEF PushNormal
  <2>2. Written(Append(acc.out, Aggregate(acc.normal)), m)
           = Join(Written(acc.out, m), Formatted(Aggregate(acc.normal), m))
    BY <1>1, <1>2, WrittenNext
  <2> QED BY <1>2, <2>1, <2>2
<1> QED BY <1>3, <1>4

\* What is written of a pattern read up to k, and what the rest of it means.
HalfRead(p, m, acc, h, k) ==
    /\ IF acc.percent
       THEN k \in 1..Len(p) /\ p[k] = "%" /\ Join(Written(acc.out, m), h[k]) = h[1]
       ELSE Join(Join(Written(acc.out, m), Chars(acc.normal)), h[k + 1]) = h[1]
    /\ k # 0 => acc.percent \/ acc.normal # <<>> \/ acc.out # <<>>

\* The meanings of what is left of a pattern.
Means(p, m, h) == \A k \in 1..Len(p) + 1 : h[k] = From(p, m, k, h)

\* One character more.
LEMMA HalfReadNext ==
    ASSUME NEW C, "%" \in C, NEW p \in Seq(C), NEW m, NEW O, Writes(C, m, O),
           NEW h \in [1..Len(p) + 1 -> Seq(O)], Means(p, m, h),
           NEW k \in Nat, k + 1 <= Len(p), NEW acc \in Scanning(C), HalfRead(p, m, acc, h, k)
    PROVE  HalfRead(p, m, Scan(acc, p[k + 1]), h, k + 1)
<1> DEFINE n == Len(p)
           c == p[k + 1]
           next == Scan(acc, c)
           w == Written(acc.out, m)
<1>1. n \in Nat /\ k + 1 \in 1..n /\ k + 1 \in 1..n + 1 /\ k + 2 \in 1..n + 1 /\ (k + 1) + 1 = k + 2
      /\ k + 1 # 0
  OBVIOUS
<1>2. c \in C /\ h[k + 1] \in Seq(O) /\ h[k + 2] \in Seq(O)
  <2> HIDE DEF n
  <2> QED BY <1>1 DEF n
<1>3. acc.out \in Seq(Formatters(C)) /\ acc.normal \in Seq(C) /\ acc.percent \in BOOLEAN
  BY DEF Scanning
<1>4. next \in Scanning(C)
  BY <1>2, ScanTyped
<1>5. Spelt(C, O)
  BY DEF Writes
<1>6. w \in Seq(O)
  <2>1. Aggregate(<<>>) \in Formatters(C)
    BY DEF Aggregate, Formatters
  <2> QED BY <1>3, <2>1, WrittenNext
<1>7. Chars(acc.normal) \in Seq(O)
  BY <1>2, <1>3, <1>5, CharsAre
<1>11. \A d \in C : Chars(<<d>>) = <<Char(d)>> /\ Chars(<<"%", d>>) = <<Char("%"), Char(d)>>
                    /\ Chars(Append(acc.normal, d)) = Join(Chars(acc.normal), <<Char(d)>>)
  <2> SUFFICES ASSUME NEW d \in C
               PROVE  /\ Chars(<<d>>) = <<Char(d)>> /\ Chars(<<"%", d>>) = <<Char("%"), Char(d)>>
                      /\ Chars(Append(acc.normal, d)) = Join(Chars(acc.normal), <<Char(d)>>)
    OBVIOUS
  <2>1. Chars(<<d>>) = <<Char(d)>> /\ Chars(<<"%", d>>) = <<Char("%"), Char(d)>>
    BY DEF Chars
  <2>2. \A s \in Seq(C) : Chars(Append(s, d)) = Join(Chars(s), <<Char(d)>>)
    BY <1>5, CharsAre
  <2> HIDE DEF n, c, next, w
  <2> QED BY <1>3, <2>1, <2>2
<1>12. \A a \in Seq(O), b \in Seq(O), t \in Seq(O) :
          /\ Join(Join(w, a), t) = Join(w, Join(a, t)) /\ Join(Join(w, a), <<>>) = Join(w, a)
          /\ Join(Join(w, a), Join(b, t)) = Join(Join(w, Join(a, b)), t)
  <2> HIDE DEF w
  <2> QED BY <1>6, Regroup
<1>8. CASE acc.percent
  <2> DEFINE x == IF c = "%" THEN Aggregate(<<"%">>) ELSE HandleFlag(c)
  <2>1. next = [out |-> Append(acc.out, x), normal |-> <<>>, percent |-> FALSE]
    BY <1>8 DEF Scan
  <2>2. k \in 1..n /\ p[k] = "%" /\ Join(w, h[k]) = h[1]
    BY <1>8 DEF HalfRead
  <2>3. h[k] = IF c \in Flags THEN Join(Formatted(HandleFlag(c), m), h[k + 2])
               ELSE IF c = "%" THEN Join(<<Char("%")>>, h[k + 2])
               ELSE Join(<<Char("%"), Char(c)>>, h[k + 2])
    <3>1. h[k] = From(p, m, k, h) /\ ~(k > n) /\ k # n
      BY <1>1, <2>2 DEF Means
    <3> QED BY <2>2, <3>1 DEF From
  <2>4. x \in Formatters(C)
    <3>1. <<"%">> \in Seq(C) /\ <<"%", c>> \in Seq(C) /\ <<>> \in Seq(C)
      BY <1>2, SmallSeqs
    <3> QED BY <3>1 DEF Aggregate, HandleFlag, Formatters
  <2>5. h[k] = Join(Formatted(x, m), h[k + 2])
    <3>1. Chars(<<"%">>) = <<Char("%")>> /\ Chars(<<"%", c>>) = <<Char("%"), Char(c)>>
      BY <1>2, <1>11
    <3>2. "%" \notin Flags
      BY DEF Flags
    <3>3. \A s : Formatted(Aggregate(s), m) = Chars(s)
      BY DEF Formatted, Aggregate
    <3>4. c \notin Flags => HandleFlag(c) = Aggregate(<<"%", c>>)
      BY DEF HandleFlag
    <3> QED BY <2>3, <3>1, <3>2, <3>3, <3>4
  <2>6. Written(next.out, m) = Join(w, Formatted(x, m)) /\ Formatted(x, m) \in Seq(O)
    <3>1. Written(Append(acc.out, x), m) = Join(w, Formatted(x, m)) /\ Formatted(x, m) \in Seq(O)
      <4> HIDE DEF x
      <4> QED BY <1>3, <2>4, WrittenNext
    <3> QED BY <2>1, <3>1
  <2>7. Join(Join(Written(next.out, m), Chars(next.normal)), h[(k + 1) + 1]) = h[1]
    <3> DEFINE f == Formatted(x, m)
    <3>1. f \in Seq(O)
      BY <2>6
    <3>2. Join(Join(w, f), h[k + 2]) = Join(w, Join(f, h[k + 2]))
      <4> HIDE DEF f, w
      <4> QED BY <1>2, <3>1, <1>12
    <3>3. Chars(next.normal) = <<>>
      BY <2>1 DEF Chars
    <3>4. Join(Join(w, f), <<>>) = Join(w, f)
      <4> HIDE DEF f, w
      <4> QED BY <1>2, <3>1, <1>12
    <3> HIDE DEF f, next, w
    <3>5. Join(Written(next.out, m), Chars(next.normal)) = Join(w, f)
      BY <2>6, <3>3, <3>4 DEF f
    <3>6. Join(f, h[k + 2]) = h[k]
      BY <2>5 DEF f
    <3> QED BY <1>1, <2>2, <3>2, <3>5, <3>6
  <2>8. next.out # <<>> /\ ~next.percent
    <3>1. Append(acc.out, x) # <<>>
      <4> HIDE DEF x
      <4> QED BY <1>3, <2>4, NotEmptied
    <3> QED BY <2>1, <3>1
  <2> QED BY <2>7, <2>8 DEF HalfRead
<1>9. CASE ~acc.percent /\ c = "%"
  <2>1. next = [out |-> PushNormal(acc), normal |-> <<>>, percent |-> TRUE]
    BY <1>9 DEF Scan
  <2>2. Written(next.out, m) = Join(w, Chars(acc.normal))
    BY <2>1, PushedNormal
  <2>3. Join(Join(w, Chars(acc.normal)), h[k + 1]) = h[1]
    BY <1>9 DEF HalfRead
  <2>4. next.percent /\ Join(Written(next.out, m), h[k + 1]) = h[1]
    <3>1. next.percent
      BY <2>1
    <3> HIDE DEF next, w
    <3> QED BY <2>2, <2>3, <3>1
  <2> QED BY <1>1, <1>9, <2>4 DEF HalfRead
<1>10. CASE ~acc.percent /\ c # "%"
  <2>1. next = [acc EXCEPT !.normal = Append(acc.normal, c)]
    BY <1>10 DEF Scan
  <2>2. next.out = acc.out /\ next.normal = Append(acc.normal, c) /\ ~next.percent
    BY <1>10, <2>1 DEF Scanning
  <2>3. Chars(next.normal) = Join(Chars(acc.normal), <<Char(c)>>)
    BY <1>2, <2>2, <1>11
  <2>4. Join(Join(w, Chars(acc.normal)), h[k + 1]) = h[1]
    BY <1>10 DEF HalfRead
  <2>5. h[k + 1] = Join(<<Char(c)>>, h[k + 2])
    <3>1. h[k + 1] = From(p, m, k + 1, h) /\ ~(k + 1 > n)
      BY <1>1 DEF Means
    <3> QED BY <1>1, <1>10, <3>1 DEF From
  <2>6. Join(Join(w, Chars(next.normal)), h[k + 2]) = h[1]
    <3> DEFINE a == Chars(acc.normal)
               b == <<Char(c)>>
    <3>1. b \in Seq(O)
      <4>1. Char(c) \in O
        BY <1>2, <1>5 DEF Spelt
      <4> QED BY <4>1
    <3>2. Join(Join(w, a), Join(b, h[k + 2])) = Join(Join(w, Join(a, b)), h[k + 2])
      <4> HIDE DEF a, b, w
      <4> QED BY <1>2, <1>7, <3>1, <1>12 DEF a
    <3> QED BY <2>3, <2>4, <2>5, <3>2
  <2>7. next.normal # <<>>
    <3>1. acc.normal \in Seq(C) /\ c \in C
      BY <1>2, <1>3
    <3> HIDE DEF next, c
    <3>2. Append(acc.normal, c) # <<>>
      BY <3>1, NotEmptied
    <3> QED BY <2>2, <3>2
  <2>8. HalfRead(p, m, next, h, k + 1)
    <3> HIDE DEF next
    <3> QED BY <1>1, <2>2, <2>6, <2>7 DEF HalfRead
  <2> QED BY <2>8
<1> QED BY <1>3, <1>8, <1>9, <1>10

\* What is compiled from a pattern that is not empty writes what the pattern means.
LEMMA CompiledMeans ==
    ASSUME NEW C, "%" \in C, NEW p \in Seq(C), NEW m, NEW O, Writes(C, m, O)
    PROVE  IF p = <<>> THEN CompilePattern(p) = <<>>
           ELSE CompilePattern(p) # <<>> /\ Written(CompilePattern(p), m) = Meaning(p, m)
<1> DEFINE n == Len(p)
<1>1. n \in Nat /\ (p = <<>> <=> n = 0)
  OBVIOUS
<1>2. PICK g \in [0..n -> Scanning(C)] :
         /\ g[0] = Begin
         /\ \A k \in 1..n : g[k] = Scan(g[k - 1], p[k])
         /\ CompilePattern(p) = IF g[n].percent THEN Append(g[n].out, Aggregate(<<"%">>))
                                                ELSE PushNormal(g[n])
  BY CompileTurns
<1>3. PICK h \in [1..n + 1 -> Seq(O)] :
         Meaning(p, m) = h[1] /\ \A k \in 1..n + 1 : h[k] = From(p, m, k, h)
  BY MeaningTurns
<1>4. Means(p, m, h)
  BY <1>3 DEF Means
<1> DEFINE T == {k \in Nat : k <= n => HalfRead(p, m, g[k], h, k)}
<1>5. 0 \in T
  <2>1. g[0].out = <<>> /\ g[0].normal = <<>> /\ ~g[0].percent
    BY <1>2 DEF Begin
  <2>2. Written(<<>>, m) = <<>> /\ Chars(<<>>) = <<>>
    BY FlattenNothing DEF Chars, Written
  <2>3. h[0 + 1] = h[1] /\ h[1] \in Seq(O)
    BY <1>1, <1>3
  <2>4. Join(Join(<<>>, <<>>), h[0 + 1]) = h[1]
    <3>1. <<>> \in Seq(O)
      OBVIOUS
    <3> QED BY <2>3, <3>1, JoinLaws
  <2> QED BY <2>1, <2>2, <2>4 DEF HalfRead
<1>6. ASSUME NEW k \in Nat, k \in T PROVE k + 1 \in T
  <2> SUFFICES ASSUME k + 1 <= n PROVE HalfRead(p, m, g[k + 1], h, k + 1)
    OBVIOUS
  <2>1. k + 1 \in 1..n /\ (k + 1) - 1 = k /\ k \in 0..n /\ k <= n
    BY <1>1
  <2>2. HalfRead(p, m, g[k], h, k) /\ g[k] \in Scanning(C)
    BY <1>2, <1>6, <2>1
  <2>3. g[k + 1] = Scan(g[k], p[k + 1])
    <3> HIDE DEF n
    <3> QED BY <1>2, <2>1
  <2>4. HalfRead(p, m, Scan(g[k], p[k + 1]), h, k + 1)
    BY <1>4, <2>2, HalfReadNext
  <2> QED BY <2>3, <2>4
<1>7. HalfRead(p, m, g[n], h, n)
  <2>1. Nat \subseteq T
    <3> HIDE DEF T
    <3> QED BY <1>5, <1>6, Induction
  <2> HIDE DEF n
  <2> QED BY <1>1, <2>1
<1>8. CASE p = <<>>
  <2>1. g[n].out = <<>> /\ g[n].normal = <<>> /\ ~g[n].percent
    BY <1>1, <1>2, <1>8 DEF Begin
  <2> QED BY <1>2, <1>8, <2>1 DEF PushNormal
<1>9. CASE p # <<>>
  <2> DEFINE acc == g[n]
  <2>1. n # 0 /\ acc \in Scanning(C) /\ n \in 1..n + 1 /\ n + 1 \in 1..n + 1
    BY <1>1, <1>2, <1>9
  <2>2. acc.out \in Seq(Formatters(C)) /\ acc.normal \in Seq(C) /\ acc.percent \in BOOLEAN
    BY <2>1 DEF Scanning
  <2>3. acc.percent \/ acc.normal # <<>> \/ acc.out # <<>>
    BY <1>7, <2>1 DEF HalfRead
  <2>4. CASE acc.percent
    <3> DEFINE x == Aggregate(<<"%">>)
    <3>1. CompilePattern(p) = Append(acc.out, x)
      BY <1>2, <2>4
    <3>2. x \in Formatters(C) /\ Formatted(x, m) = <<Char("%")>>
      <4>1. <<"%">> \in Seq(C)
        BY SmallSeqs
      <4>2. Chars(<<"%">>) = <<Char("%")>>
        BY DEF Chars
      <4> QED BY <4>1, <4>2 DEF Aggregate, Formatters, Formatted
    <3>3. Written(Append(acc.out, x), m) = Join(Written(acc.out, m), <<Char("%")>>)
      <4> HIDE DEF x, acc
      <4>1. \A y \in Formatters(C) :
               Written(Append(acc.out, y), m) = Join(Written(acc.out, m), Formatted(y, m))
        BY <2>2, WrittenNext
      <4> QED BY <3>2, <4>1
    <3>4. p[n] = "%" /\ Join(Written(acc.out, m), h[n]) = h[1]
      BY <1>7, <2>4 DEF HalfRead
    <3>5. h[n] = <<Char("%")>>
      <4>1. h[n] = From(p, m, n, h) /\ ~(n > n)
        BY <1>1, <2>1, <1>4 DEF Means
      <4> QED BY <3>4, <4>1 DEF From
    <3>6. Append(acc.out, x) # <<>>
      <4> HIDE DEF x, acc
      <4> QED BY <2>2, <3>2, NotEmptied
    <3> QED BY <1>3, <1>9, <3>1, <3>3, <3>4, <3>5, <3>6
  <2>5. CASE ~acc.percent
    <3>1. CompilePattern(p) = PushNormal(acc)
      BY <1>2, <2>5
    <3>2. Written(PushNormal(acc), m) = Join(Written(acc.out, m), Chars(acc.normal))
      <4> HIDE DEF acc
      <4> QED BY <2>1, PushedNormal
    <3>3. Join(Join(Written(acc.out, m), Chars(acc.normal)), h[n + 1]) = h[1]
      BY <1>7, <2>5 DEF HalfRead
    <3>4. h[n + 1] = <<>>
      <4>1. h[n + 1] = From(p, m, n + 1, h) /\ n + 1 > n
        BY <1>1, <2>1, <1>4 DEF Means
      <4> QED BY <4>1 DEF From
    <3>5. Join(Join(Written(acc.out, m), Chars(acc.normal)), <<>>)
             = Join(Written(acc.out, m), Chars(acc.normal))
      <4>1. Written(acc.out, m) \in Seq(O)
        <5>1. Aggregate(<<>>) \in Formatters(C)
          BY DEF Aggregate, Formatters
        <5> HIDE DEF acc
        <5> QED BY <2>2, <5>1, WrittenNext
      <4>2. Chars(acc.normal) \in Seq(O)
        <5>1. Spelt(C, O)
          BY DEF Writes
        <5> HIDE DEF acc
        <5> QED BY <2>2, <5>1, CharsAre
      <4> HIDE DEF acc
      <4> QED BY <4>1, <4>2, JoinLaws
    <3>6. PushNormal(acc) # <<>>
      <4>1. CASE acc.normal = <<>>
        BY <2>3, <2>5, <4>1 DEF PushNormal
      <4>2. CASE acc.normal # <<>>
        <5>1. Aggregate(acc.normal) \in Formatters(C)
          BY <2>2 DEF Aggregate, Formatters
        <5>2. Append(acc.out, Aggregate(acc.normal)) # <<>>
          <6> HIDE DEF acc
          <6> QED BY <2>2, <5>1, NotEmptied
        <5> QED BY <4>2, <5>2 DEF PushNormal
      <4> QED BY <4>1, <4>2
    <3> HIDE DEF acc
    <3> QED BY <1>3, <1>9, <3>1, <3>2, <3>3, <3>4, <3>5, <3>6
  <2> QED BY <2>2, <2>4, <2>5
<1> QED BY <1>8, <1>9

\* Compiled patterns write what patterns mean.
THEOREM PatternsMean == Spec => []PatternFaithful
<1>1. PatternsAstray = {}
  <2> SUFFICES ASSUME NEW p \in Patterns, NEW m \in Messages
               PROVE  Format(CompilePattern(p), m)
                        = Append(IF p = <<>> THEN CombineLogMsg(m) ELSE Meaning(p, m), Char("\n"))
    BY DEF PatternsAstray
  <2> DEFINE C == Characters \union {"%"}
             O == {Char(c) : c \in C \union {LevelLetter(m.level)}}
                  \union {DateString(m.timestamp), Number(m.timestamp \div 1000), Number(m.timestamp),
                          Number(m.pid), Number(m.tid), Text(m.file_name), Text(m.func_name),
                          Number(m.line), Text(m.log_info)}
  <2>1. p \in Seq(C)
    <3>1. p \in Seq(Characters)
      BY LawsAssumption
    <3> QED BY <3>1
  <2>3. "%" \in C
    OBVIOUS
  <2>2. Writes(C, m, O)
    <3>1. Spelt(C, O)
      BY DEF Spelt
    <3>2. ASSUME NEW x \in Formatters(C) PROVE Formatted(x, m) \in Seq(O)
      <4>1. CASE x.flag = "chars"
        <5>1. x.str \in Seq(C) /\ Formatted(x, m) = Chars(x.str)
          BY <4>1 DEF Formatters, Formatted
        <5> HIDE DEF C, O
        <5> QED BY <3>1, <5>1, <2>3, CharsAre
      <4>2. CASE x.flag \in Flags
        <5>1. \A o \in O : <<o>> \in Seq(O)
          <6> HIDE DEF O
          <6> QED OBVIOUS
        <5>2. PICK flag \in Flags : x.flag = flag
          BY <4>2
        <5>3. \E o \in O : Formatted(x, m) = <<o>>
          <6>1. CASE flag = "l"
            BY <5>2, <6>1 DEF Formatted
          <6>2. CASE flag = "D"
            BY <5>2, <6>2 DEF Formatted
          <6>3. CASE flag = "S"
            BY <5>2, <6>3 DEF Formatted
          <6>4. CASE flag = "M"
            BY <5>2, <6>4 DEF Formatted
          <6>5. CASE flag = "p"
            BY <5>2, <6>5 DEF Formatted
          <6>6. CASE flag = "t"
            BY <5>2, <6>6 DEF Formatted
          <6>7. CASE flag = "F"
            BY <5>2, <6>7 DEF Formatted
          <6>8. CASE flag = "f"
            BY <5>2, <6>8 DEF Formatted
          <6>9. CASE flag = "#"
            BY <5>2, <6>9 DEF Formatted
          <6>10. CASE flag = "v"
            BY <5>2, <6>10 DEF Formatted
          <6> QED BY <6>1, <6>2, <6>3, <6>4, <6>5, <6>6, <6>7, <6>8, <6>9, <6>10 DEF Flags
        <5> HIDE DEF O
        <5> QED BY <5>1, <5>3
      <4> QED BY <4>1, <4>2 DEF Formatters
    <3> QED BY <3>1, <3>2 DEF Writes
  <2>4. IF p = <<>> THEN CompilePattern(p) = <<>>
        ELSE CompilePattern(p) # <<>> /\ Written(CompilePattern(p), m) = Meaning(p, m)
    <3> HIDE DEF C, O
    <3> QED BY <2>1, <2>2, <2>3, CompiledMeans
  <2> QED BY <2>4 DEF Format, Written
<1> QED BY <1>1, PTL DEF PatternFaithful

-----------------------------------------------------------------------------
(* Streams: what a buffer takes and what waits. *)

\* The sum of the lengths, symbol by symbol.
LEMMA BytesTurns ==
    ASSUME NEW s \in Seq(Nat)
    PROVE  \E g \in [0..Len(s) -> Nat] :
              /\ g[0] = 0 /\ Bytes(s) = g[Len(s)]
              /\ \A k \in 1..Len(s) : g[k] = g[k - 1] + s[k]
<1> DEFINE n == Len(s)
           F == [p \in (1..n) \X Nat |-> p[2] + s[p[1]]]
           Def(g) == [k \in 0..n |-> IF k = 0 THEN 0 ELSE g[k - 1] + s[k]]
<1>1. n \in Nat /\ \A k \in 1..n : s[k] \in Nat
  OBVIOUS
<1>2. F \in Maps(n, Nat)
  <2> HIDE DEF n
  <2> QED BY <1>1 DEF Maps
<1>3. PICK g \in [0..n -> Nat] : g[0] = 0 /\ \A k \in 1..n : g[k] = F[<<k, g[k - 1]>>]
  <2> HIDE DEF n, F
  <2>1. Iterated(n, Nat, 0, F) # {}
    BY <1>1, <1>2, Iterates
  <2> QED BY <2>1 DEF Iterated
<1>4. \A k \in 1..n : g[k] = g[k - 1] + s[k]
  <2> SUFFICES ASSUME NEW k \in 1..n PROVE g[k] = g[k - 1] + s[k]
    OBVIOUS
  <2> HIDE DEF n
  <2>1. k - 1 \in 0..n
    BY <1>1
  <2> QED BY <2>1, <1>3
<1>5. g = Def(g)
  <2> HIDE DEF n, F
  <2> QED BY <1>1, <1>3, <1>4
<1> DEFINE G == CHOOSE h : h = Def(h)
<1>6. G = Def(G) /\ Bytes(s) = G[n]
  <2>1. Bytes(s) = G[n]
    BY DEF Bytes
  <2>2. G = Def(G)
    <3> HIDE DEF Def
    <3> QED BY <1>5
  <2> HIDE DEF G, Def
  <2> QED BY <2>1, <2>2
<1>7. G[0] = 0 /\ \A k \in 1..n : G[k] = G[k - 1] + s[k]
  <2>1. \A k \in 0..n : G[k] = IF k = 0 THEN 0 ELSE G[k - 1] + s[k]
    <3> HIDE DEF G, n
    <3> QED BY <1>6
  <2> HIDE DEF G, n
  <2>2. 0 \in 0..n /\ \A k \in 1..n : k \in 0..n /\ k # 0
    BY <1>1
  <2> QED BY <2>1, <2>2
<1> DEFINE T == {k \in Nat : k <= n => G[k] = g[k]}
<1> HIDE DEF G, n
<1>8. 0 \in T
  BY <1>3, <1>7
<1>9. ASSUME NEW k \in Nat, k \in T PROVE k + 1 \in T
  <2> SUFFICES ASSUME k + 1 <= n PROVE G[k + 1] = g[k + 1]
    OBVIOUS
  <2>1. k + 1 \in 1..n /\ (k + 1) - 1 = k /\ G[k] = g[k]
    BY <1>9, <1>1
  <2> QED BY <2>1, <1>4, <1>7
<1>10. Nat \subseteq T
  <2> HIDE DEF T
  <2> QED BY <1>8, <1>9, Induction
<1>11. Bytes(s) = g[n]
  BY <1>1, <1>6, <1>10
<1> QED BY <1>3, <1>4, <1>11 DEF n

\* One symbol more.
LEMMA BytesNext ==
    ASSUME NEW s \in Seq(Nat), NEW x \in Nat
    PROVE  Bytes(s) \in Nat /\ Bytes(Append(s, x)) = Bytes(s) + x
<1> DEFINE n == Len(s)
           more == Append(s, x)
<1>1. PICK g \in [0..n -> Nat] :
         g[0] = 0 /\ Bytes(s) = g[n] /\ \A k \in 1..n : g[k] = g[k - 1] + s[k]
  BY BytesTurns
<1>2. /\ n \in Nat /\ more \in Seq(Nat) /\ Len(more) = n + 1 /\ more[n + 1] = x
      /\ \A k \in 1..n : more[k] = s[k]
  OBVIOUS
<1>3. PICK h \in [0..n + 1 -> Nat] :
         h[0] = 0 /\ Bytes(more) = h[n + 1] /\ \A k \in 1..n + 1 : h[k] = h[k - 1] + more[k]
  <2>1. \E h \in [0..Len(more) -> Nat] :
           h[0] = 0 /\ Bytes(more) = h[Len(more)] /\ \A k \in 1..Len(more) : h[k] = h[k - 1] + more[k]
    <3> HIDE DEF more
    <3> QED BY <1>2, BytesTurns
  <2> HIDE DEF more, n
  <2> QED BY <2>1, <1>2
<1> DEFINE T == {k \in Nat : k <= n => h[k] = g[k]}
<1> HIDE DEF more, n
<1>4. 0 \in T
  BY <1>1, <1>3
<1>5. ASSUME NEW k \in Nat, k \in T PROVE k + 1 \in T
  <2> SUFFICES ASSUME k + 1 <= n PROVE h[k + 1] = g[k + 1]
    OBVIOUS
  <2>1. k + 1 \in 1..n /\ k + 1 \in 1..n + 1 /\ (k + 1) - 1 = k /\ h[k] = g[k]
    BY <1>2, <1>5
  <2> QED BY <2>1, <1>1, <1>2, <1>3
<1>6. Nat \subseteq T
  <2> HIDE DEF T
  <2> QED BY <1>4, <1>5, Induction
<1>7. h[n] = g[n] /\ n + 1 \in 1..n + 1 /\ (n + 1) - 1 = n
  BY <1>2, <1>6
<1>8. Bytes(s) \in Nat /\ Bytes(more) = Bytes(s) + x
  BY <1>1, <1>2, <1>3, <1>7
<1> QED BY <1>8 DEF more

\* No symbols stand for nothing.
LEMMA NoBytes == Bytes(<<>>) = 0
<1>1. PICK g \in [0..Len(<<>>) -> Nat] : g[0] = 0 /\ Bytes(<<>>) = g[Len(<<>>)]
  <2>1. <<>> \in Seq(Nat)
    OBVIOUS
  <2> QED BY <2>1, BytesTurns
<1> QED BY <1>1

\* Part of what is to be written is, and the rest waits.
LEMMA Emitted ==
    ASSUME NEW st \in Stream, NEW n \in Nat
    PROVE  /\ Emit(st, n) \in Stream /\ Emit(st, n).input = st.input
           /\ Emit(st, n).output + Emit(st, n).waiting = st.output + n
           /\ Emit(st, n).output + Emit(st, n).room = st.output + st.room
           /\ Emit(st, n).waiting <= n /\ Emit(st, n).output >= st.output
           /\ n <= st.room => Emit(st, n).waiting = 0
           /\ n # 0 /\ st.room # 0 => Emit(st, n).output > st.output
<1> DEFINE k == IF n <= st.room THEN n ELSE st.room
<1>1. st.input \in Seq(Nat) /\ st.waiting \in Nat /\ st.output \in Nat /\ st.room \in Nat
  BY DEF Stream
<1>2. k \in Nat /\ k <= n /\ k <= st.room /\ n - k \in Nat /\ st.room - k \in Nat
  BY <1>1
<1> DEFINE e == Emit(st, n)
<1>3. e = [st EXCEPT !.waiting = n - k, !.output = st.output + k, !.room = st.room - k]
  BY DEF Emit
<1>4. /\ e \in Stream
      /\ e.input = st.input /\ e.waiting = n - k /\ e.output = st.output + k /\ e.room = st.room - k
  <2>1. st.output + k \in Nat
    <3> HIDE DEF k
    <3> QED BY <1>1, <1>2
  <2> DEFINE w == n - k
             o == st.output + k
             r == st.room - k
  <2>2. w \in Nat /\ o \in Nat /\ r \in Nat
    BY <1>2, <2>1
  <2>3. e = [st EXCEPT !.waiting = w, !.output = o, !.room = r]
    BY <1>3
  <2> HIDE DEF e, w, o, r
  <2>4. e \in Stream /\ e.input = st.input /\ e.waiting = w /\ e.output = o /\ e.room = r
    BY <2>2, <2>3 DEF Stream
  <2> QED BY <2>4 DEF w, o, r
<1>5. /\ n <= st.room => n - k = 0
      /\ n # 0 /\ st.room # 0 => k > 0
  BY <1>1
<1> HIDE DEF k, e
<1>6. /\ e.output + e.waiting = st.output + n /\ e.output + e.room = st.output + st.room
      /\ e.waiting <= n /\ e.output >= st.output
      /\ n <= st.room => e.waiting = 0
      /\ n # 0 /\ st.room # 0 => e.output > st.output
  <2>1. st.output \in Nat /\ st.room \in Nat
    BY <1>1
  <2> QED BY <2>1, <1>2, <1>4, <1>5
<1> QED BY <1>4, <1>6 DEF e

\* A symbol that is read.
LEMMA Taken ==
    ASSUME NEW st \in Stream, NEW symbol \in Nat
    PROVE  /\ Take(st, symbol) \in Stream
           /\ st.waiting # 0 => Take(st, symbol) = [st EXCEPT !.input = Append(st.input, symbol)]
           /\ st.waiting = 0 => Take(st, symbol) = Emit(st, symbol)
<1>1. st.input \in Seq(Nat) /\ st.waiting \in Nat /\ st.output \in Nat /\ st.room \in Nat
  BY DEF Stream
<1>2. CASE st.waiting # 0
  <2>1. Take(st, symbol) = [st EXCEPT !.input = Append(st.input, symbol)]
    BY <1>1, <1>2 DEF Take
  <2>2. Append(st.input, symbol) \in Seq(Nat)
    BY <1>1
  <2> HIDE DEF Take
  <2>3. [st EXCEPT !.input = Append(st.input, symbol)] \in Stream
    BY <2>2 DEF Stream
  <2> QED BY <1>2, <2>1, <2>3
<1>3. CASE st.waiting = 0
  <2>1. Take(st, symbol) = Emit(st, symbol)
    BY <1>3 DEF Take
  <2> QED BY <1>3, <2>1, Emitted
<1> QED BY <1>2, <1>3

\* One call takes the symbols in turn.
LEMMA DecodeTurns ==
    ASSUME NEW st \in Stream
    PROVE  \E g \in [0..Len(st.input) -> Stream] :
              /\ g[0] = Emit([st EXCEPT !.input = <<>>], st.waiting)
              /\ Decode(st) = g[Len(st.input)]
              /\ \A k \in 1..Len(st.input) : g[k] = Take(g[k - 1], st.input[k])
<1> DEFINE n == Len(st.input)
           a == Emit([st EXCEPT !.input = <<>>], st.waiting)
           F == [p \in (1..n) \X Stream |-> Take(p[2], st.input[p[1]])]
           Def(g) == [k \in 0..n |-> IF k = 0 THEN a ELSE Take(g[k - 1], st.input[k])]
<1>1. n \in Nat /\ (\A k \in 1..n : st.input[k] \in Nat) /\ a \in Stream
  <2>1. st.input \in Seq(Nat) /\ st.waiting \in Nat
    BY DEF Stream
  <2>2. [st EXCEPT !.input = <<>>] \in Stream
    <3>1. <<>> \in Seq(Nat)
      OBVIOUS
    <3> QED BY <3>1 DEF Stream
  <2>3. a \in Stream
    BY <2>1, <2>2, Emitted
  <2> QED BY <2>1, <2>3
<1> HIDE DEF a
<1>2. F \in Maps(n, Stream)
  <2>1. \A p \in (1..n) \X Stream : Take(p[2], st.input[p[1]]) \in Stream
    <3> HIDE DEF n
    <3> QED BY <1>1, Taken
  <2> QED BY <2>1 DEF Maps
<1>3. PICK g \in [0..n -> Stream] : g[0] = a /\ \A k \in 1..n : g[k] = F[<<k, g[k - 1]>>]
  <2> HIDE DEF n, F
  <2>1. Iterated(n, Stream, a, F) # {}
    BY <1>1, <1>2, Iterates
  <2> QED BY <2>1 DEF Iterated
<1>4. \A k \in 1..n : g[k] = Take(g[k - 1], st.input[k])
  <2> SUFFICES ASSUME NEW k \in 1..n PROVE g[k] = Take(g[k - 1], st.input[k])
    OBVIOUS
  <2> HIDE DEF n
  <2>1. k - 1 \in 0..n
    BY <1>1
  <2> QED BY <2>1, <1>3
<1>5. g = Def(g)
  <2> HIDE DEF n, F
  <2> QED BY <1>1, <1>3, <1>4
<1> DEFINE G == CHOOSE h : h = Def(h)
<1>6. G = Def(G) /\ Decode(st) = G[n]
  <2>1. Decode(st) = G[n]
    BY DEF Decode, a
  <2> HIDE DEF Def
  <2> QED BY <2>1, <1>5
<1>7. G[0] = a /\ \A k \in 1..n : G[k] = Take(G[k - 1], st.input[k])
  <2> HIDE DEF G, n
  <2> QED BY <1>1, <1>6
<1> DEFINE T == {k \in Nat : k <= n => G[k] = g[k]}
<1> HIDE DEF G, n
<1>8. 0 \in T
  BY <1>3, <1>7
<1>9. ASSUME NEW k \in Nat, k \in T PROVE k + 1 \in T
  <2> SUFFICES ASSUME k + 1 <= n PROVE G[k + 1] = g[k + 1]
    OBVIOUS
  <2>1. k + 1 \in 1..n /\ (k + 1) - 1 = k /\ G[k] = g[k]
    BY <1>9, <1>1
  <2> QED BY <2>1, <1>4, <1>7
<1>10. Nat \subseteq T
  <2> HIDE DEF T
  <2> QED BY <1>8, <1>9, Induction
<1>11. Decode(st) = g[n]
  BY <1>1, <1>6, <1>10
<1> QED BY <1>3, <1>4, <1>11 DEF n, a

\* The sums up to each symbol.
Sums(s) == {g \in [0..Len(s) -> Nat] :
               g[0] = 0 /\ Bytes(s) = g[Len(s)] /\ \A k \in 1..Len(s) : g[k] = g[k - 1] + s[k]}

\* They do not exceed the whole.
LEMMA SumsBelow ==
    ASSUME NEW s \in Seq(Nat), NEW g \in Sums(s)
    PROVE  \A k \in 0..Len(s) : g[k] <= Bytes(s)
<1> DEFINE n == Len(s)
<1>1. /\ n \in Nat /\ g \in [0..n -> Nat] /\ g[n] = Bytes(s)
      /\ \A k \in 1..n : s[k] \in Nat /\ g[k] = g[k - 1] + s[k]
  BY DEF Sums
<1> DEFINE T == {d \in Nat : d <= n => g[n - d] <= g[n]}
<1> HIDE DEF n
<1>2. 0 \in T
  BY <1>1
<1>3. ASSUME NEW d \in Nat, d \in T PROVE d + 1 \in T
  <2> SUFFICES ASSUME d + 1 <= n PROVE g[n - (d + 1)] <= g[n]
    OBVIOUS
  <2>1. n - d \in 1..n /\ n - (d + 1) = (n - d) - 1 /\ n - (d + 1) \in 0..n /\ n - d \in 0..n /\ n \in 0..n
    BY <1>1
  <2>2. g[n - d] = g[n - (d + 1)] + s[n - d] /\ s[n - d] \in Nat
    BY <1>1, <2>1
  <2>3. g[n - (d + 1)] \in Nat /\ g[n - d] \in Nat /\ g[n] \in Nat
    BY <1>1, <2>1
  <2>4. g[n - d] <= g[n]
    BY <1>1, <1>3, <2>1
  <2> QED BY <2>2, <2>3, <2>4
<1>4. Nat \subseteq T
  <2> HIDE DEF T
  <2> QED BY <1>2, <1>3, Induction
<1>5. ASSUME NEW k \in 0..n PROVE g[k] <= g[n]
  <2>1. n - k \in Nat /\ n - k <= n /\ n - (n - k) = k
    BY <1>1
  <2>2. n - k \in T
    BY <2>1, <1>4
  <2> QED BY <2>1, <2>2
<1> QED BY <1>1, <1>5 DEF n

\* What one call has made of a stream when it has read k symbols: nothing is lost, and
\* what it leaves of the input begins after something that waits.
Held(st, g, s, k) ==
    /\ s.output + s.waiting + Bytes(s.input) = st.output + st.waiting + g[k]
    /\ s.output >= st.output /\ Len(s.input) <= k
    /\ s.input # <<>> => s.waiting # 0 /\ s.input[Len(s.input)] = st.input[k]
    /\ s.input = <<>> /\ k # 0 => s.waiting <= st.input[k]
    /\ st.room # 0 => IF k = 0 THEN s.waiting # 0 => s.output > st.output
                      ELSE Len(s.input) < k \/ s.output > st.output

\* It holds before the first.
LEMMA HeldFirst ==
    ASSUME NEW st \in Stream, NEW g \in Sums(st.input)
    PROVE  Held(st, g, Emit([st EXCEPT !.input = <<>>], st.waiting), 0)
<1> DEFINE b == [st EXCEPT !.input = <<>>]
           e == Emit(b, st.waiting)
<1>1. st.waiting \in Nat /\ st.output \in Nat /\ st.room \in Nat /\ st.input \in Seq(Nat)
  BY DEF Stream
<1>2. b \in Stream /\ b.input = <<>> /\ b.output = st.output /\ b.room = st.room
  <2>1. <<>> \in Seq(Nat)
    OBVIOUS
  <2> QED BY <2>1 DEF Stream
<1>3. /\ e \in Stream /\ e.input = <<>>
      /\ e.output + e.waiting = st.output + st.waiting
      /\ e.waiting <= st.waiting /\ e.output >= st.output
      /\ st.waiting # 0 /\ st.room # 0 => e.output > st.output
  <2> HIDE DEF b
  <2>1. /\ e \in Stream /\ e.input = b.input /\ e.output + e.waiting = b.output + st.waiting
        /\ e.waiting <= st.waiting /\ e.output >= b.output
        /\ st.waiting # 0 /\ b.room # 0 => e.output > b.output
    BY <1>1, <1>2, Emitted
  <2> HIDE DEF e
  <2> QED BY <1>2, <2>1
<1>4. e.waiting \in Nat /\ e.output \in Nat /\ Len(<<>>) = 0
  BY <1>3 DEF Stream
<1>5. g[0] = 0
  BY DEF Sums
<1> HIDE DEF e
<1>6. Held(st, g, e, 0)
  BY <1>1, <1>3, <1>4, <1>5, NoBytes DEF Held
<1> QED BY <1>6 DEF e

\* And after one more.
LEMMA HeldNext ==
    ASSUME NEW st \in Stream, NEW g \in Sums(st.input), NEW s \in Stream,
           NEW k \in Nat, k + 1 <= Len(st.input), Held(st, g, s, k)
    PROVE  Held(st, g, Take(s, st.input[k + 1]), k + 1)
<1> DEFINE x == st.input[k + 1]
           t == Take(s, x)
<1>1. st.waiting \in Nat /\ st.output \in Nat /\ st.room \in Nat /\ st.input \in Seq(Nat)
  BY DEF Stream
<1>2. s.waiting \in Nat /\ s.output \in Nat /\ s.room \in Nat /\ s.input \in Seq(Nat)
  BY DEF Stream
<1>3. k + 1 \in 1..Len(st.input) /\ (k + 1) - 1 = k /\ k + 1 # 0
  BY <1>1
<1>4. x \in Nat /\ g[k] \in Nat /\ g[k + 1] = g[k] + x
  <2>1. /\ g \in [0..Len(st.input) -> Nat]
        /\ \A j \in 1..Len(st.input) : g[j] = g[j - 1] + st.input[j]
    BY DEF Sums
  <2>2. k \in 0..Len(st.input)
    BY <1>1, <1>3
  <2>3. st.input[k + 1] \in Nat
    BY <1>1, <1>3
  <2> QED BY <1>3, <2>1, <2>2, <2>3
<1>5. Bytes(s.input) \in Nat /\ Bytes(Append(s.input, x)) = Bytes(s.input) + x
  BY <1>2, <1>4, BytesNext
<1>6. CASE s.waiting # 0
  <2>1. t = [s EXCEPT !.input = Append(s.input, x)]
    BY <1>4, <1>6, Taken
  <2>2. t.input = Append(s.input, x) /\ t.waiting = s.waiting /\ t.output = s.output
    BY <2>1 DEF Stream
  <2>3. /\ Len(Append(s.input, x)) = Len(s.input) + 1
        /\ Append(s.input, x)[Len(s.input) + 1] = x /\ Append(s.input, x) # <<>>
    <3> HIDE DEF x
    <3>1. \A i \in Seq(Nat) : /\ Len(Append(i, x)) = Len(i) + 1 /\ Append(i, x)[Len(i) + 1] = x
                              /\ Append(i, x) # <<>>
      BY <1>4, NotEmptied, Appended
    <3> QED BY <1>2, <3>1
  <2>4. Len(s.input) \in Nat
    BY <1>2
  <2> HIDE DEF t, x
  <2>5. t.output + t.waiting + Bytes(t.input) = st.output + st.waiting + g[k + 1]
    <3>1. s.output + s.waiting + Bytes(s.input) = st.output + st.waiting + g[k]
      BY DEF Held
    <3>2. Bytes(t.input) = Bytes(s.input) + x
      BY <1>5, <2>2
    <3>3. t.output + t.waiting + Bytes(t.input) = s.output + s.waiting + (Bytes(s.input) + x)
      BY <2>2, <3>2
    <3>4. \A b \in Nat : s.output + s.waiting + (b + x) = (s.output + s.waiting + b) + x
      BY <1>2, <1>4
    <3>5. t.output + t.waiting + Bytes(t.input) = (st.output + st.waiting + g[k]) + x
      BY <1>5, <3>1, <3>3, <3>4
    <3>6. (st.output + st.waiting + g[k]) + x = st.output + st.waiting + (g[k] + x)
      BY <1>1, <1>4
    <3> QED BY <1>4, <3>5, <3>6
  <2>6. st.room # 0 => Len(t.input) < k + 1 \/ t.output > st.output
    <3> SUFFICES ASSUME st.room # 0 PROVE Len(t.input) < k + 1 \/ t.output > st.output
      OBVIOUS
    <3>1. (k # 0 /\ Len(s.input) < k) \/ s.output > st.output
      BY <1>6 DEF Held
    <3> QED BY <2>2, <2>3, <2>4, <3>1
  <2>7. t.output >= st.output /\ Len(t.input) <= k + 1
    BY <2>2, <2>3, <2>4 DEF Held
  <2>8. t.input # <<>> /\ t.waiting # 0 /\ t.input[Len(t.input)] = x
    BY <2>2, <2>3, <1>6
  <2>9. Held(st, g, t, k + 1)
    BY <1>3, <2>5, <2>6, <2>7, <2>8 DEF Held, x
  <2> QED BY <2>9 DEF t, x
<1>7. CASE s.waiting = 0
  <2>1. s.input = <<>>
    BY <1>7 DEF Held
  <2>2. /\ t \in Stream /\ t.input = <<>> /\ t.output + t.waiting = s.output + x
        /\ t.waiting <= x /\ t.output >= s.output
    <3> HIDE DEF x
    <3>1. t = Emit(s, x)
      BY <1>4, <1>7, Taken
    <3>2. /\ Emit(s, x) \in Stream /\ Emit(s, x).input = s.input
          /\ Emit(s, x).output + Emit(s, x).waiting = s.output + x
          /\ Emit(s, x).waiting <= x /\ Emit(s, x).output >= s.output
      BY <1>4, Emitted
    <3> HIDE DEF t
    <3> QED BY <2>1, <3>1, <3>2
  <2>3. t.waiting \in Nat /\ t.output \in Nat /\ Len(t.input) = 0
    BY <2>2 DEF Stream
  <2> HIDE DEF t, x
  <2>4. s.output = st.output + st.waiting + g[k] /\ s.output >= st.output
    <3>1. s.output + 0 + 0 = st.output + st.waiting + g[k]
      BY <1>7, <2>1, NoBytes DEF Held
    <3>2. s.output >= st.output
      BY DEF Held
    <3>3. s.output + 0 + 0 = s.output
      BY <1>2
    <3> QED BY <3>1, <3>2, <3>3
  <2>5. t.output + t.waiting + Bytes(t.input) = st.output + st.waiting + g[k + 1]
    <3>1. Bytes(t.input) = 0 /\ t.output + t.waiting = s.output + x
      BY <2>2, NoBytes
    <3>2. \A o, w, p, v, a, b \in Nat :
             o + w = p + b /\ p = v + a => o + w + 0 = v + (a + b)
      OBVIOUS
    <3>3. (st.output + st.waiting) \in Nat
      BY <1>1
    <3> QED BY <1>2, <1>4, <2>3, <2>4, <3>1, <3>2, <3>3
  <2>6. t.output >= st.output /\ Len(t.input) <= k + 1 /\ Len(t.input) < k + 1
    BY <1>1, <1>2, <2>2, <2>3, <2>4
  <2>7. Held(st, g, t, k + 1)
    BY <1>3, <2>2, <2>5, <2>6 DEF Held, x
  <2> QED BY <2>7 DEF t, x
<1> QED BY <1>6, <1>7

\* One call of the decompressor: nothing is lost, a call that is given room makes progress,
\* and input is left behind only by what waits.
LEMMA DecodeHolds ==
    ASSUME NEW st \in Stream
    PROVE  \E g \in Sums(st.input) :
              Decode(st) \in Stream /\ Held(st, g, Decode(st), Len(st.input))
<1> DEFINE n == Len(st.input)
<1>1. st.input \in Seq(Nat) /\ n \in Nat
  BY DEF Stream
<1>2. PICK g \in Sums(st.input) : TRUE
  <2>1. \E g \in [0..Len(st.input) -> Nat] :
           /\ g[0] = 0 /\ Bytes(st.input) = g[Len(st.input)]
           /\ \A k \in 1..Len(st.input) : g[k] = g[k - 1] + st.input[k]
    BY <1>1, BytesTurns
  <2> QED BY <2>1 DEF Sums
<1>3. PICK h \in [0..n -> Stream] :
         /\ h[0] = Emit([st EXCEPT !.input = <<>>], st.waiting) /\ Decode(st) = h[n]
         /\ \A k \in 1..n : h[k] = Take(h[k - 1], st.input[k])
  BY DecodeTurns
<1> DEFINE T == {k \in Nat : k <= n => Held(st, g, h[k], k)}
<1>4. 0 \in T
  BY <1>3, HeldFirst
<1>5. ASSUME NEW k \in Nat, k \in T PROVE k + 1 \in T
  <2> SUFFICES ASSUME k + 1 <= n PROVE Held(st, g, h[k + 1], k + 1)
    OBVIOUS
  <2>1. k + 1 \in 1..n /\ (k + 1) - 1 = k /\ k \in 0..n /\ k <= n
    BY <1>1
  <2>2. Held(st, g, h[k], k) /\ h[k] \in Stream
    BY <1>3, <1>5, <2>1
  <2>3. h[k + 1] = Take(h[k], st.input[k + 1])
    BY <1>3, <2>1
  <2> QED BY <2>2, <2>3, HeldNext
<1>6. Nat \subseteq T
  <2> HIDE DEF T
  <2> QED BY <1>4, <1>5, Induction
<1>7. Held(st, g, h[n], n) /\ h[n] \in Stream
  <2> HIDE DEF n
  <2> QED BY <1>1, <1>3, <1>6
<1> QED BY <1>3, <1>7

\* A call with room enough writes all there is.
LEMMA DecodeFits ==
    ASSUME NEW st \in Stream, st.waiting = 0, Bytes(st.input) <= st.room
    PROVE  Decode(st).input = <<>> /\ Decode(st).output = st.output + Bytes(st.input)
<1> DEFINE n == Len(st.input)
<1>1. st.input \in Seq(Nat) /\ n \in Nat /\ st.output \in Nat /\ st.room \in Nat
  BY DEF Stream
<1>2. PICK g \in Sums(st.input) : TRUE
  <2>1. \E g \in [0..Len(st.input) -> Nat] :
           /\ g[0] = 0 /\ Bytes(st.input) = g[Len(st.input)]
           /\ \A k \in 1..Len(st.input) : g[k] = g[k - 1] + st.input[k]
    BY <1>1, BytesTurns
  <2> QED BY <2>1 DEF Sums
<1>3. /\ g \in [0..n -> Nat] /\ g[0] = 0 /\ g[n] = Bytes(st.input)
      /\ \A k \in 1..n : st.input[k] \in Nat /\ g[k] = g[k - 1] + st.input[k]
      /\ \A k \in 0..n : g[k] <= st.room
  <2>1. \A k \in 0..n : g[k] <= Bytes(st.input)
    BY <1>1, <1>2, SumsBelow
  <2>2. \A k \in 0..n : g[k] \in Nat
    BY <1>2 DEF Sums
  <2>3. Bytes(st.input) \in Nat
    <3>1. n \in 0..n /\ g[n] = Bytes(st.input)
      BY <1>1, <1>2 DEF Sums
    <3> QED BY <2>2, <3>1
  <2>4. \A k \in 0..n : g[k] <= st.room
    <3> HIDE DEF n
    <3> QED BY <1>1, <2>1, <2>2, <2>3
  <2> QED BY <1>1, <1>2, <2>4 DEF Sums
<1>4. PICK h \in [0..n -> Stream] :
         /\ h[0] = Emit([st EXCEPT !.input = <<>>], st.waiting) /\ Decode(st) = h[n]
         /\ \A k \in 1..n : h[k] = Take(h[k - 1], st.input[k])
  BY DecodeTurns
<1> DEFINE Fits(s, k) ==
               /\ s.input = <<>> /\ s.waiting = 0
               /\ s.output = st.output + g[k] /\ s.output + s.room = st.output + st.room
           T == {k \in Nat : k <= n => Fits(h[k], k)}
<1>5. 0 \in T
  <2> DEFINE b == [st EXCEPT !.input = <<>>]
             e == Emit(b, 0)
  <2>1. b \in Stream /\ b.input = <<>> /\ b.output = st.output /\ b.room = st.room
    <3>1. <<>> \in Seq(Nat)
      OBVIOUS
    <3> QED BY <3>1 DEF Stream
  <2>2. /\ e \in Stream /\ e.input = b.input /\ e.output + e.waiting = b.output + 0
        /\ e.output + e.room = b.output + b.room
        /\ 0 <= b.room => e.waiting = 0
    <3> HIDE DEF b
    <3>1. 0 \in Nat
      OBVIOUS
    <3>2. /\ Emit(b, 0) \in Stream /\ Emit(b, 0).input = b.input
          /\ Emit(b, 0).output + Emit(b, 0).waiting = b.output + 0
          /\ Emit(b, 0).output + Emit(b, 0).room = b.output + b.room
          /\ 0 <= b.room => Emit(b, 0).waiting = 0
      BY <2>1, <3>1, Emitted
    <3> QED BY <3>2
  <2>3. h[0] = e
    BY <1>4
  <2> HIDE DEF e, b
  <2>4. e.output \in Nat
    BY <2>2 DEF Stream
  <2>5. Fits(e, 0)
    BY <1>1, <1>3, <2>1, <2>2, <2>4
  <2> QED BY <2>3, <2>5
<1>6. ASSUME NEW k \in Nat, k \in T PROVE k + 1 \in T
  <2> SUFFICES ASSUME k + 1 <= n PROVE Fits(h[k + 1], k + 1)
    OBVIOUS
  <2> DEFINE s == h[k]
             x == st.input[k + 1]
             t == Emit(s, x)
  <2>1. k + 1 \in 1..n /\ (k + 1) - 1 = k /\ k \in 0..n /\ k <= n /\ k + 1 \in 0..n
    BY <1>1
  <2>2. s \in Stream /\ Fits(s, k)
    BY <1>4, <1>6, <2>1
  <2>3. x \in Nat /\ g[k] \in Nat /\ g[k + 1] = g[k] + x /\ g[k + 1] <= st.room
    <3> HIDE DEF n
    <3> QED BY <1>3, <2>1
  <2>4. h[k + 1] = t
    <3>1. h[k + 1] = Take(s, x)
      BY <1>4, <2>1
    <3> HIDE DEF s, x, n
    <3> QED BY <2>2, <2>3, <3>1, Taken
  <2>5. /\ t \in Stream /\ t.input = s.input /\ t.output + t.waiting = s.output + x
        /\ t.output + t.room = s.output + s.room
        /\ x <= s.room => t.waiting = 0
    <3> HIDE DEF s, x
    <3> QED BY <2>2, <2>3, Emitted
  <2> HIDE DEF s, x, t, n
  <2>6. s.output \in Nat /\ s.room \in Nat /\ t.output \in Nat /\ t.room \in Nat /\ t.waiting \in Nat
    BY <2>2, <2>5 DEF Stream
  <2>7. x <= s.room
    <3>1. s.output = st.output + g[k] /\ s.output + s.room = st.output + st.room
      BY <2>2
    <3>2. st.output \in Nat /\ st.room \in Nat
      BY <1>1
    <3> HIDE DEF Fits
    <3> QED BY <2>3, <2>6, <3>1, <3>2, SMTT(20)
  <2>8. Fits(t, k + 1)
    <3>1. s.input = <<>> /\ s.output = st.output + g[k] /\ s.output + s.room = st.output + st.room
      BY <2>2
    <3>2. t.input = <<>> /\ t.waiting = 0 /\ t.output + t.room = st.output + st.room
      BY <2>5, <2>7, <3>1
    <3>3. t.output = st.output + g[k + 1]
      <4>1. st.output \in Nat
        BY <1>1
      <4> QED BY <2>3, <2>5, <2>6, <3>1, <3>2, <4>1
    <3> QED BY <3>2, <3>3
  <2> QED BY <2>4, <2>8
<1>7. Nat \subseteq T
  <2> HIDE DEF T
  <2> QED BY <1>5, <1>6, Induction
<1>8. Fits(h[n], n)
  <2> HIDE DEF n, Fits
  <2> QED BY <1>1, <1>7
<1> QED BY <1>3, <1>4, <1>8

\* ZlibCompress::Decompress is a loop of calls.
LEMMA ZlibTurns ==
    ASSUME NEW symbols, Buffer \in Nat
    PROVE  \E f :
              /\ ZlibDecompress(symbols) = f[Start(symbols, 0)]
              /\ \A st \in Stream : f[st] = IF st.input = <<>> THEN st.output
                                            ELSE f[Decode([st EXCEPT !.room = Buffer])]
<1> DEFINE Done == {st \in Stream : st.input = <<>>}
           D == [st \in Stream |-> Decode([st EXCEPT !.room = Buffer])]
           Out == [st \in Stream |-> st.output]
           Def(f) == [st \in Stream |-> IF st.input = <<>> THEN st.output
                                        ELSE f[Decode([st EXCEPT !.room = Buffer])]]
           G == CHOOSE f : f = Def(f)
<1>1. D \in [Stream -> Stream] /\ Out \in [Stream -> Nat] /\ Done \in SUBSET Stream /\ 0 \in Nat
  <2>1. \A st \in Stream : [st EXCEPT !.room = Buffer] \in Stream
    BY DEF Stream
  <2>2. \A st \in Stream : Decode(st) \in Stream
    BY DecodeHolds
  <2>3. \A st \in Stream : st.output \in Nat
    BY DEF Stream
  <2> QED BY <2>1, <2>2, <2>3
<1>2. PICK f : LoopOf(f, Stream, Nat, Done, D, Out)
  <2> HIDE DEF Done, D, Out
  <2> QED BY <1>1, Loops
<1>3. \A st \in Stream : f[st] = IF st.input = <<>> THEN st.output
                                 ELSE f[Decode([st EXCEPT !.room = Buffer])]
  BY <1>2 DEF LoopOf
<1>4. f = Def(f)
  <2>1. f \in [Stream -> Nat]
    BY <1>2 DEF LoopOf
  <2> HIDE DEF Done, D, Out
  <2> QED BY <2>1, <1>3
<1>5. G = Def(G) /\ ZlibDecompress(symbols) = G[Start(symbols, 0)]
  <2>1. ZlibDecompress(symbols) = G[Start(symbols, 0)]
    BY DEF ZlibDecompress
  <2> HIDE DEF Def
  <2> QED BY <2>1, <1>4
<1>6. \A st \in Stream : G[st] = IF st.input = <<>> THEN st.output
                                 ELSE G[Decode([st EXCEPT !.room = Buffer])]
  <2> HIDE DEF G
  <2> QED BY <1>5
<1> HIDE DEF G
<1> QED BY <1>5, <1>6

\* ZstdCompress::Decompress is another.
Refilled(next) == IF next.input # <<>> /\ next.room = 0 THEN [next EXCEPT !.room = next.output] ELSE next

LEMMA ZstdTurns ==
    ASSUME NEW frame
    PROVE  \E f :
              /\ ZstdDecompress(frame) = f[Start(frame.symbols, InitialSize(frame))]
              /\ \A st \in Stream : f[st] = IF st.input = <<>> THEN st.output
                                            ELSE f[Refilled(Decode(st))]
<1> DEFINE Done == {st \in Stream : st.input = <<>>}
           D == [st \in Stream |-> Refilled(Decode(st))]
           Out == [st \in Stream |-> st.output]
           Def(f) == [st \in Stream |-> IF st.input = <<>> THEN st.output
                                        ELSE f[Refilled(Decode(st))]]
           G == CHOOSE f : f = Def(f)
<1>1. D \in [Stream -> Stream] /\ Out \in [Stream -> Nat] /\ Done \in SUBSET Stream /\ 0 \in Nat
  <2>1. \A st \in Stream : Refilled(st) \in Stream
    BY DEF Refilled, Stream
  <2>2. \A st \in Stream : Decode(st) \in Stream
    BY DecodeHolds
  <2>3. \A st \in Stream : st.output \in Nat
    BY DEF Stream
  <2> QED BY <2>1, <2>2, <2>3
<1>2. PICK f : LoopOf(f, Stream, Nat, Done, D, Out)
  <2> HIDE DEF Done, D, Out
  <2> QED BY <1>1, Loops
<1>3. \A st \in Stream : f[st] = IF st.input = <<>> THEN st.output ELSE f[Refilled(Decode(st))]
  BY <1>2 DEF LoopOf
<1>4. f = Def(f)
  <2>1. f \in [Stream -> Nat]
    BY <1>2 DEF LoopOf
  <2> HIDE DEF Done, D, Out
  <2> QED BY <2>1, <1>3
<1>5. G = Def(G) /\ ZstdDecompress(frame) = G[Start(frame.symbols, InitialSize(frame))]
  <2>1. ZstdDecompress(frame) = G[Start(frame.symbols, InitialSize(frame))]
    BY DEF ZstdDecompress, Refilled
  <2> HIDE DEF Def
  <2> QED BY <2>1, <1>4
<1>6. \A st \in Stream : G[st] = IF st.input = <<>> THEN st.output ELSE G[Refilled(Decode(st))]
  <2> HIDE DEF G
  <2> QED BY <1>5
<1> HIDE DEF G
<1> QED BY <1>5, <1>6

\* A stream begins with all of its input.
LEMMA Started ==
    ASSUME NEW s \in Seq(Nat), NEW r \in Nat
    PROVE  /\ Start(s, r) \in Stream /\ Start(s, r).input = s /\ Start(s, r).room = r
           /\ Start(s, r).waiting = 0 /\ Start(s, r).output = 0
  BY DEF Start, Reset, Stream

\* Everything comes out of a frame that tells its length.
LEMMA ZstdReturns ==
    ASSUME NEW c \in Seq(Nat)
    PROVE  ZstdDecompress(ZstdCompress(c)) = Bytes(c)
<1> DEFINE frame == ZstdCompress(c)
           st == Start(c, Bytes(c))
           d == Decode(st)
<1>1. PICK f :
         /\ ZstdDecompress(frame) = f[Start(frame.symbols, InitialSize(frame))]
         /\ \A s \in Stream : f[s] = IF s.input = <<>> THEN s.output ELSE f[Refilled(Decode(s))]
  BY ZstdTurns
<1>2. ZstdDecompress(frame) = f[st]
  BY <1>1 DEF ZstdCompress, InitialSize
<1>3. Bytes(c) \in Nat
  BY BytesNext
<1>4. st \in Stream /\ st.input = c /\ st.room = Bytes(c) /\ st.waiting = 0 /\ st.output = 0
  BY <1>3, Started
<1> HIDE DEF st, frame
<1>5. CASE c = <<>>
  BY <1>1, <1>2, <1>4, <1>5, NoBytes DEF frame
<1>6. CASE c # <<>>
  <2>1. d.input = <<>> /\ d.output = 0 + Bytes(c)
    <3>1. Bytes(st.input) <= st.room
      BY <1>3, <1>4
    <3> QED BY <1>4, <3>1, DecodeFits
  <2>2. d \in Stream
    BY <1>4, DecodeHolds
  <2> HIDE DEF d
  <2>3. Refilled(d) = d
    BY <2>1 DEF Refilled
  <2>4. f[st] = f[d]
    BY <1>1, <1>4, <1>6, <2>3 DEF d
  <2>5. f[d] = d.output
    BY <1>1, <2>1, <2>2
  <2>6. d.output = Bytes(c)
    BY <1>3, <2>1
  <2> QED BY <1>2, <2>4, <2>5, <2>6 DEF frame
<1> QED BY <1>5, <1>6

\* A stream whose last symbol stands for nothing, or that is read to its end with
\* nothing waiting.
Ending(st) == IF st.input = <<>> THEN st.waiting = 0 ELSE st.input[Len(st.input)] = 0

\* What is still to be done with it.
Ahead(st) == Len(st.input) + st.waiting + Bytes(st.input)

\* A call on such a stream leaves such a stream, and less to be done.
LEMMA EndingNext ==
    ASSUME NEW st \in Stream, st.room # 0, st.input # <<>>, Ending(st)
    PROVE  LET d == Decode(st) IN
           /\ d \in Stream /\ Ending(d) /\ Ahead(d) \in Nat /\ Ahead(d) < Ahead(st)
           /\ d.output + d.waiting + Bytes(d.input) = st.output + st.waiting + Bytes(st.input)
<1> DEFINE d == Decode(st)
           n == Len(st.input)
<1>1. PICK g \in Sums(st.input) : d \in Stream /\ Held(st, g, d, n)
  BY DecodeHolds
<1>2. g[n] = Bytes(st.input)
  BY DEF Sums
<1>3. /\ st.input \in Seq(Nat) /\ n \in Nat /\ n # 0
      /\ st.waiting \in Nat /\ st.output \in Nat /\ Bytes(st.input) \in Nat
  <2>1. st.input \in Seq(Nat) /\ st.waiting \in Nat /\ st.output \in Nat
    BY DEF Stream
  <2>2. n \in Nat /\ n # 0
    BY <2>1
  <2>3. Bytes(st.input) \in Nat
    BY <2>1, BytesNext
  <2> QED BY <2>1, <2>2, <2>3
<1> HIDE DEF d, n
<1>4. d.input \in Seq(Nat) /\ d.waiting \in Nat /\ d.output \in Nat
      /\ Len(d.input) \in Nat /\ Bytes(d.input) \in Nat
  <2>1. d.input \in Seq(Nat) /\ d.waiting \in Nat /\ d.output \in Nat
    BY <1>1 DEF Stream
  <2>2. Len(d.input) \in Nat
    BY <2>1
  <2>3. Bytes(d.input) \in Nat
    BY <2>1, BytesNext
  <2> QED BY <2>1, <2>2, <2>3
<1>5. d.output + d.waiting + Bytes(d.input) = st.output + st.waiting + Bytes(st.input)
  BY <1>1, <1>2 DEF Held
<1>6. Ending(d)
  <2>1. st.input[n] = 0
    BY DEF Ending, n
  <2> QED BY <1>1, <1>3, <1>4, <2>1 DEF Held, Ending
<1>7. Ahead(d) \in Nat /\ Ahead(d) < Ahead(st)
  <2>1. d.output >= st.output /\ Len(d.input) <= n
        /\ (Len(d.input) < n \/ d.output > st.output)
    BY <1>1, <1>3 DEF Held
  <2>2. Ahead(st) = n + st.waiting + Bytes(st.input)
    BY DEF Ahead, n
  <2>3. Len(d.input) + d.waiting + Bytes(d.input) \in Nat
    BY <1>4
  <2>4. Len(d.input) + d.waiting + Bytes(d.input) < n + st.waiting + Bytes(st.input)
    <3>1. \A l, m, o, p, w, x, b, e \in Nat :
             o + w + b = p + x + e /\ o >= p /\ l <= m /\ (l < m \/ o > p) => l + w + b < m + x + e
      OBVIOUS
    <3>2. /\ n \in Nat /\ d.output \in Nat /\ d.waiting \in Nat /\ Len(d.input) \in Nat
          /\ Bytes(d.input) \in Nat
          /\ st.output \in Nat /\ st.waiting \in Nat /\ Bytes(st.input) \in Nat
      BY <1>3, <1>4
    <3> QED BY <1>5, <2>1, <3>1, <3>2
  <2> QED BY <2>2, <2>3, <2>4 DEF Ahead
<1> QED BY <1>1, <1>5, <1>6, <1>7 DEF d

\* Everything comes out of a stream that is flushed, whatever the size of the buffer.
LEMMA ZlibReturns ==
    ASSUME NEW c \in Seq(Nat)
    PROVE  ZlibDecompress(ZlibCompress(c)) = Bytes(c)
<1> DEFINE symbols == ZlibCompress(c)
           first == Start(symbols, 0)
           Refill(st) == [st EXCEPT !.room = Buffer]
<1>0. Buffer \in Nat /\ Buffer # 0
  BY CompressionAssumption
<1>1. PICK f :
         /\ ZlibDecompress(symbols) = f[first]
         /\ \A st \in Stream : f[st] = IF st.input = <<>> THEN st.output ELSE f[Decode(Refill(st))]
  BY <1>0, ZlibTurns
<1>2. symbols \in Seq(Nat) /\ symbols # <<>> /\ symbols[Len(symbols)] = 0 /\ Bytes(symbols) = Bytes(c)
      /\ Bytes(c) \in Nat
  <2>1. symbols = Append(c, 0)
    BY DEF ZlibCompress, NewStream
  <2>2. Append(c, 0) \in Seq(Nat) /\ Append(c, 0) # <<>> /\ Append(c, 0)[Len(Append(c, 0))] = 0
    BY NotEmptied, Appended
  <2>3. Bytes(Append(c, 0)) = Bytes(c) + 0 /\ Bytes(c) \in Nat
    BY BytesNext
  <2> QED BY <2>1, <2>2, <2>3
<1> HIDE DEF symbols
<1>3. first \in Stream /\ first.input = symbols /\ first.waiting = 0 /\ first.output = 0
  BY <1>2, Started
<1> HIDE DEF first
<1> DEFINE Total(st) == st.output + st.waiting + Bytes(st.input)
           Returns(st, n) == Ending(st) /\ Ahead(st) <= n => f[st] = Total(st)
           T == {n \in Nat : \A st \in Stream : Returns(st, n)}
<1>4. \A st \in Stream : st.input \in Seq(Nat) /\ st.waiting \in Nat /\ st.output \in Nat
                         /\ Len(st.input) \in Nat /\ Bytes(st.input) \in Nat /\ Ahead(st) \in Nat
  <2> SUFFICES ASSUME NEW st \in Stream
               PROVE  st.input \in Seq(Nat) /\ st.waiting \in Nat /\ st.output \in Nat
                      /\ Len(st.input) \in Nat /\ Bytes(st.input) \in Nat /\ Ahead(st) \in Nat
    OBVIOUS
  <2>1. st.input \in Seq(Nat) /\ st.waiting \in Nat /\ st.output \in Nat
    BY DEF Stream
  <2>2. Len(st.input) \in Nat
    BY <2>1
  <2>3. Bytes(st.input) \in Nat
    BY <2>1, BytesNext
  <2>4. Ahead(st) \in Nat
    BY <2>1, <2>2, <2>3 DEF Ahead
  <2> QED BY <2>1, <2>2, <2>3, <2>4
<1>5. ASSUME NEW st \in Stream, st.input = <<>>, Ending(st) PROVE f[st] = Total(st)
  <2>1. f[st] = st.output
    BY <1>1, <1>5
  <2>2. st.output + 0 + 0 = st.output
    BY <1>4
  <2> QED BY <1>5, <2>1, <2>2, NoBytes DEF Ending
<1>6. 0 \in T
  <2> SUFFICES ASSUME NEW st \in Stream, Ending(st), Ahead(st) <= 0 PROVE f[st] = Total(st)
    OBVIOUS
  <2>1. Len(st.input) = 0
    BY <1>4 DEF Ahead
  <2>2. st.input = <<>>
    BY <1>4, <2>1
  <2> QED BY <2>2, <1>5
<1>7. ASSUME NEW n \in Nat, n \in T PROVE n + 1 \in T
  <2> SUFFICES ASSUME NEW st \in Stream, Ending(st), Ahead(st) <= n + 1 PROVE f[st] = Total(st)
    OBVIOUS
  <2>1. CASE st.input = <<>>
    BY <1>5, <2>1
  <2>2. CASE st.input # <<>>
    <3> DEFINE r == Refill(st)
               d == Decode(r)
    <3>1. /\ r \in Stream /\ r.room = Buffer
          /\ r.input = st.input /\ r.waiting = st.waiting /\ r.output = st.output
      BY <1>0 DEF Stream
    <3>2. r.room # 0 /\ r.input # <<>> /\ Ending(r) /\ Ahead(r) = Ahead(st) /\ Total(r) = Total(st)
      <4> HIDE DEF r
      <4> QED BY <1>0, <2>2, <3>1 DEF Ending, Ahead
    <3> HIDE DEF r
    <3>3. d \in Stream /\ Ending(d) /\ Ahead(d) \in Nat /\ Ahead(d) < Ahead(r) /\ Total(d) = Total(r)
      BY <3>1, <3>2, EndingNext
    <3>4. f[st] = f[d]
      BY <1>1, <2>2 DEF r
    <3> HIDE DEF d
    <3>5. Ahead(d) <= n
      <4>1. Ahead(st) \in Nat
        BY <1>4
      <4> QED BY <3>2, <3>3, <4>1
    <3>6. f[d] = Total(d)
      BY <1>7, <3>3, <3>5
    <3> QED BY <3>2, <3>3, <3>4, <3>6
  <2> QED BY <2>1, <2>2
<1>8. Nat \subseteq T
  <2> HIDE DEF T
  <2> QED BY <1>6, <1>7, Induction
<1>9. f[first] = Total(first)
  <2>1. Ahead(first) \in T /\ Ahead(first) <= Ahead(first)
    <3>1. Ahead(first) \in Nat
      BY <1>3, <1>4
    <3> HIDE DEF T
    <3> QED BY <1>8, <3>1
  <2>2. Ending(first)
    BY <1>2, <1>3 DEF Ending
  <2> HIDE DEF Total
  <2> QED BY <1>3, <2>1, <2>2
<1>10. Total(first) = Bytes(c)
  BY <1>2, <1>3
<1> QED BY <1>1, <1>9, <1>10 DEF symbols

\* Whatever is compressed is decompressed whole, by both compressions, for every content
\* and every size of the buffers.
THEOREM ContentsReturn == Spec => []DecompressWhole
<1>1. ContentsAstray = {}
  <2> SUFFICES ASSUME NEW c \in Contents
               PROVE  ZlibDecompress(ZlibCompress(c)) = Bytes(c)
                      /\ ZstdDecompress(ZstdCompress(c)) = Bytes(c)
    BY DEF ContentsAstray
  <2>1. c \in Seq(Nat)
    BY LawsAssumption
  <2> QED BY <2>1, ZlibReturns, ZstdReturns
<1> QED BY <1>1, PTL DEF DecompressWhole

-----------------------------------------------------------------------------
(* Log files: what the decoder reads of them. *)

\* The pieces of chunks as they are written, and the units they are read as.
Pieces == {p \in Piece : p.part = "body" => p.item # 0}
FileUnits == {ChunkHeader(size, key) : size \in Nat, key \in 1..MaxSessions} \union {Unit(p) : p \in Pieces}

\* What a message is made of is what it holds.
LEMMA MessageTyped ==
    \A V : \A c, n, p, q, l, x, y, z \in V : Message(c, n, p, q, l, x, y, z) \in [Fields -> V]
<1>1. Fields = {"level", "timestamp", "pid", "tid", "line", "file_name", "func_name", "log_info"}
  BY DEF Fields, Numbers, Strings
<1>2. \A V : \A c, n, p, q, l, x, y, z \in V :
         Message(c, n, p, q, l, x, y, z) \in
            [{"level", "timestamp", "pid", "tid", "line", "file_name", "func_name", "log_info"} -> V]
  BY DEF Message
<1> QED BY <1>1, <1>2

\* A message of the sink comes back from its frame, unless the text is not UTF-8.
LEMMA FrameParsed ==
    ASSUME NEW i \in 1..MaxLogs
    PROVE  /\ Parse(Frames[i]) = IF Info(i) \notin NotUtf8 THEN MessageOf[i] ELSE Failure
           /\ MessageOf[i] # Failure
           /\ Info(i) \notin NotUtf8 => Frames[i] # NoFrame
<1> DEFINE m == MessageOf[i]
<1>1. m = Message(2, i, 7, 8, i, "file", "func", Info(i))
  BY DEF MessageOf
<1>2. m \in [Fields -> Values]
  <2>1. 2 \in Int /\ 7 \in Int /\ 8 \in Int /\ i \in Int
    BY SinkAssumption
  <2>1a. "file" \in STRING /\ "func" \in STRING
    BY TextsAssumption
  <2>1b. Info(i) \in STRING
    BY TextsAssumption
  <2>2. /\ 2 \in Values /\ 7 \in Values /\ 8 \in Values /\ i \in Values
        /\ "file" \in Values /\ "func" \in Values /\ Info(i) \in Values
    <3>1. \A v : v \in Int \/ v \in STRING => v \in Values
      BY DEF Values
    <3> HIDE DEF m
    <3> QED BY <2>1, <2>1a, <2>1b, <3>1
  <2>3. Message(2, i, 7, 8, i, "file", "func", Info(i)) \in [Fields -> Values]
    BY <2>2, MessageTyped
  <2> QED BY <1>1, <2>3
<1>3. Failure \notin [Fields -> Values]
  BY LawsAssumption
<1>4. Frames[i] = FormatMsg(m)
  BY DEF Frames
<1>5. Sendable(m) <=> Info(i) \notin NotUtf8
  <2>1. m["file_name"] = "file" /\ m["func_name"] = "func" /\ m["log_info"] = Info(i)
    BY <1>1 DEF Message
  <2>2. Sendable(m) <=> m["file_name"] \notin NotUtf8 /\ m["func_name"] \notin NotUtf8
                        /\ m["log_info"] \notin NotUtf8
    <3> HIDE DEF m
    <3> QED BY DEF Sendable, Strings
  <2> HIDE DEF m
  <2> QED BY <2>1, <2>2, TextsAssumption
<1>6. m["pid"] = 7 /\ EmptyMsg["pid"] = 0
  BY <1>1 DEF Message, EmptyMsg, Default, Fields, Numbers, Strings
<1> HIDE DEF m
<1>7. /\ Parse(<<>>) = EmptyMsg
      /\ Parse(FormatMsg(m)) = IF Sendable(m) THEN m ELSE Failure
  BY <1>2, ParsedBack
<1>8. Info(i) \notin NotUtf8 => FormatMsg(m) # <<>>
  <2> SUFFICES ASSUME Info(i) \notin NotUtf8, FormatMsg(m) = <<>> PROVE FALSE
    OBVIOUS
  <2>1. m = EmptyMsg
    BY <1>5, <1>7
  <2>2. m["pid"] = EmptyMsg["pid"]
    BY <2>1
  <2> QED BY <1>6, <2>2
<1> QED BY <1>2, <1>3, <1>4, <1>5, <1>7, <1>8 DEF NoFrame, m

\* The text of an item comes out of a body that is not damaged, under its key, if it is UTF-8.
LEMMA ItemText ==
    ASSUME NEW p \in Pieces, NEW key
    PROVE  DecodeLogItemData(Unit(p), key) =
              IF p.part = "body" /\ p.key = key /\ p.item \notin damaged /\ Info(p.item) \notin NotUtf8
              THEN TextOf(p.item) ELSE Failure
<1>1. CASE p.part = "body"
  <2>1. p.item \in 1..MaxLogs
    BY <1>1, SinkAssumption DEF Pieces, Piece
  <2> DEFINE i == p.item
             u == Unit(p)
  <2>2. u.kind = "body" /\ u.key = p.key /\ u.frame = Frame(i)
    BY <1>1 DEF Unit, Body
  <2>3. Frame(i) = IF i \in damaged THEN NoFrame ELSE Frames[i]
    BY DEF Frame
  <2> HIDE DEF u, i
  <2>4. /\ Parse(Frames[i]) = IF Info(i) \notin NotUtf8 THEN MessageOf[i] ELSE Failure
        /\ MessageOf[i] # Failure
        /\ Info(i) \notin NotUtf8 => Frames[i] # NoFrame
    BY <2>1, FrameParsed DEF i
  <2>5. DecodeLogItemData(u, key) =
           IF u.key # key \/ u.frame = NoFrame \/ Parse(u.frame) = Failure THEN Failure
           ELSE Format(flag_formatters, Parse(u.frame))
    BY <2>2 DEF DecodeLogItemData
  <2>6. DecodeLogItemData(u, key) =
           IF p.key = key /\ i \notin damaged /\ Info(i) \notin NotUtf8
           THEN Format(flag_formatters, MessageOf[i]) ELSE Failure
    BY <2>2, <2>3, <2>4, <2>5
  <2> QED BY <1>1, <2>6 DEF u, i, TextOf
<1>2. CASE p.part # "body"
  <2>1. p.part \in {"head", "rest"}
    BY <1>2 DEF Pieces, Piece
  <2>2. Unit(p).kind # "body"
    BY <2>1 DEF Unit, ItemHeader, Rubbish
  <2> QED BY <1>2, <2>2 DEF DecodeLogItemData
<1> QED BY <1>1, <1>2

\* No text comes out of what is no body; and item headers are units of their own.
LEMMA OtherUnits ==
    /\ \A p \in Pieces : Unit(p) = ItemHeader <=> p.part = "head"
    /\ \A size, key, k : ChunkHeader(size, key) # ItemHeader
                         /\ DecodeLogItemData(ChunkHeader(size, key), k) = Failure
    /\ \A size, key : LET h == ChunkHeader(size, key) IN
                         h.kind = "chunk" /\ h.size = size /\ h.key = key
    /\ \A p \in Pieces : Unit(p).kind # "chunk"
<1>1. ASSUME NEW p \in Pieces PROVE (Unit(p) = ItemHeader <=> p.part = "head") /\ Unit(p).kind # "chunk"
  <2>1. p.part \in {"head", "body", "rest"}
    BY DEF Pieces, Piece
  <2>2. CASE p.part = "head"
    BY <2>2 DEF Unit, ItemHeader
  <2>3. CASE p.part = "body"
    <3>1. Unit(p).kind = "body"
      BY <2>3 DEF Unit, Body
    <3>2. ItemHeader.kind = "item"
      BY DEF ItemHeader
    <3> QED BY <2>3, <3>1, <3>2
  <2>4. CASE p.part = "rest"
    <3>1. Unit(p).kind = "rubbish"
      BY <2>4 DEF Unit, Rubbish
    <3>2. ItemHeader.kind = "item"
      BY DEF ItemHeader
    <3> QED BY <2>4, <3>1, <3>2
  <2> QED BY <2>1, <2>2, <2>3, <2>4
<1>2. \A size, key : LET h == ChunkHeader(size, key) IN h.kind = "chunk" /\ h.size = size /\ h.key = key
  BY DEF ChunkHeader
<1>3. ASSUME NEW size, NEW key, NEW k
      PROVE  ChunkHeader(size, key) # ItemHeader /\ DecodeLogItemData(ChunkHeader(size, key), k) = Failure
  <2>1. ChunkHeader(size, key).kind = "chunk" /\ ItemHeader.kind = "item"
    BY DEF ChunkHeader, ItemHeader
  <2> QED BY <2>1 DEF DecodeLogItemData
<1> QED BY <1>1, <1>2, <1>3

\* What comes out of a unit is a text or a failure.
LEMMA UnitText ==
    ASSUME NEW u \in FileUnits, NEW key
    PROVE  DecodeLogItemData(u, key) \in Texts \union {Failure}
<1>1. CASE u \in {Unit(p) : p \in Pieces}
  <2>1. PICK p \in Pieces : u = Unit(p)
    BY <1>1
  <2>2. p.part = "body" => p.item \in 1..MaxLogs
    BY SinkAssumption DEF Pieces, Piece
  <2> QED BY <2>1, <2>2, ItemText DEF Texts
<1>2. CASE u \in {ChunkHeader(size, k) : size \in Nat, k \in 1..MaxSessions}
  BY <1>2, OtherUnits
<1> QED BY <1>1, <1>2 DEF FileUnits

\* A sequence lies behind the one it is joined to.
LEMMA Behind ==
    ASSUME NEW O
    PROVE  \A s \in Seq(O), t \in Seq(O) :
              /\ s \o t \in Seq(O) /\ Len(s \o t) = Len(s) + Len(t)
              /\ \A i \in 1..Len(t) : (s \o t)[Len(s) + i] = t[i]
              /\ \A i \in 1..Len(s) : (s \o t)[i] = s[i]
  OBVIOUS

\* The k-th of the sequences ss lies behind L[k - 1] places of s.
Lies(ss, s, L) ==
    /\ L \in [0..Len(ss) -> Nat] /\ L[0] = 0 /\ Len(s) = L[Len(ss)]
    /\ \A k \in 1..Len(ss) :
          /\ L[k] = L[k - 1] + Len(ss[k]) /\ L[k] <= L[Len(ss)]
          /\ \A i \in 1..Len(ss[k]) : s[L[k - 1] + i] = ss[k][i]

\* Joined sequences lie one behind the other.
LEMMA Laid ==
    ASSUME NEW O, NEW ss \in Seq(Seq(O))
    PROVE  FlattenSeq(ss) \in Seq(O) /\ \E L : Lies(ss, FlattenSeq(ss), L)
<1> DEFINE n == Len(ss)
<1>1. PICK g \in [0..n -> Seq(O)] :
         /\ g[0] = <<>> /\ FlattenSeq(ss) = g[n]
         /\ \A k \in 1..n : g[k] = g[k - 1] \o ss[k]
  BY FlattenTurns
<1>2. n \in Nat /\ \A k \in 1..n : ss[k] \in Seq(O) /\ Len(ss[k]) \in Nat
  OBVIOUS
<1> DEFINE L == [k \in 0..n |-> Len(g[k])]
<1> HIDE DEF n
<1>3. L \in [0..n -> Nat] /\ \A k \in 0..n : L[k] = Len(g[k]) /\ L[k] \in Nat
  BY <1>1
<1>4. L[0] = 0 /\ Len(FlattenSeq(ss)) = L[n] /\ FlattenSeq(ss) \in Seq(O)
  BY <1>1, <1>2, <1>3
<1>5. ASSUME NEW k \in 1..n
      PROVE  /\ k - 1 \in 0..n /\ k \in 0..n
             /\ L[k] = L[k - 1] + Len(ss[k])
             /\ \A i \in 1..Len(ss[k]) : g[k][L[k - 1] + i] = ss[k][i]
             /\ \A i \in 1..L[k - 1] : g[k][i] = g[k - 1][i]
  <2>1. k - 1 \in 0..n /\ k \in 0..n
    BY <1>2
  <2>2. g[k - 1] \in Seq(O) /\ ss[k] \in Seq(O) /\ g[k] = g[k - 1] \o ss[k]
    BY <1>1, <1>2, <2>1
  <2>3. L[k - 1] = Len(g[k - 1]) /\ L[k] = Len(g[k])
    BY <1>3, <2>1
  <2> HIDE DEF L
  <2> QED BY <2>1, <2>2, <2>3, Behind
<1> HIDE DEF L
<1> DEFINE Lain(m) == \A k \in 1..m : /\ L[k] <= L[m]
                                        /\ \A i \in 1..Len(ss[k]) : g[m][L[k - 1] + i] = ss[k][i]
           T == {m \in Nat : m <= n => Lain(m)}
<1>6. 0 \in T
  OBVIOUS
<1>7. ASSUME NEW m \in Nat, m \in T PROVE m + 1 \in T
  <2> SUFFICES ASSUME m + 1 <= n PROVE Lain(m + 1)
    OBVIOUS
  <2> SUFFICES ASSUME NEW k \in 1..m + 1
               PROVE  /\ L[k] <= L[m + 1]
                      /\ \A i \in 1..Len(ss[k]) : g[m + 1][L[k - 1] + i] = ss[k][i]
    OBVIOUS
  <2>1. m + 1 \in 1..n /\ (m + 1) - 1 = m /\ m \in 0..n /\ m + 1 \in 0..n /\ k \in 1..n
    BY <1>2
  <2>2. CASE k = m + 1
    <3>1. \A i \in 1..Len(ss[k]) : g[k][L[k - 1] + i] = ss[k][i]
      BY <2>1, <1>5
    <3>2. L[k] \in Nat
      BY <2>1, <2>2, <1>3
    <3>3. L[k] <= L[k]
      BY <3>2
    <3> QED BY <2>2, <3>1, <3>3
  <2>3. CASE k # m + 1
    <3>1. k \in 1..m /\ Lain(m)
      BY <2>1, <2>3, <1>7
    <3>2. /\ L[m + 1] = L[m] + Len(ss[m + 1])
          /\ \A i \in 1..L[m] : g[m + 1][i] = g[m][i]
      BY <2>1, <1>5
    <3>3. /\ L[k] = L[k - 1] + Len(ss[k]) /\ L[k] <= L[m] /\ k - 1 \in 0..n
          /\ L[k - 1] \in Nat /\ L[m] \in Nat /\ L[k] \in Nat /\ L[m + 1] \in Nat
          /\ Len(ss[k]) \in Nat /\ Len(ss[m + 1]) \in Nat
      BY <2>1, <3>1, <1>2, <1>3, <1>5
    <3>4. \A i \in 1..Len(ss[k]) : L[k - 1] + i \in 1..L[m]
      <4>1. \A a, b, c, e \in Nat : c = a + b /\ c <= e => \A i \in 1..b : a + i \in 1..e
        OBVIOUS
      <4> QED BY <3>3, <4>1
    <3>5. \A i \in 1..Len(ss[k]) : g[m + 1][L[k - 1] + i] = ss[k][i]
      BY <3>1, <3>2, <3>4
    <3>6. L[k] <= L[m + 1]
      <4>1. \A a, b, c, e \in Nat : a <= b /\ c = b + e => a <= c
        OBVIOUS
      <4>2. L[m + 1] = L[m] + Len(ss[m + 1])
        BY <3>2
      <4> QED BY <3>3, <4>1, <4>2
    <3> QED BY <3>5, <3>6
  <2> QED BY <2>2, <2>3
<1>8. Lain(n)
  <2>1. Nat \subseteq T
    <3> HIDE DEF T
    <3> QED BY <1>6, <1>7, Induction
  <2>2. n <= n
    BY <1>2
  <2> HIDE DEF Lain
  <2> QED BY <2>1, <2>2, <1>2
<1>9. ASSUME NEW k \in 1..n
      PROVE  /\ L[k] = L[k - 1] + Len(ss[k]) /\ L[k] <= L[n]
             /\ \A i \in 1..Len(ss[k]) : FlattenSeq(ss)[L[k - 1] + i] = ss[k][i]
  <2>1. L[k] = L[k - 1] + Len(ss[k])
    BY <1>5
  <2>2. L[k] <= L[n] /\ \A i \in 1..Len(ss[k]) : g[n][L[k - 1] + i] = ss[k][i]
    BY <1>8
  <2>3. FlattenSeq(ss) = g[n]
    BY <1>1
  <2> QED BY <2>1, <2>2, <2>3
<1>10. Lies(ss, FlattenSeq(ss), L)
  BY <1>3, <1>4, <1>9 DEF n, Lies
<1> QED BY <1>4, <1>10

\* Chunks as they are formed in the log files.
Formed ==
    {ch \in Chunk :
        /\ Len(ch.data) <= ch.size
        /\ \A i \in DOMAIN ch.data : ch.data[i].part = "body" =>
              ch.data[i].item # 0 /\ i > 1 /\ ch.data[i - 1].part = "head"}

\* What a chunk is read as.
UnitsOf(ch) == <<ChunkHeader(ch.size, ch.key)>> \o [i \in DOMAIN ch.data |-> Unit(ch.data[i])]

\* The header, and the pieces behind it.
LEMMA ChunkUnits ==
    ASSUME NEW ch \in Formed
    PROVE  /\ ch.size \in Nat /\ ch.key \in 1..MaxSessions /\ ch.data \in Seq(Pieces)
           /\ Len(ch.data) \in Nat /\ Len(ch.data) <= ch.size
           /\ UnitsOf(ch) \in Seq(FileUnits)
           /\ Len(UnitsOf(ch)) = Len(ch.data) + 1
           /\ UnitsOf(ch)[1] = ChunkHeader(ch.size, ch.key)
           /\ \A i \in 1..Len(ch.data) : UnitsOf(ch)[i + 1] = Unit(ch.data[i])
<1> DEFINE d == ch.data
           h == <<ChunkHeader(ch.size, ch.key)>>
           u == [i \in DOMAIN d |-> Unit(d[i])]
<1>1. ch.size \in Nat /\ ch.key \in 1..MaxSessions /\ d \in Seq(Piece) /\ Len(d) <= ch.size
  BY DEF Formed, Chunk
<1>2. Len(d) \in Nat /\ DOMAIN d = 1..Len(d)
  BY <1>1
<1>3. \A i \in 1..Len(d) : d[i] \in Pieces
  BY <1>1, <1>2 DEF Formed, Pieces
<1>4. d \in Seq(Pieces)
  <2> HIDE DEF d
  <2> QED BY <1>1, <1>3
<1> HIDE DEF d
<1>5. u \in Seq(FileUnits) /\ Len(u) = Len(d) /\ \A i \in 1..Len(d) : u[i] = Unit(d[i])
  <2>1. \A i \in 1..Len(d) : Unit(d[i]) \in FileUnits
    BY <1>3 DEF FileUnits
  <2> QED BY <1>2, <2>1
<1>6. h \in Seq(FileUnits) /\ Len(h) = 1 /\ h[1] = ChunkHeader(ch.size, ch.key)
  BY <1>1 DEF FileUnits
<1> HIDE DEF u, h
<1>7. /\ h \o u \in Seq(FileUnits) /\ Len(h \o u) = Len(d) + 1
      /\ (h \o u)[1] = ChunkHeader(ch.size, ch.key)
      /\ \A i \in 1..Len(d) : (h \o u)[i + 1] = Unit(d[i])
  <2>1. /\ h \o u \in Seq(FileUnits) /\ Len(h \o u) = Len(h) + Len(u)
        /\ \A i \in 1..Len(u) : (h \o u)[Len(h) + i] = u[i]
        /\ \A i \in 1..Len(h) : (h \o u)[i] = h[i]
    BY <1>5, <1>6, Behind
  <2>2. 1 \in 1..Len(h) /\ \A i \in 1..Len(u) : Len(h) + i = i + 1
    BY <1>6
  <2> QED BY <2>1, <2>2, <1>2, <1>5, <1>6
<1> QED BY <1>1, <1>2, <1>4, <1>7 DEF d, h, u, UnitsOf

\* A chunk reads as texts or as a failure: as a failure, if its pieces are not item
\* headers and readable bodies in turn.
LEMMA Fails ==
    ASSUME NEW D \in Seq(FileUnits), NEW key
    PROVE  /\ DecodeLogChunkData(D, key) \in Seq(Texts) \union {Failure}
           /\ \A i \in 1..Len(D) :
                 (IF i % 2 = 1 THEN D[i] # ItemHeader ELSE DecodeLogItemData(D[i], key) = Failure)
                 => DecodeLogChunkData(D, key) = Failure
<1> DEFINE half == Len(D) \div 2
           texts == [i \in 1..half |-> DecodeLogItemData(D[2 * i], key)]
           Whole == /\ Len(D) % 2 = 0
                    /\ \A i \in 1..half : D[2 * i - 1] = ItemHeader /\ texts[i] # Failure
<1>1. DecodeLogChunkData(D, key) = IF Whole THEN texts ELSE Failure
  BY DEF DecodeLogChunkData
<1>2. Len(D) \in Nat /\ half \in Nat
  OBVIOUS
<1>3. \A i \in 1..half : 2 * i \in 1..Len(D)
  BY <1>2
<1>4. \A i \in 1..half : texts[i] \in Texts \union {Failure}
  BY <1>3, UnitText
<1>5. Whole => texts \in Seq(Texts)
  <2> SUFFICES ASSUME Whole PROVE texts \in Seq(Texts)
    OBVIOUS
  <2>1. \A i \in 1..half : texts[i] \in Texts
    BY <1>4
  <2> HIDE DEF half
  <2> QED BY <1>2, <2>1
<1>6. \A n \in Nat : n % 2 = 0 =>
         \A i \in 1..n :
            /\ i % 2 = 1 => (i + 1) \div 2 \in 1..(n \div 2) /\ 2 * ((i + 1) \div 2) - 1 = i
            /\ i % 2 # 1 => i \div 2 \in 1..(n \div 2) /\ 2 * (i \div 2) = i
  OBVIOUS
<1>7. ASSUME NEW i \in 1..Len(D), Whole
      PROVE  IF i % 2 = 1 THEN D[i] = ItemHeader ELSE DecodeLogItemData(D[i], key) # Failure
  <2>1. CASE i % 2 = 1
    <3>1. (i + 1) \div 2 \in 1..half /\ 2 * ((i + 1) \div 2) - 1 = i
      BY <1>2, <1>6, <1>7, <2>1
    <3> HIDE DEF half
    <3> QED BY <1>7, <2>1, <3>1
  <2>2. CASE i % 2 # 1
    <3>1. i \div 2 \in 1..half /\ 2 * (i \div 2) = i
      BY <1>2, <1>6, <1>7, <2>2
    <3> HIDE DEF half
    <3>2. texts[i \div 2] # Failure /\ texts[i \div 2] = DecodeLogItemData(D[2 * (i \div 2)], key)
      BY <1>7, <3>1
    <3> QED BY <2>2, <3>1, <3>2
  <2> QED BY <2>1, <2>2
<1>8. DecodeLogChunkData(D, key) \in Seq(Texts) \union {Failure}
  <2> HIDE DEF texts, Whole, half
  <2> QED BY <1>1, <1>5
<1>9. ASSUME NEW i \in 1..Len(D),
             IF i % 2 = 1 THEN D[i] # ItemHeader ELSE DecodeLogItemData(D[i], key) = Failure
      PROVE  DecodeLogChunkData(D, key) = Failure
  <2>1. ~Whole
    <3> HIDE DEF Whole
    <3> QED BY <1>7, <1>9
  <2> HIDE DEF texts, Whole, half
  <2> QED BY <1>1, <2>1
<1> QED BY <1>8, <1>9

\* A chunk that is spoilt fails, if what is behind its end is another chunk.
LEMMA SpoiltFails ==
    ASSUME NEW ch \in Formed, Spoilt(ch),
           NEW D \in Seq(FileUnits), Len(D) = ch.size,
           \A i \in 1..Len(ch.data) : D[i] = Unit(ch.data[i]),
           Len(ch.data) < ch.size => \E size, key : D[Len(ch.data) + 1] = ChunkHeader(size, key)
    PROVE  DecodeLogChunkData(D, ch.key) = Failure
<1> DEFINE d == ch.data
           Bad(i) == IF i % 2 = 1 THEN D[i] # ItemHeader ELSE DecodeLogItemData(D[i], ch.key) = Failure
<1>1. /\ ch.size \in Nat /\ d \in Seq(Pieces) /\ Len(d) \in Nat /\ Len(d) <= ch.size
      /\ DOMAIN d = 1..Len(d) /\ \A i \in 1..Len(d) : d[i] \in Pieces
  BY ChunkUnits
<1>2. \A i \in 1..Len(D) : Bad(i) => DecodeLogChunkData(D, ch.key) = Failure
  BY Fails
<1>3. CASE Len(d) < ch.size
  <2>1. Len(d) + 1 \in 1..Len(D)
    BY <1>1, <1>3
  <2>2. D[Len(d) + 1] # ItemHeader /\ DecodeLogItemData(D[Len(d) + 1], ch.key) = Failure
    BY <1>3, OtherUnits
  <2>3. Bad(Len(d) + 1)
    BY <2>2
  <2> HIDE DEF Bad
  <2> QED BY <1>2, <2>1, <2>3
<1>4. CASE Len(d) = ch.size
  <2>1. PICK i \in 1..Len(d) :
           \/ d[i].part = "rest"
           \/ d[i].part = "head" /\ (i = ch.size \/ d[i + 1].part # "body")
           \/ d[i].part = "body" /\ (\/ d[i].key # ch.key \/ d[i].item \in damaged
                                     \/ Info(d[i].item) \in NotUtf8)
    BY <1>1, <1>4 DEF Spoilt
  <2>2. /\ i \in 1..Len(D) /\ d[i] \in Pieces /\ D[i] = Unit(d[i])
        /\ D[i] = ItemHeader <=> d[i].part = "head"
    BY <1>1, <1>4, <2>1, OtherUnits
  <2>3. d[i].part # "body" => DecodeLogItemData(D[i], ch.key) = Failure
    BY <2>2, ItemText
  <2>4. CASE d[i].part = "rest"
    <3>1. Bad(i)
      BY <2>2, <2>3, <2>4
    <3> HIDE DEF Bad
    <3> QED BY <1>2, <2>2, <3>1
  <2>5. CASE d[i].part = "body" /\ (\/ d[i].key # ch.key \/ d[i].item \in damaged
                                    \/ Info(d[i].item) \in NotUtf8)
    <3>1. DecodeLogItemData(D[i], ch.key) = Failure
      BY <2>2, <2>5, ItemText
    <3>2. Bad(i)
      BY <2>2, <2>5, <3>1
    <3> HIDE DEF Bad
    <3> QED BY <1>2, <2>2, <3>2
  <2>6. CASE d[i].part = "head" /\ i % 2 # 1
    <3>1. Bad(i)
      BY <2>3, <2>6
    <3> HIDE DEF Bad
    <3> QED BY <1>2, <2>2, <3>1
  <2>7. CASE d[i].part = "head" /\ i % 2 = 1 /\ i = ch.size
    <3>1. Len(D) % 2 # 0
      BY <2>7
    <3> QED BY <3>1 DEF DecodeLogChunkData
  <2>8. CASE d[i].part = "head" /\ i % 2 = 1 /\ i # ch.size /\ d[i + 1].part # "body"
    <3>1. i + 1 \in 1..Len(d) /\ i + 1 \in 1..Len(D) /\ (i + 1) % 2 # 1
      BY <1>1, <1>4, <2>8
    <3>2. d[i + 1] \in Pieces /\ D[i + 1] = Unit(d[i + 1])
      BY <1>1, <3>1
    <3>3. DecodeLogItemData(D[i + 1], ch.key) = Failure
      BY <3>2, <2>8, ItemText
    <3>4. Bad(i + 1)
      BY <3>1, <3>3
    <3> HIDE DEF Bad
    <3> QED BY <1>2, <3>1, <3>4
  <2> QED BY <2>1, <2>4, <2>5, <2>6, <2>7, <2>8
<1> QED BY <1>1, <1>3, <1>4

\* The pieces of a chunk that is not spoilt are headers and bodies in turn.
LEMMA InTurn ==
    ASSUME NEW ch \in Formed, ~Spoilt(ch)
    PROVE  /\ Len(ch.data) = ch.size /\ Len(ch.data) % 2 = 0
           /\ \A i \in 1..Len(ch.data) :
                 /\ ch.data[i].part = IF i % 2 = 1 THEN "head" ELSE "body"
                 /\ i % 2 # 1 => /\ ch.data[i].key = ch.key /\ ch.data[i].item \notin damaged
                                 /\ Info(ch.data[i].item) \notin NotUtf8
<1> DEFINE d == ch.data
           n == Len(ch.data)
           Piecewise(i) == d[i].part = IF i % 2 = 1 THEN "head" ELSE "body"
<1>1. /\ ch.size \in Nat /\ d \in Seq(Pieces) /\ n \in Nat /\ n <= ch.size
      /\ DOMAIN d = 1..n /\ \A i \in 1..n : d[i] \in Pieces
  BY ChunkUnits
<1>2. n = ch.size
  BY <1>1 DEF Spoilt
<1>3. ASSUME NEW i \in 1..n
      PROVE  /\ d[i].part # "rest"
             /\ d[i].part = "head" => i # n /\ d[i + 1].part = "body"
             /\ d[i].part = "body" => /\ d[i].key = ch.key /\ d[i].item \notin damaged
                                      /\ Info(d[i].item) \notin NotUtf8
                                      /\ i > 1 /\ d[i - 1].part = "head"
  <2>1. d[i].part = "body" => i > 1 /\ d[i - 1].part = "head"
    BY <1>1 DEF Formed
  <2> QED BY <1>1, <1>2, <2>1 DEF Spoilt
<1>4. \A i \in 1..n : d[i].part \in {"head", "body", "rest"}
  BY <1>1 DEF Pieces, Piece
<1> HIDE DEF n, d
<1> DEFINE T == {k \in Nat : k <= n => \A i \in 1..k : Piecewise(i)}
<1>5. 0 \in T
  OBVIOUS
<1>6. ASSUME NEW k \in Nat, k \in T PROVE k + 1 \in T
  <2>1. ASSUME k + 1 <= n PROVE Piecewise(k + 1)
    <3>1. k + 1 \in 1..n /\ (k + 1) - 1 = k
      BY <1>1, <2>1
    <3>2. CASE k % 2 = 1
      <4>1. k \in 1..n /\ k \in 1..k /\ (k + 1) % 2 # 1
        BY <1>1, <3>1, <3>2
      <4>2. d[k].part = "head"
        BY <1>1, <1>6, <2>1, <3>2, <4>1
      <4>3. d[k + 1].part = "body"
        BY <1>3, <4>1, <4>2
      <4> QED BY <4>1, <4>3
    <3>3. CASE k % 2 # 1
      <4>1. (k + 1) % 2 = 1
        BY <3>3
      <4>2. ASSUME d[k + 1].part = "body" PROVE FALSE
        <5>1. k > 0 /\ d[k].part = "head"
          BY <1>3, <3>1, <4>2
        <5>2. k \in 1..k /\ k <= n
          BY <5>1, <1>1, <2>1
        <5>3. d[k].part = "body"
          BY <5>2, <1>6, <3>3
        <5> QED BY <5>1, <5>3
      <4>3. d[k + 1].part = "head"
        BY <1>3, <1>4, <3>1, <4>2
      <4> QED BY <4>1, <4>3
    <3> QED BY <3>2, <3>3
  <2>2. \A i \in 1..k + 1 : i \in 1..k \/ i = k + 1
    OBVIOUS
  <2>3. k + 1 <= n => k <= n
    BY <1>1
  <2> HIDE DEF Piecewise
  <2> QED BY <1>6, <2>1, <2>2, <2>3
<1>7. \A i \in 1..n : Piecewise(i)
  <2>1. Nat \subseteq T
    <3> HIDE DEF T
    <3> QED BY <1>5, <1>6, Induction
  <2> QED BY <2>1, <1>1
<1>8. n % 2 = 0
  <2> SUFFICES ASSUME n % 2 = 1 PROVE FALSE
    BY <1>1
  <2>1. n \in 1..n
    BY <1>1
  <2> QED BY <2>1, <1>3, <1>7
<1> QED BY <1>2, <1>3, <1>7, <1>8 DEF n, d

\* The items of a chunk are gathered piece by piece.
LEMMA BodiesTurns ==
    ASSUME NEW ch \in Formed
    PROVE  \E g \in [0..Len(ch.data) -> Seq(Nat)] :
              /\ g[0] = <<>> /\ Bodies(ch) = g[Len(ch.data)]
              /\ \A k \in 1..Len(ch.data) :
                    g[k] = IF ch.data[k].part = "body"
                           THEN Append(g[k - 1], ch.data[k].item) ELSE g[k - 1]
<1> DEFINE d == ch.data
           n == Len(d)
           Turn(k, s) == IF d[k].part = "body" THEN Append(s, d[k].item) ELSE s
           F == [p \in (1..n) \X Seq(Nat) |-> Turn(p[1], p[2])]
           Def(g) == [k \in 0..n |-> IF k = 0 THEN <<>> ELSE Turn(k, g[k - 1])]
<1>1. n \in Nat /\ \A k \in 1..n : d[k].item \in Nat
  <2>1. n \in Nat /\ \A k \in 1..n : d[k] \in Pieces
    BY ChunkUnits
  <2>2. \A p \in Pieces : p.item \in Nat
    BY SinkAssumption DEF Pieces, Piece
  <2> QED BY <2>1, <2>2
<1>2. F \in Maps(n, Seq(Nat)) /\ <<>> \in Seq(Nat)
  <2> HIDE DEF n, d
  <2>1. \A p \in (1..n) \X Seq(Nat) : Turn(p[1], p[2]) \in Seq(Nat)
    BY <1>1
  <2> QED BY <2>1 DEF Maps
<1>3. PICK g \in [0..n -> Seq(Nat)] : g[0] = <<>> /\ \A k \in 1..n : g[k] = F[<<k, g[k - 1]>>]
  <2> HIDE DEF n, F
  <2>1. Iterated(n, Seq(Nat), <<>>, F) # {}
    BY <1>1, <1>2, Iterates
  <2> QED BY <2>1 DEF Iterated
<1>4. \A k \in 1..n : g[k] = Turn(k, g[k - 1])
  <2> SUFFICES ASSUME NEW k \in 1..n PROVE g[k] = Turn(k, g[k - 1])
    OBVIOUS
  <2> HIDE DEF n, Turn
  <2>1. k - 1 \in 0..n
    BY <1>1
  <2>2. <<k, g[k - 1]>> \in (1..n) \X Seq(Nat)
    BY <2>1, <1>3
  <2> QED BY <2>2, <1>3
<1>5. g = Def(g)
  <2> HIDE DEF n, F, Turn
  <2> QED BY <1>1, <1>3, <1>4
<1> DEFINE G == CHOOSE h : h = Def(h)
<1>6. G = Def(G) /\ Bodies(ch) = G[n]
  <2>1. Bodies(ch) = G[n]
    BY DEF Bodies
  <2>2. G = Def(G)
    <3> HIDE DEF Def
    <3> QED BY <1>5
  <2> HIDE DEF G, Def
  <2> QED BY <2>1, <2>2
<1>7. G[0] = <<>> /\ \A k \in 1..n : G[k] = Turn(k, G[k - 1])
  <2>1. \A k \in 0..n : G[k] = IF k = 0 THEN <<>> ELSE Turn(k, G[k - 1])
    <3> HIDE DEF G, n, Turn
    <3> QED BY <1>6
  <2>2. 0 \in 0..n /\ \A k \in 1..n : k \in 0..n /\ k # 0
    BY <1>1
  <2> HIDE DEF G, n, Turn
  <2> QED BY <2>1, <2>2
<1> DEFINE T == {k \in Nat : k <= n => G[k] = g[k]}
<1> HIDE DEF G, n, Turn
<1>8. 0 \in T
  BY <1>3, <1>7
<1>9. ASSUME NEW k \in Nat, k \in T PROVE k + 1 \in T
  <2> SUFFICES ASSUME k + 1 <= n PROVE G[k + 1] = g[k + 1]
    OBVIOUS
  <2>1. k + 1 \in 1..n /\ (k + 1) - 1 = k /\ G[k] = g[k]
    BY <1>9, <1>1
  <2> QED BY <2>1, <1>4, <1>7
<1>10. Nat \subseteq T
  <2> HIDE DEF T
  <2> QED BY <1>8, <1>9, Induction
<1>11. Bodies(ch) = g[n]
  BY <1>1, <1>6, <1>10
<1> QED BY <1>3, <1>4, <1>11 DEF n, Turn

\* The texts of the items of a chunk.
ChunkTexts(ch) == LET b == Bodies(ch) IN [i \in DOMAIN b |-> TextOf(b[i])]

\* Every second piece of a chunk that is not spoilt is an item.
LEMMA BodiesInTurn ==
    ASSUME NEW ch \in Formed, ~Spoilt(ch)
    PROVE  Bodies(ch) = [j \in 1..(Len(ch.data) \div 2) |-> ch.data[2 * j].item]
<1> DEFINE d == ch.data
           n == Len(d)
<1>1. PICK g \in [0..n -> Seq(Nat)] :
         /\ g[0] = <<>> /\ Bodies(ch) = g[n]
         /\ \A k \in 1..n : g[k] = IF d[k].part = "body" THEN Append(g[k - 1], d[k].item) ELSE g[k - 1]
  BY BodiesTurns
<1>2. n \in Nat /\ n % 2 = 0 /\ \A k \in 1..n : d[k].part = IF k % 2 = 1 THEN "head" ELSE "body"
  BY InTurn, ChunkUnits
<1>3. \A k \in 1..n : d[k].item \in Nat
  <2>1. \A k \in 1..n : d[k] \in Pieces
    BY ChunkUnits
  <2>2. \A p \in Pieces : p.item \in Nat
    BY SinkAssumption DEF Pieces, Piece
  <2> QED BY <2>1, <2>2
<1> HIDE DEF n, d
<1> DEFINE First(j) == [i \in 1..j |-> d[2 * i].item]
           T == {j \in Nat : 2 * j <= n => g[2 * j] = First(j)}
<1>4. 0 \in T
  <2>1. g[2 * 0] = <<>> /\ First(0) = <<>>
    BY <1>1
  <2> QED BY <2>1
<1>5. ASSUME NEW j \in Nat, j \in T PROVE j + 1 \in T
  <2>1. ASSUME 2 * (j + 1) <= n PROVE g[2 * (j + 1)] = First(j + 1)
    <3> DEFINE k == 2 * j + 1
    <3>1. /\ k \in 1..n /\ k % 2 = 1 /\ k - 1 = 2 * j
          /\ k + 1 \in 1..n /\ (k + 1) % 2 # 1 /\ (k + 1) - 1 = k /\ k + 1 = 2 * (j + 1)
          /\ 2 * j <= n
      BY <1>2, <2>1
    <3> HIDE DEF k
    <3>2. d[k].part = "head" /\ d[k + 1].part = "body"
      BY <3>1, <1>2
    <3>3. g[k] = g[2 * j] /\ g[k + 1] = Append(g[k], d[k + 1].item)
      BY <3>1, <3>2, <1>1
    <3>4. g[2 * j] = First(j)
      BY <1>5, <3>1
    <3>5. Append(First(j), d[2 * (j + 1)].item) = First(j + 1)
      <4>1. \A i \in 1..j : d[2 * i].item \in Nat
        <5>1. \A i \in 1..j : 2 * i \in 1..n
          BY <1>2, <3>1
        <5> QED BY <5>1, <1>3
      <4>2. First(j) \in Seq(Nat) /\ Len(First(j)) = j
        BY <4>1
      <4>3. \A i \in 1..j + 1 : Append(First(j), d[2 * (j + 1)].item)[i] = d[2 * i].item
        BY <4>2
      <4> QED BY <4>2, <4>3
    <3> QED BY <3>1, <3>3, <3>4, <3>5
  <2> QED BY <2>1
<1>6. n \div 2 \in Nat /\ 2 * (n \div 2) = n
  BY <1>2
<1>7. g[n] = First(n \div 2)
  <2>1. Nat \subseteq T
    <3> HIDE DEF T
    <3> QED BY <1>4, <1>5, Induction
  <2>2. 2 * (n \div 2) <= n
    BY <1>2, <1>6
  <2>3. n \div 2 \in T
    <3> HIDE DEF T
    <3> QED BY <2>1, <1>6
  <2> HIDE DEF First
  <2> QED BY <2>2, <2>3, <1>6
<1> QED BY <1>1, <1>7 DEF n, d

\* A chunk that is not spoilt gives the texts of its items.
LEMMA ChunkRead ==
    ASSUME NEW ch \in Formed, ~Spoilt(ch),
           NEW D \in Seq(FileUnits), Len(D) = ch.size,
           \A i \in 1..Len(ch.data) : D[i] = Unit(ch.data[i])
    PROVE  DecodeLogChunkData(D, ch.key) = ChunkTexts(ch) /\ ChunkTexts(ch) \in Seq(Texts)
<1> DEFINE d == ch.data
           half == Len(D) \div 2
           texts == [i \in 1..half |-> DecodeLogItemData(D[2 * i], ch.key)]
<1>1. /\ Len(D) \in Nat /\ Len(d) = Len(D) /\ Len(D) % 2 = 0
      /\ \A i \in 1..Len(D) : d[i] \in Pieces /\ D[i] = Unit(d[i])
  <2>1. Len(D) \in Nat /\ Len(d) = Len(D) /\ Len(D) % 2 = 0
    <3>1. Len(ch.data) = ch.size /\ Len(ch.data) % 2 = 0
      BY InTurn, Zenon
    <3>2. Len(D) \in Nat
      OBVIOUS
    <3> QED BY <3>1, <3>2, Zenon
  <2>2. \A i \in 1..Len(d) : d[i] \in Pieces
    BY ChunkUnits
  <2> HIDE DEF d
  <2> QED BY <2>1, <2>2 DEF d
<1>2. \A i \in 1..Len(D) : /\ d[i].part = IF i % 2 = 1 THEN "head" ELSE "body"
                           /\ i % 2 # 1 => /\ d[i].key = ch.key /\ d[i].item \notin damaged
                                           /\ Info(d[i].item) \notin NotUtf8
  BY <1>1, InTurn
<1>3. Bodies(ch) = [j \in 1..half |-> d[2 * j].item]
  BY <1>1, BodiesInTurn
<1>4. half \in Nat /\ \A j \in 1..half : /\ 2 * j \in 1..Len(D) /\ (2 * j) % 2 # 1
                                         /\ 2 * j - 1 \in 1..Len(D) /\ (2 * j - 1) % 2 = 1
  BY <1>1
<1> HIDE DEF half, d
<1>5. ASSUME NEW j \in 1..half
      PROVE  /\ D[2 * j - 1] = ItemHeader
             /\ texts[j] = TextOf(d[2 * j].item) /\ TextOf(d[2 * j].item) \in Texts
  <2>1. D[2 * j - 1] = ItemHeader
    <3>1. d[2 * j - 1] \in Pieces /\ d[2 * j - 1].part = "head" /\ D[2 * j - 1] = Unit(d[2 * j - 1])
      BY <1>1, <1>2, <1>4
    <3> QED BY <3>1, OtherUnits
  <2>2. /\ d[2 * j] \in Pieces /\ d[2 * j].part = "body" /\ D[2 * j] = Unit(d[2 * j])
        /\ d[2 * j].key = ch.key /\ d[2 * j].item \notin damaged /\ Info(d[2 * j].item) \notin NotUtf8
    BY <1>1, <1>2, <1>4
  <2>3. DecodeLogItemData(D[2 * j], ch.key) = TextOf(d[2 * j].item)
    BY <2>2, ItemText
  <2>4. d[2 * j].item \in 1..MaxLogs
    <3>1. \A p \in Pieces : p.part = "body" => p.item \in 1..MaxLogs
      BY SinkAssumption DEF Pieces, Piece
    <3> QED BY <3>1, <2>2
  <2>5. TextOf(d[2 * j].item) \in Texts
    BY <2>4 DEF Texts
  <2> QED BY <2>1, <2>3, <2>5
<1>6. DecodeLogChunkData(D, ch.key) =
         IF Len(D) % 2 = 0 /\ \A i \in 1..half : D[2 * i - 1] = ItemHeader /\ texts[i] # Failure
         THEN texts ELSE Failure
  BY DEF DecodeLogChunkData, half
<1>7. ChunkTexts(ch) = [j \in 1..half |-> TextOf(d[2 * j].item)]
  <2>1. DOMAIN Bodies(ch) = 1..half /\ \A j \in 1..half : Bodies(ch)[j] = d[2 * j].item
    BY <1>3
  <2> QED BY <2>1 DEF ChunkTexts
<1>8. texts = ChunkTexts(ch)
  <2>1. texts = [j \in 1..half |-> texts[j]]
    OBVIOUS
  <2> HIDE DEF texts
  <2> QED BY <2>1, <1>5, <1>7
<1>9. ChunkTexts(ch) \in Seq(Texts)
  BY <1>4, <1>5, <1>7
<1>10. \A i \in 1..half : texts[i] # Failure
  <2> HIDE DEF texts
  <2> QED BY <1>5, TextsAssumption
<1> HIDE DEF texts
<1> QED BY <1>1, <1>5, <1>6, <1>8, <1>9, <1>10

\* What the decoder gives from a place on, told by what it gives from later ones.
ReadFrom(file, at, f) ==
    IF at > Len(file) \/ ~WholeChunk(file, at) THEN <<>>
    ELSE LET next  == at + file[at].size
             texts == DecodeLogChunkData(SubSeq(file, at + 1, next), file[at].key)
         IN  IF texts = Failure THEN <<>> ELSE Join(texts, f[next + 1])

\* Of a whole chunk in a file, the place of the next, and what it holds.
LEMMA ChunkWithin ==
    ASSUME NEW file \in Seq(FileUnits), NEW at \in 1..Len(file), WholeChunk(file, at)
    PROVE  LET next == at + file[at].size IN
              /\ file[at].size \in Nat /\ next \in 1..Len(file) /\ next + 1 \in at + 1 .. Len(file) + 1
              /\ SubSeq(file, at + 1, next) \in Seq(FileUnits)
              /\ Len(SubSeq(file, at + 1, next)) = file[at].size
              /\ \A i \in 1..file[at].size : SubSeq(file, at + 1, next)[i] = file[at + i]
<1> DEFINE s == file[at].size
<1>1. s \in Nat /\ at + s <= Len(file)
  <2>1. file[at] \in FileUnits /\ file[at].kind = "chunk"
    BY DEF WholeChunk
  <2>2. PICK size \in Nat, key \in 1..MaxSessions : file[at] = ChunkHeader(size, key)
    BY <2>1, OtherUnits DEF FileUnits
  <2>3. s = size
    BY <2>2, OtherUnits
  <2> QED BY <2>3 DEF WholeChunk
<1> HIDE DEF s
<1>2. /\ Len(file) \in Nat /\ at \in Nat /\ at >= 1
      /\ at + s \in 1..Len(file) /\ at + s + 1 \in at + 1 .. Len(file) + 1
  BY <1>1
<1>3. /\ SubSeq(file, at + 1, at + s) \in Seq(FileUnits)
      /\ Len(SubSeq(file, at + 1, at + s)) = s
      /\ \A i \in 1..s : SubSeq(file, at + 1, at + s)[i] = file[at + i]
  <2>1. /\ SubSeq(file, at + 1, at + s) = [i \in 1..s |-> file[at + i]]
    BY <1>1, <1>2
  <2>2. \A i \in 1..s : at + i \in 1..Len(file)
    BY <1>2, <1>1
  <2>3. \A i \in 1..s : file[at + i] \in FileUnits
    BY <2>2
  <2> QED BY <1>1, <2>1, <2>3
<1> QED BY <1>1, <1>2, <1>3 DEF s

\* It is a sequence of texts.
LEMMA ReadTyped ==
    ASSUME NEW file \in Seq(FileUnits), NEW at \in 1..Len(file) + 1,
           NEW f, \A j \in at + 1 .. Len(file) + 1 : f[j] \in Seq(Texts)
    PROVE  /\ ReadFrom(file, at, f) \in Seq(Texts)
           /\ \A g : (\A j \in at + 1 .. Len(file) + 1 : g[j] = f[j])
                     => ReadFrom(file, at, g) = ReadFrom(file, at, f)
<1>1. CASE at > Len(file) \/ ~WholeChunk(file, at)
  BY <1>1 DEF ReadFrom
<1>2. CASE ~(at > Len(file) \/ ~WholeChunk(file, at))
  <2> DEFINE next == at + file[at].size
             texts == DecodeLogChunkData(SubSeq(file, at + 1, next), file[at].key)
  <2>1. at \in 1..Len(file) /\ WholeChunk(file, at)
    BY <1>2
  <2>2. SubSeq(file, at + 1, next) \in Seq(FileUnits) /\ next + 1 \in at + 1 .. Len(file) + 1
    BY <2>1, ChunkWithin
  <2>3. texts \in Seq(Texts) \union {Failure}
    BY <2>2, Fails
  <2>4. \A g : ReadFrom(file, at, g) = IF texts = Failure THEN <<>> ELSE Join(texts, g[next + 1])
    BY <1>2 DEF ReadFrom
  <2> HIDE DEF next, texts
  <2>5. f[next + 1] \in Seq(Texts) /\ <<>> \in Seq(Texts)
    BY <2>2
  <2>6. texts # Failure => Join(texts, f[next + 1]) \in Seq(Texts)
    BY <2>3, <2>5, JoinLaws
  <2> QED BY <2>2, <2>4, <2>5, <2>6
<1> QED BY <1>1, <1>2

\* The decoder goes from chunk to chunk.
LEMMA ReadTurns ==
    ASSUME NEW file \in Seq(FileUnits)
    PROVE  \E f \in [1..Len(file) + 1 -> Seq(Texts)] :
              /\ DecodeLogFile(file) = f[1]
              /\ \A at \in 1..Len(file) + 1 : f[at] = ReadFrom(file, at, f)
<1> DEFINE n == Len(file)
           S == Seq(Texts)
           D == UNION {{k} \X After(k, n + 1, S) : k \in 1..n + 1}
           F == [q \in D |-> ReadFrom(file, q[1], q[2])]
           Def(g) == [k \in 1..n + 1 |-> ReadFrom(file, k, g)]
<1>1. n \in Nat /\ n + 1 \in Nat
  OBVIOUS
<1>2. F \in BackMaps(n + 1, S)
  <2>1. ASSUME NEW q \in D PROVE ReadFrom(file, q[1], q[2]) \in S
    <3>1. q[1] \in 1..n + 1 /\ q[2] \in After(q[1], n + 1, S)
      OBVIOUS
    <3>2. \A j \in q[1] + 1 .. n + 1 : q[2][j] \in S
      BY <3>1 DEF After
    <3> HIDE DEF D
    <3> QED BY <3>1, <3>2, ReadTyped
  <2> QED BY <2>1 DEF BackMaps
<1>3. PICK g \in [1..n + 1 -> S] : \A k \in 1..n + 1 : g[k] = F[<<k, Rest(g, k, n + 1)>>]
  <2> HIDE DEF n, F, S
  <2>1. Backward(n + 1, S, F) # {}
    BY <1>1, <1>2, Recurs
  <2> QED BY <2>1 DEF Backward
<1>4. ASSUME NEW k \in 1..n + 1 PROVE g[k] = ReadFrom(file, k, g)
  <2> DEFINE r == Rest(g, k, n + 1)
  <2>1. r \in After(k, n + 1, S)
    BY <1>3 DEF Rest, After
  <2>2. <<k, r>> \in D
    <3> HIDE DEF r
    <3> QED BY <2>1
  <2>3. g[k] = ReadFrom(file, k, r)
    <3> HIDE DEF r, D, n
    <3> QED BY <1>3, <2>2 DEF r
  <2>4. ReadFrom(file, k, r) = ReadFrom(file, k, g)
    <3>1. \A j \in k + 1 .. n + 1 : r[j] = g[j] /\ g[j] \in S
      BY <1>1 DEF Rest
    <3> HIDE DEF r
    <3> QED BY <3>1, ReadTyped
  <2> QED BY <2>3, <2>4
<1>5. g = Def(g)
  <2> HIDE DEF n
  <2> QED BY <1>3, <1>4
<1> DEFINE G == CHOOSE h : h = Def(h)
<1>6. G = Def(G) /\ DecodeLogFile(file) = G[1]
  <2>1. DecodeLogFile(file) = G[1]
    BY DEF DecodeLogFile, ReadFrom, AppendDataToFile, Join
  <2> HIDE DEF Def
  <2> QED BY <2>1, <1>5
<1>7. \A k \in 1..n + 1 : G[k] = ReadFrom(file, k, G)
  <2> HIDE DEF G, n
  <2> QED BY <1>6
<1> DEFINE T == {d \in Nat : \A k \in 1..n + 1 : k + d > n => G[k] \in S}
<1>8. 0 \in T
  <2> SUFFICES ASSUME NEW k \in 1..n + 1, k + 0 > n PROVE G[k] \in S
    OBVIOUS
  <2>1. k > n
    BY <1>1
  <2>2. G[k] = ReadFrom(file, k, G)
    <3> HIDE DEF G, n
    <3> QED BY <1>7
  <2> HIDE DEF G
  <2> QED BY <2>1, <2>2 DEF ReadFrom
<1>9. ASSUME NEW d \in Nat, d \in T PROVE d + 1 \in T
  <2> SUFFICES ASSUME NEW k \in 1..n + 1, k + (d + 1) > n PROVE G[k] \in S
    OBVIOUS
  <2>1. \A j \in k + 1 .. n + 1 : j \in 1..n + 1 /\ j + d > n
    BY <1>1
  <2>2. \A j \in k + 1 .. n + 1 : G[j] \in S
    <3> HIDE DEF G
    <3> QED BY <1>9, <2>1
  <2> HIDE DEF G
  <2>3. ReadFrom(file, k, G) \in S
    BY <2>2, ReadTyped
  <2>4. G[k] = ReadFrom(file, k, G)
    <3> HIDE DEF n
    <3> QED BY <1>7
  <2> QED BY <2>3, <2>4
<1>10. Nat \subseteq T
  <2> HIDE DEF T
  <2> QED BY <1>8, <1>9, Induction
<1>11. \A k \in 1..n + 1 : G[k] \in S
  <2>1. \A k \in 1..n + 1 : k + n > n
    BY <1>1
  <2> HIDE DEF G
  <2> QED BY <1>1, <1>10, <2>1
<1>12. G \in [1..n + 1 -> S]
  <2> HIDE DEF G, n, S
  <2> QED BY <1>6, <1>11
<1> HIDE DEF G
<1> QED BY <1>6, <1>7, <1>12

\* In log files the chunks lie one behind the other: at L[k - 1] + 1 is the header of
\* the k-th, and behind it are its pieces.
Placed(file, chunks, L) ==
    /\ file \in Seq(FileUnits) /\ L \in [0..Len(chunks) -> Nat]
    /\ L[0] = 0 /\ Len(file) = L[Len(chunks)]
    /\ \A k \in 1..Len(chunks) :
          LET ch == chunks[k] IN
          /\ L[k] = L[k - 1] + Len(ch.data) + 1 /\ L[k] <= Len(file)
          /\ file[L[k - 1] + 1] = ChunkHeader(ch.size, ch.key)
          /\ \A i \in 1..Len(ch.data) : file[L[k - 1] + 1 + i] = Unit(ch.data[i])

\* They do.
LEMMA ChunksPlaced == \A chunks \in Seq(Formed) : \E L : Placed(Units(chunks), chunks, L)
<1> SUFFICES ASSUME NEW chunks \in Seq(Formed) PROVE \E L : Placed(Units(chunks), chunks, L)
  OBVIOUS
<1> DEFINE n == Len(chunks)
           ss == [k \in 1..n |-> UnitsOf(chunks[k])]
<1>1. n \in Nat /\ DOMAIN chunks = 1..n /\ \A k \in 1..n : chunks[k] \in Formed
  OBVIOUS
<1>2. Units(chunks) = FlattenSeq(ss)
  BY <1>1 DEF Units, UnitsOf
<1> HIDE DEF n
<1>3. ss \in Seq(Seq(FileUnits)) /\ Len(ss) = n /\ \A k \in 1..n : ss[k] = UnitsOf(chunks[k])
  <2>1. \A k \in 1..n : UnitsOf(chunks[k]) \in Seq(FileUnits)
    BY <1>1, ChunkUnits
  <2> QED BY <1>1, <2>1
<1> HIDE DEF ss
<1> DEFINE file == FlattenSeq(ss)
<1>4. file \in Seq(FileUnits)
  BY <1>3, Laid
<1>5. PICK L \in [0..n -> Nat] :
         /\ L[0] = 0 /\ Len(file) = L[n]
         /\ \A k \in 1..n : /\ L[k] = L[k - 1] + Len(ss[k]) /\ L[k] <= L[n]
                            /\ \A i \in 1..Len(ss[k]) : file[L[k - 1] + i] = ss[k][i]
  <2>1. PICK L : Lies(ss, file, L)
    BY <1>3, Laid
  <2> HIDE DEF file
  <2> QED BY <2>1, <1>3 DEF Lies
<1> HIDE DEF file
<1>6. ASSUME NEW k \in 1..n
      PROVE  /\ L[k] = L[k - 1] + Len(chunks[k].data) + 1 /\ L[k] <= Len(file)
             /\ file[L[k - 1] + 1] = ChunkHeader(chunks[k].size, chunks[k].key)
             /\ \A i \in 1..Len(chunks[k].data) : file[L[k - 1] + 1 + i] = Unit(chunks[k].data[i])
  <2> DEFINE u == UnitsOf(chunks[k])
             m == Len(chunks[k].data)
  <2>1. /\ m \in Nat /\ Len(u) = m + 1 /\ u[1] = ChunkHeader(chunks[k].size, chunks[k].key)
        /\ \A i \in 1..m : u[i + 1] = Unit(chunks[k].data[i])
    BY <1>1, ChunkUnits
  <2> HIDE DEF u, m
  <2>2. /\ L[k] = L[k - 1] + Len(u) /\ L[k] <= L[n]
        /\ \A i \in 1..Len(u) : file[L[k - 1] + i] = u[i]
    BY <1>3, <1>5 DEF u
  <2>3. L[k - 1] \in Nat
    BY <1>1, <1>5
  <2>4. L[k] = L[k - 1] + m + 1 /\ L[k] <= Len(file)
    <3>1. L[k] = L[k - 1] + Len(u) /\ L[k] <= L[n] /\ Len(file) = L[n] /\ Len(u) = m + 1 /\ m \in Nat
      BY <2>1, <2>2, <1>5
    <3>2. \A a, b \in Nat : a + (b + 1) = a + b + 1
      OBVIOUS
    <3>3. L[k - 1] + (m + 1) = L[k - 1] + m + 1
      BY <2>3, <3>1, <3>2
    <3> QED BY <3>1, <3>3
  <2>5. file[L[k - 1] + 1] = u[1]
    BY <2>1, <2>2
  <2>6. \A i \in 1..m : file[L[k - 1] + 1 + i] = u[i + 1]
    <3> SUFFICES ASSUME NEW i \in 1..m PROVE file[L[k - 1] + 1 + i] = u[i + 1]
      OBVIOUS
    <3>1. i + 1 \in 1..Len(u) /\ L[k - 1] + (i + 1) = L[k - 1] + 1 + i
      <4>1. \A a, b \in Nat : a + (b + 1) = a + 1 + b
        OBVIOUS
      <4>2. m \in Nat /\ Len(u) = m + 1 /\ i \in Nat
        BY <2>1
      <4>3. i + 1 \in 1..Len(u)
        BY <4>2
      <4> QED BY <2>3, <4>1, <4>2, <4>3
    <3>2. file[L[k - 1] + (i + 1)] = u[i + 1]
      BY <2>2, <3>1
    <3> QED BY <3>1, <3>2
  <2> QED BY <2>1, <2>4, <2>5, <2>6 DEF m
<1>7. Placed(file, chunks, L)
  BY <1>4, <1>5, <1>6 DEF Placed, n
<1> QED BY <1>2, <1>7 DEF file

\* A function that is what the decoder gives, from every place on.
Reading(file, f) ==
    /\ f \in [1..Len(file) + 1 -> Seq(Texts)]
    /\ \A at \in 1..Len(file) + 1 : f[at] = ReadFrom(file, at, f)

\* From the header of a chunk on it gives the texts of the chunk and those of the
\* chunks behind it, or nothing if the chunk is spoilt.
LEMMA ReadChunk ==
    ASSUME NEW chunks \in Seq(Formed), NEW file, NEW L, Placed(file, chunks, L),
           NEW f, Reading(file, f), NEW k \in 1..Len(chunks)
    PROVE  /\ ~Spoilt(chunks[k]) => /\ ChunkTexts(chunks[k]) \in Seq(Texts)
                                    /\ f[L[k - 1] + 1] = Join(ChunkTexts(chunks[k]), f[L[k] + 1])
           /\ Spoilt(chunks[k]) => f[L[k - 1] + 1] = <<>>
<1> DEFINE n == Len(chunks)
           ch == chunks[k]
           m == Len(chunks[k].data)
           size == chunks[k].size
           key == chunks[k].key
           at == L[k - 1] + 1
           D == SubSeq(file, at + 1, at + size)
<1>1. ch \in Formed /\ n \in Nat /\ k \in Nat /\ k >= 1 /\ k <= n
  OBVIOUS
<1>2. size \in Nat /\ m \in Nat /\ m <= size /\ (~Spoilt(ch) => m = size)
  <2>1. size \in Nat /\ m \in Nat /\ m <= size
    BY <1>1, ChunkUnits
  <2>2. ~Spoilt(ch) => m = size
    BY <1>1, InTurn, Zenon
  <2> QED BY <2>1, <2>2
<1>3. file \in Seq(FileUnits) /\ Len(file) \in Nat /\ Len(file) = L[n]
  BY DEF Placed
<1>4. L[k - 1] \in Nat /\ L[k] \in Nat
  <2>1. k - 1 \in 0..n /\ k \in 0..n
    BY <1>1
  <2>2. L \in [0..n -> Nat]
    BY DEF Placed
  <2> HIDE DEF n
  <2> QED BY <2>1, <2>2
<1>5. /\ L[k] = L[k - 1] + m + 1 /\ L[k] <= Len(file) /\ file[at] = ChunkHeader(size, key)
      /\ \A i \in 1..m : file[at + i] = Unit(ch.data[i])
  BY DEF Placed
<1>6. file[at].kind = "chunk" /\ file[at].size = size /\ file[at].key = key
  BY <1>5, OtherUnits
<1>7. ASSUME k # n
      PROVE  file[L[k] + 1] = ChunkHeader(chunks[k + 1].size, chunks[k + 1].key)
  <2>1. k + 1 \in 1..n /\ (k + 1) - 1 = k
    BY <1>1, <1>7
  <2> QED BY <2>1 DEF Placed
<1> HIDE DEF n, ch, m, size, key
<1>8. at \in 1..Len(file) /\ at \in 1..Len(file) + 1 /\ L[k] = at + m
  <2>1. \A a, b, c, e \in Nat : c = a + b + 1 /\ c <= e => /\ a + 1 \in 1..e /\ a + 1 \in 1..e + 1
                                                        /\ c = a + 1 + b
    OBVIOUS
  <2>2. L[k] = L[k - 1] + m + 1 /\ L[k] <= Len(file)
    BY <1>5
  <2> QED BY <2>1, <2>2, <1>2, <1>3, <1>4
<1> HIDE DEF at
<1>9. WholeChunk(file, at) <=> at + size <= Len(file)
  BY <1>6 DEF WholeChunk
<1>10. f[at] = ReadFrom(file, at, f)
  BY <1>8 DEF Reading
<1>11. CASE ~WholeChunk(file, at)
  <2>1. Spoilt(ch)
    BY <1>2, <1>3, <1>5, <1>8, <1>9, <1>11
  <2>2. f[at] = <<>>
    BY <1>10, <1>11 DEF ReadFrom
  <2> QED BY <2>1, <2>2 DEF ch, at
<1>12. CASE WholeChunk(file, at)
  <2>1. D \in Seq(FileUnits) /\ Len(D) = size /\ \A i \in 1..size : D[i] = file[at + i]
    BY <1>3, <1>6, <1>8, <1>12, ChunkWithin
  <2>2. at + size <= Len(file) /\ ~(at > Len(file))
    BY <1>3, <1>8, <1>9, <1>12
  <2>3. f[at] = IF DecodeLogChunkData(D, key) = Failure THEN <<>>
                ELSE Join(DecodeLogChunkData(D, key), f[at + size + 1])
    BY <1>6, <1>10, <1>12, <2>2 DEF ReadFrom
  <2> HIDE DEF D
  <2>4. \A i \in 1..m : D[i] = Unit(ch.data[i])
    <3>1. \A i \in 1..m : i \in 1..size
      BY <1>2
    <3> QED BY <3>1, <2>1, <1>5
  <2>5. CASE ~Spoilt(ch)
    <3>1. DecodeLogChunkData(D, key) = ChunkTexts(ch) /\ ChunkTexts(ch) \in Seq(Texts)
      BY <1>1, <2>1, <2>4, <2>5, ChunkRead DEF m, size, key, ch
    <3>2. DecodeLogChunkData(D, key) # Failure
      BY <3>1, TextsAssumption
    <3>3. at + size + 1 = L[k] + 1
      BY <1>2, <1>8, <2>5
    <3>4. f[at] = Join(ChunkTexts(ch), f[L[k] + 1])
      BY <2>3, <3>1, <3>2, <3>3
    <3> QED BY <2>5, <3>1, <3>4 DEF ch, at
  <2>6. CASE Spoilt(ch)
    <3>1. ASSUME m < size PROVE \E s, q : D[m + 1] = ChunkHeader(s, q)
      <4>1. m + 1 \in 1..size /\ at + (m + 1) = L[k] + 1
        BY <1>2, <1>4, <1>8, <3>1
      <4>2. L[k] < L[n]
        BY <1>2, <1>3, <1>4, <1>8, <2>2, <3>1
      <4>3. k # n
        BY <4>2, <1>4
      <4>4. D[m + 1] = file[L[k] + 1]
        BY <2>1, <4>1
      <4> QED BY <1>7, <4>3, <4>4
    <3>2. DecodeLogChunkData(D, key) = Failure
      BY <1>1, <2>1, <2>4, <2>6, <3>1, SpoiltFails DEF m, size, key, ch
    <3> QED BY <2>3, <2>6, <3>2 DEF ch, at
  <2> QED BY <2>5, <2>6
<1> QED BY <1>11, <1>12

\* The texts of chunks, one after the other.
LEMMA TextsInTurn ==
    ASSUME NEW chunks \in Seq(Formed), NEW n \in 0..Len(chunks),
           \A k \in 1..n : ChunkTexts(chunks[k]) \in Seq(Texts)
    PROVE  \E h \in [0..n -> Seq(Texts)] :
              /\ h[0] = <<>> /\ TextsOf(SubSeq(chunks, 1, n)) = h[n]
              /\ \A k \in 1..n : h[k] = Join(h[k - 1], ChunkTexts(chunks[k]))
<1> DEFINE part == SubSeq(chunks, 1, n)
           ts == [k \in 1..n |-> ChunkTexts(chunks[k])]
<1>1. n \in Nat /\ n <= Len(chunks)
  OBVIOUS
<1>2. DOMAIN part = 1..n /\ \A k \in 1..n : part[k] = chunks[k]
  OBVIOUS
<1> HIDE DEF part
<1>3. TextsOf(part) = FlattenSeq(ts)
  <2>1. [k \in DOMAIN part |-> ChunkTexts(part[k])] = ts
    BY <1>2
  <2> QED BY <2>1 DEF TextsOf, ChunkTexts
<1>4. ts \in Seq(Seq(Texts)) /\ Len(ts) = n /\ \A k \in 1..n : ts[k] = ChunkTexts(chunks[k])
  BY <1>1
<1> HIDE DEF ts
<1>5. PICK h \in [0..Len(ts) -> Seq(Texts)] :
         /\ h[0] = <<>> /\ FlattenSeq(ts) = h[Len(ts)]
         /\ \A k \in 1..Len(ts) : h[k] = h[k - 1] \o ts[k]
  BY <1>4, FlattenTurns
<1> QED BY <1>3, <1>4, <1>5 DEF part, Join

\* The decoder gives the texts of the chunks before the first that is spoilt.
LEMMA Reads ==
    \A chunks \in Seq(Formed) :
        \E n \in 0..Len(chunks) :
           /\ \A k \in 1..n : ~Spoilt(chunks[k])
           /\ n < Len(chunks) => Spoilt(chunks[n + 1])
           /\ DecodeLogFile(Units(chunks)) = TextsOf(SubSeq(chunks, 1, n))
<1> SUFFICES ASSUME NEW chunks \in Seq(Formed)
             PROVE  \E n \in 0..Len(chunks) :
                       /\ \A k \in 1..n : ~Spoilt(chunks[k])
                       /\ n < Len(chunks) => Spoilt(chunks[n + 1])
                       /\ DecodeLogFile(Units(chunks)) = TextsOf(SubSeq(chunks, 1, n))
  OBVIOUS
<1> DEFINE N == Len(chunks)
           file == Units(chunks)
           Ends == {k \in 0..N : k < N => Spoilt(chunks[k + 1])}
<1>1. N \in Nat
  OBVIOUS
<1>2. PICK L : Placed(file, chunks, L)
  BY ChunksPlaced
<1>3. PICK f : Reading(file, f) /\ DecodeLogFile(file) = f[1]
  <2>1. file \in Seq(FileUnits)
    BY <1>2 DEF Placed
  <2> HIDE DEF file
  <2> QED BY <2>1, ReadTurns DEF Reading
<1>4. PICK n \in Ends : \A k \in Ends : n <= k
  <2>1. N \in Ends /\ Ends \in SUBSET Nat
    BY <1>1
  <2> HIDE DEF Ends
  <2> QED BY <2>1, LeastNumber
<1> HIDE DEF file
<1>5. n \in 0..N /\ (n < N => Spoilt(chunks[n + 1]))
  BY <1>4
<1>6. ASSUME NEW k \in 1..n PROVE ~Spoilt(chunks[k])
  <2>1. k - 1 \in 0..N /\ k - 1 < N /\ (k - 1) + 1 = k /\ k - 1 < n
    BY <1>1, <1>5
  <2>2. k - 1 \notin Ends
    BY <1>4, <1>5, <2>1
  <2>3. ~(k - 1 < N => Spoilt(chunks[(k - 1) + 1]))
    BY <2>1, <2>2
  <2> QED BY <2>1, <2>3
<1> HIDE DEF N, Ends
<1>7. ASSUME NEW k \in 1..n
      PROVE  /\ ChunkTexts(chunks[k]) \in Seq(Texts)
             /\ f[L[k - 1] + 1] = Join(ChunkTexts(chunks[k]), f[L[k] + 1])
  <2>1. k \in 1..Len(chunks)
    BY <1>1, <1>5 DEF N
  <2> QED BY <2>1, <1>2, <1>3, <1>6, <1>7, ReadChunk
<1>8. PICK h \in [0..n -> Seq(Texts)] :
         /\ h[0] = <<>> /\ TextsOf(SubSeq(chunks, 1, n)) = h[n]
         /\ \A k \in 1..n : h[k] = Join(h[k - 1], ChunkTexts(chunks[k]))
  BY <1>5, <1>7, TextsInTurn DEF N
<1>9. f[L[n] + 1] = <<>>
  <2>1. CASE n < N
    <3>1. n + 1 \in 1..Len(chunks) /\ (n + 1) - 1 = n
      BY <1>1, <1>5, <2>1 DEF N
    <3>2. Spoilt(chunks[n + 1])
      BY <1>5, <2>1
    <3>3. f[L[(n + 1) - 1] + 1] = <<>>
      BY <3>1, <3>2, <1>2, <1>3, ReadChunk
    <3> QED BY <3>1, <3>3
  <2>2. CASE n = N
    <3>1. L[n] = Len(file) /\ Len(file) \in Nat
      BY <1>2, <2>2 DEF Placed, N
    <3>2. f[Len(file) + 1] = ReadFrom(file, Len(file) + 1, f)
      BY <1>3, <3>1 DEF Reading
    <3>3. Len(file) + 1 > Len(file)
      BY <3>1
    <3> QED BY <3>1, <3>2, <3>3 DEF ReadFrom
  <2> QED BY <1>1, <1>5, <2>1, <2>2
<1>10. \A k \in 0..n : f[L[k] + 1] \in Seq(Texts)
  <2> SUFFICES ASSUME NEW k \in 0..n PROVE f[L[k] + 1] \in Seq(Texts)
    OBVIOUS
  <2>1. k \in 0..N
    BY <1>1, <1>5
  <2>2. L[k] \in Nat /\ L[k] <= Len(file) /\ Len(file) \in Nat
    <3>1. L \in [0..N -> Nat] /\ L[0] = 0 /\ Len(file) \in Nat
      BY <1>2 DEF Placed, N
    <3>2. \A j \in 1..N : L[j] <= Len(file)
      BY <1>2 DEF Placed, N
    <3>3. k = 0 \/ k \in 1..N
      BY <2>1
    <3> QED BY <2>1, <3>1, <3>2, <3>3
  <2>3. L[k] + 1 \in 1..Len(file) + 1
    BY <2>2
  <2> QED BY <2>3, <1>3 DEF Reading
<1> DEFINE T == {k \in Nat : k <= n => Join(h[k], f[L[k] + 1]) = f[1]}
<1>11. 0 \in T
  <2>1. L[0] = 0 /\ 0 \in 0..n
    BY <1>2, <1>5 DEF Placed
  <2>2. f[L[0] + 1] \in Seq(Texts) /\ L[0] + 1 = 1
    BY <2>1, <1>10
  <2>3. Join(<<>>, f[L[0] + 1]) = f[L[0] + 1]
    BY <2>2, JoinLaws
  <2> QED BY <2>2, <2>3, <1>8
<1>12. ASSUME NEW k \in Nat, k \in T PROVE k + 1 \in T
  <2>1. ASSUME k + 1 <= n PROVE Join(h[k + 1], f[L[k + 1] + 1]) = f[1]
    <3>1. k + 1 \in 1..n /\ (k + 1) - 1 = k /\ k \in 0..n /\ k + 1 \in 0..n /\ k <= n
      BY <1>1, <1>5, <2>1
    <3> DEFINE c == ChunkTexts(chunks[k + 1])
               g == f[L[k + 1] + 1]
    <3>2. c \in Seq(Texts) /\ g \in Seq(Texts) /\ h[k] \in Seq(Texts)
      BY <3>1, <1>7, <1>8, <1>10
    <3>3. h[k + 1] = Join(h[k], c)
      BY <3>1, <1>8
    <3>4. f[L[k] + 1] = Join(c, g)
      BY <3>1, <1>7
    <3>5. Join(h[k], f[L[k] + 1]) = f[1]
      BY <3>1, <1>12
    <3> HIDE DEF c, g
    <3>6. Join(Join(h[k], c), g) = Join(h[k], Join(c, g))
      <4>1. \A s \in Seq(Texts), t \in Seq(Texts), u \in Seq(Texts) :
               Join(Join(s, t), u) = Join(s, Join(t, u))
        BY Regroup
      <4> QED BY <3>2, <4>1
    <3>7. Join(h[k + 1], g) = f[1]
      BY <3>3, <3>4, <3>5, <3>6
    <3> QED BY <3>7 DEF g
  <2> QED BY <2>1
<1>13. Join(h[n], f[L[n] + 1]) = f[1]
  <2>1. Nat \subseteq T
    <3> HIDE DEF T
    <3> QED BY <1>11, <1>12, Induction
  <2>2. n \in Nat /\ n <= n
    BY <1>1, <1>5
  <2>3. n \in T
    <3> HIDE DEF T
    <3> QED BY <2>1, <2>2
  <2> QED BY <2>2, <2>3
<1>14. h[n] = f[1]
  <2>1. h[n] \in Seq(Texts)
    BY <1>1, <1>5, <1>8
  <2>2. Join(h[n], <<>>) = h[n]
    BY <2>1, JoinLaws
  <2> QED BY <2>2, <1>9, <1>13
<1>15. DecodeLogFile(Units(chunks)) = TextsOf(SubSeq(chunks, 1, n))
  BY <1>3, <1>8, <1>14 DEF file
<1> QED BY <1>5, <1>6, <1>15 DEF N

\* What is decoded of a log file is the text of every item up to its first chunk that
\* is spoilt: by bytes that are not those of the cache that was counted, by a write cut
\* short, by a header left alone, a key of an earlier sink, a damaged frame or a text
\* that is not UTF-8.
THEOREM ReadBack == Spec => ReadUpToSpoilt
<1> DEFINE A == \A f \in LogNames : disk'[f] # disk[f] =>
                   \E n \in 0..Len(disk'[f]) :
                      /\ \A k \in 1..n : ~Spoilt(disk'[f][k])
                      /\ n < Len(disk'[f]) => Spoilt(disk'[f][n + 1])
                      /\ DecodeLogFile(Units(disk'[f])) = TextsOf(SubSeq(disk'[f], 1, n))
<1>1. IInv' /\ [Next]_vars => [A]_vars
  <2> SUFFICES ASSUME IInv', NEW f \in LogNames
               PROVE  \E n \in 0..Len(disk'[f]) :
                         /\ \A k \in 1..n : ~Spoilt(disk'[f][k])
                         /\ n < Len(disk'[f]) => Spoilt(disk'[f][n + 1])
                         /\ DecodeLogFile(Units(disk'[f])) = TextsOf(SubSeq(disk'[f], 1, n))
    OBVIOUS
  <2>1. disk' \in [LogNames -> Seq(Chunk)]
    BY DEF IInv, TypeOK
  <2>2. disk'[f] \in Seq(Formed)
    <3>1. disk'[f] \in Seq(Chunk)
      BY <2>1
    <3>2. \A k \in 1..Len(disk'[f]) : disk'[f][k] \in Formed
      <4> SUFFICES ASSUME NEW k \in 1..Len(disk'[f]) PROVE disk'[f][k] \in Formed
        OBVIOUS
      <4>1. k \in DOMAIN disk'[f] /\ disk'[f][k] \in Chunk
        BY <3>1
      <4> QED BY <4>1 DEF IInv, ChunksFormed, Formed
    <3> QED BY <3>1, <3>2
  <2> QED BY <2>2, Reads
<1>2. Spec => [][A]_vars
  <2> HIDE DEF A
  <2> QED BY <1>1, Invariance, PTL DEF Spec
<1> QED BY <1>2 DEF ReadUpToSpoilt
=============================================================================
