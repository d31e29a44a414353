---------------------------- MODULE LogHandleProofs ----------------------------
(***************************************************************************)
(* Proofs about LogHandle, for every number of loggers, handles and sinks, *)
(* every list of sinks a handle is made with, and every order in which     *)
(* handles are made, installed, retuned and dropped while messages are     *)
(* logged.                                                                 *)
(***************************************************************************)
EXTENDS LogHandle, FiniteSetTheorems, TLAPS

-----------------------------------------------------------------------------
(* Counting pieces and sinks. *)

\* A sink more of a list counts for itself.
LEMMA ListedNext ==
    ASSUME NEW list, NEW s
    PROVE  /\ Listed(list, 0, s) = 0
           /\ \A n \in Nat :
                 /\ Listed(list, n, s) \in Nat
                 /\ Listed(list, n + 1, s) =
                       IF list[n + 1] = s THEN Listed(list, n, s) + 1 ELSE Listed(list, n, s)
<1>1. Listed(list, 0, s) = 0
  <2>1. {k \in 1..0 : list[k] = s} = {}
    OBVIOUS
  <2> QED BY <2>1, FS_EmptySet DEF Listed
<1>2. ASSUME NEW n \in Nat
      PROVE  /\ Listed(list, n, s) \in Nat
             /\ Listed(list, n + 1, s) =
                   IF list[n + 1] = s THEN Listed(list, n, s) + 1 ELSE Listed(list, n, s)
  <2> DEFINE S == {k \in 1..n : list[k] = s}
             T == {k \in 1..(n + 1) : list[k] = s}
  <2>1. IsFiniteSet(S)
    <3>1. IsFiniteSet(1..n)
      BY FS_Interval
    <3> QED BY <3>1, FS_Subset
  <2>2. n + 1 \notin S /\ T = IF list[n + 1] = s THEN S \union {n + 1} ELSE S
    OBVIOUS
  <2>3. Cardinality(S) \in Nat
    BY <2>1, FS_CardinalityType
  <2>4. Cardinality(S \union {n + 1}) = Cardinality(S) + 1
    BY <2>1, <2>2, FS_AddElement
  <2>5. Listed(list, n, s) = Cardinality(S) /\ Listed(list, n + 1, s) = Cardinality(T)
    BY DEF Listed
  <2> HIDE DEF S, T
  <2> QED BY <2>2, <2>3, <2>4, <2>5
<1> QED BY <1>1, <1>2

\* The positions of out[s] at which the message of logger t is.
Places(t, s) == {k \in DOMAIN out[s] : out[s][k].call = call[t] /\ out[s][k].part = "message"}

\* There are finitely many.
LEMMA GivenType ==
    ASSUME TypeOK, NEW t \in Loggers, NEW s \in Sinks
    PROVE  IsFiniteSet(Places(t, s)) /\ Given(t, s) = Cardinality(Places(t, s)) /\ Given(t, s) \in Nat
<1>1. out[s] \in Seq(Piece)
  BY DEF TypeOK
<1>2. DOMAIN out[s] = 1..Len(out[s]) /\ Len(out[s]) \in Nat
  BY <1>1
<1>3. IsFiniteSet(1..Len(out[s]))
  BY <1>2, FS_Interval
<1>4. IsFiniteSet(Places(t, s))
  BY <1>2, <1>3, FS_Subset DEF Places
<1> QED BY <1>4, FS_CardinalityType DEF Given, Places

\* What is given is counted as long as nothing is written and no call begun.
LEMMA GivenSame ==
    ASSUME NEW t \in Loggers, UNCHANGED <<out, call>>
    PROVE  \A s \in Sinks : Given(t, s)' = Given(t, s)
BY DEF Given

\* A piece written by logger u counts for u, if it is a message.
LEMMA GivenWrite ==
    ASSUME TypeOK, Numbered, NEW u \in Loggers, NEW r \in Sinks, NEW part,
           Write(u, r, part), UNCHANGED call, call[u] # 0
    PROVE  /\ \A s \in Sinks : Given(u, s)' = IF s = r /\ part = "message" THEN Given(u, s) + 1
                                                                        ELSE Given(u, s)
           /\ \A t \in Loggers : t # u => \A s \in Sinks : Given(t, s)' = Given(t, s)
<1> DEFINE piece == [by |-> u, call |-> call[u], part |-> part]
<1>1. out' = [out EXCEPT ![r] = Append(out[r], piece)] /\ out[r] \in Seq(Piece)
  BY DEF Write, TypeOK
<1>2. /\ out'[r] = Append(out[r], piece) /\ Len(out[r]) \in Nat
      /\ DOMAIN out'[r] = 1..(Len(out[r]) + 1) /\ DOMAIN out[r] = 1..Len(out[r])
      /\ out'[r][Len(out[r]) + 1] = piece
      /\ \A k \in 1..Len(out[r]) : out'[r][k] = out[r][k]
  BY <1>1 DEF TypeOK
<1>3. \A s \in Sinks : s # r => out'[s] = out[s]
  BY <1>1 DEF TypeOK
<1>4. ASSUME NEW t \in Loggers
      PROVE  \A s \in Sinks : Given(t, s)' = IF t = u /\ s = r /\ part = "message" THEN Given(t, s) + 1
                                                                          ELSE Given(t, s)
  <2> SUFFICES ASSUME NEW s \in Sinks
               PROVE  Given(t, s)' = IF t = u /\ s = r /\ part = "message" THEN Given(t, s) + 1
                                                                           ELSE Given(t, s)
    OBVIOUS
  <2>0. Given(t, s)' = Cardinality(Places(t, s)')
    BY DEF Given, Places
  <2>1. CASE s # r
    <3>1. Places(t, s)' = Places(t, s)
      BY <2>1, <1>3 DEF Places
    <3> QED BY <2>0, <2>1, <3>1, GivenType
  <2>2. CASE s = r
    <3>1. piece.call = call[u] /\ piece.part = part
      OBVIOUS
    <3>2. call[t] = call[u] => t = u
      BY DEF Numbered
    <3> HIDE DEF piece
    <3>3. Places(t, s)' = IF t = u /\ part = "message" THEN Places(t, s) \union {Len(out[r]) + 1}
                                                       ELSE Places(t, s)
      BY <2>2, <1>2, <3>1, <3>2 DEF Places
    <3>4. Len(out[r]) + 1 \notin Places(t, s)
      BY <2>2, <1>2 DEF Places
    <3>5. IsFiniteSet(Places(t, s)) /\ Given(t, s) = Cardinality(Places(t, s))
      BY GivenType
    <3>6. Cardinality(Places(t, s) \union {Len(out[r]) + 1}) = Cardinality(Places(t, s)) + 1
      BY <3>4, <3>5, FS_AddElement
    <3> QED BY <2>0, <2>2, <3>3, <3>5, <3>6
  <2> QED BY <2>1, <2>2
<1> QED BY <1>4

-----------------------------------------------------------------------------
(* What a step leaves alone. *)

Own(t) == Installed(t) /\ LevelSeen(t) /\ Progress(t) /\ Over(t) /\ Outcome(t)

\* Logger t is where it was, with its message, its handle and what it knows of it.
Still(t) ==
    /\ pc'[t] = pc[t] /\ handle'[t] = handle[t] /\ level'[t] = level[t] /\ i'[t] = i[t]
    /\ call'[t] = call[t] /\ result'[t] = result[t] /\ got'[t] = got[t]
    /\ seen[t] \subseteq seen'[t]

\* Handles that were made keep their sinks.
Kept == \A h \in Made : h \in Made' /\ sinks_'[h] = sinks_[h]

\* Levels are numbers.
LEMMA Numbers ==
    ASSUME TypeOK
    PROVE  /\ \A t \in Loggers : /\ level[t] \in Int /\ \A l \in seen[t] : l \in Int
                                 /\ call[t] \in Nat /\ i[t] \in Nat /\ got[t] \in Nat
                                 /\ handle[t] # Null => handle[t] \in Made
           /\ \A h \in Made : /\ h # Null /\ h \in Handles /\ log_level_[h] \in Levels
                              /\ log_level_[h] \in Int
                              /\ Len(sinks_[h]) \in Nat
                              /\ \A k \in 1..Len(sinks_[h]) :
                                    sinks_[h][k] \in Sinks \union {Null}
                              /\ sinks_[h] # <<>> => Len(sinks_[h]) > 0
           /\ calls \in Nat /\ installs \in Nat /\ sets \in Nat
           /\ log_handle_ # Null => log_handle_ \in Made
           /\ \A s \in Sinks : \A k \in DOMAIN out[s] : /\ out[s][k] \in Piece
                                                        /\ out[s][k].call \in Nat
                                                        /\ out[s][k].by \in Loggers
           /\ Console \in Sinks
<1>1. MaxCalls \in Nat /\ MaxInstalls \in Nat /\ MaxSets \in Nat /\ \A l \in Levels : l \in Int
  BY FrontAssumption
<1>2. \A t \in Loggers : /\ level[t] \in Int /\ \A l \in seen[t] : l \in Int
                         /\ call[t] \in Nat /\ i[t] \in Nat /\ got[t] \in Nat
                         /\ handle[t] # Null => handle[t] \in Made
  BY <1>1 DEF TypeOK
<1>3. ASSUME NEW h \in Made
      PROVE  /\ h # Null /\ h \in Handles /\ log_level_[h] \in Levels /\ log_level_[h] \in Int
             /\ Len(sinks_[h]) \in Nat
             /\ \A k \in 1..Len(sinks_[h]) : sinks_[h][k] \in Sinks \union {Null}
             /\ sinks_[h] # <<>> => Len(sinks_[h]) > 0
  <2>1. sinks_[h] \in Seq(Sinks \union {Null})
    BY DEF TypeOK
  <2>2. h # Null /\ h \in Handles /\ log_level_[h] \in Levels /\ log_level_[h] \in Int
    BY <1>1, FrontAssumption DEF TypeOK
  <2> QED BY <2>1, <2>2
<1>4. /\ calls \in Nat /\ installs \in Nat /\ sets \in Nat
      /\ log_handle_ # Null => log_handle_ \in Made
  BY <1>1 DEF TypeOK
<1>5. ASSUME NEW s \in Sinks, NEW k \in DOMAIN out[s]
      PROVE  out[s][k] \in Piece /\ out[s][k].call \in Nat /\ out[s][k].by \in Loggers
  <2>1. out[s] \in Seq(Piece)
    BY DEF TypeOK
  <2>2. out[s][k] \in Piece
    BY <2>1
  <2> QED BY <1>1, <2>2 DEF Piece
<1> QED BY <1>2, <1>3, <1>4, <1>5, FrontAssumption

\* A logger that is left alone is where the invariant wants it.
LEMMA Frame ==
    ASSUME TypeOK, Kept, NEW t \in Loggers, Still(t), Progress(t), Over(t), Outcome(t),
           \A s \in Sinks : Given(t, s)' = Given(t, s)
    PROVE  Progress(t)' /\ Over(t)' /\ Outcome(t)'
<1>1. handle[t] # Null => sinks_'[handle[t]] = sinks_[handle[t]]
  BY Numbers DEF Kept
<1>2. Console \in Sinks
  BY FrontAssumption
<1>3. CASE handle[t] = Null
  <2>1. Progress(t)'  BY <1>2, <1>3 DEF Progress, Still
  <2>2. Over(t)'  BY <1>3 DEF Over, Still
  <2>3. Outcome(t)'  BY <1>2, <1>3 DEF Outcome, Over, Still
  <2> QED BY <2>1, <2>2, <2>3
<1>4. CASE handle[t] # Null
  <2>1. sinks_'[handle'[t]] = sinks_[handle[t]]
    BY <1>1, <1>4 DEF Still
  <2>2. Progress(t)'  BY <1>2, <2>1 DEF Progress, Still
  <2>3. Over(t)'  BY <2>1 DEF Over, Still
  <2>4. Outcome(t)'  BY <1>2, <2>1 DEF Outcome, Still
  <2> QED BY <2>2, <2>3, <2>4
<1> QED BY <1>3, <1>4

\* A step that writes nothing and begins no call leaves the text as it was.
LEMMA TextFrame ==
    ASSUME TypeOK, Numbered, LastMessage, ThreadLines, UNCHANGED <<out, call, calls>>,
           \A t \in Loggers : /\ pc[t] = "newline" <=> pc'[t] = "newline"
                              /\ pc[t] = "idle" => pc'[t] = "idle"
    PROVE  /\ Numbered' /\ LastMessage' /\ ThreadLines'
           /\ \A t \in Loggers : \A s \in Sinks : Given(t, s)' = Given(t, s)
<1>1. \A k \in DOMAIN out[Console] : out[Console][k].by \in Loggers
  BY Numbers
<1>2. Numbered'
  BY DEF Numbered
<1>3. LastMessage'
  BY <1>1 DEF LastMessage
<1>4. ThreadLines'
  BY <1>1 DEF ThreadLines
<1> QED BY <1>2, <1>3, <1>4, GivenSame

-----------------------------------------------------------------------------
(* The invariant, action by action. *)

LEMMA InitFront == Init => FrontInv
<1> SUFFICES ASSUME Init PROVE FrontInv
  OBVIOUS
<1> USE FrontAssumption DEF Init
<1>1. TypeOK
  <2>1. Made = {} /\ sinks_ \in [Made -> Seq(Sinks \union {Null})]
    BY DEF Made
  <2>2. out \in [Sinks -> Seq(Piece)]
    OBVIOUS
  <2>3. calls \in 0..MaxCalls /\ call \in [Loggers -> 0..MaxCalls]
    OBVIOUS
  <2>4. /\ installs \in 0..MaxInstalls /\ sets \in 0..MaxSets
        /\ got \in [Loggers -> 0..MaxInstalls]
    OBVIOUS
  <2> QED BY <2>1, <2>2, <2>3, <2>4 DEF TypeOK, kInfo
<1>2. ASSUME NEW t \in Loggers PROVE Own(t)
  BY DEF Own, Installed, LevelSeen, Over, Progress, Outcome, InCall
<1>3. \A s \in Sinks : out[s] = <<>> /\ DOMAIN out[s] = {}
  OBVIOUS
<1>4. Numbered /\ LastMessage /\ ThreadLines
  BY <1>3 DEF Numbered, LastMessage, ThreadLines
<1> QED BY <1>1, <1>2, <1>4 DEF FrontInv, Own

\* A handle is made.
LEMMA MakeKeeps ==
    ASSUME FrontInv, NEW h \in Handles, NEW list \in SinkLists \union RangeLists, Make(h, list),
           ranged' \subseteq ranged \union {h}
    PROVE  FrontInv'
<1>1. /\ TypeOK /\ Numbered /\ LastMessage /\ ThreadLines
      /\ \A t \in Loggers : /\ Installed(t) /\ LevelSeen(t) /\ Progress(t) /\ Over(t)
                            /\ Outcome(t)
  BY DEF FrontInv
<1>2. /\ Kept /\ UNCHANGED <<pc, handle, level, i, call, got, result, out, calls, installs, sets>>
      /\ UNCHANGED <<log_level_, log_handle_, seen>>
      /\ Made \subseteq Made' /\ Made' \subseteq Handles /\ held' \subseteq Made'
      /\ ranged' \subseteq Made' /\ killer' = killer
      /\ sinks_' \in [Made' -> Seq(Sinks \union {Null})]
  <2>1. list \in Seq(Sinks \union {Null})
    BY FrontAssumption
  <2>2. sinks_' = [g \in Made \union {h} |-> IF g = h THEN list ELSE sinks_[g]] /\ h \notin Made
    BY DEF Make
  <2>3. Made' = Made \union {h}
    BY <2>2 DEF Made
  <2>4. sinks_' \in [Made' -> Seq(Sinks \union {Null})]
    BY <1>1, <2>1, <2>2, <2>3 DEF TypeOK
  <2>5. Kept
    BY <2>2, <2>3 DEF Kept
  <2> QED BY <1>1, <2>3, <2>4, <2>5 DEF Make, loggers, TypeOK
<1>3. TypeOK'
  BY <1>1, <1>2 DEF TypeOK
<1>4. /\ Numbered' /\ LastMessage' /\ ThreadLines'
      /\ \A t \in Loggers : \A s \in Sinks : Given(t, s)' = Given(t, s)
  BY <1>1, <1>2, TextFrame
<1>5. ASSUME NEW t \in Loggers PROVE Own(t)'
  <2>1. Still(t)
    BY <1>2 DEF Still
  <2>2. Progress(t)' /\ Over(t)' /\ Outcome(t)'
    BY <1>1, <1>2, <1>4, <2>1, Frame
  <2>3. Installed(t)'
    BY <1>1, <1>2, Numbers DEF Installed
  <2>4. LevelSeen(t)'
    BY <1>1, <1>2, Numbers DEF LevelSeen
  <2> QED BY <2>2, <2>3, <2>4 DEF Own
<1> QED BY <1>3, <1>4, <1>5 DEF FrontInv, Own

\* The application lets go of a handle.
LEMMA DropKeeps ==
    ASSUME FrontInv, NEW h \in Handles, Drop(h)
    PROVE  FrontInv'
<1>1. /\ TypeOK /\ Numbered /\ LastMessage /\ ThreadLines
      /\ \A t \in Loggers : /\ Installed(t) /\ LevelSeen(t) /\ Progress(t) /\ Over(t)
                            /\ Outcome(t)
  BY DEF FrontInv
<1>2. /\ Kept /\ UNCHANGED <<pc, handle, level, i, call, got, result, out, calls, installs, sets>>
      /\ UNCHANGED <<sinks_, ranged, killer, log_level_, log_handle_, seen>>
      /\ held' \subseteq held /\ Made' = Made
  BY DEF Drop, loggers, Made, Kept
<1>3. TypeOK'
  BY <1>1, <1>2 DEF TypeOK
<1>4. /\ Numbered' /\ LastMessage' /\ ThreadLines'
      /\ \A t \in Loggers : \A s \in Sinks : Given(t, s)' = Given(t, s)
  BY <1>1, <1>2, TextFrame
<1>5. ASSUME NEW t \in Loggers PROVE Own(t)'
  <2>1. Still(t)
    BY <1>2 DEF Still
  <2>2. Progress(t)' /\ Over(t)' /\ Outcome(t)'
    BY <1>1, <1>2, <1>4, <2>1, Frame
  <2>3. Installed(t)'
    BY <1>1, <1>2, Numbers DEF Installed
  <2>4. LevelSeen(t)'
    BY <1>1, <1>2, Numbers DEF LevelSeen
  <2> QED BY <2>2, <2>3, <2>4 DEF Own
<1> QED BY <1>3, <1>4, <1>5 DEF FrontInv, Own

\* A handle is installed, or none.
LEMMA SetLogHandleKeeps ==
    ASSUME FrontInv, NEW h \in Handles \union {Null}, SetLogHandle(h)
    PROVE  FrontInv'
<1>1. /\ TypeOK /\ Numbered /\ LastMessage /\ ThreadLines
      /\ \A t \in Loggers : /\ Installed(t) /\ LevelSeen(t) /\ Progress(t) /\ Over(t)
                            /\ Outcome(t)
  BY DEF FrontInv
<1>2. /\ Kept /\ UNCHANGED <<pc, handle, level, i, call, got, result, out, calls, sets>>
      /\ UNCHANGED <<sinks_, ranged, killer, log_level_, held, seen>>
      /\ h \in held \union {Null} /\ log_handle_' = h /\ Made' = Made
      /\ installs < MaxInstalls /\ installs' = installs + 1
  BY DEF SetLogHandle, loggers, Made, Kept
<1>3. TypeOK'
  <2>1. installs' \in 0..MaxInstalls
    BY <1>1, <1>2, FrontAssumption, Numbers
  <2> QED BY <1>1, <1>2, <2>1 DEF TypeOK
<1>4. /\ Numbered' /\ LastMessage' /\ ThreadLines'
      /\ \A t \in Loggers : \A s \in Sinks : Given(t, s)' = Given(t, s)
  BY <1>1, <1>2, TextFrame
<1>5. ASSUME NEW t \in Loggers PROVE Own(t)'
  <2>1. Still(t)
    BY <1>2 DEF Still
  <2>2. Progress(t)' /\ Over(t)' /\ Outcome(t)'
    BY <1>1, <1>2, <1>4, <2>1, Frame
  <2>3. Installed(t)'
    BY <1>1, <1>2, Numbers DEF Installed
  <2>4. LevelSeen(t)'
    BY <1>1, <1>2, Numbers DEF LevelSeen
  <2> QED BY <2>2, <2>3, <2>4 DEF Own
<1> QED BY <1>3, <1>4, <1>5 DEF FrontInv, Own

\* The level of a handle is set.
LEMMA SetLogLevelKeeps ==
    ASSUME FrontInv, NEW h \in Handles, NEW l \in Levels, SetLogLevel(h, l)
    PROVE  FrontInv'
<1>1. /\ TypeOK /\ Numbered /\ LastMessage /\ ThreadLines
      /\ \A t \in Loggers : /\ Installed(t) /\ LevelSeen(t) /\ Progress(t) /\ Over(t)
                            /\ Outcome(t)
  BY DEF FrontInv
<1>2. /\ Kept /\ UNCHANGED <<pc, handle, level, i, call, got, result, out, calls, installs>>
      /\ UNCHANGED <<sinks_, ranged, killer, held, log_handle_>>
      /\ Made' = Made /\ sets < MaxSets /\ sets' = sets + 1
      /\ log_level_' = [log_level_ EXCEPT ![h] = l]
      /\ log_level_'[h] = l /\ \A g \in Made : g # h => log_level_'[g] = log_level_[g]
      /\ \A t \in Loggers : /\ seen[t] \subseteq seen'[t]
                            /\ handle[t] = h => l \in seen'[t]
      /\ seen' \in [Loggers -> SUBSET Levels]
  <2>1. seen' = [t \in Loggers |-> IF handle[t] = h THEN seen[t] \union {l} ELSE seen[t]]
    BY DEF SetLogLevel
  <2> QED BY <1>1, <2>1 DEF SetLogLevel, heap, loggers, Made, Kept, TypeOK
<1>3. TypeOK'
  <2>1. sets' \in 0..MaxSets
    BY <1>1, <1>2, FrontAssumption, Numbers
  <2> QED BY <1>1, <1>2, <2>1 DEF TypeOK
<1>4. /\ Numbered' /\ LastMessage' /\ ThreadLines'
      /\ \A t \in Loggers : \A s \in Sinks : Given(t, s)' = Given(t, s)
  BY <1>1, <1>2, TextFrame
<1>5. ASSUME NEW t \in Loggers PROVE Own(t)'
  <2>1. Still(t)
    BY <1>2 DEF Still
  <2>2. Progress(t)' /\ Over(t)' /\ Outcome(t)'
    BY <1>1, <1>2, <1>4, <2>1, Frame
  <2>3. Installed(t)'
    BY <1>1, <1>2, Numbers DEF Installed
  <2>4. LevelSeen(t)'
    BY <1>1, <1>2, Numbers DEF LevelSeen
  <2> QED BY <2>2, <2>3, <2>4 DEF Own
<1> QED BY <1>3, <1>4, <1>5 DEF FrontInv, Own

\* A call begins.
LEMMA CallLogKeeps ==
    ASSUME FrontInv, NEW u \in Loggers, NEW l \in Levels, CallLog(u, l)
    PROVE  FrontInv'
<1>1. /\ TypeOK /\ Numbered /\ LastMessage /\ ThreadLines
      /\ \A t \in Loggers : /\ Installed(t) /\ LevelSeen(t) /\ Progress(t) /\ Over(t)
                            /\ Outcome(t)
  BY DEF FrontInv
<1>2. /\ Kept /\ UNCHANGED <<ranged, killer>>
      /\ UNCHANGED <<sinks_, held, log_handle_, log_level_, Made, installs, sets>>
      /\ \A t \in Loggers : t # u => Still(t)
      /\ calls < MaxCalls /\ calls' = calls + 1 /\ UNCHANGED <<out, i, got, seen>>
      /\ pc[u] = "idle" /\ pc'[u] = "test" /\ call'[u] = calls + 1
      /\ handle'[u] = Null /\ result'[u] = "none"
      /\ \A t \in Loggers : t # u => call'[t] = call[t] /\ pc'[t] = pc[t]
  BY <1>1 DEF CallLog, Move, heap, Made, Kept, Still, TypeOK
<1>3. TypeOK'
  <2>1. calls' \in 0..MaxCalls /\ call' \in [Loggers -> 0..MaxCalls]
    <3>1. calls + 1 \in 0..MaxCalls
      BY <1>1, <1>2, FrontAssumption, Numbers
    <3> QED BY <1>1, <3>1 DEF CallLog, TypeOK
  <2> QED BY <1>1, <1>2, <2>1 DEF CallLog, Move, heap, TypeOK
<1>4. /\ Numbered' /\ LastMessage' /\ ThreadLines'
      /\ \A t \in Loggers : t # u => \A s \in Sinks : Given(t, s)' = Given(t, s)
      /\ \A s \in Sinks : Given(u, s)' = 0
  <2>1. \A s \in Sinks : \A k \in DOMAIN out[s] : out[s][k].call # calls + 1
    BY <1>1, Numbers DEF Numbered
  <2>2. ASSUME NEW s \in Sinks PROVE Given(u, s)' = 0
    <3>1. {k \in DOMAIN out'[s] : out'[s][k].call = call'[u] /\ out'[s][k].part = "message"} = {}
      BY <1>2, <2>1
    <3> QED BY <3>1, FS_EmptySet DEF Given
  <2>3. ASSUME NEW t \in Loggers, t # u, NEW s \in Sinks PROVE Given(t, s)' = Given(t, s)
    <3>1. call'[t] = call[t] /\ out' = out
      BY <1>2, <2>3
    <3> QED BY <3>1 DEF Given
  <2>4. Numbered'
    <3>1. \A t \in Loggers : call'[t] <= calls' /\ (pc'[t] # "idle" => call'[t] # 0)
      BY <1>1, <1>2, Numbers DEF Numbered
    <3>2. \A t, v \in Loggers : call'[t] = call'[v] /\ call'[t] # 0 => t = v
      <4>1. \A t \in Loggers : call[t] # calls + 1
        BY <1>1, Numbers DEF Numbered
      <4> QED BY <1>1, <1>2, <4>1 DEF Numbered
    <3>3. ASSUME NEW s \in Sinks, NEW k \in DOMAIN out[s]
          PROVE  /\ out[s][k].call <= calls'
                 /\ \A t \in Loggers : out[s][k].call = call'[t] => out[s][k].by = t
      BY <1>1, <1>2, <2>1, Numbers DEF Numbered
    <3> QED BY <1>2, <3>1, <3>2, <3>3 DEF Numbered
  <2>5. \A k \in DOMAIN out[Console] : out[Console][k].by \in Loggers
    BY <1>1, Numbers
  <2>6. LastMessage'
    BY <1>1, <1>2, <2>5 DEF LastMessage
  <2>7. ThreadLines'
    BY <1>1, <1>2, <2>5 DEF ThreadLines
  <2> QED BY <2>2, <2>3, <2>4, <2>6, <2>7
<1>5. ASSUME NEW t \in Loggers, t # u PROVE Own(t)'
  <2>1. Progress(t)' /\ Over(t)' /\ Outcome(t)'
    BY <1>1, <1>2, <1>4, <1>5, Frame
  <2>2. Installed(t)' /\ LevelSeen(t)'
    BY <1>1, <1>2, <1>5, Numbers DEF Installed, LevelSeen, Still
  <2> QED BY <2>1, <2>2 DEF Own
<1>6. Own(u)'
  <2>1. Installed(u)' /\ LevelSeen(u)'
    BY <1>1, <1>2 DEF Installed, LevelSeen, InCall
  <2>2. Progress(u)'
    BY <1>1, <1>2, <1>4, Numbers DEF Progress
  <2>3. Over(u)' /\ Outcome(u)'
    BY <1>1, <1>2, <1>4 DEF Over, Outcome, Progress
  <2> QED BY <2>1, <2>2, <2>3 DEF Own
<1> QED BY <1>3, <1>4, <1>5, <1>6 DEF FrontInv, Own

\* The factory is asked for the first time.
LEMMA TestHandleKeeps ==
    ASSUME FrontInv, NEW u \in Loggers, TestHandle(u)
    PROVE  FrontInv'
<1>1. /\ TypeOK /\ Numbered /\ LastMessage /\ ThreadLines
      /\ \A t \in Loggers : /\ Installed(t) /\ LevelSeen(t) /\ Progress(t) /\ Over(t)
                            /\ Outcome(t)
  BY DEF FrontInv
<1>2. /\ Kept /\ UNCHANGED <<ranged, killer>>
      /\ UNCHANGED <<sinks_, held, log_handle_, log_level_, Made, installs, sets>>
      /\ \A t \in Loggers : t # u => Still(t)
      /\ UNCHANGED <<out, call, calls>>
      /\ UNCHANGED <<handle, level, i, seen>>
      /\ pc[u] = "test" /\ got'[u] = installs
      /\ \/ log_handle_ = Null /\ pc'[u] = "idle" /\ result'[u] = "rejected"
         \/ log_handle_ # Null /\ pc'[u] = "get"
  BY <1>1 DEF TestHandle, Move, Return, heap, Made, Kept, Still, TypeOK
<1>3. TypeOK'
  BY ZenonT(40), <1>1, <1>2 DEF TestHandle, Move, Return, heap, TypeOK
<1>4. /\ Numbered' /\ LastMessage' /\ ThreadLines'
      /\ \A t \in Loggers : \A s \in Sinks : Given(t, s)' = Given(t, s)
  <2>1. \A t \in Loggers : /\ pc[t] = "newline" <=> pc'[t] = "newline"
                           /\ pc[t] = "idle" => pc'[t] = "idle"
    BY <1>2 DEF Still
  <2> QED BY <1>1, <1>2, <2>1, TextFrame
<1>5. ASSUME NEW t \in Loggers, t # u PROVE Own(t)'
  <2>1. Progress(t)' /\ Over(t)' /\ Outcome(t)'
    BY <1>1, <1>2, <1>4, <1>5, Frame
  <2>2. Installed(t)' /\ LevelSeen(t)'
    BY <1>1, <1>2, <1>5, Numbers DEF Installed, LevelSeen, Still
  <2> QED BY <2>1, <2>2 DEF Own
<1>6. Own(u)'
  <2>0. call[u] # 0 /\ call'[u] = call[u] /\ handle[u] = Null
    BY <1>1, <1>2 DEF Numbered, Progress
  <2>1. Installed(u)' /\ LevelSeen(u)'
    BY <1>1, <1>2, Numbers DEF Installed, LevelSeen, InCall
  <2>2. Progress(u)'
    BY <1>1, <1>2, <1>4, <2>0, Numbers DEF Progress
  <2>3. Over(u)' /\ Outcome(u)'
    BY <1>1, <1>2, <1>4, <2>0, Numbers DEF Over, Outcome, Progress
  <2> QED BY <2>1, <2>2, <2>3 DEF Own
<1> QED BY <1>3, <1>4, <1>5, <1>6 DEF FrontInv, Own

\* The factory is asked again.
LEMMA GetLogHandleKeeps ==
    ASSUME FrontInv, NEW u \in Loggers, GetLogHandle(u)
    PROVE  FrontInv'
<1>1. /\ TypeOK /\ Numbered /\ LastMessage /\ ThreadLines
      /\ \A t \in Loggers : /\ Installed(t) /\ LevelSeen(t) /\ Progress(t) /\ Over(t)
                            /\ Outcome(t)
  BY DEF FrontInv
<1>2. /\ Kept /\ UNCHANGED <<ranged, killer>>
      /\ UNCHANGED <<sinks_, held, log_handle_, log_level_, Made, installs, sets>>
      /\ \A t \in Loggers : t # u => Still(t)
      /\ UNCHANGED <<out, call, calls>>
      /\ UNCHANGED <<got, level, result>>
      /\ pc[u] = "get" /\ pc'[u] = "filter" /\ i'[u] = 0 /\ handle'[u] = log_handle_
      /\ log_handle_ # Null => seen'[u] = {log_level_[log_handle_]}
  BY <1>1 DEF GetLogHandle, Move, heap, Made, Kept, Still, TypeOK
<1>3. TypeOK'
  <2>1. log_handle_ # Null => log_level_[log_handle_] \in Levels
    BY <1>1, Numbers
  <2> QED BY <1>1, <1>2, <2>1 DEF GetLogHandle, Move, heap, TypeOK
<1>4. /\ Numbered' /\ LastMessage' /\ ThreadLines'
      /\ \A t \in Loggers : \A s \in Sinks : Given(t, s)' = Given(t, s)
  <2>1. \A t \in Loggers : /\ pc[t] = "newline" <=> pc'[t] = "newline"
                           /\ pc[t] = "idle" => pc'[t] = "idle"
    BY <1>2 DEF Still
  <2> QED BY <1>1, <1>2, <2>1, TextFrame
<1>5. ASSUME NEW t \in Loggers, t # u PROVE Own(t)'
  <2>1. Progress(t)' /\ Over(t)' /\ Outcome(t)'
    BY <1>1, <1>2, <1>4, <1>5, Frame
  <2>2. Installed(t)' /\ LevelSeen(t)'
    BY <1>1, <1>2, <1>5, Numbers DEF Installed, LevelSeen, Still
  <2> QED BY <2>1, <2>2 DEF Own
<1>6. Own(u)'
  <2>1. Installed(u)' /\ LevelSeen(u)'
    BY <1>1, <1>2 DEF Installed, LevelSeen, InCall
  <2>2. Progress(u)'
    BY <1>1, <1>2, <1>4, Numbers DEF Progress
  <2>3. Over(u)' /\ Outcome(u)'
    BY <1>1, <1>2, <1>4 DEF Over, Outcome, Progress
  <2> QED BY <2>1, <2>2, <2>3 DEF Own
<1> QED BY <1>3, <1>4, <1>5, <1>6 DEF FrontInv, Own

\* The handle tests the level.
LEMMA FilterKeeps ==
    ASSUME FrontInv, NEW u \in Loggers, Filter(u)
    PROVE  FrontInv'
<1>1. /\ TypeOK /\ Numbered /\ LastMessage /\ ThreadLines
      /\ \A t \in Loggers : /\ Installed(t) /\ LevelSeen(t) /\ Progress(t) /\ Over(t)
                            /\ Outcome(t)
  BY DEF FrontInv
<1>2. /\ Kept /\ UNCHANGED <<ranged, killer>>
      /\ UNCHANGED <<sinks_, held, log_handle_, log_level_, Made, installs, sets>>
      /\ \A t \in Loggers : t # u => Still(t)
      /\ UNCHANGED <<out, call, calls>>
      /\ UNCHANGED <<handle, level, i, got, seen>>
      /\ pc[u] = "filter" /\ handle[u] \in Made
      /\ \/ /\ level[u] >= log_level_[handle[u]] /\ sinks_[handle[u]] # <<>>
            /\ pc'[u] = "sink"
         \/ /\ ~(level[u] >= log_level_[handle[u]]) \/ sinks_[handle[u]] = <<>>
            /\ pc'[u] = "idle" /\ result'[u] = "rejected"
  <2>1. handle[u] \in Made
    BY DEF Filter, In, Alive
  <2> QED BY <1>1, <2>1 DEF Filter, ShouldLog, Move, Return, heap, Made, Kept, Still, TypeOK
<1>3. TypeOK'
  BY ZenonT(40), <1>1, <1>2 DEF Filter, Move, Return, heap, TypeOK
<1>4. /\ Numbered' /\ LastMessage' /\ ThreadLines'
      /\ \A t \in Loggers : \A s \in Sinks : Given(t, s)' = Given(t, s)
  <2>1. \A t \in Loggers : /\ pc[t] = "newline" <=> pc'[t] = "newline"
                           /\ pc[t] = "idle" => pc'[t] = "idle"
    BY <1>2 DEF Still
  <2> QED BY <1>1, <1>2, <2>1, TextFrame
<1>5. ASSUME NEW t \in Loggers, t # u PROVE Own(t)'
  <2>1. Progress(t)' /\ Over(t)' /\ Outcome(t)'
    BY <1>1, <1>2, <1>4, <1>5, Frame
  <2>2. Installed(t)' /\ LevelSeen(t)'
    BY <1>1, <1>2, <1>5, Numbers DEF Installed, LevelSeen, Still
  <2> QED BY <2>1, <2>2 DEF Own
<1>6. Own(u)'
  <2>0. /\ level[u] \in Int /\ log_level_[handle[u]] \in Int /\ handle[u] # Null
        /\ log_level_[handle[u]] \in seen[u]
        /\ sinks_[handle[u]] # <<>> => Len(sinks_[handle[u]]) > 0
        /\ \A s \in Sinks : Listed(sinks_[handle[u]], 0, s) = 0
        /\ Console \in Sinks /\ call[u] # 0 /\ call'[u] = call[u]
        /\ \A s \in Sinks : Given(u, s)' = 0
    BY <1>1, <1>2, <1>4, Numbers, ListedNext DEF LevelSeen, InCall, Numbered, Progress
  <2>1. Installed(u)' /\ LevelSeen(u)'
    BY <1>1, <1>2, <2>0 DEF Installed, LevelSeen, InCall
  <2>2. Progress(u)'
    BY <1>1, <1>2, <1>4, <2>0 DEF Progress
  <2>3. Over(u)' /\ Outcome(u)'
    BY <1>1, <1>2, <1>4, <2>0 DEF Over, Outcome, Progress
  <2> QED BY <2>1, <2>2, <2>3 DEF Own
<1> QED BY <1>3, <1>4, <1>5, <1>6 DEF FrontInv, Own

\* The loop over the sinks goes on, or ends after the last.
LEMMA NextSinkEffect ==
    ASSUME TypeOK, NEW u \in Loggers, NEW from, NextSink(u, from)
    PROVE  /\ pc[u] = from /\ i'[u] = i[u] + 1
           /\ \A t \in Loggers : t # u => pc'[t] = pc[t] /\ i'[t] = i[t] /\ result'[t] = result[t]
           /\ \/ /\ i[u] + 1 = Len(sinks_[handle[u]])
                 /\ pc'[u] = "idle" /\ result'[u] = "logged"
              \/ i[u] + 1 # Len(sinks_[handle[u]]) /\ pc'[u] = "sink" /\ result'[u] = result[u]
           /\ i' \in [Loggers -> Nat]
           /\ pc' \in [Loggers -> {"idle", "test", "get", "filter", "sink", "newline"}]
           /\ result' \in [Loggers -> {"none", "rejected", "logged", "thrown"}]
<1>1. i' = [i EXCEPT ![u] = i[u] + 1] /\ i \in [Loggers -> Nat]
  BY DEF NextSink, TypeOK
<1>2. /\ i'[u] = i[u] + 1 /\ i' \in [Loggers -> Nat]
      /\ \A t \in Loggers : t # u => i'[t] = i[t]
  BY <1>1
<1>3. CASE i[u] + 1 = Len(sinks_[handle[u]])
  <2>1. /\ pc[u] = from /\ pc' = [pc EXCEPT ![u] = "idle"]
        /\ result' = [result EXCEPT ![u] = "logged"]
    BY <1>3 DEF NextSink, Return, Move
  <2> QED BY <1>2, <1>3, <2>1 DEF TypeOK
<1>4. CASE i[u] + 1 # Len(sinks_[handle[u]])
  <2>1. /\ pc[u] = from /\ pc' = [pc EXCEPT ![u] = "sink"] /\ result' = result
    BY <1>4 DEF NextSink, Return, Move
  <2> QED BY <1>2, <1>4, <2>1 DEF TypeOK
<1> QED BY <1>3, <1>4

\* A sink throws.
LEMMA SinkThrowsKeeps ==
    ASSUME FrontInv, NEW u \in Loggers, SinkThrows(u)
    PROVE  FrontInv'
<1>1. /\ TypeOK /\ Numbered /\ LastMessage /\ ThreadLines
      /\ \A t \in Loggers : /\ Installed(t) /\ LevelSeen(t) /\ Progress(t) /\ Over(t)
                            /\ Outcome(t)
  BY DEF FrontInv
<1>2. /\ Kept /\ UNCHANGED <<ranged, killer>>
      /\ UNCHANGED <<sinks_, held, log_handle_, log_level_, Made, installs, sets>>
      /\ \A t \in Loggers : t # u => Still(t)
      /\ UNCHANGED <<out, call, calls>>
      /\ UNCHANGED <<handle, level, got, seen>>
      /\ pc[u] = "sink" /\ handle[u] \in Made
      /\ \/ /\ Sink(u) # Console /\ i'[u] = i[u] /\ pc'[u] = "idle" /\ result'[u] = "thrown"
         \/ /\ Sink(u) = Console /\ i'[u] = i[u] + 1
            /\ \/ /\ i[u] + 1 = Len(sinks_[handle[u]])
                  /\ pc'[u] = "idle" /\ result'[u] = "logged"
               \/ i[u] + 1 # Len(sinks_[handle[u]]) /\ pc'[u] = "sink"
      /\ i' \in [Loggers -> Nat] /\ pc'[u] \in {"idle", "sink"}
  <2>1. handle[u] \in Made /\ pc[u] = "sink"
    BY DEF SinkThrows, In, Alive
  <2>2. CASE Sink(u) # Console
    BY <1>1, <2>1, <2>2 DEF SinkThrows, Return, Move, heap, Made, Kept, Still, TypeOK
  <2>3. CASE Sink(u) = Console
    <3>1. NextSink(u, "sink")
      BY <2>3 DEF SinkThrows
    <3> QED BY <1>1, <2>1, <2>3, <3>1, NextSinkEffect DEF SinkThrows, heap, Made, Kept,
               Still, TypeOK
  <2> QED BY <2>2, <2>3
<1>3. TypeOK'
  <2>1. pc' \in [Loggers -> {"idle", "test", "get", "filter", "sink", "newline"}]
    BY <1>1 DEF SinkThrows, NextSink, Move, Return, TypeOK
  <2>2. result' \in [Loggers -> {"none", "rejected", "logged", "thrown"}]
    BY <1>1 DEF SinkThrows, NextSink, Return, TypeOK
  <2> QED BY <1>1, <1>2, <2>1, <2>2 DEF SinkThrows, heap, TypeOK
<1>4. /\ Numbered' /\ LastMessage' /\ ThreadLines'
      /\ \A t \in Loggers : \A s \in Sinks : Given(t, s)' = Given(t, s)
  <2>1. \A t \in Loggers : /\ pc[t] = "newline" <=> pc'[t] = "newline"
                           /\ pc[t] = "idle" => pc'[t] = "idle"
    BY <1>2 DEF Still
  <2> QED BY <1>1, <1>2, <2>1, TextFrame
<1>5. ASSUME NEW t \in Loggers, t # u PROVE Own(t)'
  <2>1. Progress(t)' /\ Over(t)' /\ Outcome(t)'
    BY <1>1, <1>2, <1>4, <1>5, Frame
  <2>2. Installed(t)' /\ LevelSeen(t)'
    BY <1>1, <1>2, <1>5, Numbers DEF Installed, LevelSeen, Still
  <2> QED BY <2>1, <2>2 DEF Own
<1>6. Own(u)'
  <2>0. /\ i[u] \in Nat /\ handle[u] # Null /\ i[u] < Len(sinks_[handle[u]])
        /\ Len(sinks_[handle[u]]) \in Nat /\ Console \in Sinks /\ call[u] # 0
        /\ Sink(u) \in Sinks
        /\ \A s \in Sinks : /\ Given(u, s) \in Nat
                          /\ Listed(sinks_[handle[u]], i[u], s) \in Nat
                          /\ Listed(sinks_[handle[u]], i[u] + 1, s) =
                                IF Sink(u) = s THEN Listed(sinks_[handle[u]], i[u], s) + 1
                                               ELSE Listed(sinks_[handle[u]], i[u], s)
    <3>0. i[u] \in Nat /\ handle[u] # Null /\ i[u] < Len(sinks_[handle[u]]) /\ call[u] # 0
      BY <1>1, <1>2, Numbers DEF Progress, Numbered
    <3>1. /\ i[u] \in Nat /\ handle[u] # Null /\ i[u] < Len(sinks_[handle[u]])
        /\ Len(sinks_[handle[u]]) \in Nat /\ Console \in Sinks /\ call[u] # 0
        /\ Sink(u) \in Sinks \union {Null} /\ Sink(u) = sinks_[handle[u]][i[u] + 1]
      <4>1. /\ handle[u] \in Made /\ Len(sinks_[handle[u]]) \in Nat /\ Console \in Sinks
            /\ \A k \in 1..Len(sinks_[handle[u]]) : sinks_[handle[u]][k] \in Sinks \union {Null}
        BY <1>1, <3>0, Numbers
      <4>2. i[u] + 1 \in 1..Len(sinks_[handle[u]])
        BY <3>0, <4>1
      <4>3. Sink(u) = sinks_[handle[u]][i[u] + 1]
        BY DEF Sink
      <4> QED BY <3>0, <4>1, <4>2, <4>3
    <3>1a. Sink(u) \in Sinks
      BY <3>1 DEF SinkThrows
    <3>2. \A s \in Sinks : Given(u, s) \in Nat
      BY <1>1, GivenType
    <3>3. \A s \in Sinks : \A n \in Nat :
           /\ Listed(sinks_[handle[u]], n, s) \in Nat
           /\ Listed(sinks_[handle[u]], n + 1, s) =
                 IF sinks_[handle[u]][n + 1] = s THEN Listed(sinks_[handle[u]], n, s) + 1
                                                 ELSE Listed(sinks_[handle[u]], n, s)
      BY ListedNext
    <3> QED BY <3>1, <3>1a, <3>2, <3>3
  <2>1. Installed(u)' /\ LevelSeen(u)'
    BY <1>1, <1>2, <2>0 DEF Installed, LevelSeen, InCall
  <2>2. Progress(u)'
    BY <1>1, <1>2, <1>4, <2>0 DEF Progress
  <2>3. Over(u)' /\ Outcome(u)'
    BY SMTT(20), <1>1, <1>2, <1>4, <2>0 DEF Over, Outcome, Progress
  <2> QED BY <2>1, <2>2, <2>3 DEF Own
<1> QED BY <1>3, <1>4, <1>5, <1>6 DEF FrontInv, Own

\* A piece that logger u writes is numbered as its message.
LEMMA WriteNumbered ==
    ASSUME TypeOK, Numbered, NEW u \in Loggers, NEW r \in Sinks, NEW part,
           Write(u, r, part), UNCHANGED <<call, calls>>, call[u] # 0,
           \A t \in Loggers : pc[t] = "idle" => pc'[t] = "idle"
    PROVE  Numbered'
<1> DEFINE piece == [by |-> u, call |-> call[u], part |-> part]
<1>1. out' = [out EXCEPT ![r] = Append(out[r], piece)] /\ out[r] \in Seq(Piece)
  BY DEF Write, TypeOK
<1>2. piece.call = call[u] /\ piece.by = u
  OBVIOUS
<1> HIDE DEF piece
<1>3. ASSUME NEW s \in Sinks, NEW k \in DOMAIN out'[s]
      PROVE  (k \in DOMAIN out[s] /\ out'[s][k] = out[s][k]) \/ out'[s][k] = piece
  <2>1. CASE s = r
    BY <1>1, <1>3, <2>1 DEF TypeOK
  <2>2. CASE s # r
    BY <1>1, <1>3, <2>2 DEF TypeOK
  <2> QED BY <2>1, <2>2
<1>4. ASSUME NEW s \in Sinks, NEW k \in DOMAIN out'[s]
      PROVE  /\ out'[s][k].call <= calls
             /\ \A t \in Loggers : out'[s][k].call = call[t] => out'[s][k].by = t
  <2>1. CASE k \in DOMAIN out[s] /\ out'[s][k] = out[s][k]
    BY <2>1 DEF Numbered
  <2>2. CASE out'[s][k] = piece
    BY <1>2, <2>2 DEF Numbered
  <2> QED BY <1>3, <1>4, <2>1, <2>2
<1> QED BY <1>4 DEF Numbered

\* The text of the console, when logger u has written a piece there.
LEMMA ConsoleText ==
    ASSUME TypeOK, NEW u \in Loggers, NEW part, Write(u, Console, part)
    PROVE  /\ Len(out[Console]) \in Nat /\ Len(out'[Console]) = Len(out[Console]) + 1
           /\ DOMAIN out[Console] = 1..Len(out[Console])
           /\ DOMAIN out'[Console] = 1..(Len(out[Console]) + 1)
           /\ \A k \in 1..Len(out[Console]) : /\ out'[Console][k] = out[Console][k]
                                              /\ out[Console][k] \in Piece
                                              /\ out[Console][k].by \in Loggers
           /\ out'[Console][Len(out[Console]) + 1] = [by |-> u, call |-> call[u], part |-> part]
<1>1. Console \in Sinks /\ out[Console] \in Seq(Piece)
  BY FrontAssumption DEF TypeOK
<1>2. out'[Console] = Append(out[Console], [by |-> u, call |-> call[u], part |-> part])
  BY <1>1 DEF Write, TypeOK
<1>3. \A k \in 1..Len(out[Console]) : out[Console][k] \in Piece
  BY <1>1
<1>4. \A k \in 1..Len(out[Console]) : out[Console][k].by \in Loggers
  BY <1>3 DEF Piece
<1> QED BY <1>1, <1>2, <1>3, <1>4

\* A message on the console is the last of its thread, which goes on to its newline.
LEMMA MessageText ==
    ASSUME TypeOK, LastMessage, ThreadLines, NEW u \in Loggers, Write(u, Console, "message"),
           UNCHANGED call, pc[u] = "sink", pc'[u] = "newline",
           \A t \in Loggers : t # u => pc'[t] = pc[t]
    PROVE  LastMessage' /\ ThreadLines'
<1> DEFINE text == out[Console]
           next == out'[Console]
           L == Len(text)
           piece == [by |-> u, call |-> call[u], part |-> "message"]
<1>1. /\ L \in Nat /\ Len(next) = L + 1 /\ DOMAIN text = 1..L /\ DOMAIN next = 1..(L + 1)
      /\ \A k \in 1..L : next[k] = text[k] /\ text[k] \in Piece /\ text[k].by \in Loggers
      /\ next[L + 1] = piece
  BY ConsoleText
<1>2. piece.by = u /\ piece.call = call[u] /\ piece.part = "message"
  OBVIOUS
<1>3. /\ \A k \in DOMAIN text :
            /\ text[k].part = "message" /\ pc[text[k].by] = "newline"
            /\ \A j \in (k + 1)..L : text[j].by # text[k].by
            => text[k].call = call[text[k].by]
      /\ \A k \in DOMAIN text : text[k].part = "message" =>
            \/ /\ pc[text[k].by] = "newline"
               /\ \A j \in (k + 1)..L : text[j].by # text[k].by
            \/ \E j \in (k + 1)..L :
                  /\ text[j] = [text[k] EXCEPT !.part = "newline"]
                  /\ \A n \in (k + 1)..(j - 1) : text[n].by # text[k].by
  BY DEF LastMessage, ThreadLines
<1> HIDE DEF text, next, L, piece
<1>4. ASSUME NEW k \in 1..(L + 1), next[k].part = "message", pc'[next[k].by] = "newline",
             \A j \in (k + 1)..(L + 1) : next[j].by # next[k].by
      PROVE  next[k].call = call'[next[k].by]
  <2>1. CASE k = L + 1
    BY <1>1, <1>2, <2>1
  <2>2. CASE k \in 1..L
    <3>1. next[k] = text[k] /\ text[k].by \in Loggers /\ L + 1 \in (k + 1)..(L + 1)
      BY <1>1, <2>2
    <3>2. text[k].by # u
      BY <1>1, <1>2, <1>4, <3>1
    <3>3. \A j \in (k + 1)..L : text[j].by # text[k].by
      BY <1>1, <1>4, <2>2
    <3> QED BY <1>1, <1>3, <1>4, <2>2, <3>1, <3>2, <3>3
  <2> QED BY <1>1, <2>1, <2>2
<1>5. ASSUME NEW k \in 1..(L + 1), next[k].part = "message"
      PROVE  \/ /\ pc'[next[k].by] = "newline"
                /\ \A j \in (k + 1)..(L + 1) : next[j].by # next[k].by
             \/ \E j \in (k + 1)..(L + 1) :
                   /\ next[j] = [next[k] EXCEPT !.part = "newline"]
                   /\ \A n \in (k + 1)..(j - 1) : next[n].by # next[k].by
  <2>1. CASE k = L + 1
    BY <1>1, <1>2, <2>1
  <2>2. CASE k \in 1..L /\ pc[text[k].by] = "newline" /\ \A j \in (k + 1)..L : text[j].by # text[k].by
    BY <1>1, <1>2, <2>2
  <2>3. CASE k \in 1..L /\ \E j \in (k + 1)..L :
                             /\ text[j] = [text[k] EXCEPT !.part = "newline"]
                             /\ \A n \in (k + 1)..(j - 1) : text[n].by # text[k].by
    <3>1. PICK j \in (k + 1)..L : /\ text[j] = [text[k] EXCEPT !.part = "newline"]
                                  /\ \A n \in (k + 1)..(j - 1) : text[n].by # text[k].by
      BY <2>3
    <3>2. /\ j \in (k + 1)..(L + 1) /\ next[j] = text[j] /\ next[k] = text[k]
          /\ \A n \in (k + 1)..(j - 1) : next[n] = text[n]
      BY <1>1, <2>3
    <3> QED BY <3>1, <3>2
  <2>4. CASE k \in 1..L
    BY <1>1, <1>3, <1>5, <2>2, <2>3, <2>4
  <2> QED BY <1>1, <2>1, <2>4
<1>6. LastMessage'
  <2>1. \A k \in DOMAIN next :
           /\ next[k].part = "message" /\ pc'[next[k].by] = "newline"
           /\ \A j \in (k + 1)..Len(next) : next[j].by # next[k].by
           => next[k].call = call'[next[k].by]
    BY <1>1, <1>4
  <2> QED BY <2>1 DEF LastMessage, next
<1>7. ThreadLines'
  <2>1. \A k \in DOMAIN next : next[k].part = "message" =>
           \/ /\ pc'[next[k].by] = "newline"
              /\ \A j \in (k + 1)..Len(next) : next[j].by # next[k].by
           \/ \E j \in (k + 1)..Len(next) :
                 /\ next[j] = [next[k] EXCEPT !.part = "newline"]
                 /\ \A n \in (k + 1)..(j - 1) : next[n].by # next[k].by
    BY <1>1, <1>5
  <2> QED BY <2>1 DEF ThreadLines, next
<1> QED BY <1>6, <1>7

\* A newline ends the last message of its thread.
LEMMA NewlineText ==
    ASSUME TypeOK, LastMessage, ThreadLines, NEW u \in Loggers, Write(u, Console, "newline"),
           UNCHANGED call, pc[u] = "newline", pc'[u] # "newline",
           \A t \in Loggers : t # u => pc'[t] = pc[t]
    PROVE  LastMessage' /\ ThreadLines'
<1> DEFINE text == out[Console]
           next == out'[Console]
           L == Len(text)
           piece == [by |-> u, call |-> call[u], part |-> "newline"]
<1>1. /\ L \in Nat /\ Len(next) = L + 1 /\ DOMAIN text = 1..L /\ DOMAIN next = 1..(L + 1)
      /\ \A k \in 1..L : next[k] = text[k] /\ text[k] \in Piece /\ text[k].by \in Loggers
      /\ next[L + 1] = piece
  BY ConsoleText
<1>2. piece.by = u /\ piece.call = call[u] /\ piece.part = "newline"
  OBVIOUS
<1>3. /\ \A k \in DOMAIN text :
            /\ text[k].part = "message" /\ pc[text[k].by] = "newline"
            /\ \A j \in (k + 1)..L : text[j].by # text[k].by
            => text[k].call = call[text[k].by]
      /\ \A k \in DOMAIN text : text[k].part = "message" =>
            \/ /\ pc[text[k].by] = "newline"
               /\ \A j \in (k + 1)..L : text[j].by # text[k].by
            \/ \E j \in (k + 1)..L :
                  /\ text[j] = [text[k] EXCEPT !.part = "newline"]
                  /\ \A n \in (k + 1)..(j - 1) : text[n].by # text[k].by
  BY DEF LastMessage, ThreadLines
<1>8. ASSUME NEW p \in Piece, p.by = u, p.call = call[u]
      PROVE  piece = [p EXCEPT !.part = "newline"]
  BY <1>8 DEF Piece
<1> HIDE DEF text, next, L, piece
<1>4. ASSUME NEW k \in 1..(L + 1), next[k].part = "message", pc'[next[k].by] = "newline",
             \A j \in (k + 1)..(L + 1) : next[j].by # next[k].by
      PROVE  next[k].call = call'[next[k].by]
  <2>1. k \in 1..L /\ next[k] = text[k] /\ text[k].by # u
    BY <1>1, <1>2, <1>4
  <2>2. \A j \in (k + 1)..L : text[j].by # text[k].by
    BY <1>1, <1>4, <2>1
  <2> QED BY <1>1, <1>3, <1>4, <2>1, <2>2
<1>5. ASSUME NEW k \in 1..(L + 1), next[k].part = "message"
      PROVE  \/ /\ pc'[next[k].by] = "newline"
                /\ \A j \in (k + 1)..(L + 1) : next[j].by # next[k].by
             \/ \E j \in (k + 1)..(L + 1) :
                   /\ next[j] = [next[k] EXCEPT !.part = "newline"]
                   /\ \A n \in (k + 1)..(j - 1) : next[n].by # next[k].by
  <2>1. k \in 1..L /\ next[k] = text[k] /\ text[k].by \in Loggers
    BY <1>1, <1>2, <1>5
  <2>2. CASE pc[text[k].by] = "newline" /\ \A j \in (k + 1)..L : text[j].by # text[k].by
    <3>1. CASE text[k].by = u
      <4>1. text[k].call = call[u]
        BY <1>1, <1>3, <1>5, <2>1, <2>2, <3>1
      <4>2. next[L + 1] = [next[k] EXCEPT !.part = "newline"]
        BY <1>1, <1>8, <2>1, <3>1, <4>1
      <4>3. L + 1 \in (k + 1)..(L + 1) /\ \A n \in (k + 1)..(L + 1 - 1) : next[n].by # next[k].by
        BY <1>1, <2>1, <2>2
      <4> QED BY <1>1, <4>2, <4>3
    <3>2. CASE text[k].by # u
      BY <1>1, <1>2, <2>1, <2>2, <3>2
    <3> QED BY <3>1, <3>2
  <2>3. CASE k \in 1..L /\ \E j \in (k + 1)..L :
                             /\ text[j] = [text[k] EXCEPT !.part = "newline"]
                             /\ \A n \in (k + 1)..(j - 1) : text[n].by # text[k].by
    <3>1. PICK j \in (k + 1)..L : /\ text[j] = [text[k] EXCEPT !.part = "newline"]
                                  /\ \A n \in (k + 1)..(j - 1) : text[n].by # text[k].by
      BY <2>3
    <3>2. /\ j \in (k + 1)..(L + 1) /\ next[j] = text[j] /\ next[k] = text[k]
          /\ \A n \in (k + 1)..(j - 1) : next[n] = text[n]
      BY <1>1, <2>3
    <3> QED BY <3>1, <3>2
  <2> QED BY <1>1, <1>3, <1>5, <2>1, <2>2, <2>3
<1>6. LastMessage'
  <2>1. \A k \in DOMAIN next :
           /\ next[k].part = "message" /\ pc'[next[k].by] = "newline"
           /\ \A j \in (k + 1)..Len(next) : next[j].by # next[k].by
           => next[k].call = call'[next[k].by]
    BY <1>1, <1>4
  <2> QED BY <2>1 DEF LastMessage, next
<1>7. ThreadLines'
  <2>1. \A k \in DOMAIN next : next[k].part = "message" =>
           \/ /\ pc'[next[k].by] = "newline"
              /\ \A j \in (k + 1)..Len(next) : next[j].by # next[k].by
           \/ \E j \in (k + 1)..Len(next) :
                 /\ next[j] = [next[k] EXCEPT !.part = "newline"]
                 /\ \A n \in (k + 1)..(j - 1) : next[n].by # next[k].by
    BY <1>1, <1>5
  <2> QED BY <2>1 DEF ThreadLines, next
<1> QED BY <1>6, <1>7

\* What goes to another sink does not change the text of the console.
LEMMA ElsewhereText ==
    ASSUME TypeOK, LastMessage, ThreadLines, NEW u \in Loggers, NEW r \in Sinks, NEW part,
           Write(u, r, part), r # Console, UNCHANGED call,
           \A t \in Loggers : pc[t] = "newline" <=> pc'[t] = "newline"
    PROVE  LastMessage' /\ ThreadLines'
<1>1. out'[Console] = out[Console]
  BY FrontAssumption DEF Write, TypeOK
<1>2. \A k \in DOMAIN out[Console] : out[Console][k].by \in Loggers
  BY Numbers
<1>3. LastMessage'
  BY <1>1, <1>2 DEF LastMessage
<1>4. ThreadLines'
  BY <1>1, <1>2 DEF ThreadLines
<1> QED BY <1>3, <1>4

\* Sinks are given pieces.
LEMMA PieceType ==
    ASSUME TypeOK, NEW u \in Loggers, NEW r \in Sinks, NEW part \in {"message", "newline"},
           Write(u, r, part), call[u] # 0
    PROVE  out' \in [Sinks -> Seq(Piece)]
<1>1. call[u] \in 1..MaxCalls
  BY FrontAssumption DEF TypeOK
<1>2. [by |-> u, call |-> call[u], part |-> part] \in Piece
  BY <1>1 DEF Piece
<1> QED BY <1>2 DEF Write, TypeOK

\* A sink takes the message.
LEMMA GiveToSinkKeeps ==
    ASSUME FrontInv, NEW u \in Loggers, GiveToSink(u)
    PROVE  FrontInv'
<1>1. /\ TypeOK /\ Numbered /\ LastMessage /\ ThreadLines
      /\ \A t \in Loggers : /\ Installed(t) /\ LevelSeen(t) /\ Progress(t) /\ Over(t)
                            /\ Outcome(t)
  BY DEF FrontInv
<1>2. /\ Kept /\ UNCHANGED <<ranged, killer>>
      /\ UNCHANGED <<sinks_, held, log_handle_, log_level_, Made, installs, sets>>
      /\ \A t \in Loggers : t # u => Still(t)
      /\ UNCHANGED <<handle, level, call, calls, got, seen>>
      /\ pc[u] = "sink" /\ handle[u] \in Made /\ Write(u, Sink(u), "message")
      /\ \/ /\ Sink(u) # Console /\ i'[u] = i[u] + 1
            /\ \/ /\ i[u] + 1 = Len(sinks_[handle[u]])
                  /\ pc'[u] = "idle" /\ result'[u] = "logged"
               \/ i[u] + 1 # Len(sinks_[handle[u]]) /\ pc'[u] = "sink"
         \/ Sink(u) = Console /\ i'[u] = i[u] /\ pc'[u] = "newline"
      /\ i' \in [Loggers -> Nat]
      /\ pc' \in [Loggers -> {"idle", "test", "get", "filter", "sink", "newline"}]
      /\ result' \in [Loggers -> {"none", "rejected", "logged", "thrown"}]
  <2>1. handle[u] \in Made /\ pc[u] = "sink" /\ Write(u, Sink(u), "message")
    BY DEF GiveToSink, In, Alive
  <2>2. CASE Sink(u) # Console
    <3>1. NextSink(u, "sink")
      BY <2>2 DEF GiveToSink
    <3> QED BY <1>1, <2>1, <2>2, <3>1, NextSinkEffect DEF GiveToSink, heap, Made, Kept,
               Still, TypeOK
  <2>3. CASE Sink(u) = Console
    BY <1>1, <2>1, <2>3 DEF GiveToSink, Move, heap, Made, Kept, Still, TypeOK
  <2> QED BY <2>2, <2>3
<1>2a. /\ i[u] \in Nat /\ handle[u] # Null /\ i[u] < Len(sinks_[handle[u]])
      /\ Len(sinks_[handle[u]]) \in Nat /\ Console \in Sinks /\ call[u] # 0
      /\ Sink(u) \in Sinks
      /\ \A s \in Sinks : /\ Given(u, s) \in Nat
                          /\ Listed(sinks_[handle[u]], i[u], s) \in Nat
                          /\ Listed(sinks_[handle[u]], i[u] + 1, s) =
                                IF Sink(u) = s THEN Listed(sinks_[handle[u]], i[u], s) + 1
                                               ELSE Listed(sinks_[handle[u]], i[u], s)
  <2>1. /\ i[u] \in Nat /\ handle[u] # Null /\ i[u] < Len(sinks_[handle[u]])
        /\ Len(sinks_[handle[u]]) \in Nat /\ Console \in Sinks /\ call[u] # 0
        /\ Sink(u) \in Sinks \union {Null} /\ Sink(u) = sinks_[handle[u]][i[u] + 1]
    BY <1>1, <1>2, Numbers DEF Progress, Sink, Numbered
  <2>1a. Sink(u) \in Sinks
    BY <2>1 DEF GiveToSink
  <2>2. \A s \in Sinks : Given(u, s) \in Nat
    BY <1>1, GivenType
  <2>3. \A s \in Sinks : \A n \in Nat :
           /\ Listed(sinks_[handle[u]], n, s) \in Nat
           /\ Listed(sinks_[handle[u]], n + 1, s) =
                 IF sinks_[handle[u]][n + 1] = s THEN Listed(sinks_[handle[u]], n, s) + 1
                                                 ELSE Listed(sinks_[handle[u]], n, s)
    BY ListedNext
  <2> QED BY <2>1, <2>1a, <2>2, <2>3
<1>3. TypeOK'
  <2>1. out' \in [Sinks -> Seq(Piece)]
    BY <1>1, <1>2, <1>2a, PieceType
  <2> QED BY <1>1, <1>2, <2>1 DEF GiveToSink, heap, TypeOK
<1>4. /\ Numbered' /\ LastMessage' /\ ThreadLines'
      /\ \A t \in Loggers : t # u => \A s \in Sinks : Given(t, s)' = Given(t, s)
      /\ \A s \in Sinks : Given(u, s)' = IF s = Sink(u) THEN Given(u, s) + 1 ELSE Given(u, s)
  <2>1. \A t \in Loggers : t # u => pc'[t] = pc[t]
    BY <1>2 DEF Still
  <2>2. Numbered'
    BY <1>1, <1>2, <1>2a, <2>1, WriteNumbered
  <2>3. LastMessage' /\ ThreadLines'
    <3>1. CASE Sink(u) = Console
      BY <1>1, <1>2, <2>1, <3>1, MessageText
    <3>2. CASE Sink(u) # Console
      <4>1. \A t \in Loggers : pc[t] = "newline" <=> pc'[t] = "newline"
        BY <1>2, <2>1, <3>2
      <4> QED BY <1>1, <1>2, <1>2a, <3>2, <4>1, ElsewhereText
    <3> QED BY <3>1, <3>2
  <2> QED BY <1>1, <1>2, <1>2a, <2>2, <2>3, GivenWrite
<1>5. ASSUME NEW t \in Loggers, t # u PROVE Own(t)'
  <2>1. Progress(t)' /\ Over(t)' /\ Outcome(t)'
    BY <1>1, <1>2, <1>4, <1>5, Frame
  <2>2. Installed(t)' /\ LevelSeen(t)'
    BY <1>1, <1>2, <1>5, Numbers DEF Installed, LevelSeen, Still
  <2> QED BY <2>1, <2>2 DEF Own
<1>6. Own(u)'
  <2>0. /\ \A s \in Sinks \ {Console} : Given(u, s) = Listed(sinks_[handle[u]], i[u], s)
        /\ Given(u, Console) <= Listed(sinks_[handle[u]], i[u], Console)
        /\ \E l \in seen[u] : level[u] >= l
        /\ call'[u] = call[u] /\ seen' = seen /\ level' = level /\ handle' = handle
        /\ sinks_' = sinks_
    BY <1>1, <1>2 DEF Progress
  <2>1. Installed(u)' /\ LevelSeen(u)'
    BY <1>1, <1>2, <1>2a DEF Installed, LevelSeen, InCall
  <2>2. CASE Sink(u) = Console
    <3>1. i'[u] = i[u] /\ pc'[u] = "newline" /\ sinks_[handle[u]][i[u] + 1] = Console
      BY <1>2, <2>2 DEF Sink
    <3>2. /\ \A s \in Sinks \ {Console} : Given(u, s)' = Given(u, s)
          /\ Given(u, Console)' <= Listed(sinks_[handle[u]], i[u], Console) + 1
      BY <1>4, <1>2a, <2>0, <2>2
    <3>3. Progress(u)'
      BY <1>2a, <2>0, <3>1, <3>2 DEF Progress
    <3>4. Over(u)' /\ Outcome(u)'
      BY <3>1 DEF Over, Outcome
    <3> QED BY <2>1, <3>3, <3>4 DEF Own
  <2>3. CASE Sink(u) # Console
    <3>1. /\ i'[u] = i[u] + 1 /\ pc'[u] \in {"idle", "sink"}
          /\ pc'[u] = "idle" => /\ i[u] + 1 = Len(sinks_[handle[u]]) /\ result'[u] = "logged"
          /\ pc'[u] = "sink" => i[u] + 1 < Len(sinks_[handle[u]])
      <4>1. /\ i'[u] = i[u] + 1
            /\ \/ /\ i[u] + 1 = Len(sinks_[handle[u]])
                  /\ pc'[u] = "idle" /\ result'[u] = "logged"
               \/ i[u] + 1 # Len(sinks_[handle[u]]) /\ pc'[u] = "sink"
        BY <1>2, <2>3
      <4>2. /\ i[u] \in Nat /\ Len(sinks_[handle[u]]) \in Nat
            /\ i[u] < Len(sinks_[handle[u]])
        BY <1>2a
      <4>3. i[u] + 1 # Len(sinks_[handle[u]]) => i[u] + 1 < Len(sinks_[handle[u]])
        BY <4>2
      <4> QED BY <4>1, <4>3
    <3>2. /\ \A s \in Sinks \ {Console} : Given(u, s)' = Listed(sinks_[handle[u]], i[u] + 1, s)
          /\ Given(u, Console)' <= Listed(sinks_[handle[u]], i[u] + 1, Console)
      BY <1>4, <1>2a, <2>0, <2>3
    <3>3. Progress(u)'
      BY <1>2a, <2>0, <3>1, <3>2 DEF Progress
    <3>4. Over(u)' /\ Outcome(u)'
      BY <1>2a, <2>0, <3>1, <3>2 DEF Over, Outcome
    <3> QED BY <2>1, <3>3, <3>4 DEF Own
  <2> QED BY <2>2, <2>3
<1> QED BY <1>3, <1>4, <1>5, <1>6 DEF FrontInv, Own

\* The console ends its line.
LEMMA WriteNewlineKeeps ==
    ASSUME FrontInv, NEW u \in Loggers, WriteNewline(u)
    PROVE  FrontInv'
<1>1. /\ TypeOK /\ Numbered /\ LastMessage /\ ThreadLines
      /\ \A t \in Loggers : /\ Installed(t) /\ LevelSeen(t) /\ Progress(t) /\ Over(t)
                            /\ Outcome(t)
  BY DEF FrontInv
<1>2. /\ Kept /\ UNCHANGED <<ranged, killer>>
      /\ UNCHANGED <<sinks_, held, log_handle_, log_level_, Made, installs, sets>>
      /\ \A t \in Loggers : t # u => Still(t)
      /\ UNCHANGED <<handle, level, call, calls, got, seen>>
      /\ pc[u] = "newline" /\ handle[u] \in Made /\ Write(u, Console, "newline")
      /\ i'[u] = i[u] + 1
      /\ \/ /\ i[u] + 1 = Len(sinks_[handle[u]])
            /\ pc'[u] = "idle" /\ result'[u] = "logged"
         \/ i[u] + 1 # Len(sinks_[handle[u]]) /\ pc'[u] = "sink"
      /\ i' \in [Loggers -> Nat]
      /\ pc' \in [Loggers -> {"idle", "test", "get", "filter", "sink", "newline"}]
      /\ result' \in [Loggers -> {"none", "rejected", "logged", "thrown"}]
  <2>1. handle[u] \in Made /\ Write(u, Console, "newline") /\ NextSink(u, "newline")
    BY DEF WriteNewline, In, Alive
  <2> QED BY SMTT(20), <1>1, <2>1, NextSinkEffect DEF WriteNewline, heap, Made, Kept, Still, TypeOK
<1>2a. /\ i[u] \in Nat /\ handle[u] # Null /\ i[u] < Len(sinks_[handle[u]])
      /\ Len(sinks_[handle[u]]) \in Nat /\ Console \in Sinks /\ call[u] # 0
      /\ Sink(u) \in Sinks
      /\ \A s \in Sinks : /\ Given(u, s) \in Nat
                          /\ Listed(sinks_[handle[u]], i[u], s) \in Nat
                          /\ Listed(sinks_[handle[u]], i[u] + 1, s) =
                                IF Sink(u) = s THEN Listed(sinks_[handle[u]], i[u], s) + 1
                                               ELSE Listed(sinks_[handle[u]], i[u], s)
  <2>1. /\ i[u] \in Nat /\ handle[u] # Null /\ i[u] < Len(sinks_[handle[u]])
        /\ Len(sinks_[handle[u]]) \in Nat /\ Console \in Sinks /\ call[u] # 0
        /\ Sink(u) \in Sinks \union {Null} /\ Sink(u) = sinks_[handle[u]][i[u] + 1]
    BY <1>1, <1>2, Numbers DEF Progress, Sink, Numbered
  <2>1a. Sink(u) \in Sinks
    BY <1>1, <1>2, <2>1 DEF Progress
  <2>2. \A s \in Sinks : Given(u, s) \in Nat
    BY <1>1, GivenType
  <2>3. \A s \in Sinks : \A n \in Nat :
           /\ Listed(sinks_[handle[u]], n, s) \in Nat
           /\ Listed(sinks_[handle[u]], n + 1, s) =
                 IF sinks_[handle[u]][n + 1] = s THEN Listed(sinks_[handle[u]], n, s) + 1
                                                 ELSE Listed(sinks_[handle[u]], n, s)
    BY ListedNext
  <2> QED BY <2>1, <2>1a, <2>2, <2>3
<1>3. TypeOK'
  <2>1. out' \in [Sinks -> Seq(Piece)]
    BY <1>1, <1>2, <1>2a, PieceType
  <2> QED BY <1>1, <1>2, <2>1 DEF WriteNewline, heap, TypeOK
<1>4. /\ Numbered' /\ LastMessage' /\ ThreadLines'
      /\ \A t \in Loggers : \A s \in Sinks : Given(t, s)' = Given(t, s)
  <2>1. \A t \in Loggers : t # u => pc'[t] = pc[t]
    BY <1>2 DEF Still
  <2>2. Numbered'
    BY <1>1, <1>2, <1>2a, <2>1, WriteNumbered
  <2>3. LastMessage' /\ ThreadLines'
    BY <1>1, <1>2, <2>1, NewlineText
  <2> QED BY <1>1, <1>2, <1>2a, <2>2, <2>3, GivenWrite
<1>5. ASSUME NEW t \in Loggers, t # u PROVE Own(t)'
  <2>1. Progress(t)' /\ Over(t)' /\ Outcome(t)'
    BY <1>1, <1>2, <1>4, <1>5, Frame
  <2>2. Installed(t)' /\ LevelSeen(t)'
    BY <1>1, <1>2, <1>5, Numbers DEF Installed, LevelSeen, Still
  <2> QED BY <2>1, <2>2 DEF Own
<1>6. Own(u)'
  <2>0. Sink(u) = Console
    BY <1>1, <1>2 DEF Progress, Sink
  <2>1. Installed(u)' /\ LevelSeen(u)'
    BY <1>1, <1>2, <1>2a DEF Installed, LevelSeen, InCall
  <2>2. Progress(u)'
    BY <1>1, <1>2, <1>4, <1>2a, <2>0 DEF Progress
  <2>3. Over(u)' /\ Outcome(u)'
    BY <1>1, <1>2, <1>4, <1>2a, <2>0 DEF Over, Outcome, Progress
  <2> QED BY <2>1, <2>2, <2>3 DEF Own
<1> QED BY <1>3, <1>4, <1>5, <1>6 DEF FrontInv, Own

-----------------------------------------------------------------------------
(* The invariant, and what follows from it. *)

\* What the loggers know, as long as nobody does anything.
LEMMA SameFront ==
    ASSUME FrontInv, TypeOK',
           UNCHANGED <<sinks_, ranged, log_level_, held, log_handle_, pc, handle, level, i>>,
           UNCHANGED <<out, calls, call, installs, sets, got, seen, result>>
    PROVE  FrontInv'
<1>1. /\ TypeOK /\ Numbered /\ LastMessage /\ ThreadLines
      /\ \A t \in Loggers : /\ Installed(t) /\ LevelSeen(t) /\ Progress(t) /\ Over(t)
                            /\ Outcome(t)
  BY DEF FrontInv
<1>2. /\ Numbered' /\ LastMessage' /\ ThreadLines'
      /\ \A t \in Loggers : \A s \in Sinks : Given(t, s)' = Given(t, s)
  BY <1>1, TextFrame
<1>3. ASSUME NEW t \in Loggers PROVE Own(t)'
  <2>1. Still(t) /\ Kept
    BY DEF Still, Kept, Made
  <2>2. Progress(t)' /\ Over(t)' /\ Outcome(t)'
    BY <1>1, <1>2, <2>1, Frame
  <2>3. Installed(t)' /\ LevelSeen(t)'
    BY <1>1 DEF Installed, LevelSeen
  <2> QED BY <2>2, <2>3 DEF Own
<1> QED BY <1>2, <1>3 DEF FrontInv, Own

\* The process is killed: nothing that the loggers know changes.
LEMMA NullSinkKeeps ==
    ASSUME FrontInv, NEW u \in Loggers, NullSink(u)
    PROVE  FrontInv'
<1>1. /\ TypeOK /\ Numbered /\ LastMessage /\ ThreadLines
      /\ \A t \in Loggers : /\ Installed(t) /\ LevelSeen(t) /\ Progress(t) /\ Over(t)
                            /\ Outcome(t)
  BY DEF FrontInv
<1>2. /\ UNCHANGED <<sinks_, ranged, log_level_, held, log_handle_, pc, handle, level, i>>
      /\ UNCHANGED <<out, calls, call, installs, sets, got, seen, result>>
      /\ killer' = u
  BY DEF NullSink, loggers
<1>3. TypeOK'
  BY <1>1, <1>2 DEF TypeOK, Made
<1> QED BY <1>1, <1>2, <1>3, SameFront

LEMMA FrontStep == FrontInv /\ Next => FrontInv'
<1> SUFFICES ASSUME FrontInv, Act PROVE FrontInv'
  BY DEF Next
<1>1. ASSUME NEW h \in Handles, NEW list \in SinkLists, Construct(h, list) PROVE FrontInv'
  BY <1>1, MakeKeeps DEF Construct
<1>2. ASSUME NEW h \in Handles, NEW list \in RangeLists, ConstructFromRange(h, list)
      PROVE  FrontInv'
  BY <1>2, MakeKeeps DEF ConstructFromRange
<1>3. ASSUME NEW h \in Handles, Drop(h) PROVE FrontInv'
  BY <1>3, DropKeeps
<1>4. ASSUME NEW h \in Handles, NEW l \in Levels, SetLogLevel(h, l) PROVE FrontInv'
  BY <1>4, SetLogLevelKeeps
<1>5. ASSUME NEW h \in Handles \union {Null}, SetLogHandle(h) PROVE FrontInv'
  BY <1>5, SetLogHandleKeeps
<1>6. ASSUME NEW t \in Loggers, LoggerStep(t) PROVE FrontInv'
  BY <1>6, TestHandleKeeps, GetLogHandleKeeps, FilterKeeps, GiveToSinkKeeps,
     WriteNewlineKeeps, SinkThrowsKeeps, NullSinkKeeps DEF LoggerStep
<1>7. ASSUME NEW t \in Loggers, NEW l \in Levels, CallLog(t, l) PROVE FrontInv'
  BY <1>7, CallLogKeeps
<1> QED BY <1>1, <1>2, <1>3, <1>4, <1>5, <1>6, <1>7 DEF Act

\* The list a handle is made with is its list; only that from a range may hold a null sink.
LEMMA MakeNullSinks ==
    ASSUME TypeOK, NullSinks, NEW h \in Handles, NEW list, Make(h, list),
           killer = Null,
           \/ ranged' = ranged /\ Null \notin ToSet(list)
           \/ ranged' = ranged \union {h}
    PROVE  NullSinks'
<1>1. h \notin Made /\ sinks_' = [g \in Made \union {h} |-> IF g = h THEN list ELSE sinks_[g]]
  BY DEF Make
<1>2. Made' = Made \union {h} /\ killer' = Null
  BY <1>1 DEF Make, Made
<1>3. ASSUME NEW g \in Made' \ ranged' PROVE Null \notin ToSet(sinks_'[g])
  <2>1. CASE g = h
    BY <1>1, <1>2, <1>3, <2>1
  <2>2. CASE g # h
    <3>1. g \in Made \ ranged /\ sinks_'[g] = sinks_[g]
      BY <1>1, <1>2, <1>3, <2>2
    <3> QED BY <3>1 DEF NullSinks
  <2> QED BY <2>1, <2>2
<1> QED BY <1>2, <1>3 DEF NullSinks

\* A step that makes no handle and kills nothing.
LEMMA SameNullSinks ==
    ASSUME NullSinks, killer = Null, UNCHANGED <<sinks_, ranged, killer>>
    PROVE  NullSinks'
BY DEF NullSinks, Made

LEMMA NullSinksStep == FrontInv /\ NullSinks /\ Next => NullSinks'
<1> SUFFICES ASSUME FrontInv, NullSinks, killer = Null, Act PROVE NullSinks'
  BY DEF Next
<1>0. TypeOK
  BY DEF FrontInv
<1>1. ASSUME NEW h \in Handles, NEW list \in SinkLists, Construct(h, list) PROVE NullSinks'
  BY <1>0, <1>1, MakeNullSinks DEF Construct
<1>2. ASSUME NEW h \in Handles, NEW list \in RangeLists, ConstructFromRange(h, list)
      PROVE  NullSinks'
  BY <1>0, <1>2, MakeNullSinks DEF ConstructFromRange
<1>3. ASSUME NEW h \in Handles, Drop(h) PROVE NullSinks'
  BY <1>3, SameNullSinks DEF Drop
<1>4. ASSUME NEW h \in Handles, NEW l \in Levels, SetLogLevel(h, l) PROVE NullSinks'
  BY <1>4, SameNullSinks DEF SetLogLevel, heap
<1>5. ASSUME NEW h \in Handles \union {Null}, SetLogHandle(h) PROVE NullSinks'
  BY <1>5, SameNullSinks DEF SetLogHandle
<1>6. ASSUME NEW t \in Loggers, LoggerStep(t), ~NullSink(t) PROVE NullSinks'
  <2>1. UNCHANGED heap
    BY <1>6 DEF LoggerStep, TestHandle, GetLogHandle, Filter, GiveToSink, WriteNewline,
                SinkThrows
  <2> QED BY <2>1, SameNullSinks DEF heap
<1>7. ASSUME NEW t \in Loggers, NEW l \in Levels, CallLog(t, l) PROVE NullSinks'
  BY <1>7, SameNullSinks DEF CallLog, heap
<1>8. ASSUME NEW t \in Loggers, NullSink(t) PROVE NullSinks'
  <2>1. /\ handle[t] \in Made /\ handle[t] # Null
        /\ pc[t] = "sink" /\ Sink(t) = Null /\ killer' = t /\ t # Null
        /\ UNCHANGED <<sinks_, ranged, pc, handle, i>>
    BY <1>8, FrontAssumption DEF NullSink, In, Alive, loggers
  <2>2. i[t] \in Nat /\ i[t] < Len(sinks_[handle[t]]) /\ Len(sinks_[handle[t]]) \in Nat
    BY <1>0, <2>1, Numbers DEF FrontInv, Progress
  <2>3. sinks_[handle[t]] \in Seq(Sinks \union {Null})
    BY <1>0, <2>1 DEF TypeOK
  <2>4. i[t] + 1 \in 1..Len(sinks_[handle[t]]) /\ sinks_[handle[t]][i[t] + 1] = Null
    BY <2>1, <2>2 DEF Sink
  <2>5. Null \in ToSet(sinks_[handle[t]])
    BY <2>3, <2>4 DEF ToSet
  <2>6. handle[t] \in ranged
    BY <2>1, <2>5 DEF NullSinks
  <2>7. Sink(t)' = Sink(t) /\ Made' = Made
    BY <2>1 DEF Sink, Made
  <2> QED BY <2>1, <2>6, <2>7 DEF NullSinks
<1> QED BY <1>1, <1>2, <1>3, <1>4, <1>5, <1>6, <1>7, <1>8 DEF Act

LEMMA InitInvariant == Init => IInv
<1> SUFFICES ASSUME Init PROVE NullSinks
  BY InitFront DEF IInv
<1>1. Made = {} /\ killer = Null
  BY DEF Init, Made
<1> QED BY <1>1 DEF NullSinks

LEMMA NextInvariant == IInv /\ [Next]_vars => IInv'
<1> SUFFICES ASSUME FrontInv, NullSinks, [Next]_vars PROVE FrontInv' /\ NullSinks'
  BY DEF IInv
<1>1. CASE Next
  BY <1>1, FrontStep, NullSinksStep
<1>2. CASE UNCHANGED vars
  <2>1. TypeOK'
    BY <1>2 DEF FrontInv, TypeOK, Made, vars
  <2>2. NullSinks'
    BY <1>2 DEF NullSinks, Made, Sink, vars
  <2> QED BY <1>2, <2>1, <2>2, SameFront DEF vars
<1> QED BY <1>1, <1>2

\* What each logger holds of its handle, what it has given to which sink and what it wrote on
\* the console fit together, however the application treats its handles meanwhile; and a null
\* sink, which gets the process killed, is met in no handle but one made from a range.
THEOREM Invariance == Spec => []IInv
BY InitInvariant, NextInvariant, PTL DEF Spec

\* Though the macro has no reference to the handle it logs in, that is not destroyed as long
\* as no other handle is installed: the factory's reference is enough.
THEOREM HandleLives == Spec => []HandleOutlivesUse
<1>1. IInv => HandleOutlivesUse
  <2> SUFFICES ASSUME IInv, NEW t \in Loggers, pc[t] \in {"filter", "sink", "newline"},
                      ~(installs > got[t])
               PROVE  In(t)
    BY DEF HandleOutlivesUse
  <2>1. TypeOK /\ Installed(t)
    BY DEF IInv, FrontInv
  <2>2. got[t] = installs
    BY <2>1, Numbers DEF Installed
  <2>3. handle[t] = log_handle_ /\ log_handle_ # Null
    BY <2>1, <2>2 DEF Installed, InCall
  <2> QED BY <2>1, <2>3, Numbers DEF In, Alive
<1> QED BY <1>1, Invariance, PTL

\* A message reaches every sink of the handle as often as it is listed, none if it is filtered
\* out, and those before the one that throws otherwise.
THEOREM MessageToAllOrNone == Spec => []AllOrNone
<1>1. IInv => AllOrNone
  BY DEF IInv, FrontInv, AllOrNone
<1> QED BY <1>1, Invariance, PTL

\* Whoever writes to the console in between, the next thing a thread writes after a message is
\* the newline that ends it.
THEOREM LinesPerThread == Spec => []ThreadLines
<1>1. IInv => ThreadLines
  BY DEF IInv, FrontInv
<1> QED BY <1>1, Invariance, PTL
=============================================================================
