------------------------------ MODULE LogHandle ------------------------------
(***************************************************************************)
(* The front of the logger: the logging macros (mylogger/logger.h), the    *)
(* default handle that logger::LogFactory keeps (log_factory.cpp), the     *)
(* filter by level and the loop over the sinks of logger::LogHandle and    *)
(* VariadicLogHandle (log_handle.cpp, log_variadic_handle.h), and          *)
(* logger::ConsoleSink (sinks/console_sink.cpp).                           *)
(*                                                                         *)
(* Loggers call EXT_LOG_...; Main, the application, makes handles, installs*)
(* them with EXT_LOGGER_INIT, sets their level and drops its own           *)
(* references.  There is no lock: the macro asks LogFactory for the handle *)
(* twice, and what it gets is a raw pointer, for which it holds no         *)
(* reference.  sink_mutex_ is never taken.  A step is one access to the    *)
(* factory, a handle or a sink; a fwrite is one step.  What a sink other   *)
(* than the console does with a message is its own affair: here it takes   *)
(* it, or throws; a null sink kills the process.  What a logger does       *)
(* without a handle, or in one that was destroyed, is not followed further.*)
(* The text of messages is left out.                                       *)
(***************************************************************************)
EXTENDS Integers, Sequences, SequencesExt, FiniteSets

CONSTANTS
    Loggers,        \* the threads that log
    Handles,        \* the handles that may be made
    Sinks,          \* the sinks
    Console,        \* that of them which is a ConsoleSink
    Null,           \* nullptr, as a sink or a handle
    SinkLists,      \* what handles are made with: sequences of sinks, or Null,
    RangeLists,     \* and those that are made from a pair of iterators
    Levels,         \* the levels of messages and handles, of kTrace = 0 to kOff = 6
    MaxCalls,       \* bound: messages logged
    MaxInstalls,    \* bound: calls of SetLogHandle
    MaxSets         \* bound: calls of SetLogLevel

kInfo == 2

ASSUME FrontAssumption ==
    /\ Console \in Sinks /\ Null \notin Sinks \union Handles \union Loggers
    /\ SinkLists \union RangeLists \subseteq Seq(Sinks \union {Null})
    /\ kInfo \in Levels /\ Levels \subseteq 0..6
    /\ MaxCalls \in Nat /\ MaxInstalls \in Nat /\ MaxSets \in Nat

VARIABLES
    sinks_,         \* the sinks of each handle, for those that were made
    ranged,         \* history: the handles made from a range of sinks
    log_level_,     \* the level of each handle
    held,           \* the handles to which the application holds a reference
    log_handle_,    \* the handle that LogFactory keeps, or Null
    pc,             \* where each logger is
    handle,         \* the handle it got, or Null
    level,          \* the level of its message
    i,              \* the sinks of the handle it is done with
    out,            \* what each sink was given
    calls,          \* the messages so far; also names them
    call,           \* the message of each logger
    installs, sets, \* calls of SetLogHandle and SetLogLevel so far
    got,            \* history: installs when each logger first asked for its handle
    seen,           \* history: the levels its handle had since it got it
    result,         \* history: how its last call ended
    killer          \* history: the logger that got the process killed, or Null

heap    == <<sinks_, ranged, held, log_handle_, killer>>
loggers == <<pc, handle, level, i, call, got, result>>
vars == <<sinks_, ranged, log_level_, held, log_handle_, pc, handle, level, i, out, calls, call,
          installs, sets, got, seen, result, killer>>

Made == DOMAIN sinks_

\* Variant: the factory keeps a plain pointer.
AliveByApplication(h) == h \in Made /\ h \in held

\* A handle is destroyed with the last reference to it.
Alive(h) == h \in Made /\ (h \in held \/ h = log_handle_)

Piece == [by : Loggers, call : 1..MaxCalls, part : {"message", "newline"}]

TypeOK ==
    /\ Made \subseteq Handles /\ sinks_ \in [Made -> Seq(Sinks \union {Null})]
    /\ ranged \subseteq Made
    /\ log_level_ \in [Handles -> Levels]
    /\ held \subseteq Made
    /\ log_handle_ \in Made \union {Null}
    /\ pc \in [Loggers -> {"idle", "test", "get", "filter", "sink", "newline"}]
    /\ handle \in [Loggers -> Made \union {Null}]
    /\ level \in [Loggers -> Levels]
    /\ i \in [Loggers -> Nat]
    /\ out \in [Sinks -> Seq(Piece)]
    /\ calls \in 0..MaxCalls /\ call \in [Loggers -> 0..MaxCalls]
    /\ installs \in 0..MaxInstalls /\ sets \in 0..MaxSets
    /\ got \in [Loggers -> 0..MaxInstalls]
    /\ seen \in [Loggers -> SUBSET Levels]
    /\ result \in [Loggers -> {"none", "rejected", "logged", "thrown"}]
    /\ killer \in Loggers \union {Null}

Init ==
    /\ sinks_ = <<>>
    /\ ranged = {}
    /\ log_level_ = [h \in Handles |-> kInfo]
    /\ held = {}
    /\ log_handle_ = Null
    /\ pc = [t \in Loggers |-> "idle"]
    /\ handle = [t \in Loggers |-> Null]
    /\ level = [t \in Loggers |-> kInfo]
    /\ i = [t \in Loggers |-> 0]
    /\ out = [s \in Sinks |-> <<>>]
    /\ calls = 0 /\ call = [t \in Loggers |-> 0]
    /\ installs = 0 /\ sets = 0
    /\ got = [t \in Loggers |-> 0]
    /\ seen = [t \in Loggers |-> {}]
    /\ result = [t \in Loggers |-> "none"]
    /\ killer = Null

-----------------------------------------------------------------------------
(***************************************************************************)
(* The application.                                                        *)
(***************************************************************************)

\* The application gets a reference to a new handle.
Make(h, list) ==
    /\ h \notin Made
    /\ sinks_' = [g \in Made \union {h} |-> IF g = h THEN list ELSE sinks_[g]]
    /\ held' = held \union {h}
    /\ UNCHANGED <<log_level_, log_handle_, loggers, out, calls, installs, sets, seen, killer>>

\* Variant: null sinks are not refused.
ConstructAny(h, list) == Make(h, list) /\ UNCHANGED ranged

\* The constructors that take a sink, or a list in braces, throw if a sink is null, and
\* no handle is made.
Construct(h, list) == Null \notin ToSet(list) /\ Make(h, list) /\ UNCHANGED ranged

\* The one that takes a pair of iterators looks at nothing.
ConstructFromRange(h, list) == Make(h, list) /\ ranged' = ranged \union {h}

\* The application lets go of its reference.
Drop(h) ==
    /\ h \in held
    /\ held' = held \ {h}
    /\ UNCHANGED <<sinks_, ranged, log_level_, log_handle_, loggers, out, calls, installs, sets,
                   seen, killer>>

\* EXT_LOGGER_INIT: the factory takes a reference to the new handle, and lets go of
\* the one it had.
SetLogHandle(h) ==
    /\ h \in held \union {Null}
    /\ installs < MaxInstalls
    /\ installs' = installs + 1
    /\ log_handle_' = h
    /\ UNCHANGED <<sinks_, ranged, log_level_, held, loggers, out, calls, sets, seen, killer>>

SetLogLevel(h, l) ==
    /\ Alive(h)
    /\ sets < MaxSets
    /\ sets' = sets + 1
    /\ log_level_' = [log_level_ EXCEPT ![h] = l]
    /\ seen' = [t \in Loggers |-> IF handle[t] = h THEN seen[t] \union {l} ELSE seen[t]]
    /\ UNCHANGED <<heap, loggers, out, calls, installs>>

-----------------------------------------------------------------------------
(***************************************************************************)
(* A logger, in LOGGER_CALL.                                               *)
(***************************************************************************)

Move(t, from, to) == pc[t] = from /\ pc' = [pc EXCEPT ![t] = to]
Return(t, from, how) == Move(t, from, "idle") /\ result' = [result EXCEPT ![t] = how]

CallLog(t, l) ==
    /\ calls < MaxCalls
    /\ Move(t, "idle", "test")
    /\ calls' = calls + 1
    /\ call' = [call EXCEPT ![t] = calls + 1]
    /\ level' = [level EXCEPT ![t] = l]
    /\ handle' = [handle EXCEPT ![t] = Null]
    /\ result' = [result EXCEPT ![t] = "none"]
    /\ UNCHANGED <<heap, log_level_, i, out, installs, sets, got, seen>>

\* if (handle): the factory is asked, and the answer forgotten.
TestHandle(t) ==
    /\ \/ log_handle_ = Null /\ Return(t, "test", "rejected")
       \/ log_handle_ # Null /\ Move(t, "test", "get") /\ UNCHANGED result
    /\ got' = [got EXCEPT ![t] = installs]
    /\ UNCHANGED <<heap, log_level_, handle, level, i, out, calls, call, installs, sets, seen>>

\* (handle)->Log: it is asked again.
GetLogHandle(t) ==
    /\ Move(t, "get", "filter")
    /\ handle' = [handle EXCEPT ![t] = log_handle_]
    /\ seen' = [seen EXCEPT ![t] = IF log_handle_ = Null THEN {} ELSE {log_level_[log_handle_]}]
    /\ i' = [i EXCEPT ![t] = 0]
    /\ UNCHANGED <<heap, log_level_, level, out, calls, call, installs, sets, got, result>>

\* A logger can go on only in a handle that is there.
In(t) == handle[t] # Null /\ Alive(handle[t])

\* Variant: a message of the level of the handle is refused.
ShouldLogAbove(t) == level[t] > log_level_[handle[t]] /\ sinks_[handle[t]] # <<>>

ShouldLog(t) == level[t] >= log_level_[handle[t]] /\ sinks_[handle[t]] # <<>>

Filter(t) ==
    /\ In(t)
    /\ \/ ShouldLog(t) /\ Move(t, "filter", "sink") /\ UNCHANGED result
       \/ ~ShouldLog(t) /\ Return(t, "filter", "rejected")
    /\ UNCHANGED <<heap, log_level_, handle, level, i, out, calls, call, installs, sets,
                   got, seen>>

Write(t, s, part) ==
    out' = [out EXCEPT ![s] = Append(@, [by |-> t, call |-> call[t], part |-> part])]
Sink(t) == sinks_[handle[t]][i[t] + 1]

\* The loop ends after the last sink.
NextSink(t, from) ==
    /\ i' = [i EXCEPT ![t] = @ + 1]
    /\ IF i[t] + 1 = Len(sinks_[handle[t]])
       THEN Return(t, from, "logged")
       ELSE Move(t, from, "sink") /\ UNCHANGED result

\* A sink takes the message; the console has a newline to write after it.
GiveToSink(t) ==
    /\ In(t)
    /\ pc[t] = "sink" /\ Sink(t) # Null
    /\ Write(t, Sink(t), "message")
    /\ \/ Sink(t) # Console /\ NextSink(t, "sink")
       \/ Sink(t) = Console /\ Move(t, "sink", "newline") /\ UNCHANGED <<i, result>>
    /\ UNCHANGED <<heap, log_level_, handle, level, calls, call, installs, sets, got, seen>>

\* Variant: the newline is left to whoever writes next.
NoNewline(t) ==
    /\ In(t)
    /\ NextSink(t, "newline")
    /\ UNCHANGED <<heap, log_level_, handle, level, out, calls, call, installs, sets, got,
                   seen>>

WriteNewline(t) ==
    /\ In(t)
    /\ Write(t, Console, "newline")
    /\ NextSink(t, "newline")
    /\ UNCHANGED <<heap, log_level_, handle, level, calls, call, installs, sets, got, seen>>

\* A sink throws: the message goes to none of those that follow.  ConsoleSink::Log
\* catches what its formatter throws, and has written nothing then.
SinkThrows(t) ==
    /\ In(t)
    /\ pc[t] = "sink" /\ Sink(t) # Null
    /\ \/ Sink(t) # Console /\ Return(t, "sink", "thrown") /\ UNCHANGED i
       \/ Sink(t) = Console /\ NextSink(t, "sink")
    /\ UNCHANGED <<heap, log_level_, handle, level, out, calls, call, installs, sets, got,
                   seen>>

\* A null sink is called: the process is killed.
NullSink(t) ==
    /\ In(t)
    /\ pc[t] = "sink" /\ Sink(t) = Null
    /\ killer' = t
    /\ UNCHANGED <<sinks_, ranged, held, log_handle_, log_level_, loggers, out, calls,
                   installs, sets, seen>>

LoggerStep(t) ==
    \/ TestHandle(t) \/ GetLogHandle(t) \/ Filter(t)
    \/ GiveToSink(t) \/ WriteNewline(t) \/ SinkThrows(t) \/ NullSink(t)

Act ==
    \/ \E h \in Handles :
        \/ \E list \in SinkLists : Construct(h, list)
        \/ \E list \in RangeLists : ConstructFromRange(h, list)
        \/ Drop(h)
        \/ \E l \in Levels : SetLogLevel(h, l)
    \/ \E h \in Handles \union {Null} : SetLogHandle(h)
    \/ \E t \in Loggers : LoggerStep(t) \/ \E l \in Levels : CallLog(t, l)

Next == killer = Null /\ Act

Spec == Init /\ [][Next]_vars

-----------------------------------------------------------------------------
(***************************************************************************)
(* Properties.                                                             *)
(***************************************************************************)

\* The handle that LogFactory keeps lives, whatever references the application
\* drops: a logger finds itself with no handle, or in one that was destroyed, only
\* if SetLogHandle was called since the macro first asked for it.
HandleOutlivesUse ==
    \A t \in Loggers :
        pc[t] \in {"filter", "sink", "newline"} => In(t) \/ installs > got[t]

\* How often a sink was given the message of a logger, and is among the first n of a list.
Given(t, s) == Cardinality({k \in DOMAIN out[s] : out[s][k].call = call[t]
                                                 /\ out[s][k].part = "message"})
Listed(list, n, s) == Cardinality({k \in 1..n : list[k] = s})

\* How the last call of a logger ended.
Outcome(t) ==
    pc[t] = "idle" /\ call[t] # 0 =>
        /\ result[t] = "rejected" =>
              /\ \A s \in Sinks : Given(t, s) = 0
              /\ \/ handle[t] = Null \/ sinks_[handle[t]] = <<>>
                 \/ \E l \in seen[t] : level[t] < l
        /\ result[t] \in {"logged", "thrown"} =>
              LET list == sinks_[handle[t]]
                  due == IF result[t] = "logged" THEN Len(list) ELSE i[t]
              IN  /\ \E l \in seen[t] : level[t] >= l
                  /\ \A s \in Sinks \ {Console} : Given(t, s) = Listed(list, due, s)
                  /\ Given(t, Console) <= Listed(list, due, Console)

\* A message is given to each sink of one handle as often as it is listed there, or
\* to no sink at all, and some level that this handle had during the call decides
\* which.  If a sink throws, to those before it and to no other.  (The console gives
\* up a message that cannot be formatted.)
AllOrNone == \A t \in Loggers : Outcome(t)

\* On the console, in what one thread wrote, each message has its newline before the
\* next message, whoever writes in between.
ThreadLines ==
    LET text == out[Console] IN
    \A k \in DOMAIN text : text[k].part = "message" =>
        \/ /\ pc[text[k].by] = "newline"
           /\ \A j \in (k + 1)..Len(text) : text[j].by # text[k].by
        \/ \E j \in (k + 1)..Len(text) :
              /\ text[j] = [text[k] EXCEPT !.part = "newline"]
              /\ \A n \in (k + 1)..(j - 1) : text[n].by # text[k].by

-----------------------------------------------------------------------------
(***************************************************************************)
(* The inductive invariant: why these hold.                                *)
(***************************************************************************)

InCall == {"filter", "sink", "newline"}

\* The handle a logger was given is the installed one until the next SetLogHandle.
Installed(t) ==
    /\ got[t] <= installs
    /\ pc[t] \in {"get"} \union InCall /\ got[t] = installs => log_handle_ # Null
    /\ pc[t] \in InCall /\ got[t] = installs => handle[t] = log_handle_

\* The level the handle has is one of those it had during the call.
LevelSeen(t) == pc[t] \in InCall /\ handle[t] # Null => log_level_[handle[t]] \in seen[t]

\* How far a logger is with the sinks, and what it gave them.
Progress(t) ==
    LET list == sinks_[handle[t]] IN
    /\ pc[t] \in {"test", "get"} => handle[t] = Null
    /\ pc[t] \in {"test", "get", "filter"} => \A s \in Sinks : Given(t, s) = 0
    /\ pc[t] = "filter" => i[t] = 0
    /\ pc[t] \in {"sink", "newline"} =>
          /\ handle[t] # Null
          /\ i[t] < Len(list)
          /\ \E l \in seen[t] : level[t] >= l
          /\ \A s \in Sinks \ {Console} : Given(t, s) = Listed(list, i[t], s)
    /\ pc[t] = "sink" => Given(t, Console) <= Listed(list, i[t], Console)
    /\ pc[t] = "newline" =>
          /\ list[i[t] + 1] = Console
          /\ Given(t, Console) <= Listed(list, i[t], Console) + 1

\* What is kept of a call that is over.
Over(t) ==
    pc[t] = "idle" =>
        /\ call[t] = 0 => result[t] = "none"
        /\ result[t] \in {"logged", "thrown"} => handle[t] # Null

\* A message has a number of its own, and one writer.
Numbered ==
    /\ \A t \in Loggers : call[t] <= calls /\ (pc[t] # "idle" => call[t] # 0)
    /\ \A t, u \in Loggers : call[t] = call[u] /\ call[t] # 0 => t = u
    /\ \A s \in Sinks : \A k \in DOMAIN out[s] :
          /\ out[s][k].call <= calls
          /\ \A t \in Loggers : out[s][k].call = call[t] => out[s][k].by = t

\* The last message of a thread that is about to write its newline is the one it logs.
LastMessage ==
    LET text == out[Console] IN
    \A k \in DOMAIN text :
        /\ text[k].part = "message" /\ pc[text[k].by] = "newline"
        /\ \A j \in (k + 1)..Len(text) : text[j].by # text[k].by
        => text[k].call = call[text[k].by]

\* What the steps of one logger and the application preserve.
FrontInv ==
    /\ TypeOK /\ Numbered /\ LastMessage /\ ThreadLines
    /\ \A t \in Loggers : Installed(t) /\ LevelSeen(t) /\ Progress(t) /\ Over(t) /\ Outcome(t)

\* A null sink is in a handle only if that was made from a range, and only a logger
\* that has come to one gets the process killed.
NullSinks ==
    /\ \A h \in Made \ ranged : Null \notin ToSet(sinks_[h])
    /\ killer # Null =>
          /\ pc[killer] = "sink" /\ handle[killer] \in ranged
          /\ Sink(killer) = Null

IInv == FrontInv /\ NullSinks
=============================================================================
