----------------------------- MODULE EffectiveMsg -----------------------------
(***************************************************************************)
(* EffectiveMsg (mylogger/proto/effective_msg.proto and the code generated *)
(* from it, effective_msg.pb.cc): the message that logger::EffectiveFormat-*)
(* ter (formatter/effective_formatter.cpp) makes of a log, and the fields  *)
(* it is sent as.  A wire is the sequence of its fields, each the name and *)
(* the value; the encoding of a field in bytes is left out.                *)
(***************************************************************************)
EXTENDS Integers, Sequences, FiniteSets, SequencesExt

CONSTANTS
    NotUtf8,        \* the texts that are not valid UTF-8
    NoText,         \* the empty string
    Failure         \* what stands for a message when there is none

ASSUME TextAssumption == NoText \notin NotUtf8

Numbers == {"level", "timestamp", "pid", "tid", "line"}
Strings == {"file_name", "func_name", "log_info"}
Fields == Numbers \union Strings

\* The order in which fields are written.
FieldOrder == <<"level", "timestamp", "pid", "tid", "line", "file_name", "func_name", "log_info">>

Default(f) == IF f \in Strings THEN NoText ELSE 0
EmptyMsg == [f \in Fields |-> Default(f)]

\* The setters: a number is stored, a string copied into the one that is there.
SetNumber(msg, f, value) == [msg EXCEPT ![f] = value]
SetString(msg, f, text) == [msg EXCEPT ![f] = text]
Set(msg, f, value) == IF f \in Strings THEN SetString(msg, f, value) ELSE SetNumber(msg, f, value)

\* EffectiveFormatter::Format, up to the message: the clock is read in microseconds.
Message(level, now, pid, tid, line, file_name, func_name, log_info) ==
    [level |-> level, timestamp |-> now, pid |-> pid, tid |-> tid, line |-> line,
     file_name |-> file_name, func_name |-> func_name, log_info |-> log_info]

\* The fields that do not have their default value: the others are neither written,
\* counted nor merged.
Present(msg) == {f \in Fields : msg[f] # Default(f)}

\* Text that is not UTF-8 is only reported.
Serialize(msg) ==
    LET upTo[n \in 0..Len(FieldOrder)] ==
            IF n = 0 THEN <<>>
            ELSE IF FieldOrder[n] \in Present(msg)
                 THEN Append(upTo[n - 1], [field |-> FieldOrder[n], value |-> msg[FieldOrder[n]]])
                 ELSE upTo[n - 1]
    IN  upTo[Len(FieldOrder)]

\* The length of the wire, told without writing it.
ByteSizeLong(msg) == Cardinality(Present(msg))

\* EffectiveFormatter::Format, from the message: the buffer is given the length told,
\* and serializing into it fails when more is to be written.
FormatMsg(msg) == IF Len(Serialize(msg)) > ByteSizeLong(msg) THEN Failure ELSE Serialize(msg)

MergeFrom(msg, from) == [f \in Fields |-> IF f \in Present(from) THEN from[f] ELSE msg[f]]

\* CopyFrom clears the message first.
CopyFrom(msg, from) == MergeFrom(EmptyMsg, from)

\* The copy constructor takes all the numbers, and the strings that are not empty.
Copied(from) ==
    [f \in Fields |-> IF f \in Numbers \/ f \in Present(from) THEN from[f] ELSE Default(f)]

\* Variant: text is taken as it is.
ParseAnyText(acc, w) ==
    IF acc = Failure \/ w.field = "end" THEN Failure
    ELSE IF w.field \notin Fields THEN acc
    ELSE Set(acc, w.field, w.value)

\* One turn of the loop of _InternalParse: fields that are not known are set aside,
\* an end where none should be is a failure, as is text that is not UTF-8.
ParseField(acc, w) ==
    IF acc = Failure \/ w.field = "end" THEN Failure
    ELSE IF w.field \notin Fields THEN acc
    ELSE IF w.field \in Strings /\ w.value \in NotUtf8 THEN Failure
    ELSE Set(acc, w.field, w.value)

Parse(wire) ==
    LET upTo[n \in 0..Len(wire)] == IF n = 0 THEN EmptyMsg ELSE ParseField(upTo[n - 1], wire[n])
    IN  upTo[Len(wire)]
=============================================================================
