---------------------------- MODULE DecodeFormatter ----------------------------
(***************************************************************************)
(* logger::DecodeFormatter (decode/decode_formatter.cpp): a pattern such   *)
(* as [%l][%D:%S]%v is compiled into formatters, which the decoder applies *)
(* to every message.  A pattern is a sequence of characters; output is a   *)
(* sequence of pieces: a character, a number, a date, a text.              *)
(***************************************************************************)
EXTENDS Integers, Sequences, SequencesExt

Flags == {"l", "D", "S", "M", "p", "t", "F", "f", "#", "v"}

Char(c) == <<"char", c>>
Chars(s) == [k \in DOMAIN s |-> Char(s[k])]
Number(n) == <<"number", n>>
Text(t) == <<"text", t>>

\* GetLogLevelStr
LevelLetter(level) ==
    IF level \in 0..5 THEN <<"V", "D", "I", "W", "E", "F">>[level + 1] ELSE "U"

\* The date and time of day of a count of milliseconds: told by the second.
DateString(milliseconds) == <<"date", milliseconds \div 1000>>

\* An AggregateFormatter holds characters, the others are told by their flag.
Aggregate(s) == [flag |-> "chars", str |-> s]

\* Variant: the % before an unknown flag is dropped.
HandleFlagDropped(c) == IF c \in Flags THEN [flag |-> c, str |-> <<>>] ELSE Aggregate(<<c>>)

\* A flag that is not known stands for itself.
HandleFlag(c) == IF c \in Flags THEN [flag |-> c, str |-> <<>>] ELSE Aggregate(<<"%", c>>)

\* The characters collected so far become a formatter.
PushNormal(acc) ==
    IF acc.normal = <<>> THEN acc.out ELSE Append(acc.out, Aggregate(acc.normal))

\* One character of the pattern.
Scan(acc, c) ==
    IF acc.percent
    THEN [out |-> Append(acc.out, IF c = "%" THEN Aggregate(<<"%">>) ELSE HandleFlag(c)),
          normal |-> <<>>, percent |-> FALSE]
    ELSE IF c = "%"
    THEN [out |-> PushNormal(acc), normal |-> <<>>, percent |-> TRUE]
    ELSE [acc EXCEPT !.normal = Append(@, c)]

\* A % at the end stands for itself.
CompilePattern(pattern) ==
    LET upTo[n \in 0..Len(pattern)] ==
            IF n = 0 THEN [out |-> <<>>, normal |-> <<>>, percent |-> FALSE]
            ELSE Scan(upTo[n - 1], pattern[n])
        end == upTo[Len(pattern)]
    IN  IF end.percent THEN Append(end.out, Aggregate(<<"%">>)) ELSE PushNormal(end)

\* What a formatter appends for a message; FlagFormatter::Format of each class.
Formatted(formatter, msg) ==
    CASE formatter.flag = "l" -> <<Char(LevelLetter(msg.level))>>
      [] formatter.flag = "D" -> <<DateString(msg.timestamp)>>
      [] formatter.flag = "S" -> <<Number(msg.timestamp \div 1000)>>
      [] formatter.flag = "M" -> <<Number(msg.timestamp)>>
      [] formatter.flag = "p" -> <<Number(msg.pid)>>
      [] formatter.flag = "t" -> <<Number(msg.tid)>>
      [] formatter.flag = "F" -> <<Text(msg.file_name)>>
      [] formatter.flag = "f" -> <<Text(msg.func_name)>>
      [] formatter.flag = "#" -> <<Number(msg.line)>>
      [] formatter.flag = "v" -> <<Text(msg.log_info)>>
      [] formatter.flag = "chars" -> Chars(formatter.str)

\* The default: [%d][%lld][%d:%d][%s:%s:%d] and the text.
CombineLogMsg(msg) ==
    <<Char("["), Number(msg.level), Char("]"), Char("["), Number(msg.timestamp), Char("]"),
      Char("["), Number(msg.pid), Char(":"), Number(msg.tid), Char("]"),
      Char("["), Text(msg.file_name), Char(":"), Text(msg.func_name), Char(":"),
      Number(msg.line), Char("]"), Text(msg.log_info)>>

Format(formatters, msg) ==
    Append(IF formatters = <<>> THEN CombineLogMsg(msg)
           ELSE FlattenSeq([k \in DOMAIN formatters |-> Formatted(formatters[k], msg)]),
           Char("\n"))

-----------------------------------------------------------------------------
(***************************************************************************)
(* What a pattern means, read from the left.                               *)
(***************************************************************************)

Meaning(pattern, msg) ==
    LET from[k \in 1..(Len(pattern) + 1)] ==
            IF k > Len(pattern) THEN <<>>
            ELSE IF pattern[k] # "%" THEN <<Char(pattern[k])>> \o from[k + 1]
            ELSE IF k = Len(pattern) THEN <<Char("%")>>
            ELSE IF pattern[k + 1] \in Flags
                 THEN Formatted(HandleFlag(pattern[k + 1]), msg) \o from[k + 2]
            ELSE IF pattern[k + 1] = "%" THEN <<Char("%")>> \o from[k + 2]
            ELSE <<Char("%"), Char(pattern[k + 1])>> \o from[k + 2]
    IN  from[1]
=============================================================================
