------------------------------- MODULE LogFiles -------------------------------
(***************************************************************************)
(* The log files of logger::EffectiveSink (mylogger/sinks/                 *)
(* effective_sink.cpp): GetFilePath_ names the file each chunk goes to and *)
(* rolls over when it is too long, ElimateFiles_ removes the oldest files  *)
(* when all of them are too long together.                                 *)
(*                                                                         *)
(* Both run on the sink's runner, so each is a step.  A file's name is the *)
(* second it was named in and an index, None if it has none; the directory *)
(* and the prefix are the same for all.  Files are kept in the order they  *)
(* were last written in, no two at the same instant, and the clock is not  *)
(* set back.  A file may resist its removal: remove returns false, which   *)
(* is reported and no more, or it throws, which nothing catches on the     *)
(* runner: the process dies.                                               *)
(***************************************************************************)
EXTENDS Integers, Sequences, SequencesExt, SpaceUnits

CONSTANTS
    single_file_size_, total_files_sizes_,  \* Conf: counts of megabytes
    Chunks,         \* lengths of the chunks written, their header included
    MaxTime,        \* bound: seconds
    MaxWrites       \* bound: chunks written

ASSUME FilesAssumption ==
    /\ single_file_size_ \in Nat /\ total_files_sizes_ \in Nat
    /\ total_files_sizes_ * KB * KB < RepRange
    /\ Chunks \subseteq Nat \ {0}
    /\ MaxTime \in Nat /\ MaxWrites \in Nat

VARIABLES
    now,            \* the clock, in seconds
    files,          \* the log files, the last written last
    log_file_path,  \* log_file_path_, or NoPath
    writes,         \* chunks written so far
    last,           \* history: the last operation
    refused         \* history: the names that ElimateFiles_, the last operation, could
                    \* not remove

vars == <<now, files, log_file_path, writes, last, refused>>

\* The limits in bytes.
Single == space_cast(bytes, space(megabytes, single_file_size_)).count
Total == space_cast(bytes, space(megabytes, total_files_sizes_)).count

None == -1
NoPath == <<>>
Name == Nat \X {None, 0}

TypeOK ==
    /\ now \in 0..MaxTime
    /\ files \in Seq([name : Name, size : Nat])
    /\ \A i, j \in DOMAIN files : i # j => files[i].name # files[j].name
    /\ log_file_path \in Name \union {NoPath}
    /\ writes \in 0..MaxWrites
    /\ last \in {"start", "write", "eliminate", "died", "tick"}
    /\ refused \subseteq Name

Init ==
    /\ now = 0
    /\ files = <<>>
    /\ log_file_path = NoPath
    /\ writes = 0
    /\ last = "start"
    /\ refused = {}

Named(name) == {i \in DOMAIN files : files[i].name = name}
Exists(name) == Named(name) # {}
Place(name) == CHOOSE i \in Named(name) : TRUE

\* fs::GetFileSize gives 0 for a file that is not there.
SizeOf(name) == IF Exists(name) THEN files[Place(name)].size ELSE 0

\* The name for the current second.  The index is the number of file names in
\* which the path, with its directory, is found: no file name holds a directory.
PathOfNow == IF Exists(<<now, None>>) THEN <<now, 0>> ELSE <<now, None>>

\* Variant: a file is given up only when it is longer than all may be together.
RollOverAtTotal == log_file_path # NoPath /\ SizeOf(log_file_path) > Total

RollOver == log_file_path # NoPath /\ SizeOf(log_file_path) > Single

GetFilePath ==
    IF log_file_path = NoPath THEN <<now, None>>
    ELSE IF RollOver THEN PathOfNow ELSE log_file_path

\* The directory after n bytes are appended to a file, which is made if need be.
Appended(name, n) ==
    Append(IF Exists(name) THEN RemoveAt(files, Place(name)) ELSE files,
           [name |-> name, size |-> SizeOf(name) + n])

-----------------------------------------------------------------------------

\* CacheToFile_ writes a chunk, or cannot open the file it has named.
WriteChunk(n) ==
    /\ writes < MaxWrites
    /\ writes' = writes + 1
    /\ log_file_path' = GetFilePath
    /\ last' = "write" /\ refused' = {}
    /\ files' \in {Appended(GetFilePath, n), files}
    /\ UNCHANGED now

\* Variant: the file that goes over the limit stays.
CountLate(f, how, acc) ==
    LET over == acc.used > Total /\ ~acc.thrown IN
    [used |-> acc.used + f.size,
     kept |-> IF over /\ how = "removed" THEN acc.kept ELSE <<f>> \o acc.kept,
     thrown |-> acc.thrown \/ (over /\ how = "thrown")]

\* Variant: what is removed is not counted.
CountKept(f, how, acc) ==
    LET over == acc.used + f.size > Total /\ ~acc.thrown IN
    [used |-> IF over /\ how = "removed" THEN acc.used ELSE acc.used + f.size,
     kept |-> IF over /\ how = "removed" THEN acc.kept ELSE <<f>> \o acc.kept,
     thrown |-> acc.thrown \/ (over /\ how = "thrown")]

\* The loop of ElimateFiles_, from the file last written to the first, after each
\* of its turns: what has been added up, the files that stay, and whether a removal
\* has thrown, which ends it.
Outcomes == {"removed", "refused", "thrown"}

Count(f, how, acc) ==
    LET used == acc.used + f.size
        over == used > Total /\ ~acc.thrown
    IN  [used |-> used,
         kept |-> IF over /\ how = "removed" THEN acc.kept ELSE <<f>> \o acc.kept,
         thrown |-> acc.thrown \/ (over /\ how = "thrown")]

Turns(s, how) ==
    LET turn[k \in 0..Len(s)] ==
            IF k = 0 THEN [used |-> 0, kept |-> <<>>, thrown |-> FALSE]
            ELSE Count(s[Len(s) + 1 - k], how[Len(s) + 1 - k], turn[k - 1])
    IN  turn

NamesOf(at) == {files[i].name : i \in at}

\* how: what the removal of each file comes to, if it is tried.
ElimateFiles(how) ==
    LET end == Turns(files, how)[Len(files)] IN
    /\ files' = end.kept
    /\ refused' = NamesOf({i \in DOMAIN files : how[i] = "refused"})
    /\ last' = IF end.thrown THEN "died" ELSE "eliminate"
    /\ log_file_path' = IF end.thrown THEN NoPath ELSE log_file_path
    /\ UNCHANGED <<now, writes>>

\* A new sink in the same directory knows no path.
Restart ==
    /\ log_file_path' = NoPath
    /\ last' = "start" /\ refused' = {}
    /\ UNCHANGED <<now, files, writes>>

Tick ==
    /\ now < MaxTime
    /\ now' = now + 1
    /\ last' = "tick" /\ refused' = {}
    /\ UNCHANGED <<files, log_file_path, writes>>

Next ==
    \/ \E how \in [DOMAIN files -> Outcomes] : ElimateFiles(how)
    \/ Restart \/ Tick
    \/ \E n \in Chunks : WriteChunk(n)

Spec == Init /\ [][Next]_vars

-----------------------------------------------------------------------------
(***************************************************************************)
(* Properties.                                                             *)
(***************************************************************************)

\* The bytes of the last k files, for every k, and of all.
Sums(s) ==
    LET sum[k \in 0..Len(s)] == IF k = 0 THEN 0 ELSE s[Len(s) + 1 - k].size + sum[k - 1]
    IN  sum
Bytes(s) == Sums(s)[Len(s)]

\* After ElimateFiles_ the log files together keep to total_files_sizes_, but for the
\* oldest, if none of these could be removed.
TotalBounded ==
    last = "eliminate" =>
        \E k \in 0..Len(files) :
            /\ \A i \in 1..k : files[i].name \in refused
            /\ Bytes(SubSeq(files, k + 1, Len(files))) <= total_files_sizes_ * KB * KB

\* The i-th file is removed.
Lost(i) == \A k \in DOMAIN files' : files'[k].name # files[i].name

OldestFirst ==
    \A i \in DOMAIN files : Lost(i) =>
        /\ Bytes(SubSeq(files, i, Len(files))) > Total
        /\ last' = "died" \/ \A j \in 1..(i - 1) : Lost(j) \/ files[j].name \in refused'

\* A file is removed only if it would not fit with those written after it; and a file
\* that was written before it stays only if it could not be removed, or a removal
\* has thrown.
OldestRemoved == [][OldestFirst]_vars

\* Log files follow each other: a chunk goes to a file named no earlier than any other,
\* and to one that is over the limit already only in the second it was named in.  (In
\* that second it does: the index is always 0, so that a second roll-over, and a new
\* sink, end at the name they came from.)
RollOverInTurn ==
    [][writes' # writes /\ files' # files =>
         LET name == log_file_path' IN
         /\ \A i \in DOMAIN files : files[i].name[1] <= name[1]
         /\ SizeOf(name) > Single => name[1] = now]_vars

\* The sizes that the limits are reckoned in compare, add up and divide as the
\* lengths in bytes they stand for, whatever their units.  This, as the two below,
\* is a law of SpaceUnits, and is looked at before anything is written.
SizesCompare == files = <<>> => LengthsCompare

\* A limit given in a coarse unit loses nothing in bytes, one given in bytes less
\* than a unit of what it is cast to.
CastTruncates == files = <<>> => LengthsKept

\* The members of space agree with the operators on mixed units, but for -=, which
\* takes off whole units.
MembersAgree == files = <<>> => LengthsAddUp
=============================================================================
