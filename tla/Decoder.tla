------------------------------- MODULE Decoder -------------------------------
(***************************************************************************)
(* The decoder (decode/decode.cpp), a program of its own: reads a log      *)
(* file, chunk after chunk, and appends the text of each to a file.        *)
(*                                                                         *)
(* A log file is a sequence of units: the header of a chunk, the header of *)
(* an item, the body of an item, or bytes that are none of these.  A body  *)
(* is known by the key it is encrypted under and by the frame it holds;    *)
(* sizes count units.  Decrypting under another key, and decompressing     *)
(* what is not a whole frame, throw or give nothing.                       *)
(***************************************************************************)
EXTENDS EffectiveMsg, DecodeFormatter

CONSTANTS
    Pattern         \* what main gives SetPattern

ChunkHeader(size, key) == [kind |-> "chunk", size |-> size, key |-> key]
ItemHeader == [kind |-> "item"]
Body(frame, key) == [kind |-> "body", frame |-> frame, key |-> key]
Rubbish == [kind |-> "rubbish"]

\* A frame that cannot be decompressed, or holds no message.
NoFrame == <<>>

\* SetPattern
flag_formatters == CompilePattern(Pattern)

\* Decrypt, Decompress, ParseFromString and Format, each of which may end it.
DecodeLogItemData(unit, key) ==
    IF unit.kind # "body" \/ unit.key # key \/ unit.frame = NoFrame THEN Failure
    ELSE LET msg == Parse(unit.frame)
         IN  IF msg = Failure THEN Failure ELSE Format(flag_formatters, msg)

\* Variant: the texts before the one that fails are kept.
ChunkDataKept(data, key) ==
    LET texts == [i \in 1..(Len(data) \div 2) |-> DecodeLogItemData(data[2 * i], key)]
    IN  SelectSeq(texts, LAMBDA t : t # Failure)

\* The texts of the items of a chunk: one that fails takes those before it along,
\* for they are still in output.
DecodeLogChunkData(data, key) ==
    LET texts == [i \in 1..(Len(data) \div 2) |-> DecodeLogItemData(data[2 * i], key)]
    IN  IF /\ Len(data) % 2 = 0
           /\ \A i \in DOMAIN texts : data[2 * i - 1] = ItemHeader /\ texts[i] # Failure
        THEN texts ELSE Failure

\* A header, and after it as many units as it says.
WholeChunk(file, at) ==
    /\ file[at].kind = "chunk"
    /\ at + file[at].size <= Len(file)

\* The output file with the texts of a chunk, and what later chunks append to it.
AppendDataToFile(texts, later) == texts \o later

\* The texts appended to the output file: a chunk that fails ends the program.
DecodeLogFile(file) ==
    LET from[at \in 1..(Len(file) + 1)] ==
            IF at > Len(file) \/ ~WholeChunk(file, at) THEN <<>>
            ELSE LET next  == at + file[at].size
                     texts == DecodeLogChunkData(SubSeq(file, at + 1, next), file[at].key)
                 IN  IF texts = Failure THEN <<>> ELSE AppendDataToFile(texts, from[next + 1])
    IN  from[1]
=============================================================================
