----------------------------- MODULE SinkDecoded -----------------------------
(***************************************************************************)
(* What the decoder reads of what the effective sink writes: the log files *)
(* of EffectiveSink, each given to DecodeLogFile, which is run for one at  *)
(* a time.  The laws of what an item goes through in between are stated    *)
(* here too.                                                               *)
(***************************************************************************)
EXTENDS EffectiveSink, Decoder, Compression

CONSTANTS
    Info(_),        \* the text that each item logs
    Patterns,       \* patterns, contents and messages for the laws
    Contents,
    Messages

\* What patterns are made of, and what the fields of messages hold.
Characters == UNION {Range(p) : p \in Patterns}
Values == Int \union STRING

ASSUME LawsAssumption ==
    /\ Patterns \subseteq Seq(Characters)
    /\ Contents \subseteq Seq(Nat)
    /\ \A m \in Messages : /\ DOMAIN m = Fields /\ m = [f \in Fields |-> m[f]]
                           /\ \A f \in Numbers : m[f] \in Int
                           /\ \A f \in Strings : m[f] \in STRING
    /\ NoText \in STRING
    /\ Failure \notin [Fields -> Values]

\* The message of each item, and the frame that EffectiveSink::Log makes of it.
MessageOf == [i \in 1..MaxLogs |-> Message(2, i, 7, 8, i, "file", "func", Info(i))]
Frames == [i \in 1..MaxLogs |-> FormatMsg(MessageOf[i])]
Frame(i) == IF i \in damaged THEN NoFrame ELSE Frames[i]

\* The text of each item, as the decoder formats it.
TextOf(i) == Format(flag_formatters, MessageOf[i])
Texts == {TextOf(i) : i \in 1..MaxLogs}

\* Paths and names of functions are UTF-8; and there is a text if there is one.
ASSUME TextsAssumption ==
    /\ \A i \in 1..MaxLogs : Info(i) \in STRING
    /\ {"file", "func"} \subseteq STRING \ NotUtf8
    /\ Failure \notin Texts
    /\ Failure \notin Seq(Texts)

Unit(piece) ==
    CASE piece.part = "head"  -> ItemHeader
      [] piece.part = "body"  -> Body(Frame(piece.item), piece.key)
      [] piece.part = "rest"  -> Rubbish

\* A log file of these chunks, as the decoder finds it.
Units(chunks) ==
    FlattenSeq([k \in DOMAIN chunks |->
                   <<ChunkHeader(chunks[k].size, chunks[k].key)>>
                   \o [i \in DOMAIN chunks[k].data |-> Unit(chunks[k].data[i])]])

-----------------------------------------------------------------------------
(***************************************************************************)
(* Properties.                                                             *)
(***************************************************************************)

\* The items of a chunk, in order.
Bodies(chunk) ==
    LET upTo[n \in 0..Len(chunk.data)] ==
            IF n = 0 THEN <<>>
            ELSE IF chunk.data[n].part = "body" THEN Append(upTo[n - 1], chunk.data[n].item)
            ELSE upTo[n - 1]
    IN  upTo[Len(chunk.data)]

\* A chunk is spoilt by a write cut short; by bytes that end within a piece or behind
\* the last, as they may when the caches change roles between the count and the write;
\* by a header without its body, left alone in a cache by a crash or counted while its
\* body is not yet pushed, for the same reason; by items under the key of an earlier
\* sink, damaged frames and text that is not UTF-8.
Spoilt(chunk) ==
    \/ Len(chunk.data) < chunk.size
    \/ \E i \in DOMAIN chunk.data :
          LET p == chunk.data[i] IN
          \/ p.part = "rest"
          \/ p.part = "head" /\ (i = chunk.size \/ chunk.data[i + 1].part # "body")
          \/ p.part = "body" /\ (\/ p.key # chunk.key
                                 \/ p.item \in damaged
                                 \/ Info(p.item) \in NotUtf8)

TextsOf(chunks) ==
    FlattenSeq([k \in DOMAIN chunks |->
                   LET b == Bodies(chunks[k]) IN [i \in DOMAIN b |-> TextOf(b[i])]])

\* The decoder gives the text of every item of a file's chunks before the first that
\* is spoilt, as it was logged and in the order of writing, and nothing of the others:
\* one item spoilt costs its chunk and all that was ever written to the file after it.
ReadUpToSpoilt ==
    [][\A f \in LogNames : disk'[f] # disk[f] =>
          \E n \in 0..Len(disk'[f]) :
             /\ \A k \in 1..n : ~Spoilt(disk'[f][k])
             /\ n < Len(disk'[f]) => Spoilt(disk'[f][n + 1])
             /\ DecodeLogFile(Units(disk'[f])) = TextsOf(SubSeq(disk'[f], 1, n))]_vars

-----------------------------------------------------------------------------
(***************************************************************************)
(* The laws.  They are the same in every state; the runs look at them in   *)
(* the state in which no sink was ever made.                               *)
(***************************************************************************)

\* The patterns, messages and contents that break each law.
PatternsAstray ==
    {p \in Patterns : \E m \in Messages :
        Format(CompilePattern(p), m)
            # Append(IF p = <<>> THEN CombineLogMsg(m) ELSE Meaning(p, m), Char("\n"))}

Sendable(m) == \A f \in Strings : m[f] \notin NotUtf8

MessagesAstray ==
    {m \in Messages :
        \/ Parse(FormatMsg(m)) # IF Sendable(m) THEN m ELSE Failure
        \/ Copied(m) # m
        \/ \E n \in Messages : CopyFrom(n, m) # m
        \/ \E n \in Messages :
              /\ Sendable(m) /\ Sendable(n)
              /\ Parse(FormatMsg(m) \o FormatMsg(n)) # MergeFrom(m, n)}

ContentsAstray ==
    {c \in Contents :
        ZlibDecompress(ZlibCompress(c)) # Bytes(c) \/ ZstdDecompress(ZstdCompress(c)) # Bytes(c)}

\* A compiled pattern formats a message as the pattern reads.
PatternFaithful == session = 0 => PatternsAstray = {}

\* A message comes back unchanged from what the formatter writes into a buffer of the
\* length told beforehand, whichever fields have their default value, unless a text is
\* not UTF-8: then it does not come back.  Two written one after the other come back
\* merged, and a copy is the message itself, whatever it is copied over.
ParseInverse == session = 0 => MessagesAstray = {}

\* Decompressing stops when the input is used up, and still gives the whole content,
\* wherever the buffers end.
DecompressWhole == session = 0 => ContentsAstray = {}
=============================================================================
