------------------------------ MODULE Compression ------------------------------
(***************************************************************************)
(* logger::compress::ZstdCompress and ZlibCompress (mylogger/compress/     *)
(* zstd_compress.cpp, zlib_compress.cpp): how they call the streaming      *)
(* interfaces of zstd and zlib on buffers.                                 *)
(*                                                                         *)
(* Content is known by the lengths of what the symbols of the compressed   *)
(* stream stand for; a compressed stream is the sequence of its symbols.   *)
(* The libraries read a symbol as soon as nothing of the last one waits,   *)
(* and keep what does not fit in the output buffer for the next call.      *)
(***************************************************************************)
EXTENDS Integers, Sequences

CONSTANTS
    Buffer          \* 4096 bytes in ZlibCompress, 10 KB in ZstdCompress

ASSUME CompressionAssumption == Buffer \in Nat \ {0}

Bytes(symbols) ==
    LET upTo[n \in 0..Len(symbols)] == IF n = 0 THEN 0 ELSE upTo[n - 1] + symbols[n]
    IN  upTo[Len(symbols)]

\* The state of a stream: the input not yet read, what waits for room in the
\* output, the output so far, and the room left in the buffer.
Stream == [input : Seq(Nat), waiting : Nat, output : Nat, room : Nat]

Emit(st, n) ==
    LET k == IF n <= st.room THEN n ELSE st.room
    IN  [st EXCEPT !.waiting = n - k, !.output = @ + k, !.room = @ - k]

Take(st, symbol) ==
    IF st.waiting > 0 THEN [st EXCEPT !.input = Append(@, symbol)] ELSE Emit(st, symbol)

\* inflate, ZSTD_decompressStream: one call.
Decode(st) ==
    LET upTo[n \in 0..Len(st.input)] ==
            IF n = 0 THEN Emit([st EXCEPT !.input = <<>>], st.waiting)
            ELSE Take(upTo[n - 1], st.input[n])
    IN  upTo[Len(st.input)]

\* The session of a stream that is reset.
Reset == [input |-> <<>>, waiting |-> 0, output |-> 0, room |-> 0]
Start(symbols, room) == [Reset EXCEPT !.input = symbols, !.room = room]

-----------------------------------------------------------------------------

\* Variant: what deflate has not written yet is not flushed.
ZlibCompressUnflushed(content) == content

\* The stream, with nothing in it.
NewStream == <<>>

\* ZlibCompress::Compress: a stream of its own each time, for deflateReset comes
\* first; Z_SYNC_FLUSH ends it with an empty block.
ZlibCompress(content) == Append(NewStream \o content, 0)

\* ZlibCompress::Decompress: buffers are filled while there is input.
ZlibDecompress(symbols) ==
    LET loop[st \in Stream] ==
            IF st.input = <<>> THEN st.output
            ELSE loop[Decode([st EXCEPT !.room = Buffer])]
    IN  loop[Start(symbols, 0)]

\* ZstdCompress::Compress: ZSTD_e_end makes one whole frame, with the length of the
\* content in its header, for it is known when the frame is begun.
ZstdCompress(content) == [size |-> Bytes(content), symbols |-> content]

\* Variant: the length in the header is not asked for.
InitialSizeFixed(frame) == Buffer

\* ZSTD_getFrameContentSize, or 10 KB.
InitialSize(frame) == frame.size

\* ZstdCompress::Decompress: the buffer is doubled when it is full and input is left.
ZstdDecompress(frame) ==
    LET loop[st \in Stream] ==
            IF st.input = <<>> THEN st.output
            ELSE LET next == Decode(st)
                 IN  loop[IF next.input # <<>> /\ next.room = 0
                          THEN [next EXCEPT !.room = next.output] ELSE next]
    IN  loop[Start(frame.symbols, InitialSize(frame))]
=============================================================================
