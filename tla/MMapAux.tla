------------------------------- MODULE MMapAux -------------------------------
(***************************************************************************)
(* logger::MMapAux (mylogger/mmap/mmap_aux.{h,cc}, mmap_linux.cpp,         *)
(* mmap_win.cpp): a growing byte buffer in a file mapped into memory,      *)
(* headed by a magic number and the number of bytes it holds (MMapHeader). *)
(*                                                                         *)
(* One thread at a time pushes; another, the runner of the sink, reads and *)
(* clears without its lock.  A growth is two steps, as it unmaps the file  *)
(* before it maps it again; every other operation is one.                  *)
(*                                                                         *)
(* The system calls of TryMap_ may fail, each as Faults says; nobody looks *)
(* at the result.  The mapping is shared: the header and the length of the *)
(* file outlive the process, which may end at any point (Exit) and come    *)
(* back (Open).  Addresses are byte counts; what the bytes are does not    *)
(* matter.                                                                 *)
(***************************************************************************)
EXTENDS Integers

CONSTANTS
    Page,           \* GetPageSize()
    Header,         \* sizeof(MMapHeader)
    Default,        \* kDefaultCapacity
    Wrap,           \* 2^32, the range of the header's uint32_t mmap_size_
    Sizes,          \* the sizes given to Push and Resize
    MaxBytes,       \* bound: no more bytes are pushed than this
    Platforms,      \* the builds considered: a call goes as in any of them
    Faults,         \* the system calls that may fail
    Idle            \* nobody waits for a growth

\* What is stored when there is room: mmap_size_ before it is cut to its range, up to
\* which byte the mapping is touched, and the history.
Op == [size : Nat, touched : Nat, bytes : Nat]

ASSUME MMapAssumption ==
    /\ Page \in Nat \ {0}
    /\ Header \in Nat \ {0}
    /\ Default \in Nat /\ Header <= Default
    /\ Wrap \in Nat \ {0}
    /\ Sizes \subseteq Nat
    /\ MaxBytes \in Nat
    /\ Platforms \subseteq {"linux", "windows"}
    /\ Faults \subseteq {"open", "ftruncate", "mmap"}
    /\ Idle \notin Op

VARIABLES
    len,            \* length of the file, 0 if there is none
    magic,          \* does the file begin with kMagic?
    size,           \* mmap_size_ in the file
    handle,         \* handle_: "null", "mapped" or "MAP_FAILED"
    capacity,       \* capacity_
    state,          \* "closed", "open", or "faulted": killed by a bad access
    growing,        \* the Op of a Push or Resize between Unmap_ and TryMap_, or Idle
    reader,         \* the other thread: "none", "reading", or "dangling": it reads where
                    \* nothing is mapped any more
    bytes,          \* history: the bytes pushed, less those cut off by Resize
    unbacked        \* history: the last to set the size was a Resize in a mapping that
                    \* is longer than its file, as ftruncate had failed

vars == <<len, magic, size, handle, capacity, state, growing, reader, bytes, unbacked>>
object == <<handle, len, capacity>>
header == <<magic, size, bytes, unbacked>>

TypeOK ==
    /\ len \in Nat
    /\ magic \in BOOLEAN
    /\ size \in Nat /\ size < Wrap
    /\ handle \in {"null", "mapped", "MAP_FAILED"}
    /\ capacity \in Nat
    /\ state \in {"closed", "open", "faulted"}
    /\ growing \in Op \union {Idle}
    /\ reader \in {"none", "reading", "dangling"}
    /\ bytes \in Nat
    /\ unbacked \in BOOLEAN

Init ==
    /\ len = 0
    /\ magic = FALSE
    /\ size = 0
    /\ handle = "null"
    /\ capacity = 0
    /\ state = "closed"
    /\ growing = Idle
    /\ reader = "none"
    /\ bytes = 0
    /\ unbacked = FALSE

\* GetValidCapacity_: the least multiple of the page size that is not less.
ValidCapacity(n) == ((n + Page - 1) \div Page) * Page

\* What the loop of EnsureCapacity_ arrives at: page by page from c up to n.
Grown(c, n) == IF n <= c THEN c ELSE c + ValidCapacity(n - c)

\* What Unmap_ leaves in handle_.
Unmapped == "null"

\* TryMap_ returns early.
NotOpened(l) == IF "open" \in Faults THEN {[handle |-> Unmapped, len |-> l]} ELSE {}

\* TryMap_(n) of mmap_linux.cpp, after Unmap_, on a file of length l.
TryMapLinux(n, l) ==
    NotOpened(l)
    \union {[handle |-> h, len |-> m] :
              h \in {"mapped"} \union (IF "mmap" \in Faults THEN {"MAP_FAILED"} ELSE {}),
              m \in {n} \union (IF "ftruncate" \in Faults THEN {l} ELSE {})}

\* TryMap_(n) of mmap_win.cpp: CreateFileMapping makes the file longer, never shorter,
\* or fails as opening does; MapViewOfFile leaves null where mmap leaves MAP_FAILED.
TryMapWindows(n, l) ==
    NotOpened(l)
    \union {[handle |-> h, len |-> IF n < l THEN l ELSE n] :
              h \in {"mapped"} \union (IF "mmap" \in Faults THEN {"null"} ELSE {})}

TryMap(n, l) ==
    (IF "linux" \in Platforms THEN TryMapLinux(n, l) ELSE {})
    \union (IF "windows" \in Platforms THEN TryMapWindows(n, l) ELSE {})

\* What Reserve_(n) maps: the outcomes.
Reserve(n) ==
    {[handle |-> r.handle, len |-> r.len, capacity |-> ValidCapacity(n)] :
        r \in TryMap(ValidCapacity(n), len)}

\* Variant: the header is not counted.
DataOnly(n) == n

\* real_size of EnsureCapacity_.
RealSize(n) == n + Header

\* Bytes of the mapping past the last page of the file cannot be accessed.
Accessible(r, n) == r.handle = "mapped" /\ n <= r.capacity /\ n <= ValidCapacity(r.len)

\* The object as it is, and the one that system calls left, with the file they left.
Present == [handle |-> handle, len |-> len, capacity |-> capacity]
Adopt(r) == handle' = r.handle /\ len' = r.len /\ capacity' = r.capacity

\* IsValid_ itself reads the header whenever handle_ is not null.
HeaderFaults == handle = "MAP_FAILED"
Valid == handle = "mapped" /\ magic

Fault == state' = "faulted" /\ UNCHANGED header

-----------------------------------------------------------------------------

\* Init_, on what Reserve_ left: a header that has the magic number is kept.
InitHeader(r) ==
    IF r.handle = "null" THEN state' = "open" /\ UNCHANGED header
    ELSE IF ~Accessible(r, Header) THEN Fault
    ELSE /\ state' = "open"
         /\ magic' = TRUE
         /\ size' = IF magic THEN size ELSE 0
         /\ UNCHANGED <<bytes, unbacked>>

\* Variant: a file that is found is begun anew.
OpenAfresh ==
    /\ state = "closed"
    /\ \E r \in Reserve(IF len > Default THEN len ELSE Default) :
        /\ Adopt(r)
        /\ Accessible(r, Header)
        /\ state' = "open" /\ magic' = TRUE /\ size' = 0
        /\ UNCHANGED <<growing, reader, bytes, unbacked>>

\* Variant: the length of a file that is found is not asked for.
OpenDefault ==
    /\ state = "closed"
    /\ \E r \in Reserve(Default) : Adopt(r) /\ InitHeader(r)
    /\ UNCHANGED <<growing, reader>>

\* The constructor.
Open ==
    /\ state = "closed"
    /\ \E r \in Reserve(IF len > Default THEN len ELSE Default) : Adopt(r) /\ InitHeader(r)
    /\ UNCHANGED <<growing, reader>>

\* Variant: the header is written first.
StoreHeaderFirst(o, r) ==
    /\ size' = o.size % Wrap
    /\ bytes' = o.bytes
    /\ unbacked' = (o.touched < Header + o.size /\ r.len < r.capacity)
    /\ state' = IF Accessible(r, o.touched) THEN state ELSE "faulted"
    /\ UNCHANGED magic

\* The bytes are copied and the header is written, into the mapping r.
Store(o, r) ==
    IF ~Accessible(r, o.touched) THEN Fault
    ELSE /\ size' = o.size % Wrap
         /\ bytes' = o.bytes
         /\ unbacked' = (o.touched < Header + o.size /\ r.len < r.capacity)
         /\ UNCHANGED <<magic, state>>

\* Push and Resize store in place if there is room; if not, EnsureCapacity_ begins with
\* Unmap_, whoever reads ...
Begin(o) ==
    /\ state = "open" /\ growing = Idle
    /\ \/ HeaderFaults /\ Fault /\ UNCHANGED <<object, growing, reader>>
       \/ /\ Valid /\ RealSize(o.size) <= capacity
          /\ Store(o, Present)
          /\ UNCHANGED <<object, growing, reader>>
       \/ /\ Valid /\ RealSize(o.size) > capacity
          /\ handle' = Unmapped
          /\ growing' = o
          /\ reader' = IF reader = "reading" THEN "dangling" ELSE reader
          /\ UNCHANGED <<len, capacity, state, header>>

\* ... and goes on with TryMap_.
Grow ==
    /\ state = "open" /\ growing # Idle
    /\ \E r \in Reserve(Grown(capacity, RealSize(growing.size))) :
          Adopt(r) /\ Store(growing, r)
    /\ growing' = Idle
    /\ UNCHANGED reader

\* Push of n bytes, behind those there are.
Push(n) ==
    /\ bytes + n <= MaxBytes
    /\ Begin([size |-> size + n, touched |-> Header + size + n, bytes |-> bytes + n])

\* Resize to n bytes touches the header only.
Resize(n) == Begin([size |-> n, touched |-> Header, bytes |-> n])

\* Clear returns if the mapping is valid; if it is not, it writes to the header.  The
\* runner calls it, a growth being under way or not.
Clear ==
    /\ state = "open"
    /\ \/ Valid /\ UNCHANGED <<state, header>>
       \/ ~Valid /\ Fault
    /\ UNCHANGED <<object, growing, reader>>

\* The other thread reads Size() bytes from Data() on: it has looked at the header ...
BeginRead ==
    /\ state = "open" /\ reader = "none"
    /\ \/ HeaderFaults /\ Fault /\ UNCHANGED reader
       \/ Valid /\ ~Accessible(Present, Header + size) /\ Fault /\ UNCHANGED reader
       \/ /\ Valid /\ Accessible(Present, Header + size)
          /\ reader' = "reading"
          /\ UNCHANGED <<state, header>>
    /\ UNCHANGED <<object, growing>>

\* ... and is through; where nothing is mapped any more it gets that far only if the
\* next mapping has come to lie there.
EndRead ==
    /\ state = "open"
    /\ reader # "none"
    /\ \/ reader' = "none" /\ UNCHANGED <<state, header>>
       \/ reader = "dangling" /\ Fault /\ UNCHANGED reader
    /\ UNCHANGED <<object, growing>>

\* The process ends: the file stays, and nothing unmaps it before.
Exit ==
    /\ state # "closed"
    /\ state' = "closed"
    /\ handle' = "null"
    /\ capacity' = 0
    /\ growing' = Idle
    /\ reader' = "none"
    /\ UNCHANGED <<len, header>>

Next ==
    \/ Open \/ Grow \/ Clear \/ BeginRead \/ EndRead \/ Exit
    \/ \E n \in Sizes : Push(n) \/ Resize(n)

Spec == Init /\ [][Next]_vars

-----------------------------------------------------------------------------
(***************************************************************************)
(* Properties.                                                             *)
(***************************************************************************)

\* What the header counts lies in the mapping, after every growth, cut, crash and
\* return: Data() .. Data() + Size() may be read.  A Resize counts without touching
\* the bytes, so that a file too short for them goes unnoticed.
InBounds == state = "open" /\ Valid => unbacked \/ Header + size <= capacity

\* It lies in the file too, so that a process that dies leaves all of it.
FileCovers == magic => unbacked \/ Header + size <= ValidCapacity(len)

\* The process is killed only if a system call failed, so that there is no mapping or
\* the file is too short for it, or if another thread reads, or clears, what a Push or
\* Resize has unmapped to let it grow: with calls that work and one thread, no
\* operation reads or writes beyond the mapping or the file.
NoFault ==
    state = "faulted" =>
        handle # "mapped" \/ len < capacity \/ unbacked \/ reader = "dangling"

\* The header holds the number of bytes pushed, over every growth, exit and
\* return, as far as its 32 bits go.
SizeExact == magic => size = bytes % Wrap

\* A file is not longer than its mapping; it is shorter if ftruncate failed.
InFile == (state = "open" /\ (handle = "mapped" \/ growing # Idle)) => len <= capacity

\* A buffer in use has a header; there is none before anything is pushed.
Headed ==
    /\ (state = "open" /\ handle = "mapped") => magic
    /\ ~magic => bytes = 0

\* What waits for a growth is one Push or Resize, which fits when it has grown.
Pending ==
    growing # Idle =>
        /\ state # "closed" /\ handle = "null" /\ magic
        /\ growing.touched <= Header + growing.size
        /\ growing.size % Wrap = growing.bytes % Wrap

\* The inductive invariant.
IInv ==
    /\ TypeOK /\ InBounds /\ FileCovers /\ NoFault /\ SizeExact
    /\ InFile /\ Headed /\ Pending
=============================================================================
