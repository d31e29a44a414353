---------------------------- MODULE MMapAuxProofs ----------------------------
(***************************************************************************)
(* Proofs about MMapAux, for every page size, header size and default      *)
(* capacity, whichever system calls fail and whoever reads meanwhile.      *)
(***************************************************************************)
EXTENDS MMapAux, TLAPS

\* Rounding up to pages gives no less than asked for.
LEMMA RoundedUp ==
    ASSUME NEW n \in Nat
    PROVE  ValidCapacity(n) \in Nat /\ ValidCapacity(n) >= n
<1>1. Page \in Nat /\ Page > 0
  BY MMapAssumption
<1> DEFINE m == n + Page - 1
           q == m \div Page
           r == m % Page
<1>2. m \in Nat /\ q \in Nat /\ r \in Nat /\ r < Page /\ m = Page * q + r
  BY <1>1
<1>3. q * Page = Page * q /\ Page * q = m - r
  BY <1>1, <1>2
<1> QED BY <1>1, <1>2, <1>3 DEF ValidCapacity

\* Rounding up preserves the order.
LEMMA RoundedMonotone ==
    ASSUME NEW a \in Nat, NEW b \in Nat, a <= b
    PROVE  ValidCapacity(a) <= ValidCapacity(b)
<1>1. Page \in Nat /\ Page > 0
  BY MMapAssumption
<1> DEFINE p == (a + Page - 1) \div Page
           q == (b + Page - 1) \div Page
<1>2. p \in Nat /\ q \in Nat
  BY <1>1
<1>3. p <= q
  BY <1>1
<1> HIDE DEF p, q
<1>4. p * Page <= q * Page
  BY <1>1, <1>2, <1>3
<1> QED BY <1>4 DEF ValidCapacity, p, q

\* EnsureCapacity_ aims at no less than is needed, and than there is.
LEMMA GrownEnough ==
    ASSUME NEW c \in Nat, NEW n \in Nat
    PROVE  Grown(c, n) \in Nat /\ Grown(c, n) >= n /\ Grown(c, n) >= c
<1>1. CASE n <= c
  BY <1>1 DEF Grown
<1>2. CASE ~(n <= c)
  <2>1. n - c \in Nat
    BY <1>2
  <2> QED BY <1>2, <2>1, RoundedUp DEF Grown
<1> QED BY <1>1, <1>2

\* A mapping that TryMap_ yields is in a file no longer than was asked for, and no
\* outcome shortens the file.
LEMMA Mapping ==
    ASSUME NEW n \in Nat, NEW l \in Nat, l <= n, NEW r \in TryMap(n, l)
    PROVE  /\ r.handle \in {"null", "mapped", "MAP_FAILED"}
           /\ r.len \in {n, l}
<1>1. (IF n < l THEN l ELSE n) = n
  OBVIOUS
<1>2. r \in TryMapLinux(n, l) \/ r \in TryMapWindows(n, l)
  BY DEF TryMap
<1>3. \E h \in {"null", "mapped", "MAP_FAILED"}, m \in {n, l} : r = [handle |-> h, len |-> m]
  BY <1>1, <1>2 DEF TryMapLinux, TryMapWindows, NotOpened, Unmapped
<1> QED BY <1>3

\* What Reserve_(n) leaves, if it does not cut the file.
LEMMA Reserved ==
    ASSUME NEW n \in Nat, len \in Nat, len <= n, NEW r \in Reserve(n)
    PROVE  /\ r.handle \in {"null", "mapped", "MAP_FAILED"}
           /\ r.len \in Nat /\ r.len >= len /\ r.len <= r.capacity
           /\ r.capacity \in Nat /\ r.capacity >= n /\ r.capacity = ValidCapacity(n)
<1> DEFINE v == ValidCapacity(n)
<1>1. v \in Nat /\ v >= n
  BY RoundedUp
<1>2. PICK t \in TryMap(v, len) : r = [handle |-> t.handle, len |-> t.len, capacity |-> v]
  BY DEF Reserve
<1>3. t.handle \in {"null", "mapped", "MAP_FAILED"} /\ t.len \in {v, len}
  <2> HIDE DEF v
  <2> QED BY <1>1, Mapping
<1> HIDE DEF v
<1>4. t.len \in Nat /\ t.len >= len /\ t.len <= v
  BY <1>1, <1>3
<1>5. r.handle = t.handle /\ r.len = t.len /\ r.capacity = v
  BY <1>2
<1> QED BY <1>1, <1>3, <1>4, <1>5 DEF v

\* A file that grows to m bytes still covers what the header counts.
LEMMA StillCovered ==
    ASSUME NEW l \in Nat, NEW m \in Nat, l <= m, NEW b \in Nat,
           b <= ValidCapacity(l)
    PROVE  b <= ValidCapacity(m)
<1>1. ValidCapacity(l) \in Nat /\ ValidCapacity(m) \in Nat
  BY RoundedUp
<1>2. ValidCapacity(l) <= ValidCapacity(m)
  BY RoundedMonotone
<1> QED BY <1>1, <1>2

\* What is kept in mmap_size_ is no more than what is counted.
LEMMA Remainder ==
    ASSUME NEW a \in Nat
    PROVE  a % Wrap \in Nat /\ a % Wrap < Wrap /\ a % Wrap <= a
<1>1. Wrap \in Nat /\ Wrap > 0
  BY MMapAssumption
<1> DEFINE p == a \div Wrap
           t == a % Wrap
<1>2. p \in Nat /\ t \in Nat /\ t < Wrap /\ a = Wrap * p + t
  BY <1>1
<1> HIDE DEF p, t
<1>3. Wrap * p \in Nat
  BY <1>1, <1>2
<1>4. t <= a
  BY <1>2, <1>3
<1> QED BY <1>2, <1>4 DEF t

\* A multiple of Wrap does not change what is kept in mmap_size_.
LEMMA WrapUnique ==
    ASSUME NEW a \in Nat, NEW q \in Nat, NEW s \in Nat, s < Wrap, a = Wrap * q + s
    PROVE  a % Wrap = s
<1>1. Wrap \in Nat /\ Wrap > 0
  BY MMapAssumption
<1> DEFINE p == a \div Wrap
           t == a % Wrap
<1>2. p \in Nat /\ t \in Nat /\ t < Wrap /\ a = Wrap * p + t
  BY <1>1
<1> HIDE DEF p, t
<1>3. CASE q > p
  <2>1. PICK d \in Nat : q = p + 1 + d
    <3>1. q - p - 1 \in Nat /\ q = p + 1 + (q - p - 1)
      BY <1>2, <1>3
    <3> QED BY <3>1
  <2>2. Wrap * q = Wrap * p + Wrap + Wrap * d
    BY <1>1, <1>2, <2>1
  <2>3. Wrap * d >= 0 /\ Wrap * d \in Nat /\ Wrap * p \in Nat
    BY <1>1, <1>2, <2>1
  <2> QED BY <1>1, <1>2, <2>2, <2>3
<1>4. CASE p > q
  <2>1. PICK d \in Nat : p = q + 1 + d
    <3>1. p - q - 1 \in Nat /\ p = q + 1 + (p - q - 1)
      BY <1>2, <1>4
    <3> QED BY <3>1
  <2>2. Wrap * p = Wrap * q + Wrap + Wrap * d
    BY <1>1, <1>2, <2>1
  <2>3. Wrap * d >= 0 /\ Wrap * d \in Nat /\ Wrap * q \in Nat
    BY <1>1, <1>2, <2>1
  <2> QED BY <1>1, <1>2, <2>2, <2>3
<1>5. CASE p = q
  <2>1. t = s
    BY <1>1, <1>2, <1>5
  <2> QED BY <2>1 DEF t
<1> QED BY <1>2, <1>3, <1>4, <1>5

\* Counting within mmap_size_ is counting, cut to its range at the end.
LEMMA WrappedSum ==
    ASSUME NEW a \in Nat, NEW n \in Nat
    PROVE  ((a % Wrap) + n) % Wrap = (a + n) % Wrap
<1>1. Wrap \in Nat /\ Wrap > 0
  BY MMapAssumption
<1> DEFINE p == a \div Wrap
           t == a % Wrap
           q == (t + n) \div Wrap
           s == (t + n) % Wrap
<1>2. p \in Nat /\ t \in Nat /\ a = Wrap * p + t
  BY <1>1
<1>3. q \in Nat /\ s \in Nat /\ s < Wrap /\ t + n = Wrap * q + s
  BY <1>1, <1>2
<1> HIDE DEF p, q, s, t
<1>4. a + n = Wrap * (p + q) + s
  <2>1. Wrap * (p + q) = Wrap * p + Wrap * q
    BY <1>1, <1>2, <1>3
  <2>2. Wrap * p \in Nat /\ Wrap * q \in Nat
    BY <1>1, <1>2, <1>3
  <2> QED BY <1>2, <1>3, <2>1, <2>2
<1>5. p + q \in Nat /\ a + n \in Nat
  BY <1>2, <1>3
<1>6. (a + n) % Wrap = s
  BY <1>3, <1>4, <1>5, WrapUnique
<1> QED BY <1>6 DEF s, t

-----------------------------------------------------------------------------
(***************************************************************************)
(* The invariant, one lemma per operation.                                 *)
(***************************************************************************)

LEMMA InitInvariant == Init => IInv
<1> SUFFICES ASSUME Init PROVE IInv
  OBVIOUS
<1>1. 0 < Wrap
  BY MMapAssumption
<1>2. TypeOK
  BY <1>1 DEF Init, TypeOK
<1>3. InBounds /\ FileCovers /\ NoFault /\ SizeExact /\ InFile /\ Headed /\ Pending
  BY DEF Init, InBounds, FileCovers, NoFault, SizeExact, InFile, Headed, Pending
<1> QED BY <1>2, <1>3 DEF IInv

\* Numbers.
LEMMA Numbers ==
    ASSUME IInv
    PROVE  /\ len \in Nat /\ size \in Nat /\ size < Wrap /\ bytes \in Nat /\ capacity \in Nat
           /\ magic \in BOOLEAN /\ unbacked \in BOOLEAN
           /\ Header \in Nat /\ Header > 0 /\ Wrap \in Nat /\ Wrap > 0
           /\ Header + size \in Nat
           /\ ValidCapacity(len) \in Nat /\ ValidCapacity(len) >= len
<1>1. len \in Nat
  BY DEF IInv, TypeOK
<1> QED BY <1>1, MMapAssumption, RoundedUp DEF IInv, TypeOK

LEMMA OpenStep == ASSUME IInv, Open PROVE IInv'
<1> DEFINE d == IF len > Default THEN len ELSE Default
<1>1. /\ len \in Nat /\ size \in Nat /\ size < Wrap /\ bytes \in Nat
      /\ magic \in BOOLEAN /\ Header \in Nat /\ Header > 0 /\ Wrap \in Nat /\ Wrap > 0
      /\ Header + size \in Nat /\ unbacked \in BOOLEAN
  BY Numbers
<1>2. d \in Nat /\ d >= len /\ d >= Header
  BY <1>1, MMapAssumption
<1>3. PICK r \in Reserve(d) :
        /\ Adopt(r)
        /\ IF r.handle = "null"
           THEN state' = "open" /\ UNCHANGED header
           ELSE IF ~Accessible(r, Header)
                THEN state' = "faulted" /\ UNCHANGED header
                ELSE /\ state' = "open"
                     /\ magic' = TRUE
                     /\ size' = IF magic THEN size ELSE 0
                     /\ UNCHANGED <<bytes, unbacked>>
  BY DEF Open, InitHeader, Fault
<1>4. state = "closed" /\ UNCHANGED <<growing, reader>>
  BY DEF Open
<1> HIDE DEF d
<1>5. /\ handle' = r.handle /\ len' = r.len /\ capacity' = r.capacity
      /\ handle' \in {"null", "mapped", "MAP_FAILED"}
      /\ len' \in Nat /\ len' >= len /\ len' <= capacity'
      /\ capacity' \in Nat /\ capacity' >= d /\ capacity' = ValidCapacity(d)
  <2>1. handle' = r.handle /\ len' = r.len /\ capacity' = r.capacity
    BY <1>3 DEF Adopt
  <2> QED BY <2>1, <1>1, <1>2, Reserved
<1>6. ValidCapacity(len') \in Nat /\ ValidCapacity(len') >= len'
  BY <1>5, RoundedUp
<1>7. growing' = Idle
  BY <1>4 DEF IInv, Pending
<1>8. /\ size' \in Nat /\ size' < Wrap /\ magic' \in BOOLEAN
      /\ bytes' = bytes /\ unbacked' = unbacked
      /\ state' \in {"open", "faulted"}
      /\ magic => magic' /\ size' = size
      /\ magic' /\ ~magic => size' = 0 /\ handle' = "mapped" /\ Header <= ValidCapacity(len')
      /\ state' = "open" /\ handle' = "mapped" => magic'
      /\ state' = "faulted" /\ handle' = "mapped" => ~Accessible(r, Header)
  <2>1. CASE UNCHANGED header /\ (r.handle = "null" \/ ~Accessible(r, Header))
    BY <2>1, <1>1, <1>3, <1>5 DEF header
  <2>2. CASE Accessible(r, Header) /\ r.handle # "null"
    <3>1. /\ state' = "open" /\ magic' = TRUE /\ size' = (IF magic THEN size ELSE 0)
          /\ bytes' = bytes /\ unbacked' = unbacked
      BY <2>2, <1>3
    <3>2. r.handle = "mapped" /\ Header <= ValidCapacity(r.len)
      BY <2>2 DEF Accessible
    <3> QED BY <3>1, <3>2, <1>1, <1>5
  <2> QED BY <2>1, <2>2, <1>3
<1>9. TypeOK'
  BY <1>1, <1>4, <1>5, <1>8 DEF IInv, TypeOK
<1>10. magic => unbacked \/ (Header + size <= ValidCapacity(len') /\ Header + size <= capacity')
  <2> SUFFICES ASSUME magic, ~unbacked
               PROVE  Header + size <= ValidCapacity(len') /\ Header + size <= capacity'
    OBVIOUS
  <2>1. Header + size <= ValidCapacity(len)
    BY DEF IInv, FileCovers
  <2> QED BY <2>1, <1>1, <1>2, <1>5, StillCovered
<1>11. FileCovers'
  BY <1>1, <1>8, <1>10 DEF FileCovers
<1>12. InBounds'
  <2>1. Header <= capacity'
    BY <1>1, <1>2, <1>5
  <2> QED BY <2>1, <1>1, <1>8, <1>10 DEF InBounds, Valid
<1>13. NoFault'
  <2> SUFFICES ASSUME state' = "faulted", handle' = "mapped" PROVE len' < capacity'
    BY DEF NoFault
  <2>1. Header <= capacity' /\ ~(Header <= ValidCapacity(len'))
    BY <1>1, <1>2, <1>5, <1>8 DEF Accessible
  <2> QED BY <2>1, <1>1, <1>5, <1>6
<1>14. SizeExact'
  <2>1. CASE magic
    BY <2>1, <1>8 DEF IInv, SizeExact
  <2>2. CASE ~magic
    <3>1. 0 % Wrap = 0
      BY <1>1
    <3> QED BY <2>2, <3>1, <1>8 DEF IInv, Headed, SizeExact
  <2> QED BY <2>1, <2>2
<1>15. InFile' /\ Headed' /\ Pending'
  BY <1>5, <1>7, <1>8, <1>4 DEF IInv, InFile, Headed, Pending
<1> QED BY <1>9, <1>11, <1>12, <1>13, <1>14, <1>15 DEF IInv

\* A step that leaves the object and the file as they are.
LEMMA UnchangedStep ==
    ASSUME IInv, UNCHANGED <<len, magic, size, handle, capacity, growing, bytes, unbacked>>,
           state' \in {"open", "faulted", state}, reader' \in {"none", "reading", "dangling"},
           state' = "open" => state = "open",
           state' = "faulted" =>
               handle # "mapped" \/ len < capacity \/ unbacked \/ reader' = "dangling"
    PROVE  IInv'
<1>1. TypeOK'
  BY DEF IInv, TypeOK
<1>2. InBounds' /\ FileCovers' /\ InFile' /\ Headed'
  BY DEF IInv, InBounds, FileCovers, InFile, Headed, Valid
<1>3. NoFault' /\ SizeExact' /\ Pending'
  BY DEF IInv, NoFault, SizeExact, Pending
<1> QED BY <1>1, <1>2, <1>3 DEF IInv

\* What EnsureCapacity_ has found or made room for is stored, or the file is too short.
LEMMA Stored ==
    ASSUME IInv, state = "open", magic,
           NEW o \in Op, o.touched <= Header + o.size, o.size % Wrap = o.bytes % Wrap,
           NEW r, r.handle \in {"null", "mapped", "MAP_FAILED"},
           r.len \in Nat, r.len >= len, r.len <= r.capacity,
           r.capacity \in Nat, r.capacity >= Header + o.size,
           handle' = r.handle, len' = r.len, capacity' = r.capacity,
           Store(o, r), growing' = Idle, reader' = reader
    PROVE  IInv'
<1>1. /\ len \in Nat /\ size \in Nat /\ size < Wrap /\ bytes \in Nat /\ capacity \in Nat
      /\ unbacked \in BOOLEAN /\ Header \in Nat /\ Wrap \in Nat /\ Wrap > 0
      /\ Header + size \in Nat
  BY Numbers
<1>2. o.size \in Nat /\ o.touched \in Nat /\ o.bytes \in Nat
  BY DEF Op
<1>3. ValidCapacity(len') \in Nat /\ ValidCapacity(len') >= len'
  BY RoundedUp
<1>4. CASE ~Accessible(r, o.touched)
  <2>1. state' = "faulted" /\ magic' = magic /\ size' = size /\ bytes' = bytes
        /\ unbacked' = unbacked
    BY <1>4 DEF Store, Fault, header
  <2>2. TypeOK'
    BY <1>1, <2>1 DEF IInv, TypeOK
  <2>3. FileCovers'
    <3> SUFFICES ASSUME ~unbacked PROVE Header + size <= ValidCapacity(len')
      BY <2>1 DEF FileCovers
    <3>1. Header + size <= ValidCapacity(len)
      BY DEF IInv, FileCovers
    <3> QED BY <3>1, <1>1, StillCovered
  <2>4. NoFault'
    <3> SUFFICES ASSUME handle' = "mapped" PROVE len' < capacity'
      BY DEF NoFault
    <3>1. o.touched <= capacity'
      BY <1>1, <1>2
    <3>2. ~(o.touched <= ValidCapacity(len'))
      BY <3>1, <1>4 DEF Accessible
    <3> QED BY <3>1, <3>2, <1>2, <1>3
  <2>5. InBounds' /\ SizeExact' /\ InFile' /\ Headed' /\ Pending'
    BY <2>1 DEF IInv, InBounds, SizeExact, InFile, Headed, Pending
  <2> QED BY <2>2, <2>3, <2>4, <2>5 DEF IInv
<1>5. CASE Accessible(r, o.touched)
  <2>1. /\ size' = o.size % Wrap /\ bytes' = o.bytes /\ magic' = magic /\ state' = state
        /\ unbacked' = (o.touched < Header + o.size /\ r.len < r.capacity)
    BY <1>5 DEF Store
  <2>2. size' \in Nat /\ size' < Wrap /\ size' <= o.size
    BY <1>2, <2>1, Remainder
  <2>3. handle' = "mapped" /\ o.touched <= ValidCapacity(len')
    BY <1>5 DEF Accessible
  <2>4. TypeOK'
    BY <1>2, <2>1, <2>2 DEF IInv, TypeOK
  <2>5. InBounds'
    <3>1. Header + size' <= capacity'
      BY <1>1, <1>2, <2>2
    <3> QED BY <3>1 DEF InBounds
  <2>6. FileCovers'
    <3> SUFFICES ASSUME ~unbacked' PROVE Header + size' <= ValidCapacity(len')
      BY DEF FileCovers
    <3>1. CASE ~(o.touched < Header + o.size)
      BY <3>1, <1>1, <1>2, <1>3, <2>2, <2>3
    <3>2. CASE ~(r.len < r.capacity)
      BY <3>2, <1>1, <1>2, <1>3, <2>2
    <3> QED BY <3>1, <3>2, <2>1
  <2>7. NoFault' /\ SizeExact' /\ InFile' /\ Headed' /\ Pending'
    BY <2>1 DEF NoFault, SizeExact, InFile, Headed, Pending
  <2> QED BY <2>4, <2>5, <2>6, <2>7 DEF IInv
<1> QED BY <1>4, <1>5

\* Push and Resize, as far as they get without growing.
LEMMA BeginStep ==
    ASSUME IInv, NEW o \in Op, o.touched <= Header + o.size,
           magic => o.size % Wrap = o.bytes % Wrap, Begin(o)
    PROVE  IInv'
<1>1. state = "open" /\ growing = Idle
  BY DEF Begin
<1>2. /\ len \in Nat /\ capacity \in Nat /\ Header \in Nat /\ o.size \in Nat
  BY Numbers DEF Op
<1>3. CASE HeaderFaults /\ Fault /\ UNCHANGED <<object, growing, reader>>
  <2>1. /\ state' = "faulted" /\ handle # "mapped"
        /\ UNCHANGED <<len, magic, size, handle, capacity, growing, bytes, unbacked, reader>>
    BY <1>3 DEF Fault, HeaderFaults, object, header
  <2>2. reader \in {"none", "reading", "dangling"}
    BY DEF IInv, TypeOK
  <2> QED BY <2>1, <2>2, UnchangedStep
<1>4. CASE /\ Valid /\ RealSize(o.size) <= capacity /\ Store(o, Present)
           /\ UNCHANGED <<object, growing, reader>>
  <2> DEFINE r == Present
  <2>1. /\ r.handle = handle /\ r.len = len /\ r.capacity = capacity
        /\ handle' = handle /\ len' = len /\ capacity' = capacity
        /\ growing' = Idle /\ reader' = reader
    BY <1>1, <1>4 DEF Present, object
  <2>2. handle = "mapped" /\ magic /\ len <= capacity
    BY <1>1, <1>4 DEF Valid, IInv, InFile
  <2>3. capacity >= Header + o.size
    BY <1>2, <1>4 DEF RealSize
  <2>4. Store(o, r)
    BY <1>4
  <2>5. handle \in {"null", "mapped", "MAP_FAILED"} /\ len >= len
    BY <1>2 DEF IInv, TypeOK
  <2> HIDE DEF r
  <2> QED BY <1>1, <1>2, <2>1, <2>2, <2>3, <2>4, <2>5, Stored
<1>5. CASE /\ Valid /\ RealSize(o.size) > capacity
           /\ handle' = Unmapped /\ growing' = o
           /\ reader' = IF reader = "reading" THEN "dangling" ELSE reader
           /\ UNCHANGED <<len, capacity, state, header>>
  <2>1. /\ handle' = "null" /\ growing' = o
        /\ UNCHANGED <<len, capacity, state, magic, size, bytes, unbacked>>
    BY <1>5 DEF Unmapped, header
  <2>2. TypeOK'
    BY <1>5, <2>1 DEF IInv, TypeOK
  <2>3. magic /\ len <= capacity
    BY <1>1, <1>5 DEF Valid, IInv, InFile
  <2>4. FileCovers' /\ SizeExact' /\ InFile' /\ Headed'
    BY <2>1, <2>3 DEF IInv, FileCovers, SizeExact, InFile, Headed
  <2>5. InBounds' /\ NoFault' /\ Pending'
    BY <1>1, <2>1, <2>3 DEF InBounds, Valid, NoFault, Pending
  <2> QED BY <2>2, <2>4, <2>5 DEF IInv
<1> QED BY <1>3, <1>4, <1>5 DEF Begin

LEMMA PushStep ==
    ASSUME IInv, NEW n \in Sizes, Push(n)
    PROVE  IInv'
<1> DEFINE o == [size |-> size + n, touched |-> Header + size + n, bytes |-> bytes + n]
<1>1. size \in Nat /\ bytes \in Nat /\ Header \in Nat /\ n \in Nat
  BY Numbers, MMapAssumption
<1>2. o \in Op /\ o.size = size + n /\ o.bytes = bytes + n /\ o.touched <= Header + o.size
  BY <1>1 DEF Op
<1>3. magic => (size + n) % Wrap = (bytes + n) % Wrap
  <2>1. magic => size = bytes % Wrap
    BY DEF IInv, SizeExact
  <2> QED BY <2>1, <1>1, WrappedSum
<1>4. Begin(o)
  BY DEF Push
<1> HIDE DEF o
<1> QED BY <1>2, <1>3, <1>4, BeginStep

LEMMA ResizeStep ==
    ASSUME IInv, NEW n \in Sizes, Resize(n)
    PROVE  IInv'
<1> DEFINE o == [size |-> n, touched |-> Header, bytes |-> n]
<1>1. Header \in Nat /\ n \in Nat
  BY MMapAssumption
<1>2. o \in Op /\ o.size = n /\ o.bytes = n /\ o.touched <= Header + o.size
  BY <1>1 DEF Op
<1>3. Begin(o)
  BY DEF Resize
<1> HIDE DEF o
<1> QED BY <1>2, <1>3, BeginStep

LEMMA GrowStep == ASSUME IInv, Grow PROVE IInv'
<1> DEFINE o == growing
           g == Grown(capacity, RealSize(o.size))
<1>1. state = "open" /\ o # Idle /\ growing' = Idle /\ reader' = reader
  BY DEF Grow
<1>2. o \in Op /\ magic /\ o.touched <= Header + o.size /\ o.size % Wrap = o.bytes % Wrap
  BY <1>1 DEF IInv, TypeOK, Pending
<1>3. len \in Nat /\ capacity \in Nat /\ len <= capacity
  BY <1>1, Numbers DEF IInv, InFile
<1>4. Header \in Nat /\ o.size \in Nat /\ RealSize(o.size) = Header + o.size
      /\ RealSize(o.size) \in Nat
  BY <1>2, MMapAssumption DEF Op, RealSize
<1>5. g \in Nat /\ g >= Header + o.size /\ g >= capacity
  BY <1>3, <1>4, GrownEnough
<1>6. PICK r \in Reserve(g) : Adopt(r) /\ Store(o, r)
  BY DEF Grow
<1> HIDE DEF g
<1>7. /\ r.handle \in {"null", "mapped", "MAP_FAILED"}
      /\ r.len \in Nat /\ r.len >= len /\ r.len <= r.capacity
      /\ r.capacity \in Nat /\ r.capacity >= g
  BY <1>3, <1>5, Reserved
<1>8. r.capacity >= Header + o.size
  BY <1>4, <1>5, <1>7
<1>9. handle' = r.handle /\ len' = r.len /\ capacity' = r.capacity
  BY <1>6 DEF Adopt
<1> HIDE DEF o
<1> QED BY <1>1, <1>2, <1>6, <1>7, <1>8, <1>9, Stored

LEMMA ClearStep == ASSUME IInv, Clear PROVE IInv'
<1>1. /\ UNCHANGED <<len, magic, size, handle, capacity, growing, bytes, unbacked, reader>>
      /\ state = "open" /\ state' \in {"faulted", state}
  BY DEF Clear, Fault, object, header
<1>2. state' = "faulted" => handle # "mapped"
  BY <1>1 DEF IInv, Headed, Clear, Valid
<1>3. reader \in {"none", "reading", "dangling"}
  BY DEF IInv, TypeOK
<1> QED BY <1>1, <1>2, <1>3, UnchangedStep

LEMMA BeginReadStep == ASSUME IInv, BeginRead PROVE IInv'
<1>1. /\ UNCHANGED <<len, magic, size, handle, capacity, growing, bytes, unbacked>>
      /\ state = "open" /\ state' \in {"faulted", state}
      /\ reader' \in {"none", "reading", "dangling"}
  BY DEF BeginRead, Fault, object, header
<1>2. state' = "faulted" => handle # "mapped" \/ unbacked
  <2> SUFFICES ASSUME state' = "faulted", handle = "mapped" PROVE unbacked
    OBVIOUS
  <2>1. Valid /\ ~Accessible(Present, Header + size)
    BY <1>1 DEF BeginRead, HeaderFaults
  <2>2. ~(Header + size <= capacity) \/ ~(Header + size <= ValidCapacity(len))
    BY <2>1 DEF Accessible, Present
  <2> QED BY <1>1, <2>1, <2>2 DEF IInv, InBounds, FileCovers, Valid
<1> QED BY <1>1, <1>2, UnchangedStep

LEMMA EndReadStep == ASSUME IInv, EndRead PROVE IInv'
<1>1. /\ UNCHANGED <<len, magic, size, handle, capacity, growing, bytes, unbacked>>
      /\ state = "open" /\ state' \in {"faulted", state}
      /\ reader' \in {"none", "reading", "dangling"}
      /\ state' = "faulted" => reader' = "dangling"
  BY DEF EndRead, Fault, object, header
<1> QED BY <1>1, UnchangedStep

LEMMA ExitStep == ASSUME IInv, Exit PROVE IInv'
<1> USE DEF Exit, header
<1>1. TypeOK'
  BY DEF IInv, TypeOK
<1>2. InBounds' /\ FileCovers' /\ InFile'
  BY DEF IInv, InBounds, FileCovers, InFile
<1>3. NoFault' /\ SizeExact' /\ Headed' /\ Pending'
  BY DEF IInv, NoFault, SizeExact, Headed, Pending
<1> QED BY <1>1, <1>2, <1>3 DEF IInv

-----------------------------------------------------------------------------

\* The inductive invariant: whatever is pushed, cut or read, however often the process
\* ends and comes back, and whichever system call fails.
THEOREM Invariance == Spec => []IInv
<1>1. Init => IInv
  BY InitInvariant
<1>2. IInv /\ [Next]_vars => IInv'
  <2> SUFFICES ASSUME IInv, [Next]_vars PROVE IInv'
    OBVIOUS
  <2>1. CASE Open
    BY <2>1, OpenStep
  <2>2. CASE Clear
    BY <2>2, ClearStep
  <2>3. CASE Exit
    BY <2>3, ExitStep
  <2>4. CASE Grow
    BY <2>4, GrowStep
  <2>5. CASE BeginRead
    BY <2>5, BeginReadStep
  <2>6. CASE EndRead
    BY <2>6, EndReadStep
  <2>7. ASSUME NEW n \in Sizes, Push(n) PROVE IInv'
    BY <2>7, PushStep
  <2>8. ASSUME NEW n \in Sizes, Resize(n) PROVE IInv'
    BY <2>8, ResizeStep
  <2>9. CASE UNCHANGED vars
    <3>1. reader \in {"none", "reading", "dangling"}
      BY DEF IInv, TypeOK
    <3>2. state = "faulted" => handle # "mapped" \/ len < capacity \/ unbacked \/ reader = "dangling"
      BY DEF IInv, NoFault
    <3> QED BY <2>9, <3>1, <3>2, UnchangedStep DEF vars
  <2> QED BY <2>1, <2>2, <2>3, <2>4, <2>5, <2>6, <2>7, <2>8, <2>9 DEF Next
<1> QED BY <1>1, <1>2, PTL DEF Spec

\* The bytes that Data() and Size() offer lie in the mapping.
THEOREM DataInBounds == Spec => []InBounds
<1>1. IInv => InBounds
  BY DEF IInv
<1> QED BY <1>1, Invariance, PTL

\* The bytes that the header counts lie in the file, so that the next process finds
\* them.
THEOREM DataInFile == Spec => []FileCovers
<1>1. IInv => FileCovers
  BY DEF IInv
<1> QED BY <1>1, Invariance, PTL

\* What kills the process is a system call that failed, or another thread that reads or
\* clears while the mapping grows; nothing else touches memory beyond a mapping, or
\* beyond its file.
THEOREM FaultsExplained == Spec => []NoFault
<1>1. IInv => NoFault
  BY DEF IInv
<1> QED BY <1>1, Invariance, PTL

\* The header counts the bytes pushed, to the range of mmap_size_.
THEOREM HeaderExact == Spec => []SizeExact
<1>1. IInv => SizeExact
  BY DEF IInv
<1> QED BY <1>1, Invariance, PTL
=============================================================================
