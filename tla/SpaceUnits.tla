------------------------------ MODULE SpaceUnits ------------------------------
(***************************************************************************)
(* logger::space (mylogger/space.h): amounts of storage with their unit,   *)
(* after std::chrono::duration.  A type of space is the exponent of its    *)
(* period, a power of 1024, and whether its rep is signed: bytes count in  *)
(* size_t, the other units in int64_t.  A space is a type and a count.     *)
(*                                                                         *)
(* Counts keep to the width of their rep: what exceeds it is cut, as the   *)
(* builds do for the signed reps too.  Reps in floating point are left     *)
(* out, but for the quotient of two spaces, which is kept as a fraction.   *)
(***************************************************************************)
EXTENDS Integers

CONSTANTS
    KB,             \* 1024
    RepRange        \* how many values a rep has: 2^64

ASSUME SpaceAssumption ==
    /\ KB \in Nat /\ KB > 1
    /\ RepRange \in Nat /\ RepRange > KB /\ RepRange % 2 = 0

Types == [exp : 0..4, signed : BOOLEAN]
bytes     == [exp |-> 0, signed |-> FALSE]
kilobytes == [exp |-> 1, signed |-> TRUE]
megabytes == [exp |-> 2, signed |-> TRUE]
gigabytes == [exp |-> 3, signed |-> TRUE]
terabytes == [exp |-> 4, signed |-> TRUE]

\* What a rep keeps of the number n.
Fit(type, n) ==
    LET r == n % RepRange
    IN  IF type.signed /\ r >= RepRange \div 2 THEN r - RepRange ELSE r

\* Division of C++: towards zero.
Truncated(n, d) == IF n < 0 THEN -((-n) \div d) ELSE n \div d

\* The ratio of a unit to one finer by e, and so the bytes of unit e.
MB == KB * KB
GB == MB * KB
TB == GB * KB
Ratio(e) == CASE e = 0 -> 1 [] e = 1 -> KB [] e = 2 -> MB [] e = 3 -> GB [] e = 4 -> TB

space(type, n) == [type |-> type, count |-> Fit(type, n)]

\* Variant: what is left over counts as a unit.
CastRounded(to, s) ==
    LET n == Fit(to, s.count)
        from == s.type.exp
    IN  IF from >= to.exp
        THEN space(to, n * Ratio(from - to.exp))
        ELSE space(to, Truncated(n + Ratio(to.exp - from) - 1, Ratio(to.exp - from)))

\* space_cast: the count, in the rep of the target, times the ratio of the periods.
space_cast(to, s) ==
    LET n == Fit(to, s.count)
        from == s.type.exp
    IN  IF from >= to.exp
        THEN space(to, n * Ratio(from - to.exp))
        ELSE space(to, Truncated(n, Ratio(to.exp - from)))

\* Variant: the coarser of the two units.
LowerPrecision(s, t) == IF s.exp > t.exp THEN s.exp ELSE t.exp

higher_precision_space(s, t) == IF s.exp < t.exp THEN s.exp ELSE t.exp

\* The finer unit, and a rep that is unsigned if one of the two is.
unify_space_type(s, t) ==
    [exp |-> higher_precision_space(s, t), signed |-> s.signed /\ t.signed]

\* The counts of two spaces in their common type.
Unified(a, b) ==
    LET common == unify_space_type(a.type, b.type)
    IN  [type |-> common, lhs |-> space_cast(common, a).count,
                          rhs |-> space_cast(common, b).count]

Plus(a, b)  == LET u == Unified(a, b) IN space(u.type, u.lhs + u.rhs)
Minus(a, b) == LET u == Unified(a, b) IN space(u.type, u.lhs - u.rhs)
Mod(a, b)   == LET u == Unified(a, b)
               IN  space(u.type, u.lhs - u.rhs * Truncated(u.lhs, u.rhs))
Quotient(a, b) ==
    LET exp == higher_precision_space(a.type, b.type)
    IN  <<a.count * Ratio(a.type.exp - exp), b.count * Ratio(b.type.exp - exp)>>

Equal(a, b)   == LET u == Unified(a, b) IN u.lhs = u.rhs
Less(a, b)    == LET u == Unified(a, b) IN u.lhs < u.rhs
Greater(a, b) == Less(b, a)
AtMost(a, b)  == ~Greater(a, b)
AtLeast(a, b) == ~Less(a, b)
Unequal(a, b) == ~Equal(a, b)

\* Variant: the counts are added as they are.
AddCounts(a, b) == space(a.type, a.count + b.count)

\* The members, after an implicit conversion, and the operations with a count, of
\* which divisors are positive.
Add(a, b)       == space(a.type, a.count + space_cast(a.type, b).count)
Subtract(a, b)  == space(a.type, a.count - space_cast(a.type, b).count)
Increment(a)    == space(a.type, a.count + 1)
Decrement(a)    == space(a.type, a.count - 1)
Negate(a)       == space(a.type, -a.count)
PlusCount(a, n) == space(a.type, a.count + n)
Times(a, n)     == space(a.type, a.count * n)
DividedBy(a, n) == space(a.type, Truncated(a.count, n))
Remainder(a, n) == space(a.type, a.count - n * Truncated(a.count, n))

-----------------------------------------------------------------------------
(***************************************************************************)
(* What the operations promise, for spaces that are not negative and whose *)
(* length in bytes fits in the rep of every unit.                          *)
(***************************************************************************)

Length(a) == a.count * Ratio(a.type.exp)
Fits(n) == 0 <= n /\ n < RepRange \div 2

Units == {bytes, kilobytes, megabytes, gigabytes, terabytes}
Spaces == {a \in {space(u, n) : u \in Units, n \in 0..(2 * KB + 1)} : Fits(Length(a))}

\* Spaces of different units, and so of reps of different signedness, compare,
\* add up and divide as the lengths in bytes they stand for.
LengthsCompare ==
    \A a, b \in Spaces :
        /\ Less(a, b) <=> Length(a) < Length(b)
        /\ Equal(a, b) <=> Length(a) = Length(b)
        /\ AtMost(a, b) => Length(Minus(b, a)) = Length(b) - Length(a)
        /\ Fits(Length(a) + Length(b)) => Length(Plus(a, b)) = Length(a) + Length(b)
        /\ b.count # 0 => /\ Length(Mod(a, b)) = Length(a) % Length(b)
                          /\ Quotient(a, b)[1] * Length(b) = Quotient(a, b)[2] * Length(a)

\* space_cast loses less than one unit of its target, and never adds.
LengthsKept ==
    \A a \in Spaces, u \in Units :
        LET kept == Length(space_cast(u, a)) IN kept <= Length(a) /\ Length(a) < kept + Ratio(u.exp)

\* a += b is a + b in the unit of a; but a -= b takes off b in whole units of a,
\* which is up to a unit less than what a - b takes off.  What a += b adds,
\* a -= b takes off, and / and % by a count share a out.
LengthsAddUp ==
    \A a, b \in Spaces :
        /\ Fits(Length(a) + Length(b)) =>
               /\ Add(a, b) = space_cast(a.type, Plus(a, b))
               /\ Subtract(Add(a, b), b) = a
        /\ AtLeast(a, b) =>
               Length(Subtract(a, b)) - Length(Minus(a, b)) \in 0..(Ratio(a.type.exp) - 1)
        /\ \A n \in 1..3 : Add(Times(DividedBy(a, n), n), Remainder(a, n)) = a
        /\ Decrement(Increment(a)) = a /\ Negate(Negate(a)) = a
=============================================================================
