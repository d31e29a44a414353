---------------------------- MODULE LogFilesProofs ----------------------------
(***************************************************************************)
(* Proofs about LogFiles, for every pair of limits, every set of lengths   *)
(* of chunks, and any number of files, and about the arithmetic of units   *)
(* it uses, for every size of a rep.                                       *)
(*                                                                         *)
(* The sums of ElimateFiles_ are functions defined by recursion.  That     *)
(* they are what their definitions say, and what holds of them after every *)
(* turn, is proved by induction (Recursion).                               *)
(***************************************************************************)
EXTENDS LogFiles, Recursion

-----------------------------------------------------------------------------
(* Sums over files. *)

File == [name : Name, size : Nat]

\* The sums are what their definition says.
LEMMA SumsAre ==
    ASSUME NEW s \in Seq(File)
    PROVE  /\ Sums(s) \in [0..Len(s) -> Nat]
           /\ Sums(s)[0] = 0
           /\ \A k \in 1..Len(s) : Sums(s)[k] = s[Len(s) + 1 - k].size + Sums(s)[k - 1]
<1> DEFINE n == Len(s)
           F == [p \in (1..n) \X Nat |-> s[n + 1 - p[1]].size + p[2]]
           Def(g) == [k \in 0..n |-> IF k = 0 THEN 0 ELSE s[n + 1 - k].size + g[k - 1]]
<1>1. n \in Nat /\ \A k \in 1..n : s[n + 1 - k].size \in Nat
  <2>1. n \in Nat /\ \A k \in 1..n : n + 1 - k \in 1..n
    OBVIOUS
  <2>2. \A i \in 1..n : s[i] \in File
    OBVIOUS
  <2> HIDE DEF n
  <2> QED BY <2>1, <2>2 DEF File
<1>2. \E g \in [0..n -> Nat] : g = Def(g)
  <2>1. F \in [(1..n) \X Nat -> Nat]
    BY <1>1
  <2>2. \E g \in [0..n -> Nat] : g[0] = 0 /\ \A k \in 1..n : g[k] = F[<<k, g[k - 1]>>]
    <3>1. F \in Maps(n, Nat) /\ 0 \in Nat
      BY <2>1 DEF Maps
    <3> HIDE DEF n, F
    <3>2. Iterated(n, Nat, 0, F) # {}
      BY <3>1, <1>1, Iterates
    <3> QED BY <3>2 DEF Iterated
  <2>3. PICK g \in [0..n -> Nat] : g[0] = 0 /\ \A k \in 1..n : g[k] = F[<<k, g[k - 1]>>]
    BY <2>2
  <2>4. \A k \in 1..n : g[k - 1] \in Nat /\ g[k] = s[n + 1 - k].size + g[k - 1]
    <3> SUFFICES ASSUME NEW k \in 1..n
                 PROVE  g[k - 1] \in Nat /\ g[k] = s[n + 1 - k].size + g[k - 1]
      OBVIOUS
    <3>1. k - 1 \in 0..n /\ g[k - 1] \in Nat
      <4>1. k - 1 \in 0..n
        BY <1>1
      <4> HIDE DEF n
      <4> QED BY <4>1, <2>3
    <3>2. F[<<k, g[k - 1]>>] = s[n + 1 - k].size + g[k - 1]
      <4>1. <<k, g[k - 1]>> \in (1..n) \X Nat
        BY <3>1
      <4> HIDE DEF n
      <4> QED BY <4>1
    <3> QED BY <3>1, <3>2, <2>3
  <2>5. g = Def(g)
    BY <1>1, <2>3, <2>4
  <2> QED BY <2>5
<1>3. Sums(s) = CHOOSE g : g = Def(g)
  BY DEF Sums
<1>4. Sums(s) = Def(Sums(s))
  <2> HIDE DEF Def
  <2> QED BY <1>2, <1>3
<1>5. \A k \in 1..n : Sums(s)[k] = s[n + 1 - k].size + Sums(s)[k - 1]
  <2> HIDE DEF n
  <2> QED BY <1>4, <1>1
<1>6. Sums(s)[0] = 0
  BY <1>4, <1>1
<1> DEFINE T == {m \in Nat : m <= n => Sums(s)[m] \in Nat}
<1>7. 0 \in T
  BY <1>6
<1>8. ASSUME NEW m \in Nat, m \in T PROVE m + 1 \in T
  <2> SUFFICES ASSUME m + 1 <= n PROVE Sums(s)[m + 1] \in Nat
    OBVIOUS
  <2>1. m + 1 \in 1..n /\ Sums(s)[m] \in Nat /\ (m + 1) - 1 = m
    BY <1>8, <1>1
  <2>2. Sums(s)[m + 1] = s[n + 1 - (m + 1)].size + Sums(s)[m]
    BY <2>1, <1>5
  <2> QED BY <2>1, <2>2, <1>1
<1>9. Nat \subseteq T
  <2> HIDE DEF T
  <2> QED BY <1>7, <1>8, Induction
<1>10. Sums(s) \in [0..n -> Nat]
  BY <1>4, <1>9, <1>1
<1> QED BY <1>5, <1>6, <1>10

\* They grow with the number of files.
LEMMA SumsGrow ==
    ASSUME NEW s \in Seq(File), NEW i \in 0..Len(s), NEW j \in 0..Len(s), i <= j
    PROVE  Sums(s)[i] <= Sums(s)[j]
<1> DEFINE n == Len(s)
           T == {d \in Nat : i + d <= n => Sums(s)[i] <= Sums(s)[i + d]}
<1>1. \A k \in 0..n : Sums(s)[k] \in Nat
  <2>1. Sums(s) \in [0..n -> Nat]
    BY SumsAre
  <2> QED BY <2>1
<1>2. \A k \in 1..n : s[n + 1 - k].size \in Nat
  <2>1. \A k \in 1..n : n + 1 - k \in 1..n
    OBVIOUS
  <2>2. \A k \in 1..n : s[k] \in File
    OBVIOUS
  <2> HIDE DEF n
  <2> QED BY <2>1, <2>2 DEF File
<1>3. \A k \in 1..n : Sums(s)[k - 1] <= Sums(s)[k]
  <2> SUFFICES ASSUME NEW k \in 1..n PROVE Sums(s)[k - 1] <= Sums(s)[k]
    OBVIOUS
  <2>1. Sums(s)[k] = s[n + 1 - k].size + Sums(s)[k - 1]
    BY SumsAre
  <2>2. k - 1 \in 0..n /\ Sums(s)[k - 1] \in Nat
    BY <1>1
  <2> QED BY <2>1, <2>2, <1>2
<1>4. 0 \in T
  <2>1. i + 0 = i /\ Sums(s)[i] \in Nat
    BY <1>1
  <2> QED BY <2>1
<1>5. ASSUME NEW d \in Nat, d \in T PROVE d + 1 \in T
  <2> SUFFICES ASSUME i + (d + 1) <= n PROVE Sums(s)[i] <= Sums(s)[i + (d + 1)]
    OBVIOUS
  <2>1. i + (d + 1) \in 1..n /\ (i + (d + 1)) - 1 = i + d /\ i + d \in 0..n
    OBVIOUS
  <2>2. Sums(s)[i + d] <= Sums(s)[i + (d + 1)]
    BY <2>1, <1>3
  <2>3. Sums(s)[i] <= Sums(s)[i + d]
    BY <1>5, <2>1
  <2>4. Sums(s)[i] \in Nat /\ Sums(s)[i + d] \in Nat /\ Sums(s)[i + (d + 1)] \in Nat
    BY <2>1, <1>1
  <2> QED BY <2>2, <2>3, <2>4
<1>6. Nat \subseteq T
  <2> HIDE DEF T
  <2> QED BY <1>4, <1>5, Induction
<1>7. j - i \in Nat /\ i + (j - i) = j /\ i + (j - i) <= n
  OBVIOUS
<1> QED BY <1>6, <1>7

\* The j files written last.
Newest(s, j) == SubSeq(s, Len(s) + 1 - j, Len(s))

\* What they are, one by one.
LEMMA NewestAre ==
    ASSUME NEW s \in Seq(File), NEW j \in 0..Len(s)
    PROVE  /\ Newest(s, j) \in Seq(File)
           /\ Len(Newest(s, j)) = j
           /\ \A k \in 1..j : Newest(s, j)[j + 1 - k] = s[Len(s) + 1 - k]
<1>1. Newest(s, j) \in Seq(File) /\ Len(Newest(s, j)) = j
  BY DEF Newest
<1>2. \A i \in 1..j : Newest(s, j)[i] = s[Len(s) - j + i]
  BY SMTT(20) DEF Newest
<1>3. ASSUME NEW k \in 1..j PROVE Newest(s, j)[j + 1 - k] = s[Len(s) + 1 - k]
  <2>1. j + 1 - k \in 1..j /\ Len(s) - j + (j + 1 - k) = Len(s) + 1 - k
    OBVIOUS
  <2> QED BY <2>1, <1>2
<1> QED BY <1>1, <1>3

\* Their sum is one of the sums of all.
LEMMA NewestSum ==
    ASSUME NEW s \in Seq(File), NEW j \in 0..Len(s)
    PROVE  Bytes(Newest(s, j)) = Sums(s)[j]
<1> DEFINE t == Newest(s, j)
           T == {k \in Nat : k <= j => Sums(t)[k] = Sums(s)[k]}
<1>1. t \in Seq(File) /\ Len(t) = j /\ \A k \in 1..j : t[j + 1 - k] = s[Len(s) + 1 - k]
  BY NewestAre
<1> HIDE DEF t
<1>2. 0 \in T
  <2>1. Sums(t)[0] = 0 /\ Sums(s)[0] = 0
    BY <1>1, SumsAre
  <2> QED BY <2>1
<1>3. ASSUME NEW k \in Nat, k \in T PROVE k + 1 \in T
  <2> SUFFICES ASSUME k + 1 <= j PROVE Sums(t)[k + 1] = Sums(s)[k + 1]
    OBVIOUS
  <2>1. k + 1 \in 1..j /\ k + 1 \in 1..Len(s) /\ (k + 1) - 1 = k
    OBVIOUS
  <2>2. Sums(t)[k + 1] = t[j + 1 - (k + 1)].size + Sums(t)[k]
    <3>1. \A i \in 1..Len(t) : Sums(t)[i] = t[Len(t) + 1 - i].size + Sums(t)[i - 1]
      BY <1>1, SumsAre
    <3> QED BY <3>1, <2>1, <1>1
  <2>3. Sums(s)[k + 1] = s[Len(s) + 1 - (k + 1)].size + Sums(s)[k]
    <3>1. \A i \in 1..Len(s) : Sums(s)[i] = s[Len(s) + 1 - i].size + Sums(s)[i - 1]
      BY SumsAre
    <3> QED BY <3>1, <2>1
  <2>4. t[j + 1 - (k + 1)] = s[Len(s) + 1 - (k + 1)]
    BY <1>1, <2>1
  <2>5. Sums(t)[k] = Sums(s)[k]
    BY <1>3
  <2> QED BY <2>2, <2>3, <2>4, <2>5
<1>4. Nat \subseteq T
  <2> HIDE DEF T
  <2> QED BY <1>2, <1>3, Induction
<1>5. Sums(t)[j] = Sums(s)[j]
  BY <1>4
<1> QED BY <1>1, <1>5 DEF Bytes, t

-----------------------------------------------------------------------------
(* The loop of ElimateFiles_. *)

Tally == [used : Nat, kept : Seq(File), thrown : BOOLEAN]
Hows(s) == [1..Len(s) -> Outcomes]

\* One turn.
LEMMA CountTypes ==
    ASSUME NEW f \in File, NEW how, NEW acc \in Tally
    PROVE  Count(f, how, acc) \in Tally
<1>1. /\ f.size \in Nat /\ acc.used \in Nat /\ acc.kept \in Seq(File)
      /\ acc.thrown \in BOOLEAN
  BY DEF File, Tally
<1>2. <<f>> \o acc.kept \in Seq(File)
  BY <1>1
<1> QED BY <1>1, <1>2 DEF Count, Tally

\* The turns are what their definition says.
LEMMA TurnsAre ==
    ASSUME NEW s \in Seq(File), NEW how
    PROVE  /\ Turns(s, how)[0] = [used |-> 0, kept |-> <<>>, thrown |-> FALSE]
           /\ \A k \in 1..Len(s) :
                 /\ Turns(s, how)[k - 1] \in Tally
                 /\ Turns(s, how)[k] = Count(s[Len(s) + 1 - k], how[Len(s) + 1 - k],
                                             Turns(s, how)[k - 1])
           /\ Turns(s, how)[Len(s)] \in Tally
<1> DEFINE n == Len(s)
           a == [used |-> 0, kept |-> <<>>, thrown |-> FALSE]
           Turn(k, acc) == Count(s[n + 1 - k], how[n + 1 - k], acc)
           F == [p \in (1..n) \X Tally |-> Turn(p[1], p[2])]
           Def(g) == [k \in 0..n |-> IF k = 0 THEN a ELSE Turn(k, g[k - 1])]
<1>1. n \in Nat /\ \A k \in 1..n : s[n + 1 - k] \in File
  <2>1. n \in Nat /\ \A k \in 1..n : n + 1 - k \in 1..n
    OBVIOUS
  <2>2. \A i \in 1..n : s[i] \in File
    OBVIOUS
  <2> HIDE DEF n
  <2> QED BY <2>1, <2>2
<1>2. a \in Tally
  BY DEF Tally
<1>3. \A k \in 1..n : \A acc \in Tally : Turn(k, acc) \in Tally
  <2> HIDE DEF n
  <2> QED BY <1>1, CountTypes
<1> HIDE DEF Turn
<1>4. PICK g \in [0..n -> Tally] : g[0] = a /\ \A k \in 1..n : g[k] = Turn(k, g[k - 1])
  <2>1. F \in Maps(n, Tally)
    BY <1>3 DEF Maps
  <2>2. Iterated(n, Tally, a, F) # {}
    <3> HIDE DEF n, a, F
    <3> QED BY <1>1, <1>2, <2>1, Iterates
  <2>3. PICK g \in [0..n -> Tally] : g[0] = a /\ \A k \in 1..n : g[k] = F[<<k, g[k - 1]>>]
    BY <2>2 DEF Iterated
  <2>4. ASSUME NEW k \in 1..n PROVE g[k] = Turn(k, g[k - 1])
    <3>1. k - 1 \in 0..n
      BY <1>1
    <3>2. <<k, g[k - 1]>> \in (1..n) \X Tally
      <4> HIDE DEF n
      <4> QED BY <3>1, <2>3
    <3>3. F[<<k, g[k - 1]>>] = Turn(k, g[k - 1])
      <4> HIDE DEF n
      <4> QED BY <3>2
    <3> QED BY <3>3, <2>3
  <2> QED BY <2>3, <2>4
<1>5. g = Def(g)
  <2> HIDE DEF n, a
  <2> QED BY <1>1, <1>4
<1>6. Turns(s, how) = CHOOSE h : h = Def(h)
  BY DEF Turns, Turn
<1>7. Turns(s, how) = Def(Turns(s, how))
  <2> HIDE DEF Def
  <2> QED BY <1>5, <1>6
<1> HIDE DEF n, a
<1>8. Turns(s, how)[0] = a
  BY <1>7, <1>1
<1>9. \A k \in 1..n : Turns(s, how)[k] = Turn(k, Turns(s, how)[k - 1])
  BY <1>7, <1>1
<1> DEFINE T == {m \in Nat : m <= n => Turns(s, how)[m] \in Tally}
<1>10. 0 \in T
  BY <1>2, <1>8
<1>11. ASSUME NEW m \in Nat, m \in T PROVE m + 1 \in T
  <2> SUFFICES ASSUME m + 1 <= n PROVE Turns(s, how)[m + 1] \in Tally
    OBVIOUS
  <2>1. m + 1 \in 1..n /\ (m + 1) - 1 = m /\ Turns(s, how)[m] \in Tally
    BY <1>11, <1>1
  <2> QED BY <2>1, <1>3, <1>9
<1>12. Nat \subseteq T
  <2> HIDE DEF T
  <2> QED BY <1>10, <1>11, Induction
<1>13. \A m \in 0..n : Turns(s, how)[m] \in Tally
  BY <1>12, <1>1
<1>14. \A k \in 1..n : k - 1 \in 0..n
  BY <1>1
<1>15. n \in 0..n
  BY <1>1
<1> QED BY <1>8, <1>9, <1>13, <1>14, <1>15 DEF n, a, Turn

\* Files in a directory, no two of them with one name.
Distinct(s) == \A i, j \in DOMAIN s : i # j => s[i].name # s[j].name

\* The place of the k-th file from the end.
Back(s, k) == Len(s) + 1 - k

\* A file that has been removed would not fit.
StaysIfFits(s, kept, k) ==
    \A i \in 1..k : \/ \E q \in DOMAIN kept : kept[q] = s[Back(s, i)]
                    \/ Sums(s)[i] > Total

\* One that does not fit is removed, or cannot be.
Cleared(s, how, kept, k) ==
    \A i \in 1..k : Sums(s)[i] > Total =>
        \/ how[Back(s, i)] = "refused"
        \/ \A q \in DOMAIN kept : kept[q].name # s[Back(s, i)].name

\* Those written last stay, as many as fit, and before them only what cannot be removed.
Tailed(s, how, kept, k, j) ==
    /\ j <= Len(kept) /\ Len(kept) <= k
    /\ Newest(kept, j) = Newest(s, j)
    /\ Sums(s)[j] <= Total
    /\ j < k => Sums(s)[j + 1] > Total
    /\ \A q \in 1..Len(kept) - j : \E p \in 1..Len(s) : how[p] = "refused" /\ kept[q].name = s[p].name

\* What there is after k turns.
Reached(s, how, k) ==
    LET acc == Turns(s, how)[k] IN
    /\ \A q \in DOMAIN acc.kept : \E i \in 1..k : acc.kept[q] = s[Back(s, i)]
    /\ Distinct(acc.kept)
    /\ StaysIfFits(s, acc.kept, k)
    /\ ~ acc.thrown => /\ acc.used = Sums(s)[k]
                       /\ Cleared(s, how, acc.kept, k)
                       /\ \E j \in 0..k : Tailed(s, how, acc.kept, k, j)

\* A file put before others.
LEMMA Before ==
    ASSUME NEW f \in File, NEW t \in Seq(File)
    PROVE  /\ <<f>> \o t \in Seq(File) /\ Len(<<f>> \o t) = Len(t) + 1
           /\ (<<f>> \o t)[1] = f
           /\ \A q \in 1..Len(t) : (<<f>> \o t)[q + 1] = t[q]
           /\ \A q \in 2..Len(t) + 1 : (<<f>> \o t)[q] = t[q - 1]
           /\ \A j \in 0..Len(t) : Newest(<<f>> \o t, j) = Newest(t, j)
<1> DEFINE u == <<f>> \o t
<1>1. u \in Seq(File) /\ Len(u) = Len(t) + 1
  OBVIOUS
<1>2. u[1] = f /\ \A q \in 1..Len(t) : u[q + 1] = t[q]
  OBVIOUS
<1>3. \A q \in 2..Len(t) + 1 : u[q] = t[q - 1]
  <2>1. \A q \in 2..Len(t) + 1 : q - 1 \in 1..Len(t) /\ (q - 1) + 1 = q
    OBVIOUS
  <2> HIDE DEF u
  <2> QED BY <1>2, <2>1
<1>4. ASSUME NEW j \in 0..Len(t) PROVE Newest(u, j) = Newest(t, j)
  <2>1. /\ Newest(u, j) \in Seq(File) /\ Newest(t, j) \in Seq(File)
        /\ Len(Newest(u, j)) = j /\ Len(Newest(t, j)) = j
    <3>1. j \in 0..Len(u)
      BY <1>1
    <3> HIDE DEF u
    <3> QED BY <1>1, <3>1, NewestAre
  <2>2. ASSUME NEW i \in 1..j PROVE Newest(u, j)[i] = Newest(t, j)[i]
    <3> HIDE DEF u
    <3>1. Newest(t, j)[i] = t[Len(t) - j + i]
      BY SMTT(20) DEF Newest
    <3>2. Newest(u, j)[i] = u[Len(t) + 1 - j + i]
      BY SMTT(20), <1>1 DEF Newest
    <3>3. Len(t) - j + i \in 1..Len(t) /\ (Len(t) - j + i) + 1 = Len(t) + 1 - j + i
      OBVIOUS
    <3> QED BY <3>1, <3>2, <3>3, <1>2
  <2> HIDE DEF u
  <2> QED BY <2>1, <2>2
<1> QED BY <1>1, <1>2, <1>3, <1>4

\* All of a sequence are its last.
LEMMA NewestAll ==
    ASSUME NEW t \in Seq(File)
    PROVE  Newest(t, Len(t)) = t
BY DEF Newest

\* What a turn starts from and comes to.
LEMMA TurnIs ==
    ASSUME NEW s \in Seq(File), NEW how \in Hows(s), NEW k \in 1..Len(s), Total \in Nat,
           ~ Turns(s, how)[k - 1].thrown => Turns(s, how)[k - 1].used = Sums(s)[k - 1]
    PROVE  LET acc == Turns(s, how)[k - 1]
               new == Turns(s, how)[k]
               f == s[Back(s, k)]
               h == how[Back(s, k)]
               over == Sums(s)[k] > Total /\ ~ acc.thrown
           IN  /\ f \in File /\ acc.kept \in Seq(File) /\ new.kept \in Seq(File)
               /\ Back(s, k) \in 1..Len(s) /\ h \in Outcomes
               /\ new.kept = IF over /\ h = "removed" THEN acc.kept ELSE <<f>> \o acc.kept
               /\ acc.thrown \in BOOLEAN
               /\ new.thrown <=> (acc.thrown \/ (over /\ h = "thrown"))
               /\ ~ acc.thrown => new.used = Sums(s)[k]
<1> DEFINE acc == Turns(s, how)[k - 1]
           new == Turns(s, how)[k]
           f == s[Back(s, k)]
           h == how[Back(s, k)]
<1>1. Back(s, k) \in 1..Len(s) /\ k - 1 \in 0..Len(s) /\ k \in 0..Len(s)
  BY DEF Back
<1>2. f \in File /\ f.size \in Nat /\ h \in Outcomes
  <2>1. f \in File /\ h \in Outcomes
    BY <1>1 DEF Hows
  <2> QED BY <2>1 DEF File
<1>3. acc \in Tally /\ new = Count(f, h, acc)
  BY TurnsAre DEF Back
<1> HIDE DEF acc, new, f, h
<1>4. /\ acc.used \in Nat /\ acc.kept \in Seq(File) /\ acc.thrown \in BOOLEAN
  BY <1>3 DEF Tally
<1>5. /\ new.used = acc.used + f.size
      /\ new.kept = IF (acc.used + f.size > Total /\ ~ acc.thrown) /\ h = "removed"
                    THEN acc.kept ELSE <<f>> \o acc.kept
      /\ new.thrown = (acc.thrown \/ ((acc.used + f.size > Total /\ ~ acc.thrown) /\ h = "thrown"))
  BY <1>3 DEF Count
<1>6. Sums(s)[k] = f.size + Sums(s)[k - 1] /\ Sums(s)[k - 1] \in Nat
  <2>1. Sums(s)[k] = f.size + Sums(s)[k - 1]
    BY SumsAre DEF f, Back
  <2>2. Sums(s) \in [0..Len(s) -> Nat]
    BY SumsAre
  <2> QED BY <1>1, <2>1, <2>2
<1>7. ~ acc.thrown => acc.used + f.size = Sums(s)[k]
  BY <1>2, <1>4, <1>6 DEF acc
<1>8. <<f>> \o acc.kept \in Seq(File)
  BY <1>2, <1>4
<1>9. new.kept \in Seq(File)
  BY <1>4, <1>5, <1>8
<1> QED BY <1>1, <1>2, <1>4, <1>5, <1>7, <1>9 DEF acc, new, f, h

\* A turn that removes its file.
LEMMA TurnRemoves ==
    ASSUME NEW s \in Seq(File), Distinct(s), NEW how, NEW k \in 1..Len(s), Total \in Nat,
           NEW kept \in Seq(File), Sums(s)[k] > Total,
           \A q \in DOMAIN kept : \E i \in 1..k - 1 : kept[q] = s[Back(s, i)],
           StaysIfFits(s, kept, k - 1)
    PROVE  /\ \A q \in DOMAIN kept : \E i \in 1..k : kept[q] = s[Back(s, i)]
           /\ StaysIfFits(s, kept, k)
           /\ Cleared(s, how, kept, k - 1) => Cleared(s, how, kept, k)
           /\ \A j \in 0..k - 1 : Tailed(s, how, kept, k - 1, j) => Tailed(s, how, kept, k, j)
<1>1. \A i \in 1..k : i \in 1..k - 1 \/ i = k
  OBVIOUS
<1>2. \A i \in 1..k - 1 : i \in 1..k
  OBVIOUS
<1>3. \A q \in DOMAIN kept : \E i \in 1..k : kept[q] = s[Back(s, i)]
  BY <1>2
<1>4. StaysIfFits(s, kept, k)
  BY <1>1 DEF StaysIfFits
<1>5. \A q \in DOMAIN kept : kept[q].name # s[Back(s, k)].name
  <2>1. \A i \in 1..k - 1 : Back(s, i) \in DOMAIN s /\ Back(s, k) \in DOMAIN s
                            /\ Back(s, i) # Back(s, k)
    BY DEF Back
  <2>2. \A i \in 1..k - 1 : s[Back(s, i)].name # s[Back(s, k)].name
    BY <2>1 DEF Distinct
  <2> QED BY <2>2
<1>6. Cleared(s, how, kept, k - 1) => Cleared(s, how, kept, k)
  BY <1>1, <1>5 DEF Cleared
<1>7. ASSUME NEW j \in 0..k - 1, Tailed(s, how, kept, k - 1, j) PROVE Tailed(s, how, kept, k, j)
  <2>1. j < k => Sums(s)[j + 1] > Total
    <3>1. CASE j = k - 1
      <4>1. j + 1 = k
        BY <3>1
      <4> QED BY <4>1
    <3>2. CASE j # k - 1
      <4>1. j < k - 1
        BY <3>2
      <4> QED BY <4>1, <1>7 DEF Tailed
    <3> QED BY <3>1, <3>2
  <2>2. Len(kept) <= k
    <3>1. Len(kept) <= k - 1
      BY <1>7 DEF Tailed
    <3> QED BY <3>1
  <2> QED BY <1>7, <2>1, <2>2 DEF Tailed
<1> QED BY <1>3, <1>4, <1>6, <1>7

\* A turn that leaves its file where it is.
LEMMA TurnKeeps ==
    ASSUME NEW s \in Seq(File), Distinct(s), NEW how, NEW k \in 1..Len(s), Total \in Nat,
           NEW kept \in Seq(File), Distinct(kept),
           \A q \in DOMAIN kept : \E i \in 1..k - 1 : kept[q] = s[Back(s, i)],
           StaysIfFits(s, kept, k - 1), NEW new, new = <<s[Back(s, k)]>> \o kept
    PROVE  /\ \A q \in DOMAIN new : \E i \in 1..k : new[q] = s[Back(s, i)]
           /\ Distinct(new)
           /\ StaysIfFits(s, new, k)
<1> DEFINE f == s[Back(s, k)]
<1>1. \A i \in 1..k : i \in 1..k - 1 \/ i = k
  OBVIOUS
<1>2. \A i \in 1..k - 1 : i \in 1..k
  OBVIOUS
<1>3. \A i \in 1..k - 1 : s[Back(s, i)].name # f.name
  <2>1. \A i \in 1..k - 1 : Back(s, i) \in DOMAIN s /\ Back(s, k) \in DOMAIN s
                            /\ Back(s, i) # Back(s, k)
    BY DEF Back
  <2> QED BY <2>1 DEF Distinct
<1>4. f \in File
  <2>1. Back(s, k) \in 1..Len(s)
    BY DEF Back
  <2> QED BY <2>1
<1>5. /\ new \in Seq(File) /\ Len(new) = Len(kept) + 1 /\ new[1] = f
      /\ \A q \in 1..Len(kept) : new[q + 1] = kept[q]
      /\ \A q \in 2..Len(kept) + 1 : new[q] = kept[q - 1]
  <2> HIDE DEF f
  <2>1. new = <<f>> \o kept
    BY DEF f
  <2> QED BY <1>4, <2>1, Before
<1> HIDE DEF f
<1>6. DOMAIN new = 1..Len(kept) + 1 /\ DOMAIN kept = 1..Len(kept) /\ Len(kept) \in Nat
  BY <1>5
<1>7. \A q \in DOMAIN new : q = 1 \/ (q - 1 \in DOMAIN kept /\ new[q] = kept[q - 1])
  BY <1>5, <1>6
<1>8. ASSUME NEW q \in DOMAIN new PROVE \E i \in 1..k : new[q] = s[Back(s, i)]
  <2>1. CASE q = 1
    <3>1. k \in 1..k /\ new[q] = s[Back(s, k)]
      BY <2>1, <1>5 DEF f
    <3> QED BY <3>1
  <2>2. CASE q # 1
    <3>1. q - 1 \in DOMAIN kept /\ new[q] = kept[q - 1]
      BY <2>2, <1>7
    <3> QED BY <3>1, <1>2
  <2> QED BY <2>1, <2>2
<1>9. ASSUME NEW i \in DOMAIN new, NEW l \in DOMAIN new, i # l PROVE new[i].name # new[l].name
  <2>1. \A q \in DOMAIN kept : kept[q].name # f.name
    BY <1>3
  <2>2. CASE i = 1
    BY <2>1, <2>2, <1>5, <1>7, <1>9
  <2>3. CASE l = 1
    BY <2>1, <2>3, <1>5, <1>7, <1>9
  <2>4. CASE i # 1 /\ l # 1
    <3>1. /\ i - 1 \in DOMAIN kept /\ l - 1 \in DOMAIN kept /\ i - 1 # l - 1
          /\ new[i] = kept[i - 1] /\ new[l] = kept[l - 1]
      <4>1. /\ i - 1 \in DOMAIN kept /\ l - 1 \in DOMAIN kept
            /\ new[i] = kept[i - 1] /\ new[l] = kept[l - 1]
        BY <2>4, <1>7
      <4>2. i \in 1..Len(kept) + 1 /\ l \in 1..Len(kept) + 1 /\ Len(kept) \in Nat
        BY <1>6
      <4>3. i - 1 # l - 1
        BY <4>2, <1>9
      <4> QED BY <4>1, <4>3
    <3> QED BY <3>1 DEF Distinct
  <2> QED BY <2>2, <2>3, <2>4
<1>10. Distinct(new)
  BY <1>9 DEF Distinct
<1>11. StaysIfFits(s, new, k)
  <2> SUFFICES ASSUME NEW i \in 1..k, ~ (Sums(s)[i] > Total)
               PROVE  \E q \in DOMAIN new : new[q] = s[Back(s, i)]
    BY DEF StaysIfFits
  <2>1. CASE i = k
    <3>1. 1 \in DOMAIN new
      <4>1. 1 \in 1..Len(kept) + 1
        BY <1>6
      <4> QED BY <4>1, <1>6
    <3> QED BY <2>1, <3>1, <1>5 DEF f
  <2>2. CASE i # k
    <3>1. PICK q \in DOMAIN kept : kept[q] = s[Back(s, i)]
      BY <2>2, <1>1 DEF StaysIfFits
    <3>2. q + 1 \in DOMAIN new /\ new[q + 1] = kept[q]
      <4>1. q \in 1..Len(kept) /\ Len(kept) \in Nat
        BY <1>6
      <4>2. q + 1 \in 1..Len(kept) + 1
        BY <4>1
      <4> QED BY <1>5, <1>6, <4>1, <4>2
    <3> QED BY <3>1, <3>2
  <2> QED BY <2>1, <2>2
<1> QED BY <1>8, <1>10, <1>11

\* Its file stays because it cannot be removed.
LEMMA TurnRefused ==
    ASSUME NEW s \in Seq(File), Distinct(s), NEW how, NEW k \in 1..Len(s), Total \in Nat,
           NEW kept \in Seq(File), Sums(s)[k] > Total, how[Back(s, k)] = "refused",
           Cleared(s, how, kept, k - 1), NEW j \in 0..k - 1, Tailed(s, how, kept, k - 1, j),
           NEW new, new = <<s[Back(s, k)]>> \o kept
    PROVE  Cleared(s, how, new, k) /\ Tailed(s, how, new, k, j)
<1> DEFINE f == s[Back(s, k)]
<1>1. \A i \in 1..k : i \in 1..k - 1 \/ i = k
  OBVIOUS
<1>2. Back(s, k) \in 1..Len(s) /\ f \in File
  <2>1. Back(s, k) \in 1..Len(s)
    BY DEF Back
  <2> QED BY <2>1
<1>3. \A i \in 1..k - 1 : s[Back(s, i)].name # f.name
  <2>1. \A i \in 1..k - 1 : Back(s, i) \in DOMAIN s /\ Back(s, k) \in DOMAIN s
                            /\ Back(s, i) # Back(s, k)
    BY DEF Back
  <2> QED BY <2>1 DEF Distinct
<1> HIDE DEF f
<1>4. new = <<f>> \o kept
  BY DEF f
<1>5. /\ new \in Seq(File) /\ Len(new) = Len(kept) + 1 /\ new[1] = f
      /\ \A q \in 2..Len(kept) + 1 : new[q] = kept[q - 1]
  BY <1>2, <1>4, Before
<1>6. j \in 0..Len(kept) /\ Len(kept) <= k - 1
  BY DEF Tailed
<1>7. Newest(new, j) = Newest(kept, j)
  BY <1>2, <1>4, <1>6, Before
<1>8. DOMAIN new = 1..Len(kept) + 1 /\ DOMAIN kept = 1..Len(kept) /\ Len(kept) \in Nat
  BY <1>5
<1>9. \A q \in DOMAIN new : q = 1 \/ (q - 1 \in DOMAIN kept /\ new[q] = kept[q - 1])
  BY <1>5, <1>8
<1>10. ASSUME NEW i \in 1..k, Sums(s)[i] > Total
       PROVE  \/ how[Back(s, i)] = "refused"
              \/ \A q \in DOMAIN new : new[q].name # s[Back(s, i)].name
  <2>1. CASE i = k
    BY <2>1
  <2>2. CASE i # k
    <3>1. i \in 1..k - 1
      BY <2>2, <1>1
    <3>2. \/ how[Back(s, i)] = "refused"
          \/ \A q \in DOMAIN kept : kept[q].name # s[Back(s, i)].name
      BY <3>1, <1>10 DEF Cleared
    <3> QED BY <3>1, <3>2, <1>3, <1>5, <1>9
  <2> QED BY <2>1, <2>2
<1>11. Cleared(s, how, new, k)
  BY <1>10 DEF Cleared
<1>12. j < k => Sums(s)[j + 1] > Total
  <2>1. CASE j = k - 1
    <3>1. j + 1 = k
      BY <2>1
    <3> QED BY <3>1
  <2>2. CASE j # k - 1
    <3>1. j < k - 1
      BY <2>2
    <3> QED BY <3>1 DEF Tailed
  <2> QED BY <2>1, <2>2
<1>13. ASSUME NEW q \in 1..Len(new) - j
       PROVE  \E p \in 1..Len(s) : how[p] = "refused" /\ new[q].name = s[p].name
  <2>1. CASE q = 1
    BY <2>1, <1>2, <1>5 DEF f
  <2>2. CASE q # 1
    <3>1. q - 1 \in 1..Len(kept) - j /\ q \in 2..Len(kept) + 1
      BY <2>2, <1>5, <1>6, <1>8
    <3>2. \E p \in 1..Len(s) : how[p] = "refused" /\ kept[q - 1].name = s[p].name
      BY <3>1 DEF Tailed
    <3> QED BY <3>1, <3>2, <1>5
  <2> QED BY <2>1, <2>2
<1>14. Len(new) <= k /\ j <= Len(new)
  BY <1>5, <1>6, <1>8
<1>15. Newest(new, j) = Newest(s, j) /\ Sums(s)[j] <= Total
  BY <1>7 DEF Tailed
<1>16. Tailed(s, how, new, k, j)
  BY <1>12, <1>13, <1>14, <1>15 DEF Tailed
<1> QED BY <1>11, <1>16

\* It stays because it fits, as all those after it did.
LEMMA TurnFits ==
    ASSUME NEW s \in Seq(File), NEW how, NEW k \in 1..Len(s), Total \in Nat,
           NEW kept \in Seq(File), ~ (Sums(s)[k] > Total),
           NEW j \in 0..k - 1, Tailed(s, how, kept, k - 1, j),
           NEW new, new = <<s[Back(s, k)]>> \o kept
    PROVE  Cleared(s, how, new, k) /\ Tailed(s, how, new, k, k)
<1> DEFINE f == s[Back(s, k)]
<1>1. \A i \in 0..Len(s) : Sums(s)[i] \in Nat
  <2>1. Sums(s) \in [0..Len(s) -> Nat]
    BY SumsAre
  <2> QED BY <2>1
<1>2. \A i \in 0..k : i \in 0..Len(s) /\ Sums(s)[i] <= Sums(s)[k]
  <2>1. \A i \in 0..k : i \in 0..Len(s) /\ k \in 0..Len(s) /\ i <= k
    OBVIOUS
  <2> QED BY <2>1, SumsGrow
<1>3. \A i \in 0..k : ~ (Sums(s)[i] > Total)
  <2>1. k \in 0..Len(s)
    OBVIOUS
  <2> QED BY <2>1, <1>1, <1>2
<1>4. Cleared(s, how, new, k)
  BY <1>3 DEF Cleared
<1>5. j = k - 1
  <2> SUFFICES ASSUME j < k - 1 PROVE FALSE
    OBVIOUS
  <2>1. Sums(s)[j + 1] > Total
    BY DEF Tailed
  <2>2. j + 1 \in 0..k
    OBVIOUS
  <2> QED BY <2>1, <2>2, <1>3
<1>6. Len(kept) = k - 1
  <2>1. j <= Len(kept) /\ Len(kept) <= k - 1 /\ Len(kept) \in Nat
    BY DEF Tailed
  <2> QED BY <2>1, <1>5
<1>7. kept = Newest(s, k - 1)
  <2>1. Newest(kept, Len(kept)) = kept
    BY NewestAll
  <2>2. Newest(kept, j) = Newest(s, j)
    BY DEF Tailed
  <2> QED BY <2>1, <2>2, <1>5, <1>6
<1>8. Newest(s, k) = <<f>> \o Newest(s, k - 1)
  BY DEF Newest, Back
<1>9. new = Newest(s, k)
  BY <1>7, <1>8
<1>10. new \in Seq(File) /\ Len(new) = k
  <2>1. k \in 0..Len(s)
    OBVIOUS
  <2> QED BY <2>1, <1>9, NewestAre
<1>11. Newest(new, k) = new
  BY <1>10, NewestAll
<1>12. 1..Len(new) - k = {} /\ k <= Len(new) /\ Len(new) <= k /\ ~ (k < k)
  BY <1>10
<1>13. Sums(s)[k] <= Total
  BY <1>1, <1>3
<1>14. Tailed(s, how, new, k, k)
  BY <1>9, <1>11, <1>12, <1>13 DEF Tailed
<1> QED BY <1>4, <1>14

\* One turn keeps to what there is.
LEMMA OneTurn ==
    ASSUME NEW s \in Seq(File), Distinct(s), NEW how \in Hows(s), NEW k \in 1..Len(s),
           Total \in Nat, Reached(s, how, k - 1)
    PROVE  Reached(s, how, k)
<1> DEFINE acc == Turns(s, how)[k - 1]
           new == Turns(s, how)[k]
           f == s[Back(s, k)]
           h == how[Back(s, k)]
           over == Sums(s)[k] > Total /\ ~ acc.thrown
<1>1. /\ \A q \in DOMAIN acc.kept : \E i \in 1..k - 1 : acc.kept[q] = s[Back(s, i)]
      /\ Distinct(acc.kept)
      /\ StaysIfFits(s, acc.kept, k - 1)
      /\ ~ acc.thrown => /\ acc.used = Sums(s)[k - 1]
                         /\ Cleared(s, how, acc.kept, k - 1)
                         /\ \E j \in 0..k - 1 : Tailed(s, how, acc.kept, k - 1, j)
  BY DEF Reached
<1>2. /\ f \in File /\ acc.kept \in Seq(File) /\ new.kept \in Seq(File)
      /\ h \in Outcomes
      /\ new.kept = IF over /\ h = "removed" THEN acc.kept ELSE <<f>> \o acc.kept
      /\ acc.thrown \in BOOLEAN
      /\ new.thrown <=> (acc.thrown \/ (over /\ h = "thrown"))
      /\ ~ acc.thrown => new.used = Sums(s)[k]
  BY <1>1, TurnIs
<1> HIDE DEF acc, new
<1> SUFFICES /\ \A q \in DOMAIN new.kept : \E i \in 1..k : new.kept[q] = s[Back(s, i)]
             /\ Distinct(new.kept)
             /\ StaysIfFits(s, new.kept, k)
             /\ ~ new.thrown => /\ new.used = Sums(s)[k]
                                /\ Cleared(s, how, new.kept, k)
                                /\ \E j \in 0..k : Tailed(s, how, new.kept, k, j)
  BY DEF Reached, new
<1>3. CASE over /\ h = "removed"
  <2>1. new.kept = acc.kept /\ Sums(s)[k] > Total /\ ~ acc.thrown
    BY <1>2, <1>3
  <2>2. PICK j \in 0..k - 1 : Tailed(s, how, acc.kept, k - 1, j)
    BY <1>1, <2>1
  <2>3. /\ \A q \in DOMAIN acc.kept : \E i \in 1..k : acc.kept[q] = s[Back(s, i)]
        /\ StaysIfFits(s, acc.kept, k)
        /\ Cleared(s, how, acc.kept, k)
        /\ Tailed(s, how, acc.kept, k, j)
    BY <1>1, <1>2, <2>1, <2>2, TurnRemoves
  <2>4. j \in 0..k
    OBVIOUS
  <2> QED BY <1>1, <1>2, <2>1, <2>3, <2>4
<1>4. CASE ~ (over /\ h = "removed")
  <2>1. new.kept = <<f>> \o acc.kept
    BY <1>2, <1>4
  <2>2. /\ \A q \in DOMAIN new.kept : \E i \in 1..k : new.kept[q] = s[Back(s, i)]
        /\ Distinct(new.kept)
        /\ StaysIfFits(s, new.kept, k)
    BY <1>1, <1>2, <2>1, TurnKeeps
  <2>3. ASSUME ~ new.thrown
        PROVE  /\ new.used = Sums(s)[k]
               /\ Cleared(s, how, new.kept, k)
               /\ \E j \in 0..k : Tailed(s, how, new.kept, k, j)
    <3>1. ~ acc.thrown /\ (~ (Sums(s)[k] > Total) \/ h = "refused")
      BY <1>2, <1>4, <2>3 DEF Outcomes
    <3>2. PICK j \in 0..k - 1 : Tailed(s, how, acc.kept, k - 1, j)
      BY <1>1, <3>1
    <3>3. CASE Sums(s)[k] > Total
      <4>1. Cleared(s, how, new.kept, k) /\ Tailed(s, how, new.kept, k, j)
        BY <1>1, <1>2, <2>1, <3>1, <3>2, <3>3, TurnRefused
      <4>2. j \in 0..k
        OBVIOUS
      <4> QED BY <1>2, <3>1, <4>1, <4>2
    <3>4. CASE ~ (Sums(s)[k] > Total)
      <4>1. Cleared(s, how, new.kept, k) /\ Tailed(s, how, new.kept, k, k)
        BY <1>2, <2>1, <3>2, <3>4, TurnFits
      <4>2. k \in 0..k
        OBVIOUS
      <4> QED BY <1>2, <3>1, <4>1, <4>2
    <3> QED BY <3>3, <3>4
  <2> QED BY <2>2, <2>3
<1> QED BY <1>3, <1>4

\* What ElimateFiles_ has come to at its end.
LEMMA Elimination ==
    ASSUME NEW s \in Seq(File), Distinct(s), NEW how \in Hows(s), Total \in Nat
    PROVE  Reached(s, how, Len(s))
<1> DEFINE n == Len(s)
           T == {k \in Nat : k <= n => Reached(s, how, k)}
<1>1. 0 \in T
  <2> SUFFICES Reached(s, how, 0)
    OBVIOUS
  <2>1. Turns(s, how)[0] = [used |-> 0, kept |-> <<>>, thrown |-> FALSE]
    BY TurnsAre
  <2>2. Sums(s)[0] = 0
    BY SumsAre
  <2>3. Newest(s, 0) = <<>> /\ Newest(<<>>, 0) = <<>>
    BY DEF Newest
  <2>4. Tailed(s, how, <<>>, 0, 0)
    BY <2>2, <2>3 DEF Tailed
  <2>5. Cleared(s, how, <<>>, 0) /\ StaysIfFits(s, <<>>, 0) /\ Distinct(<<>>)
    BY DEF Cleared, StaysIfFits, Distinct
  <2>6. DOMAIN <<>> = {} /\ 0 \in 0..0
    OBVIOUS
  <2> QED BY <2>1, <2>2, <2>4, <2>5, <2>6 DEF Reached
<1>2. ASSUME NEW k \in Nat, k \in T PROVE k + 1 \in T
  <2> SUFFICES ASSUME k + 1 <= n PROVE Reached(s, how, k + 1)
    OBVIOUS
  <2>1. Reached(s, how, k) /\ k + 1 \in 1..Len(s) /\ (k + 1) - 1 = k
    BY <1>2
  <2> QED BY <2>1, OneTurn
<1>3. Nat \subseteq T
  <2> HIDE DEF T
  <2> QED BY <1>1, <1>2, Induction
<1>4. n \in Nat /\ n <= n
  OBVIOUS
<1> QED BY <1>3, <1>4

-----------------------------------------------------------------------------
(* The arithmetic of space.h. *)

\* A number below half the range of a rep is kept as it is.
LEMMA FitKeeps ==
    ASSUME NEW type, NEW n \in Nat, n < RepRange \div 2
    PROVE  Fit(type, n) = n
<1>1. RepRange \in Nat /\ RepRange > 0 /\ RepRange \div 2 <= RepRange
  BY SpaceAssumption
<1>2. n % RepRange = n
  BY <1>1
<1> QED BY <1>1, <1>2 DEF Fit

\* Order and equality are kept by a positive factor.
LEMMA Scaled ==
    ASSUME NEW x \in Int, NEW y \in Int, NEW r \in Nat, r > 0
    PROVE  (x < y <=> x * r < y * r) /\ (x = y <=> x * r = y * r)
<1>1. ASSUME NEW i \in Int, NEW j \in Int, i < j PROVE i * r < j * r
  <2>1. j - i >= 1 /\ (j - i) * r >= r
    BY <1>1
  <2>2. (j - i) * r = j * r - i * r
    OBVIOUS
  <2> QED BY <2>1, <2>2
<1>2. x * r \in Int /\ y * r \in Int
  OBVIOUS
<1>3. x < y => x * r < y * r
  BY <1>1
<1>4. y < x => y * r < x * r
  BY <1>1
<1> QED BY <1>2, <1>3, <1>4

\* A quotient is the only number whose multiples enclose the number divided.
LEMMA QuotientIs ==
    ASSUME NEW n \in Int, NEW d \in Nat, d > 0
    PROVE  /\ n \div d \in Int /\ n % d \in 0..d - 1
           /\ n \in Nat => n \div d \in Nat
           /\ n = (n \div d) * d + (n % d)
           /\ \A q \in Int, r \in Nat : n = q * d + r /\ r < d => n \div d = q /\ n % d = r
<1>1. /\ n \div d \in Int /\ n % d \in 0..d - 1 /\ n = (n \div d) * d + (n % d)
      /\ n \in Nat => n \div d \in Nat
  OBVIOUS
<1>2. ASSUME NEW q \in Int, NEW r \in Nat, n = q * d + r, r < d
      PROVE  n \div d = q /\ n % d = r
  <2> DEFINE p == n \div d
             m == n % d
  <2>1. p \in Int /\ m \in Nat /\ m < d /\ p * d + m = q * d + r
    BY <1>1, <1>2
  <2> HIDE DEF p, m
  <2>2. ~ (p < q)
    <3> SUFFICES ASSUME p < q PROVE FALSE
      OBVIOUS
    <3>1. (p + 1) * d <= q * d
      <4>1. p + 1 = q \/ p + 1 < q
        BY <2>1
      <4>2. p + 1 < q => (p + 1) * d < q * d
        BY <2>1, Scaled
      <4>3. (p + 1) * d \in Int /\ q * d \in Int
        BY <2>1
      <4> QED BY <4>1, <4>2, <4>3
    <3>2. (p + 1) * d = p * d + d /\ p * d \in Int /\ q * d \in Int
      BY <2>1
    <3> QED BY <2>1, <3>1, <3>2, <1>2
  <2>3. ~ (q < p)
    <3> SUFFICES ASSUME q < p PROVE FALSE
      OBVIOUS
    <3>1. (q + 1) * d <= p * d
      <4>1. q + 1 = p \/ q + 1 < p
        BY <2>1
      <4>2. q + 1 < p => (q + 1) * d < p * d
        BY <2>1, Scaled
      <4>3. (q + 1) * d \in Int /\ p * d \in Int
        BY <2>1
      <4> QED BY <4>1, <4>2, <4>3
    <3>2. (q + 1) * d = q * d + d /\ p * d \in Int /\ q * d \in Int
      BY <2>1
    <3> QED BY <2>1, <3>1, <3>2, <1>2
  <2>4. p = q /\ m = r
    <3>1. p = q
      BY <2>1, <2>2, <2>3
    <3>2. p * d \in Int
      BY <2>1
    <3> QED BY <2>1, <3>1, <3>2, <1>2
  <2> QED BY <2>4 DEF p, m
<1> QED BY <1>1, <1>2

\* Ratios are positive, and multiply as units nest.
LEMMA Ratios ==
    /\ \A e \in 0..4 : Ratio(e) \in Nat /\ Ratio(e) > 0
    /\ \A e \in 0..4 : \A d \in 0..e : e - d \in 0..4 /\ Ratio(e - d) * Ratio(d) = Ratio(e)
<1>1. KB \in Nat /\ KB > 0
  BY SpaceAssumption
<1>2. MB \in Nat /\ MB > 0 /\ GB \in Nat /\ GB > 0 /\ TB \in Nat /\ TB > 0
  <2>1. MB \in Nat /\ MB > 0
    BY <1>1 DEF MB
  <2>2. GB \in Nat /\ GB > 0
    BY <1>1, <2>1 DEF GB
  <2> QED BY <1>1, <2>1, <2>2 DEF TB
<1>3. KB * KB = MB /\ MB * KB = GB /\ KB * MB = GB /\ GB * KB = TB /\ KB * GB = TB
  BY <1>1, <1>2 DEF MB, GB, TB
<1>4. MB * MB = TB
  <2>1. MB * MB = MB * (KB * KB) /\ MB * (KB * KB) = (MB * KB) * KB
    BY <1>1, <1>2 DEF MB
  <2> QED BY <2>1, <1>3
<1>5. Ratio(0) = 1 /\ Ratio(1) = KB /\ Ratio(2) = MB /\ Ratio(3) = GB /\ Ratio(4) = TB
  BY DEF Ratio
<1>6. ASSUME NEW e \in 0..4 PROVE Ratio(e) \in Nat /\ Ratio(e) > 0
  <2>1. e = 0 \/ e = 1 \/ e = 2 \/ e = 3 \/ e = 4
    OBVIOUS
  <2> QED BY <2>1, <1>1, <1>2, <1>5
<1>7. ASSUME NEW e \in 0..4, NEW d \in 0..e
      PROVE  e - d \in 0..4 /\ Ratio(e - d) * Ratio(d) = Ratio(e)
  <2>1. e - d \in 0..4 /\ e \in 0..4 /\ d \in 0..4
    OBVIOUS
  <2>2. CASE d = 0
    <3>1. e - d = e /\ Ratio(e) * 1 = Ratio(e)
      BY <2>2, <1>6
    <3> QED BY <2>1, <2>2, <3>1, <1>5
  <2>3. CASE e = d
    <3>1. e - d = 0 /\ 1 * Ratio(e) = Ratio(e)
      BY <2>3, <1>6
    <3> QED BY <2>1, <2>3, <3>1, <1>5
  <2>4. CASE e = 2 /\ d = 1
    <3>1. e - d = 1
      BY <2>4
    <3> QED BY <2>1, <2>4, <3>1, <1>3, <1>5
  <2>5. CASE e = 3 /\ d = 1
    <3>1. e - d = 2
      BY <2>5
    <3> QED BY <2>1, <2>5, <3>1, <1>3, <1>5
  <2>6. CASE e = 3 /\ d = 2
    <3>1. e - d = 1
      BY <2>6
    <3> QED BY <2>1, <2>6, <3>1, <1>3, <1>5
  <2>7. CASE e = 4 /\ d = 1
    <3>1. e - d = 3
      BY <2>7
    <3> QED BY <2>1, <2>7, <3>1, <1>3, <1>5
  <2>8. CASE e = 4 /\ d = 2
    <3>1. e - d = 2
      BY <2>8
    <3> QED BY <2>1, <2>8, <3>1, <1>4, <1>5
  <2>9. CASE e = 4 /\ d = 3
    <3>1. e - d = 1
      BY <2>9
    <3> QED BY <2>1, <2>9, <3>1, <1>3, <1>5
  <2>10. \/ d = 0 \/ e = d \/ (e = 2 /\ d = 1) \/ (e = 3 /\ d = 1) \/ (e = 3 /\ d = 2)
         \/ (e = 4 /\ d = 1) \/ (e = 4 /\ d = 2) \/ (e = 4 /\ d = 3)
    OBVIOUS
  <2> QED BY <2>2, <2>3, <2>4, <2>5, <2>6, <2>7, <2>8, <2>9, <2>10
<1> QED BY <1>6, <1>7

-----------------------------------------------------------------------------
(* Spaces. *)

\* Spaces that are not negative and whose length fits in every rep.
Plain == {a \in [type : Types, count : Nat] : Length(a) < RepRange \div 2}

\* Their counts are smaller than their lengths.
LEMMA PlainAre ==
    ASSUME NEW a \in Plain
    PROVE  /\ a.type \in Types /\ a.type.exp \in 0..4 /\ a.count \in Nat
           /\ a = [type |-> a.type, count |-> a.count]
           /\ Length(a) \in Nat /\ Length(a) < RepRange \div 2 /\ RepRange \div 2 \in Nat
           /\ Length(a) = a.count * Ratio(a.type.exp)
           /\ a.count <= Length(a) /\ a.count < RepRange \div 2
           /\ \A type : Fit(type, a.count) = a.count
<1>1. /\ a.type \in Types /\ a.type.exp \in 0..4 /\ a.count \in Nat
      /\ a = [type |-> a.type, count |-> a.count] /\ Length(a) < RepRange \div 2
  BY DEF Plain, Types
<1>2. Ratio(a.type.exp) \in Nat /\ Ratio(a.type.exp) > 0
  BY <1>1, Ratios
<1> DEFINE c == a.count
           r == Ratio(a.type.exp)
<1>3. c * r \in Nat /\ c <= c * r
  <2>1. c \in Nat /\ r \in Nat /\ r > 0
    BY <1>1, <1>2
  <2> HIDE DEF c, r
  <2>2. c * r = c * (r - 1) + c /\ c * (r - 1) \in Nat
    BY <2>1
  <2> QED BY <2>1, <2>2
<1>4. RepRange \div 2 \in Nat
  BY SpaceAssumption
<1>5. Length(a) = c * r
  BY DEF Length
<1>6. c < RepRange \div 2
  BY <1>1, <1>3, <1>4, <1>5
<1>7. \A type : Fit(type, c) = c
  BY <1>1, <1>6, FitKeeps
<1> QED BY <1>1, <1>3, <1>4, <1>5, <1>6, <1>7

\* The spaces that the laws are about are such.
LEMMA SpacesPlain == Spaces \subseteq Plain
<1> SUFFICES ASSUME NEW a \in Spaces PROVE a \in Plain
  OBVIOUS
<1>1. PICK u \in Units, n \in 0..(2 * KB + 1) : a = space(u, n) /\ Fits(Length(a))
  BY DEF Spaces
<1>2. u \in Types
  <2>1. bytes \in Types /\ kilobytes \in Types
    BY DEF Types, bytes, kilobytes
  <2>2. megabytes \in Types /\ gigabytes \in Types /\ terabytes \in Types
    BY DEF Types, megabytes, gigabytes, terabytes
  <2> QED BY <1>1, <2>1, <2>2 DEF Units
<1>3. a = [type |-> u, count |-> Fit(u, n)]
  BY <1>1 DEF space
<1>4. Fit(u, n) \in Int
  <2>1. RepRange \in Nat /\ RepRange > 0 /\ KB \in Nat
    BY SpaceAssumption
  <2>2. n % RepRange \in Int
    BY <2>1
  <2> QED BY <2>1, <2>2 DEF Fit
<1>5. Ratio(u.exp) \in Nat /\ Ratio(u.exp) > 0
  BY <1>2, Ratios DEF Types
<1>6. 0 <= Fit(u, n) * Ratio(u.exp) /\ Length(a) < RepRange \div 2
  BY <1>1, <1>3 DEF Fits, Length
<1>7. Fit(u, n) \in Nat
  <2> DEFINE f == Fit(u, n)
             r == Ratio(u.exp)
  <2>1. f < 0 => f * r < 0 * r
    BY <1>4, <1>5, Scaled
  <2>2. f \in Int /\ r \in Nat /\ 0 <= f * r /\ f * r \in Int
    BY <1>4, <1>5, <1>6
  <2> QED BY <2>1, <2>2
<1> QED BY <1>2, <1>3, <1>6, <1>7 DEF Plain

\* A cast to a unit as fine or finer loses nothing.
LEMMA CastFiner ==
    ASSUME NEW a \in Plain, NEW to \in Types, to.exp <= a.type.exp
    PROVE  LET c == space_cast(to, a) IN
           /\ c = [type |-> to, count |-> a.count * Ratio(a.type.exp - to.exp)]
           /\ c \in Plain /\ Length(c) = Length(a)
<1> DEFINE e == a.type.exp
           d == to.exp
           n == a.count * Ratio(e - d)
           c == [type |-> to, count |-> n]
<1>1. e \in 0..4 /\ d \in 0..e /\ d \in 0..4
  BY PlainAre DEF Types
<1>2. /\ Ratio(e - d) \in Nat /\ Ratio(e - d) > 0 /\ Ratio(d) \in Nat /\ Ratio(d) > 0
      /\ Ratio(e) \in Nat /\ Ratio(e - d) * Ratio(d) = Ratio(e)
  BY <1>1, Ratios
<1>3. a.count \in Nat /\ Length(a) = a.count * Ratio(e) /\ Length(a) < RepRange \div 2
  BY PlainAre
<1>4. n \in Nat /\ n * Ratio(d) = Length(a)
  <2> DEFINE x == Ratio(e - d)
             y == Ratio(d)
             z == a.count
  <2>1. x \in Nat /\ y \in Nat /\ z \in Nat /\ Length(a) = z * (x * y)
    BY <1>2, <1>3
  <2> HIDE DEF x, y, z
  <2>2. z * x \in Nat /\ (z * x) * y = Length(a)
    BY <2>1
  <2> QED BY <2>2 DEF x, y, z
<1>5. Length(c) = Length(a)
  BY <1>4 DEF Length
<1>6. c \in Plain
  BY <1>3, <1>4, <1>5 DEF Plain
<1>7. Fit(to, n) = n /\ Fit(to, a.count) = a.count
  <2>1. c.count = n /\ Fit(to, c.count) = c.count
    BY <1>6, PlainAre
  <2> QED BY <2>1, PlainAre
<1>8. space_cast(to, a) = space(to, n)
  BY <1>7 DEF space_cast
<1>9. space_cast(to, a) = c
  BY <1>7, <1>8 DEF space
<1> HIDE DEF c
<1>10. c = [type |-> to, count |-> a.count * Ratio(a.type.exp - to.exp)]
  BY DEF c
<1> QED BY <1>5, <1>6, <1>9, <1>10

\* A cast to a coarser unit keeps the whole units.
LEMMA CastCoarser ==
    ASSUME NEW a \in Plain, NEW to \in Types, to.exp > a.type.exp
    PROVE  LET c == space_cast(to, a) IN
           /\ c = [type |-> to, count |-> a.count \div Ratio(to.exp - a.type.exp)]
           /\ c \in Plain
           /\ Length(c) <= Length(a) /\ Length(a) < Length(c) + Ratio(to.exp)
<1> DEFINE e == to.exp
           d == a.type.exp
           x == Ratio(e - d)
           y == Ratio(d)
           n == a.count
           q == n \div x
           m == n % x
           c == [type |-> to, count |-> q]
<1>1. e \in 0..4 /\ d \in 0..e /\ d \in 0..4
  BY PlainAre DEF Types
<1>2. x \in Nat /\ x > 0 /\ y \in Nat /\ y > 0 /\ Ratio(e) = x * y
  BY <1>1, Ratios
<1>3. n \in Nat /\ Length(a) = n * y /\ RepRange \div 2 \in Nat /\ Length(a) \in Nat
  BY PlainAre
<1>4. q \in Nat /\ m \in Nat /\ m < x /\ n = q * x + m
  <2> HIDE DEF x, n
  <2> QED BY <1>2, <1>3, QuotientIs
<1>5. Length(c) = q * Ratio(e)
  BY DEF Length
<1>6. Length(a) < RepRange \div 2
  BY PlainAre
<1>7. Fit(to, n) = n
  BY PlainAre
<1>8. space_cast(to, a) = space(to, Truncated(n, x))
  <2>1. ~ (d >= e) /\ d = a.type.exp /\ e = to.exp
    BY <1>1
  <2> QED BY <1>7, <2>1 DEF space_cast
<1>9. Truncated(n, x) = q
  BY <1>3 DEF Truncated
<1> HIDE DEF x, y, n, q, m
<1>10. Length(c) = q * (x * y) /\ Length(a) = Length(c) + m * y
  <2>1. n * y = (q * x + m) * y /\ (q * x + m) * y = q * (x * y) + m * y
    BY <1>2, <1>3, <1>4
  <2> QED BY <2>1, <1>2, <1>3, <1>5
<1>11. m * y \in Nat /\ m * y < x * y /\ q * (x * y) \in Nat /\ x * y \in Nat
  <2>1. m * y < x * y
    BY <1>2, <1>4, Scaled
  <2> QED BY <2>1, <1>2, <1>4
<1>12. Length(c) <= Length(a) /\ Length(a) < Length(c) + Ratio(e)
  <2> DEFINE v == q * (x * y)
             w == m * y
             z == x * y
  <2>1. v \in Nat /\ w \in Nat /\ z \in Nat /\ w < z
    BY <1>11
  <2>2. Length(c) = v /\ Length(a) = v + w /\ Ratio(e) = z
    <3>1. Length(c) = v /\ Length(a) = Length(c) + w
      BY <1>10
    <3> QED BY <3>1, <1>2
  <2> HIDE DEF v, w, z, c
  <2> QED BY <2>1, <2>2
<1>13. c \in Plain
  <2>1. Length(c) < RepRange \div 2
    <3>1. Length(c) \in Nat
      BY <1>10, <1>11
    <3> HIDE DEF c
    <3> QED BY <1>3, <1>6, <1>12, <3>1
  <2> QED BY <1>4, <2>1 DEF Plain
<1>14. Fit(to, q) = q
  <2>1. c.count = q /\ Fit(to, c.count) = c.count
    BY <1>13, PlainAre
  <2> QED BY <2>1
<1>15. space_cast(to, a) = c
  BY <1>8, <1>9, <1>14 DEF space
<1> HIDE DEF c
<1>16. c = [type |-> to, count |-> a.count \div Ratio(to.exp - a.type.exp)]
  BY DEF c, q, n, x
<1> QED BY <1>12, <1>13, <1>15, <1>16

\* Two spaces in their common type, which is as fine as either.
LEMMA UnifiedAre ==
    ASSUME NEW a \in Plain, NEW b \in Plain
    PROVE  LET u == Unified(a, b)
               r == Ratio(u.type.exp)
           IN  /\ u.type \in Types /\ u.type = unify_space_type(a.type, b.type)
               /\ u.type.exp <= a.type.exp /\ u.type.exp <= b.type.exp
               /\ u.lhs = a.count * Ratio(a.type.exp - u.type.exp)
               /\ u.rhs = b.count * Ratio(b.type.exp - u.type.exp)
               /\ r \in Nat /\ r > 0 /\ u.lhs \in Nat /\ u.rhs \in Nat
               /\ Length(a) = u.lhs * r /\ Length(b) = u.rhs * r
<1> DEFINE t == unify_space_type(a.type, b.type)
           l == space_cast(t, a)
           r == space_cast(t, b)
<1>1. a.type \in Types /\ b.type \in Types
  BY PlainAre
<1>2. t \in Types /\ t.exp \in 0..4 /\ t.exp <= a.type.exp /\ t.exp <= b.type.exp
  <2>1. a.type.exp \in 0..4 /\ b.type.exp \in 0..4 /\ a.type.signed \in BOOLEAN /\ b.type.signed \in BOOLEAN
    BY <1>1 DEF Types
  <2> DEFINE e == higher_precision_space(a.type, b.type)
             g == a.type.signed /\ b.type.signed
  <2>2. e \in 0..4 /\ e <= a.type.exp /\ e <= b.type.exp
    BY <2>1 DEF higher_precision_space
  <2>3. g \in BOOLEAN
    OBVIOUS
  <2>4. t = [exp |-> e, signed |-> g]
    BY DEF unify_space_type
  <2> HIDE DEF e, g, t
  <2> QED BY <2>2, <2>3, <2>4 DEF Types
<1> HIDE DEF t
<1>3. /\ l = [type |-> t, count |-> a.count * Ratio(a.type.exp - t.exp)]
      /\ l \in Plain /\ Length(l) = Length(a)
  BY <1>2, CastFiner
<1>4. /\ r = [type |-> t, count |-> b.count * Ratio(b.type.exp - t.exp)]
      /\ r \in Plain /\ Length(r) = Length(b)
  BY <1>2, CastFiner
<1>5. Unified(a, b) = [type |-> t, lhs |-> l.count, rhs |-> r.count]
  BY DEF Unified, t
<1> HIDE DEF l, r
<1>6. /\ l.count \in Nat /\ r.count \in Nat /\ l.type = t /\ r.type = t
      /\ Length(l) = l.count * Ratio(t.exp) /\ Length(r) = r.count * Ratio(t.exp)
  <2>1. l.type = t /\ r.type = t
    BY <1>3, <1>4
  <2>2. l.count \in Nat /\ Length(l) = l.count * Ratio(l.type.exp)
    BY <1>3, PlainAre
  <2>3. r.count \in Nat /\ Length(r) = r.count * Ratio(r.type.exp)
    BY <1>4, PlainAre
  <2> QED BY <2>1, <2>2, <2>3
<1>7. Ratio(t.exp) \in Nat /\ Ratio(t.exp) > 0
  BY <1>2, Ratios
<1>8. /\ l.count = a.count * Ratio(a.type.exp - t.exp)
      /\ r.count = b.count * Ratio(b.type.exp - t.exp)
  BY <1>3, <1>4
<1> QED BY <1>2, <1>3, <1>4, <1>5, <1>6, <1>7, <1>8 DEF t

\* They compare as their lengths.
LEMMA Comparison ==
    ASSUME NEW a \in Plain, NEW b \in Plain
    PROVE  /\ Less(a, b) <=> Length(a) < Length(b)
           /\ Equal(a, b) <=> Length(a) = Length(b)
           /\ AtMost(a, b) <=> Length(a) <= Length(b)
<1>1. ASSUME NEW x \in Plain, NEW y \in Plain
      PROVE  (Less(x, y) <=> Length(x) < Length(y)) /\ (Equal(x, y) <=> Length(x) = Length(y))
  <2> DEFINE u == Unified(x, y)
             r == Ratio(u.type.exp)
  <2>1. /\ r \in Nat /\ r > 0 /\ u.lhs \in Nat /\ u.rhs \in Nat
        /\ Length(x) = u.lhs * r /\ Length(y) = u.rhs * r
    BY UnifiedAre
  <2>2. (u.lhs < u.rhs <=> u.lhs * r < u.rhs * r) /\ (u.lhs = u.rhs <=> u.lhs * r = u.rhs * r)
    BY <2>1, Scaled
  <2> QED BY <2>1, <2>2 DEF Less, Equal
<1>2. Length(a) \in Nat /\ Length(b) \in Nat
  BY PlainAre
<1>3. Less(b, a) <=> Length(b) < Length(a)
  BY <1>1
<1> QED BY <1>1, <1>2, <1>3 DEF AtMost, Greater

\* A number of units whose length fits is kept, and makes a space of that length.
LEMMA SpaceKeeps ==
    ASSUME NEW type \in Types, NEW n \in Nat, n * Ratio(type.exp) < RepRange \div 2
    PROVE  /\ space(type, n) = [type |-> type, count |-> n]
           /\ space(type, n) \in Plain
           /\ Length(space(type, n)) = n * Ratio(type.exp)
<1> DEFINE c == [type |-> type, count |-> n]
<1>1. Length(c) = n * Ratio(type.exp)
  BY DEF Length
<1>2. c \in Plain
  BY <1>1 DEF Plain
<1>3. Fit(type, n) = n
  <2>1. c.count = n /\ Fit(type, c.count) = c.count
    BY <1>2, PlainAre
  <2> QED BY <2>1
<1>4. space(type, n) = c
  BY <1>3 DEF space
<1> HIDE DEF c
<1> QED BY <1>1, <1>2, <1>4 DEF c

\* They are taken off as their lengths.
LEMMA Difference ==
    ASSUME NEW a \in Plain, NEW b \in Plain, Length(a) <= Length(b)
    PROVE  Length(Minus(b, a)) = Length(b) - Length(a)
<1> DEFINE u == Unified(b, a)
           r == Ratio(u.type.exp)
           n == u.lhs - u.rhs
<1>1. /\ u.type \in Types /\ r \in Nat /\ r > 0 /\ u.lhs \in Nat /\ u.rhs \in Nat
      /\ Length(b) = u.lhs * r /\ Length(a) = u.rhs * r
  BY UnifiedAre
<1>2. Length(a) \in Nat /\ Length(b) \in Nat /\ Length(b) < RepRange \div 2 /\ RepRange \div 2 \in Nat
  BY PlainAre
<1>3. ~ (u.lhs < u.rhs)
  <2>1. u.lhs < u.rhs => u.lhs * r < u.rhs * r
    BY <1>1, Scaled
  <2> QED BY <2>1, <1>1, <1>2
<1>4. n \in Nat /\ n * r = Length(b) - Length(a)
  BY <1>1, <1>3
<1>5. n * r < RepRange \div 2
  BY <1>2, <1>4
<1>6. Minus(b, a) = space(u.type, n)
  BY DEF Minus
<1> HIDE DEF u, n
<1> QED BY <1>1, <1>4, <1>5, <1>6, SpaceKeeps

\* And they are added as their lengths.
LEMMA Addition ==
    ASSUME NEW a \in Plain, NEW b \in Plain, Fits(Length(a) + Length(b))
    PROVE  LET u == Unified(a, b) IN
           /\ Plus(a, b) = [type |-> u.type, count |-> u.lhs + u.rhs]
           /\ Plus(a, b) \in Plain
           /\ Length(Plus(a, b)) = Length(a) + Length(b)
<1> DEFINE u == Unified(a, b)
           r == Ratio(u.type.exp)
           n == u.lhs + u.rhs
<1>1. /\ u.type \in Types /\ r \in Nat /\ r > 0 /\ u.lhs \in Nat /\ u.rhs \in Nat
      /\ Length(a) = u.lhs * r /\ Length(b) = u.rhs * r
  BY UnifiedAre
<1>2. n \in Nat /\ n * r = Length(a) + Length(b)
  BY <1>1
<1>3. n * r < RepRange \div 2
  BY <1>2 DEF Fits
<1>4. Plus(a, b) = space(u.type, n)
  BY DEF Plus
<1> HIDE DEF u, n
<1>5. /\ Plus(a, b) = [type |-> u.type, count |-> n] /\ Plus(a, b) \in Plain
      /\ Length(Plus(a, b)) = Length(a) + Length(b)
  BY <1>1, <1>2, <1>3, <1>4, SpaceKeeps
<1> QED BY <1>5 DEF u, n

\* They leave the remainder that their lengths leave.
LEMMA Modulo ==
    ASSUME NEW a \in Plain, NEW b \in Plain, b.count # 0
    PROVE  Length(Mod(a, b)) = Length(a) % Length(b)
<1> DEFINE u == Unified(a, b)
           r == Ratio(u.type.exp)
           x == u.lhs
           y == u.rhs
           q == x \div y
           m == x % y
<1>1. /\ u.type \in Types /\ r \in Nat /\ r > 0 /\ x \in Nat /\ y \in Nat
      /\ Length(a) = x * r /\ Length(b) = y * r
  BY UnifiedAre
<1>2. /\ Length(a) \in Nat /\ Length(b) \in Nat /\ Length(a) < RepRange \div 2
      /\ RepRange \div 2 \in Nat /\ b.count \in Nat /\ b.count <= Length(b)
  BY PlainAre
<1>3. y > 0
  <2>1. y = 0 => y * r = 0
    BY <1>1
  <2> QED BY <2>1, <1>1, <1>2
<1> HIDE DEF u, r, x, y
<1>4. q \in Nat /\ m \in Nat /\ m < y /\ x = q * y + m
  BY <1>1, <1>3, QuotientIs
<1>5. x - y * Truncated(x, y) = m
  <2>1. Truncated(x, y) = q
    BY <1>1 DEF Truncated
  <2>2. y * q = q * y /\ q * y \in Nat
    BY <1>1, <1>4
  <2> HIDE DEF q, m
  <2> QED BY <1>4, <2>1, <2>2
<1> HIDE DEF q, m
<1>6. m * r \in Nat /\ m * r < y * r /\ x * r = q * (y * r) + m * r
  <2>1. m * r < y * r
    BY <1>1, <1>4, Scaled
  <2>2. (q * y + m) * r = q * (y * r) + m * r
    BY <1>1, <1>4
  <2> QED BY <2>1, <2>2, <1>1, <1>4
<1>7. (x * r) % (y * r) = m * r
  <2> DEFINE v == x * r
             w == y * r
             z == m * r
  <2>1. v \in Nat /\ w \in Nat /\ z \in Nat /\ z < w /\ v = q * w + z /\ w > 0
    BY <1>1, <1>2, <1>6
  <2> HIDE DEF v, w, z
  <2>2. v % w = z
    BY <2>1, <1>4, QuotientIs
  <2> QED BY <2>2 DEF v, w, z
<1>8. m * r < RepRange \div 2
  <2>1. m * r <= x * r
    <3>1. q * (y * r) \in Nat
      BY <1>1, <1>4
    <3> HIDE DEF x, y, r, m
    <3> QED BY <3>1, <1>6
  <2> QED BY <2>1, <1>1, <1>2, <1>6
<1>9. Mod(a, b) = space(u.type, m)
  BY <1>5 DEF Mod, u, x, y
<1>10. Length(Mod(a, b)) = m * r
  BY <1>1, <1>4, <1>8, <1>9, SpaceKeeps DEF r
<1> QED BY <1>1, <1>7, <1>10

\* The two numbers of their quotient are in the ratio of their lengths.
LEMMA Division ==
    ASSUME NEW a \in Plain, NEW b \in Plain
    PROVE  Quotient(a, b)[1] * Length(b) = Quotient(a, b)[2] * Length(a)
<1> DEFINE u == Unified(a, b)
           e == u.type.exp
           x == u.lhs
           y == u.rhs
           r == Ratio(e)
<1>1. /\ x = a.count * Ratio(a.type.exp - e) /\ y = b.count * Ratio(b.type.exp - e)
      /\ u.type = unify_space_type(a.type, b.type)
      /\ r \in Nat /\ r > 0 /\ x \in Nat /\ y \in Nat
      /\ Length(a) = x * r /\ Length(b) = y * r
  BY UnifiedAre
<1>2. e = higher_precision_space(a.type, b.type)
  BY <1>1 DEF unify_space_type
<1>3. Quotient(a, b) = <<x, y>>
  BY <1>1, <1>2 DEF Quotient
<1> HIDE DEF u, x, y, r
<1>4. x * (y * r) = y * (x * r)
  BY <1>1
<1> QED BY <1>1, <1>3, <1>4

-----------------------------------------------------------------------------
(* The members of space. *)

\* The cast of a space to any type: at most it, and within a unit of it.
LEMMA CastWithin ==
    ASSUME NEW a \in Plain, NEW to \in Types
    PROVE  LET c == space_cast(to, a) IN
           /\ c \in Plain /\ c.type = to
           /\ Length(c) <= Length(a) /\ Length(a) < Length(c) + Ratio(to.exp)
<1> DEFINE c == space_cast(to, a)
<1>1. to.exp \in 0..4 /\ a.type.exp \in 0..4
  BY PlainAre DEF Types
<1>2. CASE to.exp <= a.type.exp
  <2>1. /\ c = [type |-> to, count |-> a.count * Ratio(a.type.exp - to.exp)]
        /\ c \in Plain /\ Length(c) = Length(a)
    BY <1>2, CastFiner
  <2>2. Ratio(to.exp) \in Nat /\ Ratio(to.exp) > 0
    BY <1>1, Ratios
  <2>3. Length(a) \in Nat
    BY PlainAre
  <2> HIDE DEF c
  <2>4. c.type = to
    BY <2>1
  <2> QED BY <2>1, <2>2, <2>3, <2>4 DEF c
<1>3. CASE to.exp > a.type.exp
  <2>1. /\ c = [type |-> to, count |-> a.count \div Ratio(to.exp - a.type.exp)]
        /\ c \in Plain
        /\ Length(c) <= Length(a) /\ Length(a) < Length(c) + Ratio(to.exp)
    BY <1>3, CastCoarser
  <2> HIDE DEF c
  <2>2. c.type = to
    BY <2>1
  <2> QED BY <2>1, <2>2 DEF c
<1> QED BY <1>1, <1>2, <1>3

\* a += b is a + b in the type of a, and adds the count that b has in that type.
LEMMA AddIs ==
    ASSUME NEW a \in Plain, NEW b \in Plain, Fits(Length(a) + Length(b))
    PROVE  LET k == space_cast(a.type, b).count IN
           /\ k \in Nat
           /\ Add(a, b) = [type |-> a.type, count |-> a.count + k]
           /\ Add(a, b) = space_cast(a.type, Plus(a, b))
<1> DEFINE t == a.type
           c == space_cast(t, b)
           k == c.count
           u == Unified(a, b)
           e == u.type.exp
           p == Plus(a, b)
           sum == space_cast(t, p)
<1>1. /\ t \in Types /\ t.exp \in 0..4 /\ a.count \in Nat
      /\ b.type \in Types /\ b.type.exp \in 0..4 /\ b.count \in Nat
  BY PlainAre
<1>2. k \in Nat
  <2>1. c \in Plain
    BY <1>1, CastWithin
  <2> QED BY <2>1, PlainAre
<1>3. /\ u.type = unify_space_type(t, b.type)
      /\ u.lhs = a.count * Ratio(t.exp - e) /\ u.rhs = b.count * Ratio(b.type.exp - e)
  BY UnifiedAre
<1>4. p = [type |-> u.type, count |-> u.lhs + u.rhs] /\ p \in Plain
  BY Addition
<1>5. e = higher_precision_space(t, b.type)
  BY <1>3 DEF unify_space_type
<1>6. p.type = u.type /\ p.count = u.lhs + u.rhs
  <2> HIDE DEF u, p
  <2> QED BY <1>4
<1>7. sum = [type |-> t, count |-> a.count + k] /\ sum \in Plain
  <2>1. CASE t.exp <= b.type.exp
    <3>1. e = t.exp
      BY <2>1, <1>1, <1>5 DEF higher_precision_space
    <3>2. t.exp - e = 0 /\ Ratio(0) = 1
      BY <3>1, <1>1 DEF Ratio
    <3>3. c = [type |-> t, count |-> b.count * Ratio(b.type.exp - t.exp)]
      BY <2>1, <1>1, CastFiner
    <3>4. k = u.rhs
      BY <3>1, <3>3, <1>3
    <3>5. u.lhs = a.count
      BY <3>2, <1>1, <1>3
    <3>6. sum = [type |-> t, count |-> p.count * Ratio(p.type.exp - t.exp)] /\ sum \in Plain
      <4>1. t.exp <= p.type.exp
        BY <3>1, <1>1, <1>6
      <4> HIDE DEF p, t
      <4> QED BY <4>1, <1>1, <1>4, CastFiner
    <3>7. p.count * Ratio(p.type.exp - t.exp) = a.count + k
      <4>1. p.type.exp - t.exp = 0 /\ p.count = a.count + k
        BY <3>1, <3>4, <3>5, <1>1, <1>6
      <4> HIDE DEF p, k
      <4> QED BY <4>1, <3>2, <1>1, <1>2
    <3> QED BY <3>6, <3>7
  <2>2. CASE t.exp > b.type.exp
    <3> DEFINE d == Ratio(t.exp - b.type.exp)
               n == b.count
               m == a.count
    <3>1. e = b.type.exp
      BY <2>2, <1>1, <1>5 DEF higher_precision_space
    <3>2. d \in Nat /\ d > 0
      <4>1. t.exp - b.type.exp \in 0..4
        BY <2>2, <1>1
      <4> QED BY <4>1, Ratios
    <3>3. k = n \div d
      <4>1. c = [type |-> t, count |-> n \div d]
        BY <2>2, <1>1, CastCoarser
      <4> HIDE DEF c, d, n
      <4> QED BY <4>1
    <3>4. p.count = m * d + n
      <4>1. b.type.exp - e = 0 /\ Ratio(0) = 1
        BY <3>1, <1>1 DEF Ratio
      <4>2. u.rhs = n /\ u.lhs = m * d
        BY <3>1, <4>1, <1>1, <1>3
      <4> QED BY <4>2, <1>6
    <3>5. /\ sum = [type |-> t, count |-> p.count \div Ratio(t.exp - p.type.exp)]
          /\ sum \in Plain
      <4>1. t.exp > p.type.exp
        BY <2>2, <3>1, <1>6
      <4> HIDE DEF p, t
      <4> QED BY <4>1, <1>1, <1>4, CastCoarser
    <3>6. Ratio(t.exp - p.type.exp) = d
      BY <3>1, <1>6
    <3>7. m \in Nat /\ n \in Nat
      BY <1>1
    <3> HIDE DEF d, n, m, p, k
    <3>8. (m * d + n) \div d = m + k
      <4> DEFINE j == n % d
      <4>1. k \in Nat /\ j \in Nat /\ j < d /\ n = k * d + j
        BY <3>2, <3>3, <3>7, QuotientIs
      <4> HIDE DEF j
      <4>2. m * d + n = (m + k) * d + j
        BY <4>1, <3>2, <3>7
      <4>3. m * d + n \in Int /\ m + k \in Int
        BY <4>1, <3>2, <3>7
      <4> QED BY <4>1, <4>2, <4>3, <3>2, QuotientIs
    <3>9. sum = [type |-> t, count |-> m + k] /\ sum \in Plain
      BY <3>4, <3>5, <3>6, <3>8
    <3> QED BY <3>9 DEF m
  <2> QED BY <2>1, <2>2, <1>1
<1>8. Fit(t, a.count + k) = a.count + k
  <2>1. sum.count = a.count + k
    <3> HIDE DEF sum, k
    <3> QED BY <1>7
  <2>2. Fit(t, sum.count) = sum.count
    <3> HIDE DEF sum
    <3> QED BY <1>7, PlainAre
  <2> QED BY <2>1, <2>2
<1>9. Add(a, b) = [type |-> t, count |-> a.count + k]
  BY <1>8 DEF Add, space
<1> HIDE DEF sum, k
<1>10. Add(a, b) = sum
  BY <1>7, <1>9
<1> QED BY <1>2, <1>9, <1>10 DEF sum, k

\* a -= b takes off what a += b adds.
LEMMA SubtractAdded ==
    ASSUME NEW a \in Plain, NEW b \in Plain, Fits(Length(a) + Length(b))
    PROVE  Subtract(Add(a, b), b) = a
<1> DEFINE k == space_cast(a.type, b).count
           c == Add(a, b)
<1>1. k \in Nat /\ c = [type |-> a.type, count |-> a.count + k]
  BY AddIs
<1>2. a.count \in Nat /\ a = [type |-> a.type, count |-> a.count] /\ Fit(a.type, a.count) = a.count
  BY PlainAre
<1>3. c.type = a.type /\ c.count = a.count + k
  <2> HIDE DEF c, k
  <2> QED BY <1>1
<1>4. c.count - space_cast(c.type, b).count = a.count
  <2>1. space_cast(c.type, b).count = k
    BY <1>3
  <2> HIDE DEF k, c
  <2> QED BY <2>1, <1>1, <1>2, <1>3
<1>5. Subtract(c, b) = space(a.type, a.count)
  BY <1>3, <1>4 DEF Subtract
<1>6. space(a.type, a.count) = a
  BY <1>2 DEF space
<1> QED BY <1>5, <1>6

\* a -= b takes off up to a unit less than a - b does.
LEMMA SubtractWithin ==
    ASSUME NEW a \in Plain, NEW b \in Plain, AtLeast(a, b)
    PROVE  Length(Subtract(a, b)) - Length(Minus(a, b)) \in 0..(Ratio(a.type.exp) - 1)
<1> DEFINE t == a.type
           c == space_cast(t, b)
           k == c.count
           r == Ratio(t.exp)
           n == a.count - k
<1>1. /\ t \in Types /\ t.exp \in 0..4 /\ a.count \in Nat /\ Length(a) = a.count * r
      /\ Length(a) \in Nat /\ Length(a) < RepRange \div 2 /\ RepRange \div 2 \in Nat
  BY PlainAre
<1>2. Length(b) \in Nat
  BY PlainAre
<1>3. Length(b) <= Length(a)
  <2>1. ~ (Length(a) < Length(b))
    BY Comparison DEF AtLeast
  <2> QED BY <2>1, <1>1, <1>2
<1>4. r \in Nat /\ r > 0
  BY <1>1, Ratios
<1>5. c \in Plain /\ c.type = t /\ Length(c) <= Length(b) /\ Length(b) < Length(c) + r
  BY <1>1, CastWithin
<1>6. k \in Nat /\ Length(c) = k * r /\ Length(c) \in Nat
  <2>1. c.count \in Nat /\ Length(c) = c.count * Ratio(c.type.exp) /\ Length(c) \in Nat
    BY <1>5, PlainAre
  <2> QED BY <2>1, <1>5
<1>7. Length(Minus(a, b)) = Length(a) - Length(b)
  BY <1>3, Difference
<1>8. Subtract(a, b) = space(t, n)
  BY DEF Subtract
<1> HIDE DEF c, k, r, t
<1>9. n \in Nat
  <2>1. a.count < k => a.count * r < k * r
    BY <1>1, <1>4, <1>6, Scaled
  <2>2. k * r <= a.count * r
    BY <1>1, <1>2, <1>3, <1>5, <1>6
  <2>3. k * r \in Nat /\ a.count * r \in Nat
    BY <1>1, <1>6
  <2> QED BY <2>1, <2>2, <2>3, <1>1, <1>6
<1>10. n * r = Length(a) - Length(c)
  <2>1. n * r = a.count * r - k * r
    BY <1>1, <1>4, <1>6
  <2> QED BY <2>1, <1>1, <1>6
<1>11. Length(Subtract(a, b)) = Length(a) - Length(c)
  <2>1. n * r < RepRange \div 2
    BY <1>1, <1>6, <1>10
  <2> HIDE DEF n
  <2> QED BY <2>1, <1>1, <1>8, <1>9, <1>10, SpaceKeeps DEF r
<1>12. Length(Subtract(a, b)) - Length(Minus(a, b)) = Length(b) - Length(c)
  BY <1>1, <1>2, <1>6, <1>7, <1>11
<1>13. Length(b) - Length(c) \in 0..r - 1
  BY <1>2, <1>4, <1>5, <1>6
<1> QED BY <1>12, <1>13 DEF r, t

\* / and % by a count share a space out.
LEMMA SharedOut ==
    ASSUME NEW a \in Plain, NEW n \in Nat, n > 0
    PROVE  Add(Times(DividedBy(a, n), n), Remainder(a, n)) = a
<1> DEFINE t == a.type
           c == a.count
           q == c \div n
           m == c % n
<1>1. /\ t \in Types /\ t.exp \in 0..4 /\ c \in Nat /\ a = [type |-> t, count |-> c]
      /\ c < RepRange \div 2 /\ RepRange \div 2 \in Nat /\ Fit(t, c) = c
      /\ Length(a) = c * Ratio(t.exp) /\ Length(a) < RepRange \div 2 /\ Length(a) \in Nat
  BY PlainAre
<1> HIDE DEF t, c
<1>2. q \in Nat /\ m \in Nat /\ c = q * n + m
  BY <1>1, QuotientIs
<1>3. Truncated(c, n) = q
  BY <1>1 DEF Truncated
<1> HIDE DEF q, m
<1>4. q * n \in Nat /\ q <= q * n /\ q * n <= c /\ m <= c /\ n * q = q * n
  <2>1. q * n = q * (n - 1) + q /\ q * (n - 1) \in Nat /\ n * q = q * n
    BY <1>2
  <2> QED BY <2>1, <1>1, <1>2
<1>5. Fit(t, q) = q /\ Fit(t, q * n) = q * n
  <2>1. q < RepRange \div 2 /\ q * n < RepRange \div 2
    BY <1>1, <1>2, <1>4
  <2> QED BY <2>1, <1>2, <1>4, FitKeeps
<1>6. DividedBy(a, n) = [type |-> t, count |-> q]
  BY <1>3, <1>5 DEF DividedBy, space, t, c
<1>7. Times(DividedBy(a, n), n) = [type |-> t, count |-> q * n]
  BY <1>5, <1>6 DEF Times, space
<1>8. c - n * q = m
  BY <1>1, <1>2, <1>4
<1>9. /\ Remainder(a, n) = [type |-> t, count |-> m]
      /\ space_cast(t, Remainder(a, n)).count = m
  <2> DEFINE x == Remainder(a, n)
  <2>1. x = space(t, m)
    BY <1>3, <1>8 DEF Remainder, t, c
  <2>2. m < RepRange \div 2
    BY <1>1, <1>2, <1>4
  <2>3. Fit(t, m) = m
    BY <1>2, <2>2, FitKeeps
  <2>4. x = [type |-> t, count |-> m]
    BY <2>1, <2>3 DEF space
  <2> HIDE DEF x
  <2>5. x.type.exp >= t.exp /\ x.type.exp - t.exp = 0 /\ x.count = m
    BY <2>4, <1>1
  <2>6. Ratio(0) = 1 /\ m * 1 = m
    BY <1>2 DEF Ratio
  <2>7. space_cast(t, x) = space(t, m)
    BY <2>3, <2>5, <2>6 DEF space_cast
  <2>8. space_cast(t, x).count = m
    BY <2>3, <2>7 DEF space
  <2> QED BY <2>4, <2>8 DEF x
<1> DEFINE y == Times(DividedBy(a, n), n)
           x == Remainder(a, n)
<1>10. y.type = t /\ y.count = q * n /\ space_cast(t, x).count = m
  BY <1>7, <1>9
<1> HIDE DEF x, y
<1>11. Add(y, x) = space(t, q * n + m)
  BY <1>10 DEF Add
<1>12. space(t, q * n + m) = a
  BY <1>1, <1>2 DEF space
<1> QED BY <1>11, <1>12 DEF x, y

\* What a rep keeps of a number is that number but for a multiple of the range, and
\* such a multiple makes no difference to what is kept.
LEMMA FitWraps ==
    ASSUME NEW type \in Types, NEW n \in Int
    PROVE  /\ \E q \in Int : Fit(type, n) = n + q * RepRange
           /\ \A q \in Int : Fit(type, n + q * RepRange) = Fit(type, n)
<1>1. RepRange \in Nat /\ RepRange > 0
  BY SpaceAssumption
<1> DEFINE r == n % RepRange
           p == n \div RepRange
<1>2. r \in Nat /\ r < RepRange /\ p \in Int /\ n = p * RepRange + r
  BY <1>1, QuotientIs
<1> HIDE DEF p
<1>3. \E q \in Int : Fit(type, n) = n + q * RepRange
  <2>1. CASE type.signed /\ r >= RepRange \div 2
    <3>1. Fit(type, n) = r - RepRange
      BY <2>1 DEF Fit
    <3> HIDE DEF r
    <3>2. r - RepRange = n + (-p - 1) * RepRange
      BY <1>1, <1>2
    <3>3. -p - 1 \in Int
      BY <1>2
    <3> QED BY <3>1, <3>2, <3>3
  <2>2. CASE ~ (type.signed /\ r >= RepRange \div 2)
    <3>1. Fit(type, n) = r
      BY <2>2 DEF Fit
    <3> HIDE DEF r
    <3>2. r = n + (-p) * RepRange
      BY <1>1, <1>2
    <3>3. -p \in Int
      BY <1>2
    <3> QED BY <3>1, <3>2, <3>3
  <2> QED BY <2>1, <2>2
<1>4. ASSUME NEW q \in Int PROVE Fit(type, n + q * RepRange) = Fit(type, n)
  <2>1. (n + q * RepRange) % RepRange = r
    <3> HIDE DEF r
    <3>1. n + q * RepRange = (p + q) * RepRange + r /\ p + q \in Int /\ n + q * RepRange \in Int
      BY <1>1, <1>2
    <3> QED BY <3>1, <1>1, <1>2, QuotientIs
  <2> QED BY <2>1 DEF Fit
<1> QED BY <1>3, <1>4

\* ++ and -- undo each other, and - itself, even where the count wraps.
LEMMA Undone ==
    ASSUME NEW a \in Plain
    PROVE  Decrement(Increment(a)) = a /\ Negate(Negate(a)) = a
<1> DEFINE t == a.type
           c == a.count
<1>1. t \in Types /\ c \in Nat /\ a = [type |-> t, count |-> c] /\ Fit(t, c) = c
  BY PlainAre
<1>2. RepRange \in Nat
  BY SpaceAssumption
<1> HIDE DEF t, c
<1>3. Decrement(Increment(a)) = a
  <2>1. PICK q \in Int : Fit(t, c + 1) = c + 1 + q * RepRange
    <3>1. c + 1 \in Int
      BY <1>1
    <3> QED BY <3>1, <1>1, FitWraps
  <2>2. Increment(a) = [type |-> t, count |-> c + 1 + q * RepRange]
    BY <2>1 DEF Increment, space, t, c
  <2>3. (c + 1 + q * RepRange) - 1 = c + q * RepRange
    BY <1>1, <1>2, <2>1
  <2>4. Decrement(Increment(a)) = space(t, c + q * RepRange)
    BY <2>2, <2>3 DEF Decrement
  <2>5. Fit(t, c + q * RepRange) = c
    BY <1>1, <2>1, FitWraps
  <2> QED BY <2>4, <2>5, <1>1 DEF space
<1>4. Negate(Negate(a)) = a
  <2>1. PICK q \in Int : Fit(t, -c) = -c + q * RepRange
    <3>1. -c \in Int
      BY <1>1
    <3> QED BY <3>1, <1>1, FitWraps
  <2>2. Negate(a) = [type |-> t, count |-> -c + q * RepRange]
    BY <2>1 DEF Negate, space, t, c
  <2>3. -(-c + q * RepRange) = c + (-q) * RepRange /\ -q \in Int
    BY <1>1, <1>2, <2>1
  <2>4. Negate(Negate(a)) = space(t, c + (-q) * RepRange)
    BY <2>2, <2>3 DEF Negate
  <2>5. Fit(t, c + (-q) * RepRange) = c
    BY <1>1, <2>3, FitWraps
  <2> QED BY <2>4, <2>5, <1>1 DEF space
<1> QED BY <1>3, <1>4

\* The units have types.
LEMMA UnitsTyped == Units \subseteq Types
<1>1. bytes \in Types /\ kilobytes \in Types
  BY DEF Types, bytes, kilobytes
<1>2. megabytes \in Types /\ gigabytes \in Types /\ terabytes \in Types
  BY DEF Types, megabytes, gigabytes, terabytes
<1> QED BY <1>1, <1>2 DEF Units

\* The laws of SpaceUnits, whatever the size of a kilobyte and of a rep.
LEMMA CompareLaw == LengthsCompare
<1> SUFFICES ASSUME NEW a \in Spaces, NEW b \in Spaces
             PROVE  /\ Less(a, b) <=> Length(a) < Length(b)
                    /\ Equal(a, b) <=> Length(a) = Length(b)
                    /\ AtMost(a, b) => Length(Minus(b, a)) = Length(b) - Length(a)
                    /\ Fits(Length(a) + Length(b)) => Length(Plus(a, b)) = Length(a) + Length(b)
                    /\ b.count # 0 =>
                           /\ Length(Mod(a, b)) = Length(a) % Length(b)
                           /\ Quotient(a, b)[1] * Length(b) = Quotient(a, b)[2] * Length(a)
  BY DEF LengthsCompare
<1>1. a \in Plain /\ b \in Plain
  BY SpacesPlain
<1>2. /\ Less(a, b) <=> Length(a) < Length(b)
      /\ Equal(a, b) <=> Length(a) = Length(b)
      /\ AtMost(a, b) <=> Length(a) <= Length(b)
  BY <1>1, Comparison
<1>3. AtMost(a, b) => Length(Minus(b, a)) = Length(b) - Length(a)
  BY <1>1, <1>2, Difference
<1>4. Fits(Length(a) + Length(b)) => Length(Plus(a, b)) = Length(a) + Length(b)
  BY <1>1, Addition
<1>5. b.count # 0 => Length(Mod(a, b)) = Length(a) % Length(b)
  BY <1>1, Modulo
<1>6. Quotient(a, b)[1] * Length(b) = Quotient(a, b)[2] * Length(a)
  BY <1>1, Division
<1> QED BY <1>2, <1>3, <1>4, <1>5, <1>6

\* Casts.
LEMMA CastLaw == LengthsKept
<1> SUFFICES ASSUME NEW a \in Spaces, NEW u \in Units
             PROVE  /\ Length(space_cast(u, a)) <= Length(a)
                    /\ Length(a) < Length(space_cast(u, a)) + Ratio(u.exp)
  BY DEF LengthsKept
<1>1. a \in Plain /\ u \in Types
  BY SpacesPlain, UnitsTyped
<1> QED BY <1>1, CastWithin

\* Members.
LEMMA MemberLaw == LengthsAddUp
<1> SUFFICES ASSUME NEW a \in Spaces, NEW b \in Spaces
             PROVE  /\ Fits(Length(a) + Length(b)) =>
                           /\ Add(a, b) = space_cast(a.type, Plus(a, b))
                           /\ Subtract(Add(a, b), b) = a
                    /\ AtLeast(a, b) =>
                           Length(Subtract(a, b)) - Length(Minus(a, b))
                               \in 0..(Ratio(a.type.exp) - 1)
                    /\ \A n \in 1..3 : Add(Times(DividedBy(a, n), n), Remainder(a, n)) = a
                    /\ Decrement(Increment(a)) = a /\ Negate(Negate(a)) = a
  BY DEF LengthsAddUp
<1>1. a \in Plain /\ b \in Plain
  BY SpacesPlain
<1>2. Fits(Length(a) + Length(b)) => Add(a, b) = space_cast(a.type, Plus(a, b))
  BY <1>1, AddIs
<1>3. Fits(Length(a) + Length(b)) => Subtract(Add(a, b), b) = a
  BY <1>1, SubtractAdded
<1>4. AtLeast(a, b) => Length(Subtract(a, b)) - Length(Minus(a, b)) \in 0..(Ratio(a.type.exp) - 1)
  BY <1>1, SubtractWithin
<1>5. \A n \in 1..3 : Add(Times(DividedBy(a, n), n), Remainder(a, n)) = a
  BY <1>1, SharedOut
<1>6. Decrement(Increment(a)) = a /\ Negate(Negate(a)) = a
  BY <1>1, Undone
<1> QED BY <1>2, <1>3, <1>4, <1>5, <1>6

-----------------------------------------------------------------------------
(* The limit in bytes. *)

\* A number below the range of an unsigned rep is.
LEMMA FitUnsigned ==
    ASSUME NEW n \in Nat, n < RepRange
    PROVE  Fit(bytes, n) = n
<1>1. RepRange \in Nat /\ RepRange > 0
  BY SpaceAssumption
<1>2. n % RepRange = n
  BY <1>1
<1> QED BY <1>2 DEF Fit, bytes

\* The cast to bytes of the limit loses nothing of it.
LEMMA TotalInBytes == Total = total_files_sizes_ * KB * KB /\ Total \in Nat
<1> DEFINE t == total_files_sizes_
<1>1. t \in Nat /\ KB \in Nat /\ KB > 1 /\ RepRange \in Nat /\ RepRange % 2 = 0
  BY SpaceAssumption, FilesAssumption
<1>2. MB \in Nat /\ MB >= 4 /\ t * MB = t * KB * KB /\ t * MB \in Nat
  <2>1. KB * KB \in Nat /\ KB * KB >= 2 * KB /\ 2 * KB >= 4
    BY <1>1
  <2> QED BY <1>1, <2>1 DEF MB
<1>3. t * MB < RepRange
  BY <1>2, FilesAssumption
<1>4. t < RepRange \div 2
  <2>1. t * 4 <= t * MB
    BY <1>1, <1>2
  <2> QED BY <1>1, <1>2, <1>3, <2>1
<1>5. Fit(megabytes, t) = t /\ Fit(bytes, t) = t /\ Fit(bytes, t * MB) = t * MB
  BY <1>1, <1>2, <1>3, <1>4, FitKeeps, FitUnsigned
<1>6. Ratio(2) = MB
  BY DEF Ratio
<1>7. space(megabytes, t) = [type |-> megabytes, count |-> t]
  BY <1>5 DEF space
<1>8. space_cast(bytes, space(megabytes, t)).count = t * MB
  BY <1>5, <1>6, <1>7 DEF space_cast, space, megabytes, bytes
<1> QED BY <1>2, <1>8 DEF Total

-----------------------------------------------------------------------------
(* The directory. *)

\* A sequence of files without its p-th.
LEMMA Removed ==
    ASSUME NEW s \in Seq(File), NEW p \in 1..Len(s)
    PROVE  /\ RemoveAt(s, p) \in Seq(File)
           /\ Len(RemoveAt(s, p)) = Len(s) - 1
           /\ \A i \in 1..Len(s) - 1 : RemoveAt(s, p)[i] = s[IF i < p THEN i ELSE i + 1]
<1> DEFINE u == SubSeq(s, 1, p - 1)
           v == SubSeq(s, p + 1, Len(s))
<1>1. u \in Seq(File) /\ Len(u) = p - 1 /\ \A i \in 1..p - 1 : u[i] = s[i]
  OBVIOUS
<1>2. /\ v \in Seq(File) /\ Len(v) = Len(s) - p
      /\ \A i \in 1..Len(s) - p : v[i] = s[p + i]
  OBVIOUS
<1>3. RemoveAt(s, p) = u \o v
  BY DEF RemoveAt
<1> HIDE DEF u, v
<1>4. u \o v \in Seq(File) /\ Len(u \o v) = Len(s) - 1
  BY <1>1, <1>2
<1>5. ASSUME NEW i \in 1..Len(s) - 1 PROVE (u \o v)[i] = s[IF i < p THEN i ELSE i + 1]
  <2>1. CASE i < p
    BY <2>1, <1>1, <1>2
  <2>2. CASE ~ (i < p)
    <3>1. i - (p - 1) \in 1..Len(s) - p /\ p + (i - (p - 1)) = i + 1
      BY <2>2
    <3>2. (u \o v)[i] = v[i - (p - 1)]
      BY <2>2, <1>1, <1>2
    <3> QED BY <2>2, <3>1, <3>2, <1>2
  <2> QED BY <2>1, <2>2
<1> QED BY <1>3, <1>4, <1>5

\* Writing to a file, found or made, leaves a directory: that file, and those there were.
LEMMA AppendedTypes ==
    ASSUME files \in Seq(File), Distinct(files), NEW name \in Name, NEW n \in Nat
    PROVE  /\ Appended(name, n) \in Seq(File)
           /\ Distinct(Appended(name, n))
           /\ \A i \in DOMAIN Appended(name, n) :
                 \/ Appended(name, n)[i].name = name
                 \/ \E k \in DOMAIN files : Appended(name, n)[i] = files[k]
           /\ \A k \in DOMAIN files :
                 \E i \in DOMAIN Appended(name, n) : Appended(name, n)[i].name = files[k].name
<1> DEFINE f == [name |-> name, size |-> SizeOf(name) + n]
           p == Place(name)
           r == IF Exists(name) THEN RemoveAt(files, p) ELSE files
<1>1. \A i \in DOMAIN files : files[i] \in File /\ files[i].size \in Nat
  <2>1. \A i \in DOMAIN files : files[i] \in File
    OBVIOUS
  <2> QED BY <2>1 DEF File
<1>2. Exists(name) => p \in DOMAIN files /\ files[p].name = name
  BY DEF Exists, Place, Named
<1>3. f \in File /\ f.name = name
  <2>1. SizeOf(name) \in Nat
    BY <1>1, <1>2 DEF SizeOf
  <2> QED BY <2>1 DEF File
<1>4. /\ r \in Seq(File)
      /\ \A i \in DOMAIN r : \E k \in DOMAIN files : r[i] = files[k]
      /\ \A k \in DOMAIN files : files[k].name = name \/ \E i \in DOMAIN r : r[i] = files[k]
      /\ Distinct(r)
      /\ \A i \in DOMAIN r : r[i].name # name
  <2>1. CASE ~ Exists(name)
    <3>1. r = files
      BY <2>1
    <3>2. \A i \in DOMAIN files : files[i].name # name
      BY <2>1 DEF Exists, Named
    <3> QED BY <3>1, <3>2
  <2>2. CASE Exists(name)
    <3> DEFINE q == RemoveAt(files, p)
               at(i) == IF i < p THEN i ELSE i + 1
    <3>1. r = q /\ p \in 1..Len(files)
      <4>1. DOMAIN files = 1..Len(files)
        OBVIOUS
      <4> HIDE DEF p
      <4> QED BY <4>1, <2>2, <1>2
    <3> HIDE DEF p, r
    <3>2. /\ q \in Seq(File) /\ Len(q) = Len(files) - 1
          /\ \A i \in 1..Len(files) - 1 : q[i] = files[at(i)]
      BY <3>1, Removed
    <3>3. \A i \in 1..Len(files) - 1 : q[i] = files[at(i)]
      BY <3>2
    <3> HIDE DEF q
    <3>4. \A i \in 1..Len(files) - 1 : at(i) \in DOMAIN files /\ at(i) # p
      BY <3>1
    <3>5. DOMAIN q = 1..Len(files) - 1
      BY <3>2
    <3>6. ASSUME NEW i \in DOMAIN q, NEW k \in DOMAIN q, i # k PROVE q[i].name # q[k].name
      <4>1. at(i) \in DOMAIN files /\ at(k) \in DOMAIN files /\ at(i) # at(k)
        <5>1. i \in 1..Len(files) - 1 /\ k \in 1..Len(files) - 1 /\ i # k
          BY <3>5, <3>6
        <5>2. at(i) # at(k)
          BY <5>1, <3>1
        <5> QED BY <5>1, <5>2, <3>4
      <4>2. files[at(i)].name # files[at(k)].name
        BY <4>1 DEF Distinct
      <4> QED BY <4>2, <3>3, <3>5
    <3>7. ASSUME NEW i \in DOMAIN q PROVE q[i].name # name
      <4>1. at(i) \in DOMAIN files /\ at(i) # p
        BY <3>4, <3>5
      <4>2. files[at(i)].name # files[p].name
        BY <4>1, <2>2, <1>2 DEF Distinct
      <4> QED BY <4>2, <2>2, <1>2, <3>3, <3>5
    <3>8. Distinct(q)
      BY <3>6 DEF Distinct
    <3>9. \A i \in DOMAIN q : \E k \in DOMAIN files : q[i] = files[k]
      BY <3>3, <3>4, <3>5
    <3>10. ASSUME NEW k \in DOMAIN files, files[k].name # name
           PROVE  \E i \in DOMAIN q : q[i] = files[k]
      <4>1. k # p
        BY <3>10, <2>2, <1>2
      <4>2. k \in 1..Len(files) /\ p \in 1..Len(files)
        BY <3>1
      <4>3. CASE k < p
        <5>1. k \in 1..Len(files) - 1 /\ at(k) = k
          BY <4>2, <4>3
        <5> QED BY <5>1, <3>3, <3>5
      <4>4. CASE k > p
        <5>1. k - 1 \in 1..Len(files) - 1 /\ at(k - 1) = k
          BY <4>2, <4>4
        <5> QED BY <5>1, <3>3, <3>5
      <4> QED BY <4>1, <4>2, <4>3, <4>4
    <3> QED BY <3>1, <3>2, <3>7, <3>8, <3>9, <3>10
  <2> QED BY <2>1, <2>2
<1>5. Appended(name, n) = Append(r, f)
  BY DEF Appended
<1> HIDE DEF r, f
<1> DEFINE t == Append(r, f)
<1>6. t \in Seq(File) /\ Len(t) = Len(r) + 1 /\ DOMAIN t = 1..Len(r) + 1
  BY <1>3, <1>4
<1>7. t[Len(r) + 1] = f /\ \A i \in 1..Len(r) : t[i] = r[i]
  BY <1>3, <1>4
<1>8. DOMAIN r = 1..Len(r) /\ Len(r) \in Nat
  BY <1>4
<1> HIDE DEF t
<1>9. ASSUME NEW i \in DOMAIN t, NEW k \in DOMAIN t, i # k PROVE t[i].name # t[k].name
  <2>1. CASE i = Len(r) + 1
    <3>1. k \in 1..Len(r)
      BY <2>1, <1>6, <1>8, <1>9
    <3> QED BY <2>1, <3>1, <1>3, <1>4, <1>7, <1>8
  <2>2. CASE k = Len(r) + 1
    <3>1. i \in 1..Len(r)
      BY <2>2, <1>6, <1>8, <1>9
    <3> QED BY <2>2, <3>1, <1>3, <1>4, <1>7, <1>8
  <2>3. CASE i # Len(r) + 1 /\ k # Len(r) + 1
    <3>1. i \in 1..Len(r) /\ k \in 1..Len(r)
      BY <2>3, <1>6, <1>8
    <3> QED BY <3>1, <1>4, <1>7, <1>8, <1>9 DEF Distinct
  <2> QED BY <2>1, <2>2, <2>3
<1>10. Distinct(t)
  BY <1>9 DEF Distinct
<1>11. \A i \in DOMAIN t : t[i].name = name \/ \E k \in DOMAIN files : t[i] = files[k]
  <2>1. \A i \in DOMAIN t : i = Len(r) + 1 \/ (i \in DOMAIN r /\ t[i] = r[i])
    BY <1>6, <1>7, <1>8
  <2> QED BY <2>1, <1>3, <1>4, <1>7
<1>12. \A k \in DOMAIN files : \E i \in DOMAIN t : t[i].name = files[k].name
  <2>1. Len(r) + 1 \in DOMAIN t /\ t[Len(r) + 1].name = name
    BY <1>3, <1>6, <1>7, <1>8
  <2>2. \A i \in DOMAIN r : i \in DOMAIN t /\ t[i] = r[i]
    BY <1>6, <1>7, <1>8
  <2> QED BY <2>1, <2>2, <1>4
<1> QED BY <1>5, <1>6, <1>10, <1>11, <1>12 DEF t

\* The name GetFilePath_ gives is a name.
LEMMA PathTypes == TypeOK => GetFilePath \in Name
<1> SUFFICES ASSUME TypeOK PROVE GetFilePath \in Name
  OBVIOUS
<1>1. now \in Nat
  BY FilesAssumption DEF TypeOK
<1>2. PathOfNow \in Name /\ <<now, None>> \in Name
  BY <1>1 DEF PathOfNow, Name
<1>3. CASE log_file_path = NoPath
  BY <1>2, <1>3 DEF GetFilePath
<1>4. CASE log_file_path # NoPath
  <2>1. log_file_path \in Name
    BY <1>4 DEF TypeOK
  <2> QED BY <2>1, <1>2, <1>4 DEF GetFilePath
<1> QED BY <1>3, <1>4

-----------------------------------------------------------------------------
(* The theorems. *)

\* What TypeOK says of the files.
LEMMA Directory == TypeOK <=> /\ files \in Seq(File) /\ Distinct(files)
                             /\ now \in 0..MaxTime
                             /\ log_file_path \in Name \union {NoPath}
                             /\ writes \in 0..MaxWrites
                             /\ last \in {"start", "write", "eliminate", "died", "tick"}
                             /\ refused \subseteq Name
BY DEF TypeOK, Distinct, File

\* Names are given in the order of time: none is later than the one in use, nor that
\* than now.
InTime ==
    /\ \A i \in DOMAIN files :
          /\ files[i].name[1] <= now
          /\ log_file_path # NoPath => files[i].name[1] <= log_file_path[1]
    /\ log_file_path # NoPath => log_file_path[1] <= now

\* ElimateFiles_ has come to its end.
LEMMA Eliminated ==
    ASSUME TypeOK, NEW how \in [DOMAIN files -> Outcomes], ElimateFiles(how)
    PROVE  /\ files' \in Seq(File) /\ Distinct(files')
           /\ \A q \in DOMAIN files' : \E i \in DOMAIN files : files'[q] = files[i]
           /\ StaysIfFits(files, files', Len(files))
           /\ last' \in {"eliminate", "died"}
           /\ last' = "eliminate" =>
                 /\ Cleared(files, how, files', Len(files))
                 /\ \E j \in 0..Len(files) : Tailed(files, how, files', Len(files), j)
<1>1. files \in Seq(File) /\ Distinct(files) /\ Total \in Nat
  BY Directory, TotalInBytes
<1>2. how \in Hows(files)
  <2>1. DOMAIN files = 1..Len(files)
    BY <1>1
  <2> QED BY <2>1 DEF Hows
<1>3. Reached(files, how, Len(files)) /\ Turns(files, how)[Len(files)] \in Tally
  BY <1>1, <1>2, Elimination, TurnsAre
<1> DEFINE end == Turns(files, how)[Len(files)]
<1>4. /\ files' = end.kept
      /\ last' = IF end.thrown THEN "died" ELSE "eliminate"
  BY DEF ElimateFiles
<1>5. files' \in Seq(File)
  BY <1>3, <1>4 DEF Tally
<1>6. /\ \A q \in DOMAIN files' : \E i \in 1..Len(files) : files'[q] = files[Back(files, i)]
      /\ Distinct(files')
      /\ StaysIfFits(files, files', Len(files))
      /\ ~ end.thrown => /\ Cleared(files, how, files', Len(files))
                         /\ \E j \in 0..Len(files) : Tailed(files, how, files', Len(files), j)
  BY <1>3, <1>4 DEF Reached
<1>7. \A i \in 1..Len(files) : Back(files, i) \in DOMAIN files
  BY <1>1 DEF Back
<1>8. last' = "eliminate" => ~ end.thrown
  BY <1>4
<1>9. last' \in {"eliminate", "died"}
  BY <1>4
<1> HIDE DEF end
<1> QED BY <1>5, <1>6, <1>7, <1>8, <1>9

\* The directory stays one in every step.
LEMMA TypeStep == TypeOK /\ [Next]_vars => TypeOK'
<1> SUFFICES ASSUME TypeOK, [Next]_vars PROVE TypeOK'
  OBVIOUS
<1>1. /\ files \in Seq(File) /\ Distinct(files) /\ now \in 0..MaxTime
      /\ log_file_path \in Name \union {NoPath} /\ writes \in 0..MaxWrites
      /\ last \in {"start", "write", "eliminate", "died", "tick"} /\ refused \subseteq Name
  BY Directory
<1> DEFINE Typed == /\ files' \in Seq(File) /\ Distinct(files)' /\ now' \in 0..MaxTime
                    /\ log_file_path' \in Name \union {NoPath} /\ writes' \in 0..MaxWrites
                    /\ last' \in {"start", "write", "eliminate", "died", "tick"}
                    /\ refused' \subseteq Name
<1> SUFFICES Typed
  BY DEF TypeOK, Distinct, File
<1>2. ASSUME NEW n \in Chunks, WriteChunk(n) PROVE Typed
  <2>1. GetFilePath \in Name /\ n \in Nat
    BY PathTypes, FilesAssumption
  <2>2. files' \in Seq(File) /\ Distinct(files')
    BY <1>1, <1>2, <2>1, AppendedTypes DEF WriteChunk
  <2>3. writes' \in 0..MaxWrites
    BY <1>1, <1>2, FilesAssumption DEF WriteChunk
  <2> QED BY <1>1, <1>2, <2>1, <2>2, <2>3 DEF WriteChunk, Distinct
<1>3. ASSUME NEW how \in [DOMAIN files -> Outcomes], ElimateFiles(how) PROVE Typed
  <2>1. files' \in Seq(File) /\ Distinct(files') /\ last' \in {"eliminate", "died"}
    BY <1>3, Eliminated
  <2>2. refused' \subseteq Name
    <3>1. \A i \in DOMAIN files : files[i] \in File
      BY <1>1
    <3>2. \A i \in DOMAIN files : files[i].name \in Name
      BY <3>1 DEF File
    <3> QED BY <1>3, <3>2 DEF ElimateFiles, NamesOf
  <2>3. log_file_path' \in Name \union {NoPath} /\ UNCHANGED <<now, writes>>
    BY <1>1, <1>3 DEF ElimateFiles
  <2> QED BY <1>1, <2>1, <2>2, <2>3 DEF Distinct
<1>4. CASE Restart
  BY <1>1, <1>4 DEF Restart, Distinct
<1>5. CASE Tick
  <2>1. now' \in 0..MaxTime
    BY <1>1, <1>5, FilesAssumption DEF Tick
  <2> QED BY <1>1, <1>5, <2>1 DEF Tick, Distinct
<1>6. CASE UNCHANGED vars
  BY <1>1, <1>6 DEF vars, Distinct
<1> QED BY <1>2, <1>3, <1>4, <1>5, <1>6 DEF Next

\* Names are seconds and indices.
LEMMA Seconds ==
    ASSUME TypeOK
    PROVE  /\ now \in Nat
           /\ \A i \in DOMAIN files : files[i] \in File /\ files[i].name[1] \in Nat
           /\ log_file_path # NoPath => log_file_path[1] \in Nat
           /\ GetFilePath # NoPath
<1>1. now \in Nat
  BY FilesAssumption DEF TypeOK
<1>2. \A i \in DOMAIN files : files[i] \in File
  BY Directory
<1>3. \A i \in DOMAIN files : files[i].name[1] \in Nat
  BY <1>2 DEF File, Name
<1>4. log_file_path # NoPath => log_file_path[1] \in Nat
  BY DEF TypeOK, Name
<1>5. GetFilePath # NoPath
  BY PathTypes DEF Name, NoPath
<1> QED BY <1>1, <1>2, <1>3, <1>4, <1>5

\* The name a chunk goes to is no earlier than any that was given, and that of a file
\* that is too long has just been given.
LEMMA PathInTime ==
    ASSUME TypeOK, InTime
    PROVE  /\ \A i \in DOMAIN files : files[i].name[1] <= GetFilePath[1]
           /\ GetFilePath[1] <= now
           /\ SizeOf(GetFilePath) > Single => GetFilePath[1] = now
<1>1. PathOfNow[1] = now /\ <<now, None>>[1] = now
  BY DEF PathOfNow
<1>2. CASE log_file_path = NoPath \/ RollOver
  <2>1. GetFilePath[1] = now
    BY <1>1, <1>2 DEF GetFilePath
  <2> QED BY <2>1, Seconds DEF InTime
<1>3. CASE ~ (log_file_path = NoPath \/ RollOver)
  <2>1. GetFilePath = log_file_path /\ ~ (SizeOf(log_file_path) > Single)
    BY <1>3 DEF GetFilePath, RollOver
  <2> QED BY <1>3, <2>1 DEF InTime
<1> QED BY <1>2, <1>3

\* Every step leaves the names in the order of time.
LEMMA TimeStep == TypeOK /\ InTime /\ [Next]_vars => InTime'
<1> SUFFICES ASSUME TypeOK, InTime, [Next]_vars PROVE InTime'
  OBVIOUS
<1>1. files \in Seq(File) /\ Distinct(files)
  BY Directory
<1>2. ASSUME NEW n \in Chunks, WriteChunk(n) PROVE InTime'
  <2>1. GetFilePath \in Name /\ n \in Nat
    BY PathTypes, FilesAssumption
  <2>2. log_file_path' = GetFilePath /\ now' = now
    BY <1>2 DEF WriteChunk
  <2>3. \A i \in DOMAIN files' : files'[i].name = GetFilePath
                                 \/ \E k \in DOMAIN files : files'[i] = files[k]
    <3>1. CASE files' = files
      BY <3>1
    <3>2. CASE files' = Appended(GetFilePath, n)
      BY <1>1, <2>1, <3>2, AppendedTypes
    <3> QED BY <1>2, <3>1, <3>2 DEF WriteChunk
  <2>4. /\ \A i \in DOMAIN files : files[i].name[1] <= GetFilePath[1]
        /\ GetFilePath[1] <= now /\ GetFilePath[1] <= GetFilePath[1]
    <3>1. GetFilePath[1] \in Nat
      BY <2>1 DEF Name
    <3> QED BY <3>1, PathInTime
  <2>5. \A i \in DOMAIN files : files[i].name[1] <= now
    BY DEF InTime
  <2> QED BY <2>2, <2>3, <2>4, <2>5 DEF InTime
<1>3. ASSUME NEW how \in [DOMAIN files -> Outcomes], ElimateFiles(how) PROVE InTime'
  <2>1. \A q \in DOMAIN files' : \E i \in DOMAIN files : files'[q] = files[i]
    BY <1>3, Eliminated
  <2>2. log_file_path' \in {log_file_path, NoPath} /\ now' = now
    BY <1>3 DEF ElimateFiles
  <2> QED BY <2>1, <2>2 DEF InTime
<1>4. CASE Restart
  BY <1>4 DEF Restart, InTime
<1>5. CASE Tick
  <2>1. now' = now + 1 /\ UNCHANGED <<files, log_file_path>>
    BY <1>5 DEF Tick
  <2>2. \A k \in Nat : k <= now => k <= now + 1
    BY Seconds
  <2> QED BY <2>1, <2>2, Seconds DEF InTime
<1>6. CASE UNCHANGED vars
  BY <1>6 DEF vars, InTime
<1> QED BY <1>2, <1>3, <1>4, <1>5, <1>6 DEF Next

\* The directory is one of files with names and sizes, and the names are in time.
LEMMA InOrder == Spec => [](TypeOK /\ InTime)
<1>1. Init => TypeOK /\ InTime
  BY FilesAssumption DEF Init, TypeOK, InTime
<1>2. (TypeOK /\ InTime) /\ [Next]_vars => (TypeOK /\ InTime)'
  BY TypeStep, TimeStep
<1> QED BY <1>1, <1>2, PTL DEF Spec

\* A chunk goes to a file of the latest name there is, and to one that is over the limit
\* only in the second it was named in, whatever is written, refused, removed or begun
\* anew meanwhile.
THEOREM RolledOverInTurn == Spec => RollOverInTurn
<1> DEFINE A == writes' # writes /\ files' # files =>
                  LET name == log_file_path' IN
                  /\ \A i \in DOMAIN files : files[i].name[1] <= name[1]
                  /\ SizeOf(name) > Single => name[1] = now
<1>1. TypeOK /\ InTime /\ [Next]_vars => [A]_vars
  <2> SUFFICES ASSUME TypeOK, InTime, Next, writes' # writes PROVE A
    BY DEF vars
  <2>1. PICK n \in Chunks : WriteChunk(n)
    BY DEF Next, ElimateFiles, Restart, Tick
  <2>2. log_file_path' = GetFilePath
    BY <2>1 DEF WriteChunk
  <2> QED BY <2>2, PathInTime
<1>2. Spec => [][A]_vars
  <2> HIDE DEF A
  <2> QED BY <1>1, InOrder, PTL DEF Spec
<1> QED BY <1>2 DEF RollOverInTurn

\* After ElimateFiles_ the log files together keep to total_files_sizes_, but for the
\* oldest if these cannot be removed, however many there are, whatever their sizes and
\* the limit.
THEOREM KeptWithinLimit == Spec => []TotalBounded
<1>1. Init => TotalBounded
  BY DEF Init, TotalBounded
<1>2. ASSUME TypeOK, TotalBounded, [Next]_vars PROVE TotalBounded'
  <2>1. ASSUME NEW how \in [DOMAIN files -> Outcomes], ElimateFiles(how) PROVE TotalBounded'
    <3> SUFFICES ASSUME last' = "eliminate"
                 PROVE  \E k \in 0..Len(files') :
                            /\ \A i \in 1..k : files'[i].name \in refused'
                            /\ Bytes(SubSeq(files', k + 1, Len(files'))) <=
                                   total_files_sizes_ * KB * KB
      BY DEF TotalBounded
    <3>1. files \in Seq(File) /\ files' \in Seq(File)
      BY <1>2, <2>1, Directory, Eliminated
    <3>2. PICK j \in 0..Len(files) : Tailed(files, how, files', Len(files), j)
      BY <1>2, <2>1, Eliminated
    <3> DEFINE k == Len(files') - j
    <3>3. j \in 0..Len(files') /\ k \in 0..Len(files') /\ k + 1 = Len(files') + 1 - j
      BY <3>1, <3>2 DEF Tailed
    <3> HIDE DEF k
    <3>4. SubSeq(files', k + 1, Len(files')) = Newest(files, j)
      BY <3>2, <3>3 DEF Tailed, Newest
    <3>5. Bytes(Newest(files, j)) <= Total
      BY <3>1, <3>2, NewestSum DEF Tailed
    <3>6. ASSUME NEW i \in 1..k PROVE files'[i].name \in refused'
      <4>1. PICK p \in 1..Len(files) : how[p] = "refused" /\ files'[i].name = files[p].name
        BY <3>2, <3>6 DEF Tailed, k
      <4>2. p \in {q \in DOMAIN files : how[q] = "refused"}
        BY <3>1, <4>1
      <4>3. refused' = NamesOf({q \in DOMAIN files : how[q] = "refused"})
        BY <2>1 DEF ElimateFiles
      <4> QED BY <4>1, <4>2, <4>3 DEF NamesOf
    <3> QED BY <3>3, <3>4, <3>5, <3>6, TotalInBytes
  <2>2. ASSUME NEW n \in Chunks, WriteChunk(n) PROVE TotalBounded'
    BY <2>2 DEF WriteChunk, TotalBounded
  <2>3. CASE Restart
    BY <2>3 DEF Restart, TotalBounded
  <2>4. CASE Tick
    BY <2>4 DEF Tick, TotalBounded
  <2>5. CASE UNCHANGED vars
    BY <1>2, <2>5 DEF vars, TotalBounded
  <2> QED BY <1>2, <2>1, <2>2, <2>3, <2>4, <2>5 DEF Next
<1> QED BY <1>1, <1>2, InOrder, PTL DEF Spec

\* A file that a step removes would not fit with those written after it, and no file
\* written before it is left that could have been removed.
LEMMA RemovalStep ==
    ASSUME TypeOK, [Next]_vars, NEW i \in DOMAIN files, Lost(i)
    PROVE  /\ Bytes(SubSeq(files, i, Len(files))) > Total
           /\ last' = "died" \/ \A j \in 1..(i - 1) : Lost(j) \/ files[j].name \in refused'
<1>1. files \in Seq(File) /\ Distinct(files) /\ DOMAIN files = 1..Len(files)
  BY Directory
<1>2. ASSUME NEW how \in [DOMAIN files -> Outcomes], ElimateFiles(how)
      PROVE  /\ Bytes(SubSeq(files, i, Len(files))) > Total
             /\ last' = "died" \/ \A j \in 1..(i - 1) : Lost(j) \/ files[j].name \in refused'
  <2>1. /\ StaysIfFits(files, files', Len(files))
        /\ last' \in {"eliminate", "died"}
        /\ last' = "eliminate" => Cleared(files, how, files', Len(files))
    BY <1>2, Eliminated
  <2> DEFINE back(j) == Len(files) + 1 - j
  <2>2. \A j \in 1..Len(files) : /\ back(j) \in 1..Len(files) /\ back(j) \in 0..Len(files)
                                 /\ Back(files, back(j)) = j
    BY <1>1 DEF Back
  <2>3. Sums(files)[back(i)] > Total
    <3>1. \/ \E q \in DOMAIN files' : files'[q] = files[Back(files, back(i))]
          \/ Sums(files)[back(i)] > Total
      BY <1>1, <2>1, <2>2 DEF StaysIfFits
    <3>2. Back(files, back(i)) = i
      BY <1>1, <2>2
    <3> HIDE DEF back
    <3> QED BY <3>1, <3>2 DEF Lost
  <2>4. Bytes(SubSeq(files, i, Len(files))) = Sums(files)[back(i)]
    <3>1. SubSeq(files, i, Len(files)) = Newest(files, back(i))
      <4>1. Len(files) + 1 - back(i) = i
        BY <1>1
      <4> HIDE DEF back
      <4> QED BY <4>1 DEF Newest
    <3>2. back(i) \in 0..Len(files)
      BY <1>1, <2>2
    <3> QED BY <1>1, <3>1, <3>2, NewestSum
  <2>5. ASSUME last' # "died", NEW j \in 1..(i - 1)
        PROVE  Lost(j) \/ files[j].name \in refused'
    <3>1. j \in 1..Len(files) /\ back(i) <= back(j) /\ back(i) \in 0..Len(files)
          /\ back(j) \in 0..Len(files) /\ back(j) \in 1..Len(files)
      BY <1>1
    <3>2. Sums(files)[back(j)] > Total
      <4>1. Sums(files)[back(i)] <= Sums(files)[back(j)]
        BY <1>1, <3>1, SumsGrow
      <4>2. Sums(files)[back(i)] \in Nat /\ Sums(files)[back(j)] \in Nat
        <5>1. Sums(files) \in [0..Len(files) -> Nat]
          BY <1>1, SumsAre
        <5> QED BY <3>1, <5>1
      <4>3. Total \in Nat
        BY TotalInBytes
      <4> HIDE DEF back
      <4> QED BY <2>3, <4>1, <4>2, <4>3
    <3>3. Back(files, back(j)) = j
      BY <2>2, <3>1
    <3> HIDE DEF back
    <3>4. \/ how[j] = "refused"
          \/ \A q \in DOMAIN files' : files'[q].name # files[j].name
      BY <2>1, <2>5, <3>1, <3>2, <3>3 DEF Cleared
    <3>5. how[j] = "refused" => files[j].name \in refused'
      BY <1>1, <1>2, <3>1 DEF ElimateFiles, NamesOf
    <3> QED BY <3>4, <3>5 DEF Lost
  <2> QED BY <2>3, <2>4, <2>5
<1>3. ASSUME NEW n \in Chunks, WriteChunk(n) PROVE FALSE
  <2>1. GetFilePath \in Name /\ n \in Nat
    BY PathTypes, FilesAssumption
  <2>2. \E k \in DOMAIN files' : files'[k].name = files[i].name
    <3>1. CASE files' = files
      BY <3>1
    <3>2. CASE files' = Appended(GetFilePath, n)
      BY <1>1, <2>1, <3>2, AppendedTypes
    <3> QED BY <1>3, <3>1, <3>2 DEF WriteChunk
  <2> QED BY <2>2 DEF Lost
<1>4. Restart \/ Tick \/ UNCHANGED vars => FALSE
  BY <1>1 DEF Restart, Tick, vars, Lost
<1> QED BY <1>2, <1>3, <1>4 DEF Next

\* Only files that would not fit are ever removed, and those written before one that is
\* go too, unless they cannot be removed or a removal has thrown.
THEOREM RemovedOldest == Spec => OldestRemoved
<1>1. TypeOK /\ [Next]_vars => [OldestFirst]_vars
  BY RemovalStep DEF OldestFirst
<1>2. Spec => [][OldestFirst]_vars
  BY <1>1, InOrder, PTL DEF Spec
<1> QED BY <1>2 DEF OldestRemoved

\* Spaces of all units and reps compare, add up and divide as the lengths in bytes
\* they stand for, whatever the size of a kilobyte and the width of a rep.
THEOREM SpacesCompare == Spec => []SizesCompare
<1>1. LengthsCompare => SizesCompare
  BY DEF SizesCompare
<1> QED BY <1>1, CompareLaw, PTL

\* A cast to another unit loses less than one unit of it.
THEOREM CastsTruncate == Spec => []CastTruncates
<1>1. LengthsKept => CastTruncates
  BY DEF CastTruncates
<1> QED BY <1>1, CastLaw, PTL

\* The members of space agree with its operators on mixed units.
THEOREM SpaceMembersAgree == Spec => []MembersAgree
<1>1. LengthsAddUp => MembersAgree
  BY DEF MembersAgree
<1> QED BY <1>1, MemberLaw, PTL
=============================================================================
