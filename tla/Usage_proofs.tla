---------------------------- MODULE Usage_proofs ----------------------------
(***************************************************************************)
(* Proofs about UsageRollup for every number of tunnels, every length of a *)
(* day and of a month and every backfill: whatever windows are recomputed, *)
(* in whatever order and with whatever clock reading, no byte is billed on *)
(* two days, a closed row belongs to one day and one month, and the peak   *)
(* of a day is a number of tunnels that were open together.                *)
(*                                                                         *)
(* Sums are cardinalities of sets of <<row, byte>>, so that facts about    *)
(* sums are facts about injections.                                        *)
(***************************************************************************)
EXTENDS UsageRollup, AdminUsage, FiniteSetTheorems, TLAPS

-----------------------------------------------------------------------------
(* Numbers. *)

\* What division by the length of a day means.
LEMMA DivBounds ==
  ASSUME NEW a \in Int, NEW l \in Nat \ {0}
  PROVE  a \div l \in Int /\ l * (a \div l) <= a /\ a < l * (a \div l) + l
BY SMT

\* A set of naturals has a least element.
LEMMA LeastNatural ==
  ASSUME NEW S \in SUBSET Nat, S # {}
  PROVE  \E x \in S : \A y \in S : x <= y
<1>1. PICK x \in S : \A y \in S : ~ (<<y, x>> \in OpToRel(<, Nat))
  BY NatLessThanWellFounded, WFMin
<1>2. \A y \in S : ~ (y < x)
  BY <1>1 DEF OpToRel
<1> QED BY <1>2

\* A bounded set of naturals has a greatest one.
LEMMA GreatestNatural ==
  ASSUME NEW S \in SUBSET Nat, S # {}, NEW n \in Nat, \A y \in S : y <= n
  PROVE  \E x \in S : \A y \in S : y <= x
<1> DEFINE T == {m \in Nat : \E y \in S : m = n - y}
<1>1. T \in SUBSET Nat /\ T # {}
  <2>1. PICK y \in S : TRUE
    OBVIOUS
  <2>2. n - y \in T
    BY <2>1
  <2> QED BY <2>2
<1>2. PICK m \in T : \A k \in T : m <= k
  <2> HIDE DEF T
  <2> QED BY <1>1, LeastNatural
<1>3. PICK x \in S : m = n - x
  BY <1>2
<1>4. ASSUME NEW y \in S PROVE y <= x
  <2>1. n - y \in T
    BY <1>4
  <2>2. m <= n - y
    BY <1>2, <2>1
  <2> QED BY <1>3, <1>4, <2>2
<1> QED BY <1>3, <1>4

\* Max is the greatest element, where there is one.
LEMMA MaxIsGreatest ==
  ASSUME NEW S \in SUBSET Int, NEW x \in S, \A y \in S : y <= x
  PROVE  Max(S) = x
<1>1. \A y \in S : x >= y
  OBVIOUS
<1>2. \E z \in S : \A y \in S : z >= y
  BY <1>1
<1>3. Max(S) \in S /\ \A y \in S : Max(S) >= y
  BY <1>2, Zenon DEF Max
<1>4. ASSUME NEW m \in S, \A y \in S : m >= y PROVE m = x
  BY <1>1, <1>4
<1> QED BY <1>3, <1>4, Zenon

\* Two finite sets with an injection from one to the other.
LEMMA InjectionBounds ==
  ASSUME NEW S, NEW T, IsFiniteSet(T), NEW f \in [S -> T],
         \A x, y \in S : f[x] = f[y] => x = y
  PROVE  IsFiniteSet(S) /\ Cardinality(S) <= Cardinality(T)
<1>1. f \in Injection(S, T)
  BY DEF Injection, IsInjective
<1> QED BY <1>1, FS_Injection

\* Cardinalities of finite sets are naturals.
LEMMA CardNat ==
  ASSUME NEW S, IsFiniteSet(S)
  PROVE  Cardinality(S) \in Nat
BY FS_CardinalityType

-----------------------------------------------------------------------------
(* Bytes. *)

\* The bytes of the rows of S, one by one, where the log is r.
ByteSet(r, S) == UNION {{t} \X (1 .. r[t].bytes) : t \in S}

\* Counters within their bound.
Counted(r) == \A t \in Tunnels : r[t].bytes \in 0 .. MaxBytes

LEMMA InByteSet ==
  ASSUME NEW r, NEW S
  PROVE  /\ \A t \in S : \A i \in 1 .. r[t].bytes : <<t, i>> \in ByteSet(r, S)
         /\ \A x \in ByteSet(r, S) : \E t \in S : \E i \in 1 .. r[t].bytes : x = <<t, i>>
BY DEF ByteSet

\* They are finitely many, and at most MaxBytes for each row.
LEMMA BytesBounded ==
  ASSUME NEW r, Counted(r), NEW S \in SUBSET Tunnels
  PROVE  /\ IsFiniteSet(ByteSet(r, S))
         /\ Cardinality(ByteSet(r, S)) \in 0 .. MaxBytes * Cardinality(Tunnels)
<1>1. /\ IsFiniteSet(1 .. MaxBytes) /\ Cardinality(1 .. MaxBytes) = MaxBytes
      /\ IsFiniteSet(Tunnels) /\ Cardinality(Tunnels) \in Nat /\ MaxBytes \in Nat
  <2>1. 1 \in Int /\ MaxBytes \in Int /\ MaxBytes \in Nat
    BY RollupLog
  <2>2. IsFiniteSet(1 .. MaxBytes) /\ Cardinality(1 .. MaxBytes) = IF 1 > MaxBytes THEN 0 ELSE MaxBytes - 1 + 1
    BY <2>1, FS_Interval
  <2> QED BY <2>1, <2>2, RollupLog, FS_CardinalityType
<1>2. /\ IsFiniteSet(Tunnels \X (1 .. MaxBytes))
      /\ Cardinality(Tunnels \X (1 .. MaxBytes)) = Cardinality(Tunnels) * MaxBytes
  BY <1>1, FS_Product
<1>3. ByteSet(r, S) \in SUBSET (Tunnels \X (1 .. MaxBytes))
  <2>1. ASSUME NEW x \in ByteSet(r, S) PROVE x \in Tunnels \X (1 .. MaxBytes)
    <3>1. PICK t \in S : \E i \in 1 .. r[t].bytes : x = <<t, i>>
      BY InByteSet
    <3>2. PICK i \in 1 .. r[t].bytes : x = <<t, i>>
      BY <3>1
    <3>3. t \in Tunnels /\ r[t].bytes \in 0 .. MaxBytes /\ i \in 1 .. MaxBytes
      BY <1>1, <3>1, <3>2 DEF Counted
    <3> QED BY <3>2, <3>3
  <2> QED BY <2>1
<1>4. /\ IsFiniteSet(ByteSet(r, S)) /\ Cardinality(ByteSet(r, S)) \in Nat
      /\ Cardinality(ByteSet(r, S)) <= Cardinality(Tunnels) * MaxBytes
  BY <1>2, <1>3, FS_Subset, FS_CardinalityType
<1> QED BY <1>1, <1>4

\* More rows, or a log in which these rows are the same, and there are no fewer.
LEMMA BytesGrow ==
  ASSUME NEW r, NEW q, Counted(q), NEW T \in SUBSET Tunnels, NEW S \in SUBSET T,
         \A t \in S : q[t] = r[t]
  PROVE  Cardinality(ByteSet(r, S)) <= Cardinality(ByteSet(q, T))
<1>1. ByteSet(r, S) \in SUBSET ByteSet(q, T)
  BY DEF ByteSet
<1>2. IsFiniteSet(ByteSet(q, T))
  BY BytesBounded
<1> QED BY <1>1, <1>2, FS_Subset

\* The rows billed to day d.
BilledTo(d) == {t \in Tunnels : AttributedTo(t, d)}

\* No day shows more than the rows billed to it hold.
NotOverbilled == \A d \in Days : daily[d] <= BytesOf(BilledTo(d))

\* Timestamps are in the past.
Timely == \A t \in Tunnels : opened[t] <= clock /\ closed[t] <= clock

RollupInv == RollupTypeOK /\ Timely /\ NotOverbilled

\* Where no day shows too much, the days together do not: number the bytes of
\* each day's rows, and send the i-th byte of a day to the i-th of its rows'.
LEMMA DaysAddUp ==
  ASSUME RollupTypeOK, NotOverbilled
  PROVE  NoDoubleBilling
<1> DEFINE A(d) == ByteSet(rows, BilledTo(d))
           all == {t \in Tunnels : Closed(t)}
           B == ByteSet(rows, all)
           D == UNION {{d} \X (1 .. daily[d]) : d \in Days}
           nth(d) == CHOOSE f : f \in Bijection(1 .. Cardinality(A(d)), A(d))
           F == [x \in D |-> nth(x[1])[x[2]]]
<1>1. Counted(rows)
  BY DEF RollupTypeOK, Counted
<1>2. \A d \in Days : BilledTo(d) \in SUBSET all /\ BilledTo(d) \in SUBSET Tunnels /\ all \in SUBSET Tunnels
  BY DEF BilledTo, AttributedTo
<1>3. ASSUME NEW d \in Days
      PROVE  /\ nth(d) \in [1 .. Cardinality(A(d)) -> A(d)]
             /\ \A i, j \in 1 .. Cardinality(A(d)) : nth(d)[i] = nth(d)[j] => i = j
             /\ daily[d] \in Nat /\ daily[d] <= Cardinality(A(d)) /\ Cardinality(A(d)) \in Nat
  <2>1. IsFiniteSet(A(d))
    BY <1>1, <1>2, BytesBounded
  <2>2. ExistsBijection(1 .. Cardinality(A(d)), A(d)) /\ Cardinality(A(d)) \in Nat
    BY <2>1, FS_CardinalityType
  <2>3. nth(d) \in Bijection(1 .. Cardinality(A(d)), A(d))
    BY <2>2, Zenon DEF ExistsBijection
  <2>4. daily[d] \in Nat
    BY DEF RollupTypeOK
  <2>5. daily[d] <= Cardinality(A(d))
    BY DEF NotOverbilled, BytesOf, ByteSet
  <2> HIDE DEF nth, A
  <2>6. nth(d) \in Injection(1 .. Cardinality(A(d)), A(d))
    BY <2>3 DEF Bijection
  <2>7. /\ nth(d) \in [1 .. Cardinality(A(d)) -> A(d)]
        /\ \A i, j \in 1 .. Cardinality(A(d)) : nth(d)[i] = nth(d)[j] => i = j
    BY <2>6 DEF Injection, IsInjective
  <2> QED BY <2>2, <2>4, <2>5, <2>7
<1>4. \A x \in D : \E d \in Days : \E i \in 1 .. daily[d] : x = <<d, i>>
  OBVIOUS
<1>5. ASSUME NEW d \in Days, NEW i \in 1 .. daily[d]
      PROVE  i \in 1 .. Cardinality(A(d)) /\ nth(d)[i] \in A(d)
  <2>1. i \in 1 .. Cardinality(A(d))
    <3> HIDE DEF nth, A
    <3> QED BY <1>3, <1>5
  <2> HIDE DEF nth, A
  <2> QED BY <1>3, <2>1
<1>6. \A d \in Days : A(d) \subseteq B
  BY <1>2, Zenon DEF ByteSet
<1>7. \A d, e \in Days : A(d) \cap A(e) # {} => d = e
  <2> SUFFICES ASSUME NEW d \in Days, NEW e \in Days, NEW x, x \in A(d), x \in A(e) PROVE d = e
    OBVIOUS
  <2>1. PICK t \in BilledTo(d) : \E i : x = <<t, i>>
    BY InByteSet
  <2>2. PICK u \in BilledTo(e) : \E j : x = <<u, j>>
    BY InByteSet
  <2>3. t = u
    BY <2>1, <2>2
  <2> QED BY <2>1, <2>2, <2>3 DEF BilledTo, AttributedTo
<1>8. F \in [D -> B] /\ \A x, y \in D : F[x] = F[y] => x = y
  <2>1. ASSUME NEW x \in D, NEW y \in D
        PROVE  F[x] \in B /\ (F[x] = F[y] => x = y)
    <3>1. PICK d \in Days : \E i \in 1 .. daily[d] : x = <<d, i>>
      BY <1>4
    <3>2. PICK e \in Days : \E j \in 1 .. daily[e] : y = <<e, j>>
      BY <1>4
    <3>3. PICK i \in 1 .. daily[d], j \in 1 .. daily[e] : x = <<d, i>> /\ y = <<e, j>>
      BY <3>1, <3>2
    <3>4. F[x] = nth(d)[i] /\ F[y] = nth(e)[j]
      <4> HIDE DEF nth, D
      <4> QED BY <3>3
    <3> HIDE DEF nth, A, B, F, D
    <3>5. F[x] \in A(d) /\ F[y] \in A(e)
      BY <1>5, <3>3, <3>4
    <3>6. ASSUME F[x] = F[y] PROVE x = y
      <4>1. d = e
        BY <1>7, <3>5, <3>6
      <4>2. i \in 1 .. Cardinality(A(d)) /\ j \in 1 .. Cardinality(A(d)) /\ nth(d)[i] = nth(d)[j]
        BY <1>5, <3>3, <3>4, <3>6, <4>1
      <4>3. i = j
        BY <1>3, <4>2
      <4> QED BY <3>3, <4>1, <4>3
    <3> QED BY <1>6, <3>5, <3>6
  <2>2. F = [x \in D |-> F[x]]
    OBVIOUS
  <2> HIDE DEF F, B, D
  <2> QED BY <2>1, <2>2
<1>9. IsFiniteSet(B)
  BY <1>1, BytesBounded
<1>10. Cardinality(D) <= Cardinality(B)
  <2> HIDE DEF F, B, D
  <2> QED BY <1>8, <1>9, InjectionBounds
<1> QED BY <1>10 DEF NoDoubleBilling, BytesOf, ByteSet

-----------------------------------------------------------------------------
(* Days. *)

\* The day of an instant, and that the days are in order.
LEMMA DayOf ==
  ASSUME NEW x \in Int
  PROVE  /\ Day(x) \in Int /\ DayStart(Day(x)) <= x /\ x < DayEnd(Day(x))
         /\ 0 <= x => 0 <= Day(x)
         /\ \A d \in Int : DayStart(d) <= x /\ x < DayEnd(d) => d = Day(x)
         /\ \A d \in Int : d <= Day(x) <=> DayStart(d) <= x
<1> DEFINE q == x \div DayLength
           l == DayLength
<1>1. l \in Nat \ {0, 1}
  BY RollupBounds
<1>2. q \in Int /\ l * q <= x /\ x < l * q + l
  BY <1>1, DivBounds
<1> HIDE DEF q, l
<1>3. ASSUME NEW d \in Int PROVE d <= q <=> d * l <= x
  <2>1. ASSUME d <= q PROVE d * l <= x
    <3>1. d * l <= q * l
      BY <1>1, <1>2, <2>1
    <3> QED BY <1>1, <1>2, <3>1
  <2>2. ASSUME d >= q + 1 PROVE d * l > x
    <3>1. d * l >= (q + 1) * l
      BY <1>1, <1>2, <2>2
    <3>2. (q + 1) * l = l * q + l
      BY <1>1, <1>2
    <3>3. d * l \in Int
      BY <1>1
    <3> QED BY <1>1, <1>2, <3>1, <3>2, <3>3
  <2> QED BY <1>1, <1>2, <2>1, <2>2
<1>4. q * l <= x /\ x < (q + 1) * l
  BY <1>1, <1>2
<1>5. 0 <= x => 0 <= q
  <2>1. 0 * l = 0
    BY <1>1
  <2> QED BY <1>3, <2>1
<1>6. ASSUME NEW d \in Int, d * l <= x, x < (d + 1) * l PROVE d = q
  <2>1. d <= q /\ ~ (d + 1 <= q)
    <3>1. d + 1 \in Int /\ (d + 1) * l \in Int
      BY <1>1
    <3> QED BY <1>3, <1>6, <3>1
  <2> QED BY <1>2, <2>1
<1>7. Day(x) = q /\ \A d : DayStart(d) = d * l /\ DayEnd(d) = (d + 1) * l
  BY DEF Day, DayStart, DayEnd, q, l
<1> QED BY <1>2, <1>3, <1>4, <1>5, <1>6, <1>7

\* An instant of the model is on one of its days.
LEMMA DayInDays ==
  ASSUME NEW x \in 0 .. MaxTime
  PROVE  Day(x) \in Days /\ Day(x) \in Nat
<1>1. MaxTime \in Int /\ x \in Int
  BY RollupBounds
<1>2. Day(x) <= Day(MaxTime)
  <2>1. Day(x) \in Int /\ DayStart(Day(x)) <= x /\ DayStart(Day(x)) \in Int
    BY <1>1, DayOf, RollupBounds DEF DayStart
  <2>2. DayStart(Day(x)) <= MaxTime
    BY <1>1, <2>1
  <2> QED BY <1>1, <2>1, <2>2, DayOf
<1>3. 0 <= Day(x) /\ Day(x) \in Int /\ Day(MaxTime) \in Int
  BY <1>1, DayOf
<1> QED BY <1>2, <1>3 DEF Days

-----------------------------------------------------------------------------
(* The log and the rollups. *)

Row == [state : RowStates, bytes : 0 .. MaxBytes]
Roll == [pc : {"idle", "begin", "locked", "done"}, now : 0 .. MaxTime, from : Days, to : Days]

\* There is a first instant and a first day.
LEMMA Beginning ==
  /\ 0 \in 0 .. MaxTime /\ 0 \in Days /\ 0 \in 0 .. MaxBytes
  /\ 0 \in 0 .. MaxBytes * Cardinality(Tunnels)
  /\ MaxBytes \in 0 .. MaxBytes
<1>1. 0 \in 0 .. MaxTime /\ 0 \in 0 .. MaxBytes /\ MaxBytes \in 0 .. MaxBytes
  BY RollupBounds, RollupLog
<1>2. 0 \in Days
  <2>1. MaxTime \in 0 .. MaxTime
    BY RollupBounds
  <2>2. Day(MaxTime) \in Nat
    BY <2>1, DayInDays
  <2> QED BY <2>2 DEF Days
<1>3. 0 \in 0 .. MaxBytes * Cardinality(Tunnels)
  BY RollupLog, CardNat
<1> QED BY <1>1, <1>2, <1>3

LEMMA RollupInitInv == RollupInit => RollupInv
<1> SUFFICES ASSUME RollupInit PROVE RollupInv
  OBVIOUS
<1>1. RollupTypeOK
  <2>1. NoRow \in Row /\ IdleRoll \in Roll
    BY Beginning DEF NoRow, Row, RowStates, IdleRoll, Roll
  <2> QED BY <2>1, Beginning DEF RollupInit, AccountInit, RollupTypeOK, Row, Roll
<1>2. Timely
  <2>1. clock = 0 /\ \A t \in Tunnels : opened[t] = 0 /\ closed[t] = 0
    BY DEF RollupInit
  <2>2. 0 <= 0
    OBVIOUS
  <2> QED BY <2>1, <2>2, Zenon DEF Timely
<1>3. NotOverbilled
  <2> SUFFICES ASSUME NEW d \in Days PROVE daily[d] <= BytesOf(BilledTo(d))
    BY DEF NotOverbilled
  <2>1. Cardinality(ByteSet(rows, BilledTo(d))) \in Nat
    <3>1. BilledTo(d) \in SUBSET Tunnels /\ Counted(rows)
      BY <1>1 DEF BilledTo, RollupTypeOK, Counted
    <3>2. IsFiniteSet(ByteSet(rows, BilledTo(d)))
      BY <3>1, BytesBounded
    <3> QED BY <3>2, CardNat
  <2> QED BY <2>1 DEF RollupInit, BytesOf, ByteSet
<1> QED BY <1>1, <1>2, <1>3 DEF RollupInv

\* Nothing is billed meanwhile, and a closed row stays what it is.
LEMMA BilledKept ==
  ASSUME RollupInv, RollupTypeOK', daily' = daily,
         \A t \in Tunnels : Closed(t) => rows'[t] = rows[t] /\ closed'[t] = closed[t]
  PROVE  NotOverbilled'
<1> SUFFICES ASSUME NEW d \in Days PROVE daily'[d] <= BytesOf(BilledTo(d))'
  BY DEF NotOverbilled
<1>1. /\ BilledTo(d)' \in SUBSET Tunnels /\ BilledTo(d) \in SUBSET BilledTo(d)'
      /\ \A t \in BilledTo(d) : rows'[t] = rows[t]
  BY DEF BilledTo, AttributedTo, Closed
<1>2. Counted(rows) /\ Counted(rows')
  BY DEF RollupInv, RollupTypeOK, Counted
<1>3. Cardinality(ByteSet(rows, BilledTo(d))) <= Cardinality(ByteSet(rows', BilledTo(d)'))
  BY <1>1, <1>2, BytesGrow
<1>4. /\ Cardinality(ByteSet(rows, BilledTo(d))) \in Int
      /\ Cardinality(ByteSet(rows', BilledTo(d)')) \in Int
  <2>1. BilledTo(d) \in SUBSET Tunnels
    BY DEF BilledTo
  <2> QED BY <1>1, <1>2, <2>1, BytesBounded
<1>5. daily'[d] <= Cardinality(ByteSet(rows, BilledTo(d))) /\ daily'[d] \in Int
  BY DEF RollupInv, RollupTypeOK, NotOverbilled, BytesOf, ByteSet
<1>6. daily'[d] <= Cardinality(ByteSet(rows', BilledTo(d)'))
  BY <1>3, <1>4, <1>5
<1> QED BY <1>6 DEF BytesOf, ByteSet

\* Steps of the clock and of the log
LEMMA LogStep ==
  ASSUME RollupInv, Tick \/ \E t \in Tunnels : LogOpen(t) \/ SendClose(t) \/ LogClose(t)
  PROVE  RollupInv'
<1>1. clock \in 0 .. MaxTime /\ MaxTime \in Nat
  BY RollupBounds DEF RollupInv, RollupTypeOK
<1>2. CASE Tick
  <2>1. clock' \in 0 .. MaxTime /\ clock' = clock + 1
    BY <1>1, <1>2 DEF Tick
  <2>2. RollupTypeOK'
    BY <1>2, <2>1 DEF Tick, logVars, RollupInv, RollupTypeOK, OpenRows
  <2>3. Timely'
    BY <1>1, <1>2, <2>1 DEF Tick, logVars, RollupInv, RollupTypeOK, Timely
  <2>4. NotOverbilled'
    BY <1>2, <2>2, BilledKept DEF Tick, logVars
  <2> QED BY <2>2, <2>3, <2>4 DEF RollupInv
<1>3. ASSUME NEW t \in Tunnels, LogOpen(t) PROVE RollupInv'
  <2>1. [state |-> "open", bytes |-> 0] \in Row
    BY Beginning DEF Row, RowStates
  <2>2. /\ rows' = [rows EXCEPT ![t] = [state |-> "open", bytes |-> 0]] /\ rows[t].state = "none"
        /\ opened' = [opened EXCEPT ![t] = clock]
        /\ UNCHANGED <<used, clock, closed, closing, roll, daily>>
    BY <1>3 DEF LogOpen, OpenRow
  <2>3. OpenRows \subseteq OpenRows'
    BY <2>2 DEF OpenRows, RollupInv, RollupTypeOK
  <2>4. RollupTypeOK'
    BY <1>1, <2>1, <2>2, <2>3 DEF RollupInv, RollupTypeOK, Row
  <2>5. Timely'
    BY <1>1, <2>2 DEF RollupInv, RollupTypeOK, Timely
  <2>6. NotOverbilled'
    BY <2>2, <2>4, BilledKept DEF Closed, RollupInv, RollupTypeOK
  <2> QED BY <2>4, <2>5, <2>6 DEF RollupInv
<1>4. ASSUME NEW t \in Tunnels, SendClose(t) PROVE RollupInv'
  <2>1. RollupTypeOK'
    BY <1>1, <1>4 DEF SendClose, RollupInv, RollupTypeOK, OpenRows
  <2>2. Timely'
    BY <1>1, <1>4 DEF SendClose, RollupInv, RollupTypeOK, Timely
  <2>3. NotOverbilled'
    BY <1>4, <2>1, BilledKept DEF SendClose, Closed, RollupInv, RollupTypeOK
  <2> QED BY <2>1, <2>2, <2>3 DEF RollupInv
<1>5. ASSUME NEW t \in Tunnels, LogClose(t) PROVE RollupInv'
  <2>1. [state |-> "closed", bytes |-> MaxBytes] \in Row
    BY Beginning DEF Row, RowStates
  <2>2. /\ rows' = [rows EXCEPT ![t] = [state |-> "closed", bytes |-> MaxBytes]] /\ t \in closing
        /\ used' = [used EXCEPT ![t] = MaxBytes] /\ closing' = closing \ {t}
        /\ UNCHANGED <<clock, opened, closed, roll, daily>>
    BY <1>5 DEF LogClose
  <2>3. closing' \subseteq OpenRows'
    BY <2>2 DEF OpenRows, RollupInv, RollupTypeOK
  <2>4. RollupTypeOK'
    BY <2>1, <2>2, <2>3, Beginning DEF RollupInv, RollupTypeOK, Row
  <2>5. Timely'
    BY <2>2 DEF RollupInv, Timely
  <2>6. NotOverbilled'
    BY <2>2, <2>4, BilledKept DEF Closed, RollupInv, RollupTypeOK, OpenRows
  <2> QED BY <2>4, <2>5, <2>6 DEF RollupInv
<1> QED BY <1>2, <1>3, <1>4, <1>5

\* A step of a rollup that commits nothing: only roll changes.
LEMMA RollOnly ==
  ASSUME RollupInv, UNCHANGED <<logVars, clock, daily>>, roll' \in [Rollers -> Roll]
  PROVE  RollupInv'
<1>1. RollupTypeOK'
  BY DEF logVars, RollupInv, RollupTypeOK, OpenRows, Roll
<1>2. Timely'
  BY DEF logVars, RollupInv, Timely
<1>3. NotOverbilled'
  BY <1>1, BilledKept DEF logVars
<1> QED BY <1>1, <1>2, <1>3 DEF RollupInv

LEMMA FinishedRoll ==
  ASSUME NEW r \in Rollers
  PROVE  Finished(r) \in Roll
BY Beginning DEF Finished, IdleRoll, Roll

\* Starting a rollup, and giving one up
LEMMA RollStep ==
  ASSUME RollupInv,
         \/ RollupTick \/ BackfillLock
         \/ \E w \in Backfills : StartBackfill(w[1], w[2])
         \/ \E r \in Rollers : RollbackRollup(r)
  PROVE  RollupInv'
<1>1. roll \in [Rollers -> Roll] /\ clock \in 0 .. MaxTime /\ "timer" \in Rollers /\ "backfill" \in Rollers
  BY DEF RollupInv, RollupTypeOK, Roll, Rollers
<1>2. CASE RollupTick
  <2>1. Day(clock) \in Days /\ Day(clock) \in Nat
    BY <1>1, DayInDays
  <2>2. Max2(0, Day(clock) - (Lookback - 1)) \in Days
    <3>1. Max2(0, Day(clock) - (Lookback - 1)) \in 0 .. Day(clock)
      BY <2>1, RollupBounds DEF Max2
    <3>2. MaxTime \in 0 .. MaxTime
      BY RollupBounds
    <3>3. Day(MaxTime) \in Nat
      BY <3>2, DayInDays
    <3> QED BY <2>1, <3>1, <3>3 DEF Days
  <2>3. [pc |-> "locked", now |-> clock, to |-> Day(clock),
         from |-> Max2(0, Day(clock) - (Lookback - 1))] \in Roll
    BY <1>1, <2>1, <2>2 DEF Roll
  <2> QED BY <1>1, <1>2, <2>3, RollOnly DEF RollupTick
<1>3. CASE BackfillLock
  <2>1. /\ [roll EXCEPT !["backfill"].pc = "locked"] \in [Rollers -> Roll]
        /\ [roll EXCEPT !["backfill"].now = clock] \in [Rollers -> Roll]
    BY <1>1 DEF Roll
  <2>2. [roll EXCEPT !["backfill"] = Finished("backfill")] \in [Rollers -> Roll]
    BY <1>1, FinishedRoll
  <2> QED BY <1>3, <2>1, <2>2, RollOnly DEF BackfillLock
<1>4. ASSUME NEW w \in Backfills, StartBackfill(w[1], w[2]) PROVE RollupInv'
  <2>1. w[1] \in Days /\ w[2] \in Days
    BY BackfillRange
  <2>2. [pc |-> "begin", now |-> clock, from |-> w[1], to |-> w[2]] \in Roll
    BY <1>1, <2>1 DEF Roll
  <2> QED BY <1>1, <1>4, <2>2, RollOnly DEF StartBackfill
<1>5. ASSUME NEW r \in Rollers, RollbackRollup(r) PROVE RollupInv'
  BY <1>1, <1>5, FinishedRoll, RollOnly DEF RollbackRollup
<1> QED BY <1>2, <1>3, <1>4, <1>5

\* What a rollup writes for a day is at most what the rows billed to it hold.
LEMMA DayBytesBounded ==
  ASSUME RollupInv, NEW d \in Days, NEW now
  PROVE  /\ DayBytes(d, now) \in 0 .. MaxBytes * Cardinality(Tunnels)
         /\ DayBytes(d, now) <= BytesOf(BilledTo(d))
<1> DEFINE S == {t \in Overlapping(d, now) : AttributedTo(t, d)}
<1>1. S \in SUBSET BilledTo(d) /\ BilledTo(d) \in SUBSET Tunnels
  BY DEF Overlapping, BilledTo
<1>2. Counted(rows)
  BY DEF RollupInv, RollupTypeOK, Counted
<1>3. S \in SUBSET Tunnels
  BY <1>1
<1> HIDE DEF S
<1>4. Cardinality(ByteSet(rows, S)) \in 0 .. MaxBytes * Cardinality(Tunnels)
  BY <1>2, <1>3, BytesBounded
<1>5. Cardinality(ByteSet(rows, S)) <= Cardinality(ByteSet(rows, BilledTo(d)))
  BY <1>1, <1>2, BytesGrow
<1> QED BY <1>4, <1>5 DEF DayBytes, BytesOf, ByteSet, S

\* The commit
LEMMA CommitStep ==
  ASSUME RollupInv, NEW r \in Rollers, CommitRollup(r)
  PROVE  RollupInv'
<1>1. \A d \in Days : /\ DayBytes(d, roll[r].now) \in 0 .. MaxBytes * Cardinality(Tunnels)
                      /\ DayBytes(d, roll[r].now) <= BytesOf(BilledTo(d))
  BY DayBytesBounded
<1>2. /\ UNCHANGED <<used, rows, opened, closed, closing, clock>>
      /\ roll' = [roll EXCEPT ![r] = Finished(r)]
      /\ daily' = [d \in Days |-> IF d \in roll[r].from .. roll[r].to
                                  THEN DayBytes(d, roll[r].now) ELSE daily[d]]
  BY DEF CommitRollup, Recompute, logVars
<1>3. roll' \in [Rollers -> Roll]
  BY <1>2, FinishedRoll DEF RollupInv, RollupTypeOK, Roll
<1>4. daily' \in [Days -> 0 .. MaxBytes * Cardinality(Tunnels)]
  BY <1>1, <1>2 DEF RollupInv, RollupTypeOK
<1>5. RollupTypeOK'
  BY <1>2, <1>3, <1>4 DEF RollupInv, RollupTypeOK, OpenRows, Roll
<1>6. Timely'
  BY <1>2 DEF RollupInv, Timely
<1>7. NotOverbilled'
  <2> SUFFICES ASSUME NEW d \in Days PROVE daily'[d] <= BytesOf(BilledTo(d))'
    BY DEF NotOverbilled
  <2>1. BytesOf(BilledTo(d))' = BytesOf(BilledTo(d))
    BY <1>2 DEF BytesOf, BilledTo, AttributedTo, Closed
  <2>2. daily[d] <= BytesOf(BilledTo(d))
    BY DEF RollupInv, NotOverbilled
  <2> QED BY <1>1, <1>2, <2>1, <2>2
<1> QED BY <1>5, <1>6, <1>7 DEF RollupInv

LEMMA RollupNextInv ==
  ASSUME RollupInv, [RollupNext]_rollupVars
  PROVE  RollupInv'
<1>1. CASE UNCHANGED rollupVars
  <2>1. roll' \in [Rollers -> Roll]
    BY <1>1 DEF rollupVars, RollupInv, RollupTypeOK, Roll
  <2> QED BY <1>1, <2>1, RollOnly DEF rollupVars, logVars
<1> QED BY <1>1, LogStep, RollStep, CommitStep DEF RollupNext

-----------------------------------------------------------------------------
(* One day, one month. *)

LEMMA OneDay ==
  ASSUME RollupInv, NEW t \in Tunnels, Closed(t), closed[t] > opened[t]
  PROVE  /\ \E d \in Days : /\ t \in Overlapping(d, clock) /\ AttributedTo(t, d)
                            /\ \A e \in Days \ {d} : ~ (t \in Overlapping(e, clock) /\ AttributedTo(t, e))
         /\ \A m \in 0 .. Day(MaxTime) : InMonth(t, m) =>
              \/ \E d \in MonthDays(m) : AttributedTo(t, d)
              \/ closed[t] = MonthStart(m)
<1> DEFINE last == closed[t] - 1
           d == Day(last)
<1>1. /\ opened[t] \in Nat /\ closed[t] \in Nat /\ clock \in Nat /\ MaxTime \in Nat
      /\ last \in 0 .. MaxTime /\ last \in Int /\ closed[t] <= clock
  BY RollupBounds DEF RollupInv, RollupTypeOK, Timely
<1>2. /\ d \in Days /\ d \in Nat /\ DayStart(d) <= last /\ last < DayEnd(d)
      /\ \A e \in Int : e <= d <=> DayStart(e) <= last
  BY <1>1, DayInDays, DayOf
<1>3. DayStart(d) \in Int /\ DayEnd(d) \in Int
  BY <1>2, RollupBounds DEF DayStart, DayEnd
<1>4. \A e : AttributedTo(t, e) <=> d = e
  BY DEF AttributedTo, Day
<1>5. t \in Overlapping(d, clock)
  <2>1. rows[t].state # "none" /\ EndAt(t, clock) = closed[t]
    BY DEF Closed, EndAt
  <2>2. opened[t] < DayEnd(d) /\ closed[t] > DayStart(d)
    <3> HIDE DEF d
    <3> QED BY <1>1, <1>2, <1>3
  <2>3. OverlapEnd(t, d, clock) > OverlapStart(t, d)
    <3>1. OverlapEnd(t, d, clock) = Min2(Min2(closed[t], DayEnd(d)), clock)
      BY <2>1 DEF OverlapEnd
    <3>2. OverlapStart(t, d) = Max2(opened[t], DayStart(d))
      BY DEF OverlapStart
    <3> HIDE DEF d
    <3> QED BY <1>1, <1>2, <1>3, <2>2, <3>1, <3>2 DEF Min2, Max2
  <2> QED BY <2>1, <2>2, <2>3 DEF Overlapping
<1>6. ASSUME NEW m \in 0 .. Day(MaxTime), InMonth(t, m), closed[t] # MonthStart(m)
      PROVE  d \in MonthDays(m)
  <2> DEFINE a == m * MonthLength
             b == (m + 1) * MonthLength
  <2>1. a \in Int /\ b \in Int /\ MonthStart(m) \in Int /\ MonthStart(m + 1) \in Int
    <3>1. m \in Int /\ m + 1 \in Int
      OBVIOUS
    <3> QED BY <3>1, RollupBounds DEF MonthStart
  <2>2. DayStart(a) = MonthStart(m) /\ DayStart(b) = MonthStart(m + 1)
    BY DEF DayStart, MonthStart
  <2>3. MonthStart(m) <= last /\ ~ (MonthStart(m + 1) <= last)
    BY <1>1, <1>6, <2>1 DEF InMonth
  <2>4. a <= d /\ ~ (b <= d)
    <3> HIDE DEF a, b, d, last
    <3> QED BY <1>2, <2>1, <2>2, <2>3
  <2>5. d \in a .. b - 1
    <3> HIDE DEF a, b, d, last
    <3> QED BY <1>2, <2>1, <2>4
  <2> QED BY <2>5 DEF MonthDays
<1> HIDE DEF d
<1> QED BY <1>2, <1>4, <1>5, <1>6

-----------------------------------------------------------------------------
(* Peaks. *)

\* One event for each row of T: as many events as rows.
Tagged(T, v, d) == {[ts |-> v[t], delta |-> d, id |-> t] : t \in T}

LEMMA TaggedCount ==
  ASSUME NEW T, IsFiniteSet(T), NEW v, NEW d
  PROVE  IsFiniteSet(Tagged(T, v, d)) /\ Cardinality(Tagged(T, v, d)) = Cardinality(T)
<1> DEFINE g == [t \in T |-> [ts |-> v[t], delta |-> d, id |-> t]]
<1>1. g \in [T -> Tagged(T, v, d)]
  BY DEF Tagged
<1>2. \A x, y \in T : g[x] = g[y] => x = y
  OBVIOUS
<1>3. \A e \in Tagged(T, v, d) : \E t \in T : g[t] = e
  BY DEF Tagged
<1> HIDE DEF g
<1>4. g \in Bijection(T, Tagged(T, v, d))
  BY <1>1, <1>2, <1>3 DEF Bijection, Injection, Surjection, IsInjective
<1>5. ExistsBijection(T, Tagged(T, v, d))
  BY <1>4 DEF ExistsBijection
<1> QED BY <1>5, FS_Bijection

\* The running sum at an event counts the rows that have started and not ended.
LEMMA RunningSum ==
  ASSUME NEW S, IsFiniteSet(S), NEW st \in [S -> Int], NEW en \in [S -> Int],
         \A t \in S : st[t] < en[t],
         NEW x \in Int, NEW k \in {1, -1}, NEW f, f.ts = x, f.delta = k
  PROVE  Concurrent(Tagged(S, st, 1) \cup Tagged(S, en, -1), f)
           = Cardinality({t \in S : (st[t] < x \/ (st[t] = x /\ k = 1)) /\ x < en[t]})
<1> DEFINE E == Tagged(S, st, 1) \cup Tagged(S, en, -1)
           A == {t \in S : st[t] < x \/ (st[t] = x /\ k = 1)}
           B == {t \in S : en[t] <= x}
           O == {t \in S : (st[t] < x \/ (st[t] = x /\ k = 1)) /\ x < en[t]}
<1>1. {e \in E : e.delta = 1 /\ NotAfter(e, f)} = Tagged(A, st, 1)
  BY DEF Tagged, NotAfter
<1>2. {e \in E : e.delta = -1 /\ NotAfter(e, f)} = Tagged(B, en, -1)
  BY DEF Tagged, NotAfter
<1>3. B \in SUBSET A /\ A \in SUBSET S /\ O = A \ B
  OBVIOUS
<1> HIDE DEF A, B, O, E
<1>4. IsFiniteSet(A) /\ IsFiniteSet(B)
  BY <1>3, FS_Subset
<1>5. Cardinality(O) = Cardinality(A) - Cardinality(A \cap B)
  BY <1>3, <1>4, FS_Difference
<1>6. A \cap B = B
  BY <1>3
<1>7. Concurrent(E, f) = Cardinality(A) - Cardinality(B)
  <2>1. Concurrent(E, f) = Cardinality(Tagged(A, st, 1)) - Cardinality(Tagged(B, en, -1))
    BY <1>1, <1>2, Zenon DEF Concurrent
  <2>2. Cardinality(Tagged(A, st, 1)) = Cardinality(A) /\ Cardinality(Tagged(B, en, -1)) = Cardinality(B)
    BY <1>4, TaggedCount, Zenon
  <2> QED BY <2>1, <2>2
<1>8. Concurrent(E, f) = Cardinality(O)
  BY <1>5, <1>6, <1>7
<1> QED BY <1>8 DEF E, O

\* The greatest running sum over the events of S, and the greatest number of
\* rows of S that are open at an instant of lo .. hi.
GreatestSum(S, st, en) ==
  LET E == Tagged(S, st, 1) \cup Tagged(S, en, -1)
  IN  Max({Concurrent(E, f) : f \in E})
MostOpen(S, st, en, lo, hi) ==
  Max({Cardinality({t \in S : st[t] <= i /\ i < en[t]}) : i \in lo .. hi})

\* The greatest running sum is the greatest number of rows open at an instant
\* of lo .. hi: it is reached at the latest start among the rows open then.
LEMMA PeakOf ==
  ASSUME NEW S, IsFiniteSet(S), S # {}, NEW lo \in Nat, NEW hi \in Nat,
         NEW st \in [S -> Nat], NEW en \in [S -> Nat],
         \A t \in S : lo <= st[t] /\ st[t] < en[t] /\ en[t] <= hi
  PROVE  GreatestSum(S, st, en) = MostOpen(S, st, en, lo, hi)
<1> DEFINE E == Tagged(S, st, 1) \cup Tagged(S, en, -1)
           OpenAt(i) == {t \in S : st[t] <= i /\ i < en[t]}
           C == {Cardinality(OpenAt(i)) : i \in lo .. hi}
           P == {Concurrent(E, f) : f \in E}
<1>1. \A i \in Int : IsFiniteSet(OpenAt(i)) /\ Cardinality(OpenAt(i)) \in Nat
                     /\ Cardinality(OpenAt(i)) <= Cardinality(S)
  <2> SUFFICES ASSUME NEW i \in Int PROVE IsFiniteSet(OpenAt(i)) /\ Cardinality(OpenAt(i)) \in Nat
                                          /\ Cardinality(OpenAt(i)) <= Cardinality(S)
    OBVIOUS
  <2>1. OpenAt(i) \in SUBSET S
    OBVIOUS
  <2> HIDE DEF OpenAt
  <2> QED BY <2>1, FS_Subset, CardNat
<1>2. PICK c \in C : \A y \in C : y <= c
  <2>1. C \in SUBSET Nat /\ Cardinality(S) \in Nat /\ \A y \in C : y <= Cardinality(S)
    <3> HIDE DEF OpenAt
    <3> QED BY <1>1, CardNat
  <2>2. C # {}
    <3>1. PICK t \in S : TRUE
      OBVIOUS
    <3>2. st[t] \in lo .. hi
      BY <3>1
    <3> HIDE DEF OpenAt
    <3> QED BY <3>2
  <2> HIDE DEF C
  <2> QED BY <2>1, <2>2, GreatestNatural
<1>3. Max(C) = c
  <2>1. C \in SUBSET Int
    <3> HIDE DEF OpenAt
    <3> QED BY <1>1
  <2> HIDE DEF C
  <2> QED BY <1>2, <2>1, MaxIsGreatest
<1>4. ASSUME NEW t \in S
      PROVE  LET f == [ts |-> st[t], delta |-> 1, id |-> t]
             IN  f \in E /\ Concurrent(E, f) = Cardinality(OpenAt(st[t])) /\ st[t] \in lo .. hi
  <2> DEFINE f == [ts |-> st[t], delta |-> 1, id |-> t]
             O == {u \in S : (st[u] < st[t] \/ (st[u] = st[t] /\ 1 = 1)) /\ st[t] < en[u]}
  <2>1. f \in E /\ f.ts = st[t] /\ f.delta = 1 /\ st[t] \in lo .. hi /\ st[t] \in Int
    BY DEF Tagged
  <2>2. O = OpenAt(st[t])
    OBVIOUS
  <2>3. st \in [S -> Int] /\ en \in [S -> Int]
    OBVIOUS
  <2> HIDE DEF f
  <2>4. Concurrent(E, f) = Cardinality(O)
    BY <2>1, <2>3, RunningSum
  <2> QED BY <2>1, <2>2, <2>4 DEF f
<1>5. ASSUME NEW t \in S
      PROVE  LET f == [ts |-> en[t], delta |-> -1, id |-> t]
             IN  /\ Concurrent(E, f) \in Nat /\ Concurrent(E, f) <= Cardinality(OpenAt(en[t]))
                 /\ en[t] \in lo .. hi
  <2> DEFINE f == [ts |-> en[t], delta |-> -1, id |-> t]
             O == {u \in S : (st[u] < en[t] \/ (st[u] = en[t] /\ -1 = 1)) /\ en[t] < en[u]}
  <2>1. f.ts = en[t] /\ f.delta = -1 /\ en[t] \in lo .. hi /\ en[t] \in Int
    OBVIOUS
  <2>2. O \in SUBSET OpenAt(en[t])
    OBVIOUS
  <2>3. st \in [S -> Int] /\ en \in [S -> Int] /\ -1 \in {1, -1}
    OBVIOUS
  <2> HIDE DEF f
  <2>4. Concurrent(E, f) = Cardinality(O)
    BY <2>1, <2>3, RunningSum
  <2>5. IsFiniteSet(OpenAt(en[t]))
    <3> HIDE DEF OpenAt, O
    <3> QED BY <1>1, <2>1
  <2>6. Cardinality(O) \in Nat /\ Cardinality(O) <= Cardinality(OpenAt(en[t]))
    <3> HIDE DEF O, OpenAt
    <3> QED BY <2>2, <2>5, FS_Subset, CardNat
  <2> QED BY <2>1, <2>4, <2>6 DEF f
<1>6. ASSUME NEW p \in P PROVE p \in Nat /\ p <= c
  <2>1. PICK f \in E : p = Concurrent(E, f)
    BY <1>6
  <2>2. PICK i \in lo .. hi : p \in Nat /\ p <= Cardinality(OpenAt(i))
    <3>1. CASE f \in Tagged(S, st, 1)
      <4>1. PICK t \in S : f = [ts |-> st[t], delta |-> 1, id |-> t]
        BY <3>1 DEF Tagged
      <4>2. p = Cardinality(OpenAt(st[t])) /\ st[t] \in lo .. hi
        BY <1>4, <2>1, <4>1
      <4> HIDE DEF OpenAt, C, P, E
      <4>3. Cardinality(OpenAt(st[t])) \in Nat
        BY <1>1, <4>2
      <4> QED BY <4>2, <4>3
    <3>2. CASE f \in Tagged(S, en, -1)
      <4>1. PICK t \in S : f = [ts |-> en[t], delta |-> -1, id |-> t]
        BY <3>2 DEF Tagged
      <4> HIDE DEF OpenAt, E
      <4> QED BY <1>5, <2>1, <4>1
    <3> QED BY <2>1, <3>1, <3>2
  <2>3. Cardinality(OpenAt(i)) \in C /\ Cardinality(OpenAt(i)) \in Nat
    <3> HIDE DEF OpenAt
    <3> QED BY <1>1, <2>2
  <2>4. Cardinality(OpenAt(i)) <= c /\ c \in Nat
    <3> HIDE DEF OpenAt
    <3> QED BY <1>1, <1>2, <2>3
  <2> HIDE DEF OpenAt
  <2> QED BY <2>2, <2>3, <2>4
<1>7. c \in P
  <2>1. PICK i \in lo .. hi : c = Cardinality(OpenAt(i))
    BY <1>2
  <2>2. ASSUME NEW t \in S PROVE Cardinality(OpenAt(st[t])) <= c
    <3>1. st[t] \in lo .. hi
      OBVIOUS
    <3> HIDE DEF OpenAt
    <3> QED BY <1>2, <3>1
  <2>3. OpenAt(i) # {}
    <3>1. PICK t \in S : TRUE
      OBVIOUS
    <3>2. t \in OpenAt(st[t]) /\ st[t] \in Int
      OBVIOUS
    <3>3. Cardinality(OpenAt(st[t])) # 0 /\ Cardinality(OpenAt(st[t])) \in Nat
      <4>1. IsFiniteSet(OpenAt(st[t])) /\ OpenAt(st[t]) # {}
        BY <1>1, <3>2
      <4> HIDE DEF OpenAt
      <4> QED BY <4>1, FS_EmptySet, CardNat
    <3>4. c # 0
      <4>1. c \in Nat
        BY <1>1, <2>1
      <4> HIDE DEF OpenAt
      <4> QED BY <2>2, <3>3, <4>1
    <3> HIDE DEF OpenAt
    <3> QED BY <2>1, <3>4, FS_EmptySet
  <2>4. PICK x \in {st[t] : t \in OpenAt(i)} : \A y \in {st[t] : t \in OpenAt(i)} : y <= x
    <3> DEFINE T == {st[t] : t \in OpenAt(i)}
    <3>1. T \in SUBSET Nat /\ T # {} /\ i \in Nat /\ \A y \in T : y <= i
      BY <2>3
    <3> HIDE DEF T
    <3>2. \E x \in T : \A y \in T : y <= x
      BY <3>1, GreatestNatural
    <3> QED BY <3>2 DEF T
  <2>5. PICK u \in OpenAt(i) : x = st[u]
    BY <2>4
  <2>6. u \in S /\ OpenAt(i) \in SUBSET OpenAt(st[u]) /\ st[u] \in Int
    BY <2>4, <2>5
  <2>7. c = Cardinality(OpenAt(st[u]))
    <3>1. IsFiniteSet(OpenAt(st[u])) /\ Cardinality(OpenAt(st[u])) \in Nat /\ c \in Nat
      BY <1>1, <2>1, <2>6
    <3>2. c <= Cardinality(OpenAt(st[u]))
      <4> HIDE DEF OpenAt
      <4> QED BY <2>1, <2>6, <3>1, FS_Subset
    <3> HIDE DEF OpenAt
    <3> QED BY <2>2, <2>6, <3>1, <3>2
  <2> HIDE DEF OpenAt, E
  <2> QED BY <1>4, <2>6, <2>7
<1>8. Max(P) = c
  <2> HIDE DEF P
  <2>1. P \in SUBSET Int /\ \A y \in P : y <= c
    BY <1>6
  <2> QED BY <1>7, <2>1, MaxIsGreatest
<1> QED BY <1>3, <1>8, Zenon DEF GreatestSum, MostOpen

\* The peak of a day
LEMMA PeakOfDay ==
  ASSUME RollupInv, NEW d \in Days
  PROVE  LET S == Overlapping(d, clock)
             OpenAt(i) == {t \in S : OverlapStart(t, d) <= i /\ i < OverlapEnd(t, d, clock)}
         IN  DayPeak(d, clock) = Max({Cardinality(OpenAt(i)) : i \in DayStart(d) .. DayEnd(d)})
<1> DEFINE S == Overlapping(d, clock)
           st == [t \in S |-> OverlapStart(t, d)]
           en == [t \in S |-> OverlapEnd(t, d, clock)]
           OpenAt(i) == {t \in S : OverlapStart(t, d) <= i /\ i < OverlapEnd(t, d, clock)}
           E == Events(S, d, clock)
           lo == DayStart(d)
           hi == DayEnd(d)
<1>1. d \in Nat /\ lo \in Nat /\ hi \in Nat /\ lo < hi /\ clock \in Nat
  <2>1. d \in Nat
    <3>1. Day(MaxTime) \in Int
      BY RollupBounds, DayOf
    <3> QED BY <3>1 DEF Days
  <2>2. d * DayLength \in Nat /\ (d + 1) * DayLength = d * DayLength + DayLength /\ DayLength \in Nat \ {0}
    BY <2>1, RollupBounds
  <2>3. clock \in Nat
    BY RollupBounds DEF RollupInv, RollupTypeOK
  <2> QED BY <2>1, <2>2, <2>3 DEF DayStart, DayEnd
<1>2. S \in SUBSET Tunnels /\ IsFiniteSet(S)
  <2>1. S \in SUBSET Tunnels
    BY DEF Overlapping
  <2> HIDE DEF S
  <2> QED BY <2>1, RollupLog, FS_Subset
<1>3. ASSUME NEW t \in S
      PROVE  /\ OverlapStart(t, d) \in Nat /\ OverlapEnd(t, d, clock) \in Nat
             /\ lo <= OverlapStart(t, d) /\ OverlapStart(t, d) < OverlapEnd(t, d, clock)
             /\ OverlapEnd(t, d, clock) <= hi
  <2>1. opened[t] \in Nat /\ EndAt(t, clock) \in Nat
    BY <1>1, <1>2, <1>3, RollupBounds DEF RollupInv, RollupTypeOK, EndAt
  <2>2. OverlapEnd(t, d, clock) > OverlapStart(t, d)
    BY <1>3 DEF Overlapping
  <2> HIDE DEF S, lo, hi
  <2>3. OverlapStart(t, d) = Max2(opened[t], lo) /\ OverlapEnd(t, d, clock) = Min2(Min2(EndAt(t, clock), hi), clock)
    BY DEF OverlapStart, OverlapEnd, lo, hi
  <2> QED BY <1>1, <2>1, <2>2, <2>3 DEF Min2, Max2
<1>4. E = Tagged(S, st, 1) \cup Tagged(S, en, -1)
  <2> HIDE DEF S
  <2> QED BY DEF Events, Tagged
<1>5. \A i \in lo .. hi : OpenAt(i) = {t \in S : st[t] <= i /\ i < en[t]}
  <2> HIDE DEF S, lo, hi
  <2> QED OBVIOUS
<1>6. {Cardinality(OpenAt(i)) : i \in lo .. hi}
        = {Cardinality({t \in S : st[t] <= i /\ i < en[t]}) : i \in lo .. hi}
  <2> HIDE DEF OpenAt, S, st, en, lo, hi
  <2> QED BY <1>5
<1>7. CASE S # {}
  <2>1. st \in [S -> Nat] /\ en \in [S -> Nat]
        /\ \A t \in S : lo <= st[t] /\ st[t] < en[t] /\ en[t] <= hi
    <3> HIDE DEF S, lo, hi
    <3> QED BY <1>3
  <2>2. E # {}
    <3> HIDE DEF S
    <3> QED BY <1>7 DEF Events
  <2>3. DayPeak(d, clock) = Max({Concurrent(E, f) : f \in E})
    BY <2>2 DEF DayPeak
  <2> HIDE DEF S, st, en, lo, hi, OpenAt, E
  <2>4. GreatestSum(S, st, en) = MostOpen(S, st, en, lo, hi)
    BY <1>1, <1>2, <1>7, <2>1, PeakOf
  <2>5. DayPeak(d, clock) = Max({Cardinality(OpenAt(i)) : i \in lo .. hi})
    BY <1>4, <1>6, <2>3, <2>4, Zenon DEF GreatestSum, MostOpen
  <2> QED BY <2>5 DEF S, lo, hi, OpenAt
<1>8. CASE S = {}
  <2>1. E = {} /\ DayPeak(d, clock) = 0
    BY <1>8 DEF Events, DayPeak
  <2>2. \A i \in lo .. hi : Cardinality(OpenAt(i)) = 0
    <3>1. \A i \in lo .. hi : OpenAt(i) = {}
      BY <1>8
    <3> HIDE DEF OpenAt
    <3> QED BY <3>1, FS_EmptySet
  <2>3. {Cardinality(OpenAt(i)) : i \in lo .. hi} = {0}
    <3> HIDE DEF OpenAt, lo, hi
    <3> QED BY <1>1, <2>2
  <2>4. Max({0}) = 0
    <3>1. {0} \in SUBSET Int /\ 0 \in {0} /\ \A y \in {0} : y <= 0
      OBVIOUS
    <3> QED BY <3>1, MaxIsGreatest
  <2> QED BY <2>1, <2>3, <2>4
<1> QED BY <1>7, <1>8

-----------------------------------------------------------------------------
(* The theorems. *)

\* The inductive invariant: timestamps are in the past, and no day shows more
\* than the rows billed to it hold.
THEOREM RollupInvariant == RollupSpec => []RollupInv
BY RollupInitInv, RollupNextInv, PTL DEF RollupSpec

\* What the days say is what the log says, for every log, every window and
\* every interleaving of the timer, a backfill and the closes: each byte on one
\* day and in one month, and each day's peak a number of tunnels that were open
\* together (ROLLUP_INSERT_SQL).
THEOREM UsageStaysExact == RollupSpec => []UsageIsExact
<1>1. RollupInv => UsageIsExact
  <2> SUFFICES ASSUME RollupInv PROVE UsageIsExact
    OBVIOUS
  <2>1. RollupTypeOK /\ NoDoubleBilling
    BY DaysAddUp DEF RollupInv
  <2>2. OneDayOneMonth
    BY OneDay DEF OneDayOneMonth
  <2>3. PeakIsConcurrency
    BY PeakOfDay DEF PeakIsConcurrency
  <2> QED BY <2>1, <2>2, <2>3 DEF UsageIsExact
<1> QED BY <1>1, RollupInvariant, PTL

-----------------------------------------------------------------------------
(* The reports: types. *)

Accounts == UserIds \cup TestIds

\* The state of a walk
Walks == [at : {"idle", "reading", "complete"}, limit : Int, days : 1 .. LastDay + 1,
          exclude : BOOLEAN, seen : Seq(Accounts)]

TableOK ==
  /\ DOMAIN table \subseteq Slices /\ table \in [DOMAIN table -> Cells]
  /\ tokens \subseteq DOMAIN Owner /\ today \in 0 .. LastDay
  /\ walk \in Walks

LEMMA IdleWalk == NotReading \in Walks
<1>1. <<>> \in Seq(Accounts) /\ 1 \in 1 .. LastDay + 1 /\ 0 \in Int
  BY UsageConstants
<1> QED BY <1>1 DEF NotReading, Walks

\* A cell has at most one unit, in one of the columns.
LEMMA CellOne ==
  ASSUME NEW c \in Cells
  PROVE  /\ c.bytes_in \in {0, 1} /\ c.bytes_out \in {0, 1} /\ c.unknown \in {0, 1} /\ c.total \in {0, 1}
         /\ c.total = 1 <=> c.bytes_in = 1 \/ c.bytes_out = 1 \/ c.unknown = 1
         /\ ~ (c.bytes_in = 1 /\ c.bytes_out = 1) /\ ~ (c.bytes_in = 1 /\ c.unknown = 1)
         /\ ~ (c.bytes_out = 1 /\ c.unknown = 1)
BY DEF Cells, Cell

-----------------------------------------------------------------------------
(* The reports: joins. *)

LEMMA Reconciled ==
  ASSUME TableOK
  PROVE  ReportsReconcile
<1> SUFFICES ASSUME NEW days \in 1 .. LastDay + 1, NEW exclude \in BOOLEAN
             PROVE  LET all == DailyRows(days, exclude)
                    IN  /\ all = UserRows(days, exclude) \cup {s \in all : s[2] = Anonymous}
                        /\ all = TokenRows(days, exclude) \cup {s \in all : s[3] \notin tokens}
  BY DEF ReportsReconcile
<1> DEFINE all == DailyRows(days, exclude)
<1>1. \A s \in DOMAIN table : /\ s[2] \in Accounts \cup {Anonymous}
                              /\ s[3] \in tokens => s[2] = Owner[s[3]]
  BY UsageConstants DEF TableOK, Accounts
<1>2. all = UserRows(days, exclude) \cup {s \in all : s[2] = Anonymous}
  BY <1>1 DEF DailyRows, UserRows, InWindow, Accounts
<1>3. all = TokenRows(days, exclude) \cup {s \in all : s[3] \notin tokens}
  <2>1. ASSUME NEW s \in all, s[3] \in tokens PROVE s \in TokenRows(days, exclude)
    BY <1>1, <2>1 DEF DailyRows, TokenRows, InWindow, NotSystem
  <2>2. ASSUME NEW s \in TokenRows(days, exclude) PROVE s \in all
    BY <1>1, <2>2 DEF DailyRows, TokenRows, InWindow, NotSystem
  <2> QED BY <2>1, <2>2
<1> QED BY <1>2, <1>3

-----------------------------------------------------------------------------
(* The reports: sums. *)

\* The units of a column over the rows of S, one by one
Units(S, f) == UNION {{s} \X (1 .. table[s][f]) : s \in S}

LEMMA UnitsOne ==
  ASSUME TableOK, NEW S \in SUBSET DOMAIN table, NEW f \in {"bytes_in", "bytes_out", "unknown", "total"}
  PROVE  /\ Units(S, f) = {<<s, 1>> : s \in {s \in S : table[s][f] = 1}}
         /\ IsFiniteSet(Units(S, f)) /\ Cardinality(Units(S, f)) \in Nat
<1>1. \A s \in S : table[s][f] \in {0, 1}
  <2> SUFFICES ASSUME NEW s \in S PROVE table[s][f] \in {0, 1}
    OBVIOUS
  <2>1. table[s] \in Cells
    BY DEF TableOK
  <2> QED BY <2>1, CellOne
<1>2. 1 .. 0 = {} /\ 1 .. 1 = {1}
  OBVIOUS
<1>3. ASSUME NEW x \in Units(S, f) PROVE x \in {<<s, 1>> : s \in {s \in S : table[s][f] = 1}}
  <2>1. PICK s \in S : x \in {s} \X (1 .. table[s][f])
    BY <1>3 DEF Units
  <2>2. PICK i \in 1 .. table[s][f] : x = <<s, i>>
    BY <2>1
  <2>3. table[s][f] = 1 /\ i = 1
    BY <1>1, <1>2, <2>2
  <2> QED BY <2>2, <2>3
<1>4. ASSUME NEW s \in S, table[s][f] = 1 PROVE <<s, 1>> \in Units(S, f)
  <2>1. <<s, 1>> \in {s} \X (1 .. table[s][f])
    BY <1>2, <1>4
  <2> QED BY <2>1 DEF Units
<1>5. Units(S, f) = {<<s, 1>> : s \in {s \in S : table[s][f] = 1}}
  BY <1>3, <1>4
<1>6. IsFiniteSet(Units(S, f))
  <2>1. IsFiniteSet(Slices) /\ IsFiniteSet({1})
    BY UsageConstants, FS_Singleton
  <2>2. IsFiniteSet(Slices \X {1})
    BY <2>1, FS_Product
  <2>3. Units(S, f) \in SUBSET (Slices \X {1})
    BY <1>5 DEF TableOK
  <2> QED BY <2>2, <2>3, FS_Subset
<1> QED BY <1>5, <1>6, CardNat

\* Two disjoint sets
LEMMA DisjointCount ==
  ASSUME NEW A, NEW B, IsFiniteSet(A), IsFiniteSet(B), A \cap B = {}
  PROVE  IsFiniteSet(A \cup B) /\ Cardinality(A \cup B) = Cardinality(A) + Cardinality(B)
<1>1. IsFiniteSet(A \cup B) /\ Cardinality(A \cup B) = Cardinality(A) + Cardinality(B) - Cardinality(A \cap B)
  BY FS_Union
<1>2. Cardinality(A \cap B) = 0
  BY FS_EmptySet
<1> QED BY <1>1, <1>2, CardNat

\* A row's total is its parts', so a group's is.
LEMMA PartsAddUp ==
  ASSUME TableOK, NEW S \in SUBSET DOMAIN table
  PROVE  LET c == Summed(S) IN
         /\ c.bytes_in \in Nat /\ c.bytes_out \in Nat /\ c.unknown \in Nat /\ c.total \in Nat
         /\ c.total = c.bytes_in + c.bytes_out + c.unknown
<1> DEFINE I == Units(S, "bytes_in")
           O == Units(S, "bytes_out")
           U == Units(S, "unknown")
           T == Units(S, "total")
           on(f) == {s \in S : table[s][f] = 1}
<1>1. /\ I = {<<s, 1>> : s \in on("bytes_in")} /\ O = {<<s, 1>> : s \in on("bytes_out")}
      /\ U = {<<s, 1>> : s \in on("unknown")} /\ T = {<<s, 1>> : s \in on("total")}
      /\ IsFiniteSet(I) /\ IsFiniteSet(O) /\ IsFiniteSet(U) /\ IsFiniteSet(T)
      /\ Cardinality(I) \in Nat /\ Cardinality(O) \in Nat /\ Cardinality(U) \in Nat /\ Cardinality(T) \in Nat
  <2> HIDE DEF I, O, U, T
  <2> QED BY UnitsOne DEF I, O, U, T
<1>2. \A s \in S : /\ s \in on("total") <=> s \in on("bytes_in") \/ s \in on("bytes_out") \/ s \in on("unknown")
                   /\ ~ (s \in on("bytes_in") /\ s \in on("bytes_out"))
                   /\ ~ (s \in on("bytes_in") /\ s \in on("unknown"))
                   /\ ~ (s \in on("bytes_out") /\ s \in on("unknown"))
  <2> SUFFICES ASSUME NEW s \in S
               PROVE  /\ s \in on("total") <=> s \in on("bytes_in") \/ s \in on("bytes_out") \/ s \in on("unknown")
                      /\ ~ (s \in on("bytes_in") /\ s \in on("bytes_out"))
                      /\ ~ (s \in on("bytes_in") /\ s \in on("unknown"))
                      /\ ~ (s \in on("bytes_out") /\ s \in on("unknown"))
    OBVIOUS
  <2>1. table[s] \in Cells
    BY DEF TableOK
  <2> QED BY <2>1, CellOne
<1>3. \A f : on(f) \subseteq S
  OBVIOUS
<1> HIDE DEF on, I, O, U, T
<1>4. T = (I \cup O) \cup U /\ I \cap O = {} /\ (I \cup O) \cap U = {}
  BY <1>1, <1>2, <1>3
<1>5. IsFiniteSet(I \cup O) /\ Cardinality(I \cup O) = Cardinality(I) + Cardinality(O)
  BY <1>1, <1>4, DisjointCount, Zenon
<1>6. Cardinality(T) = Cardinality(I \cup O) + Cardinality(U)
  BY <1>1, <1>4, <1>5, DisjointCount, Zenon
<1>7. LET c == Summed(S) IN c.bytes_in = Cardinality(I) /\ c.bytes_out = Cardinality(O)
                            /\ c.unknown = Cardinality(U) /\ c.total = Cardinality(T)
  BY DEF Summed, Units, I, O, U, T
<1> QED BY <1>1, <1>5, <1>6, <1>7

LEMMA UserRowsOf ==
  ASSUME NEW days, NEW exclude
  PROVE  UserRows(days, exclude) \in SUBSET DOMAIN table
BY DEF UserRows, InWindow

LEMMA Directions ==
  ASSUME TableOK
  PROVE  DirectionsAddUp
<1> SUFFICES ASSUME NEW days \in 1 .. LastDay + 1, NEW exclude \in BOOLEAN,
                    NEW u \in Groups(UserRows(days, exclude), 2)
             PROVE  LET c == Of(UserRows(days, exclude), 2, u) IN
                    IF direction_pair(c) = <<>>
                    THEN c.total = c.unknown /\ c.total > 0
                    ELSE direction_pair(c)[1] + direction_pair(c)[2] + c.unknown = c.total
  BY DEF DirectionsAddUp
<1> DEFINE G == {s \in UserRows(days, exclude) : s[2] = u}
           c == Summed(G)
<1>1. G \in SUBSET DOMAIN table
  BY UserRowsOf
<1> HIDE DEF G
<1>2. /\ c.bytes_in \in Nat /\ c.bytes_out \in Nat /\ c.unknown \in Nat /\ c.total \in Nat
      /\ c.total = c.bytes_in + c.bytes_out + c.unknown
  BY <1>1, PartsAddUp
<1> HIDE DEF c
<1>3. IF direction_pair(c) = <<>>
      THEN c.total = c.unknown /\ c.total > 0
      ELSE direction_pair(c)[1] + direction_pair(c)[2] + c.unknown = c.total
  <2>1. CASE c.unknown > 0 /\ c.bytes_in = 0 /\ c.bytes_out = 0
    <3>1. direction_pair(c) = <<>>
      BY <2>1, Zenon DEF direction_pair
    <3> QED BY <1>2, <2>1, <3>1
  <2>2. CASE ~ (c.unknown > 0 /\ c.bytes_in = 0 /\ c.bytes_out = 0)
    <3>1. direction_pair(c) = <<c.bytes_in, c.bytes_out>>
      BY <2>2, Zenon DEF direction_pair
    <3>2. direction_pair(c) # <<>> /\ direction_pair(c)[1] = c.bytes_in /\ direction_pair(c)[2] = c.bytes_out
      BY <3>1
    <3> QED BY <1>2, <3>2
  <2> QED BY <2>1, <2>2
<1> QED BY <1>3 DEF c, G, Of

-----------------------------------------------------------------------------
(* The reports: pages. *)

\* The groups of a report are finitely many accounts.
LEMMA GroupsOf ==
  ASSUME TableOK, NEW days, NEW exclude
  PROVE  LET G == Groups(UserRows(days, exclude), 2)
         IN  G \in SUBSET Accounts /\ IsFiniteSet(G) /\ Cardinality(G) \in Nat
<1> DEFINE S == UserRows(days, exclude)
           G == Groups(S, 2)
           col == [s \in S |-> s[2]]
<1>1. G \in SUBSET Accounts
  BY DEF Groups, UserRows, Accounts
<1>2. IsFiniteSet(S)
  <2>1. S \in SUBSET Slices
    BY UserRowsOf DEF TableOK
  <2> HIDE DEF S
  <2> QED BY <2>1, UsageConstants, FS_Subset
<1> HIDE DEF S
<1>3. col \in Surjection(S, G)
  BY DEF Surjection, Groups
<1>4. IsFiniteSet(G)
  <2> HIDE DEF G, col
  <2> QED BY <1>2, <1>3, FS_Surjection
<1> QED BY <1>1, <1>4, CardNat DEF S

\* Bytes, then the id: two accounts are never on a level.
LEMMA OrderIsStrict ==
  ASSUME TableOK, NEW S \in SUBSET DOMAIN table, NEW u \in Accounts, NEW v \in Accounts,
         Before(S, u, v), Before(S, v, u)
  PROVE  u = v
<1>1. Of(S, 2, u).total \in Nat /\ Of(S, 2, v).total \in Nat
  <2> DEFINE A == {s \in S : s[2] = u}
             B == {s \in S : s[2] = v}
  <2>1. A \in SUBSET DOMAIN table /\ B \in SUBSET DOMAIN table
    OBVIOUS
  <2> HIDE DEF A, B
  <2>2. Summed(A).total \in Nat /\ Summed(B).total \in Nat
    BY <2>1, PartsAddUp
  <2> QED BY <2>2 DEF Of, A, B
<1>2. u \in Nat /\ v \in Nat
  BY UsageConstants DEF Accounts
<1> QED BY <1>1, <1>2 DEF Before

\* An order of the report has every account once.
LEMMA OrderedSeq ==
  ASSUME TableOK, NEW days, NEW exclude, NEW q \in Ordered(UserRows(days, exclude))
  PROVE  LET S == UserRows(days, exclude)
             G == Groups(S, 2)
             n == Cardinality(G)
         IN  /\ q \in [1 .. n -> G] /\ q \in Seq(Accounts) /\ Len(q) = n /\ n \in Nat
             /\ \A i, j \in 1 .. n : q[i] = q[j] => i = j
             /\ \A g \in G : \E i \in 1 .. n : q[i] = g
             /\ \A i, j \in 1 .. n : i <= j => Before(S, q[i], q[j])
<1> DEFINE S == UserRows(days, exclude)
           G == Groups(S, 2)
           n == Cardinality(G)
<1>1. G \in SUBSET Accounts /\ IsFiniteSet(G) /\ n \in Nat
  BY GroupsOf
<1>2. q \in SetToSeqs(G) /\ \A i \in DOMAIN q : \A j \in i .. Len(q) : Before(S, q[i], q[j])
  BY DEF Ordered
<1> HIDE DEF G, S
<1>3. q \in [1 .. n -> G] /\ \A i, j \in 1 .. n : i # j => q[i] # q[j]
  BY <1>2 DEF SetToSeqs
<1> HIDE DEF n
<1>4. q \in Seq(Accounts) /\ Len(q) = n /\ DOMAIN q = 1 .. n
  BY <1>1, <1>3
<1>5. \A i, j \in 1 .. n : i <= j => Before(S, q[i], q[j])
  <2> SUFFICES ASSUME NEW i \in 1 .. n, NEW j \in 1 .. n, i <= j PROVE Before(S, q[i], q[j])
    OBVIOUS
  <2>1. i \in DOMAIN q /\ j \in i .. Len(q)
    BY <1>1, <1>4
  <2> QED BY <1>2, <2>1
<1>6. \A g \in G : \E i \in 1 .. n : q[i] = g
  <2>1. IsFiniteSet(1 .. n) /\ Cardinality(1 .. n) = n
    <3>1. 1 \in Int /\ n \in Int
      BY <1>1
    <3>2. IsFiniteSet(1 .. n) /\ Cardinality(1 .. n) = IF 1 > n THEN 0 ELSE n - 1 + 1
      BY <3>1, FS_Interval
    <3> QED BY <1>1, <3>2
  <2>2. q \in Injection(1 .. n, G)
    BY <1>3 DEF Injection, IsInjective
  <2>3. q \in Surjection(1 .. n, G)
    BY <1>1, <2>1, <2>2, FS_Injection DEF n
  <2> QED BY <2>3 DEF Surjection
<1> QED BY <1>1, <1>3, <1>4, <1>5, <1>6 DEF S, G, n

\* There is one order: at the first place where two would differ, each would
\* have put its account before the other's.
LEMMA OneOrder ==
  ASSUME TableOK, NEW days, NEW exclude,
         NEW q \in Ordered(UserRows(days, exclude)), NEW r \in Ordered(UserRows(days, exclude))
  PROVE  q = r
<1> DEFINE S == UserRows(days, exclude)
           G == Groups(S, 2)
           n == Cardinality(G)
           D == {i \in 1 .. n : q[i] # r[i]}
<1>1. /\ q \in [1 .. n -> G] /\ n \in Nat
      /\ \A i, j \in 1 .. n : q[i] = q[j] => i = j
      /\ \A g \in G : \E i \in 1 .. n : q[i] = g
      /\ \A i, j \in 1 .. n : i <= j => Before(S, q[i], q[j])
  BY OrderedSeq
<1>2. /\ r \in [1 .. n -> G]
      /\ \A i, j \in 1 .. n : r[i] = r[j] => i = j
      /\ \A g \in G : \E i \in 1 .. n : r[i] = g
      /\ \A i, j \in 1 .. n : i <= j => Before(S, r[i], r[j])
  BY OrderedSeq
<1>3. S \in SUBSET DOMAIN table /\ G \in SUBSET Accounts
  BY UserRowsOf, GroupsOf
<1> HIDE DEF S, G, n
<1>4. SUFFICES ASSUME D # {} PROVE FALSE
  <2>1. q = [i \in 1 .. n |-> q[i]] /\ r = [i \in 1 .. n |-> r[i]]
    BY <1>1, <1>2
  <2>2. D = {} => q = r
    BY <2>1
  <2> QED BY <2>2
<1>5. PICK k \in D : \A y \in D : k <= y
  <2>1. D \in SUBSET Nat
    BY <1>1
  <2> HIDE DEF D
  <2> QED BY <1>4, <2>1, LeastNatural
<1>6. k \in 1 .. n /\ q[k] # r[k] /\ q[k] \in G /\ r[k] \in G /\ \A y \in 1 .. n : y < k => q[y] = r[y]
  BY <1>1, <1>2, <1>5
<1>7. Before(S, r[k], q[k])
  <2>1. PICK j \in 1 .. n : r[j] = q[k]
    BY <1>2, <1>6
  <2>2. k <= j
    BY <1>1, <1>6, <2>1
  <2> QED BY <1>2, <1>6, <2>1, <2>2
<1>8. Before(S, q[k], r[k])
  <2>1. PICK j \in 1 .. n : q[j] = r[k]
    BY <1>1, <1>6
  <2>2. k <= j
    BY <1>1, <1>2, <1>6, <2>1
  <2> QED BY <1>1, <1>6, <2>1, <2>2
<1> QED BY <1>3, <1>6, <1>7, <1>8, OrderIsStrict

\* What has been read is how every order of the report begins; at the end it
\* is one.
WalkOK ==
  LET Orders == Ordered(UserRows(walk.days, walk.exclude))
  IN  /\ walk.at = "reading" => \A q \in Orders : /\ Len(walk.seen) <= Len(q)
                                                  /\ \A i \in 1 .. Len(walk.seen) : walk.seen[i] = q[i]
      /\ walk.at = "complete" => walk.seen \in Orders

ReportInv == TableOK /\ WalkOK

LEMMA MinOfTwo ==
  ASSUME NEW a \in Int, NEW b \in Int
  PROVE  Min({a, b}) = IF a <= b THEN a ELSE b
<1> DEFINE m == IF a <= b THEN a ELSE b
<1>1. m \in {a, b} /\ m \in Int /\ \A y \in {a, b} : m <= y
  OBVIOUS
<1>2. \A x \in {a, b} : (\A y \in {a, b} : x <= y) => x = m
  OBVIOUS
<1> HIDE DEF m
<1>3. Min({a, b}) \in {a, b} /\ \A y \in {a, b} : Min({a, b}) <= y
  BY <1>1, Zenon DEF Min
<1>4. Min({a, b}) = m
  BY <1>2, <1>3, Zenon
<1> QED BY <1>4 DEF m

\* The next page of the order q, after the first k accounts
LEMMA NextPage ==
  ASSUME NEW q \in Seq(Accounts), NEW seen \in Seq(Accounts), NEW limit \in Int, Len(seen) <= Len(q),
         \A i \in 1 .. Len(seen) : seen[i] = q[i]
  PROVE  LET e == Page(q, Len(seen), Clamped(limit))
         IN  /\ seen \o e \in Seq(Accounts) /\ Len(seen \o e) <= Len(q)
             /\ \A i \in 1 .. Len(seen \o e) : (seen \o e)[i] = q[i]
             /\ e = <<>> => seen \o e = q
<1> DEFINE k == Len(seen)
           c == Clamped(limit)
           m == IF k + c <= Len(q) THEN k + c ELSE Len(q)
           e == SubSeq(q, k + 1, m)
<1>1. k \in Nat /\ c \in Int /\ c >= 1 /\ Len(q) \in Nat
  BY DEF Clamped
<1>2. Page(q, k, c) = e
  <2>1. Min({k + c, Len(q)}) = m
    <3>1. k + c \in Int /\ Len(q) \in Int
      BY <1>1
    <3> HIDE DEF k, c
    <3> QED BY <3>1, MinOfTwo, Zenon
  <2> QED BY <2>1 DEF Page
<1>3. m \in Nat /\ k <= m /\ m <= Len(q) /\ (m = k => k = Len(q))
  BY <1>1
<1> HIDE DEF c, m
<1>4. e \in Seq(Accounts) /\ Len(e) = m - k /\ \A i \in 1 .. m - k : e[i] = q[k + i]
  <2>1. \A i \in k + 1 .. m : q[i] \in Accounts
    BY <1>1, <1>3
  <2>2. Len(e) = m - k
    BY <1>1, <1>3
  <2>3. \A i \in 1 .. m - k : e[i] = q[k + i] /\ k + i \in k + 1 .. m
    BY <1>1, <1>3
  <2> QED BY <1>1, <1>3, <2>1, <2>2, <2>3
<1> HIDE DEF e
<1>5. seen \o e \in Seq(Accounts) /\ Len(seen \o e) = m
  BY <1>1, <1>3, <1>4
<1>6. \A i \in 1 .. m : (seen \o e)[i] = q[i]
  BY <1>1, <1>3, <1>4
<1>7. ASSUME e = <<>> PROVE seen \o e = q
  <2>1. m = k /\ m = Len(q)
    BY <1>1, <1>3, <1>4, <1>7
  <2> DEFINE w == seen \o e
  <2>2. w \in Seq(Accounts) /\ Len(w) = m /\ \A i \in 1 .. m : w[i] = q[i]
    BY <1>5, <1>6
  <2> HIDE DEF k, w
  <2>3. w = [i \in 1 .. m |-> w[i]] /\ q = [i \in 1 .. m |-> q[i]]
    BY <2>1, <2>2
  <2>4. w = q
    BY <2>2, <2>3
  <2> QED BY <2>4 DEF w
<1> QED BY <1>2, <1>3, <1>5, <1>6, <1>7 DEF c

-----------------------------------------------------------------------------
(* The reports: steps. *)

LEMMA ReportInit == UsageInit => ReportInv
<1> SUFFICES ASSUME UsageInit PROVE ReportInv
  OBVIOUS
<1>1. TableOK
  <2>1. DOMAIN table = {} /\ table \in [DOMAIN table -> Cells]
    BY DEF UsageInit
  <2>2. today \in 0 .. LastDay
    BY UsageConstants DEF UsageInit
  <2> QED BY <2>1, <2>2, IdleWalk DEF UsageInit, TableOK
<1>2. WalkOK
  BY DEF UsageInit, WalkOK, NotReading
<1> QED BY <1>1, <1>2 DEF ReportInv

\* A writer ends the walk.
LEMMA WriteStep ==
  ASSUME ReportInv,
         \/ \E s \in Slices : RollupRemoves(s) \/ \E c \in Cells : RollupWrites(s, c)
         \/ \E k \in DOMAIN Owner : DeleteToken(k)
         \/ NewDay
  PROVE  ReportInv'
<1>1. walk' = NotReading
  BY DEF RollupRemoves, RollupWrites, DeleteToken, NewDay
<1>2. WalkOK'
  BY <1>1 DEF WalkOK, NotReading
<1>3. walk' \in Walks
  BY <1>1, IdleWalk
<1>4. ASSUME NEW s \in Slices, RollupRemoves(s) PROVE TableOK'
  <2>1. DOMAIN table' = DOMAIN table \ {s} /\ table' \in [DOMAIN table' -> Cells]
    BY <1>4 DEF RollupRemoves, ReportInv, TableOK
  <2> QED BY <1>3, <1>4, <2>1 DEF RollupRemoves, ReportInv, TableOK
<1>5. ASSUME NEW s \in Slices, NEW c \in Cells, RollupWrites(s, c) PROVE TableOK'
  <2>1. DOMAIN table' = DOMAIN table \cup {s} /\ table' \in [DOMAIN table' -> Cells]
    BY <1>5 DEF RollupWrites, ReportInv, TableOK
  <2> QED BY <1>3, <1>5, <2>1 DEF RollupWrites, ReportInv, TableOK
<1>6. ASSUME NEW k \in DOMAIN Owner, DeleteToken(k) PROVE TableOK'
  BY <1>3, <1>6 DEF DeleteToken, ReportInv, TableOK
<1>7. ASSUME NewDay PROVE TableOK'
  <2>1. today' \in 0 .. LastDay
    BY <1>7, UsageConstants DEF NewDay, ReportInv, TableOK
  <2> QED BY <1>3, <1>7, <2>1 DEF NewDay, ReportInv, TableOK
<1>8. TableOK'
  BY <1>4, <1>5, <1>6, <1>7
<1> QED BY <1>2, <1>8 DEF ReportInv

\* The report of a table that stays the same
LEMMA SameReport ==
  ASSUME UNCHANGED <<table, tokens, today>>, NEW days, NEW exclude
  PROVE  Ordered(UserRows(days, exclude))' = Ordered(UserRows(days, exclude))
<1>1. UserRows(days, exclude)' = UserRows(days, exclude)
  BY DEF UserRows, InWindow, usage_range, NotSystem
<1>2. \A S, u, v : Before(S, u, v)' <=> Before(S, u, v)
  BY DEF Before, Of, Summed
<1> QED BY <1>1, <1>2 DEF Ordered

LEMMA StartStep ==
  ASSUME ReportInv, NEW limit \in PageLimits, NEW days \in 1 .. LastDay + 1, NEW exclude \in BOOLEAN,
         StartWalk(limit, days, exclude)
  PROVE  ReportInv'
<1>1. /\ walk' = [at |-> "reading", limit |-> limit, days |-> days, exclude |-> exclude, seen |-> <<>>]
      /\ UNCHANGED <<table, tokens, today>>
  BY DEF StartWalk
<1>2. <<>> \in Seq(Accounts) /\ limit \in Int
  BY UsageConstants
<1>3. TableOK'
  BY <1>1, <1>2 DEF ReportInv, TableOK, Walks
<1>4. walk'.at = "reading" /\ walk'.seen = <<>> /\ walk'.days = days /\ walk'.exclude = exclude
  BY <1>1
<1>5. WalkOK'
  <2>1. \A q \in Ordered(UserRows(days, exclude))' : Len(<<>>) <= Len(q) /\ \A i \in 1 .. Len(<<>>) : <<>>[i] = q[i]
    <3> SUFFICES ASSUME NEW q \in Ordered(UserRows(days, exclude))
                 PROVE  Len(<<>>) <= Len(q) /\ \A i \in 1 .. Len(<<>>) : <<>>[i] = q[i]
      BY <1>1, SameReport, Zenon
    <3>1. Len(q) \in Nat
      BY OrderedSeq DEF ReportInv
    <3> QED BY <3>1
  <2> QED BY <1>4, <2>1 DEF WalkOK
<1> QED BY <1>3, <1>5 DEF ReportInv

\* A page
LEMMA PageStep ==
  ASSUME ReportInv, admin_usage_by_user
  PROVE  ReportInv'
<1>0. PICK days, exclude : days = walk.days /\ exclude = walk.exclude
  OBVIOUS
<1> DEFINE Orders == Ordered(UserRows(days, exclude))
           seen == walk.seen
<1>1. /\ walk \in Walks /\ walk.at = "reading" /\ UNCHANGED <<table, tokens, today>> /\ TableOK
      /\ seen \in Seq(Accounts) /\ walk.limit \in Int
  BY DEF admin_usage_by_user, ReportInv, TableOK, Walks
<1>2. PICK q \in Orders :
        LET entries == Page(q, Len(seen), Clamped(walk.limit))
        IN  walk' = [walk EXCEPT !.seen = @ \o entries,
                                 !.at = IF entries = <<>> THEN "complete" ELSE "reading"]
  BY <1>0 DEF admin_usage_by_user
<1> DEFINE e == Page(q, Len(seen), Clamped(walk.limit))
<1>3. q \in Seq(Accounts)
  BY <1>1, OrderedSeq
<1>4. Len(seen) <= Len(q) /\ \A i \in 1 .. Len(seen) : seen[i] = q[i]
  BY <1>0, <1>1 DEF ReportInv, WalkOK
<1>5. /\ seen \o e \in Seq(Accounts) /\ Len(seen \o e) <= Len(q)
      /\ \A i \in 1 .. Len(seen \o e) : (seen \o e)[i] = q[i]
      /\ e = <<>> => seen \o e = q
  BY <1>1, <1>3, <1>4, NextPage
<1>6. walk' = [walk EXCEPT !.seen = seen \o e, !.at = IF e = <<>> THEN "complete" ELSE "reading"]
  BY <1>2
<1> HIDE DEF e
<1>7. /\ walk' \in Walks /\ walk'.seen = seen \o e /\ walk'.days = days /\ walk'.exclude = exclude
      /\ walk'.at = IF e = <<>> THEN "complete" ELSE "reading"
  BY <1>0, <1>1, <1>5, <1>6 DEF Walks
<1>8. TableOK'
  BY <1>1, <1>7 DEF TableOK
<1>9. Ordered(UserRows(walk.days, walk.exclude))' = Orders
  <2>1. Ordered(UserRows(walk.days, walk.exclude))' = Ordered(UserRows(days, exclude))'
    BY <1>7, Zenon
  <2> QED BY <1>1, <2>1, SameReport
<1>10. WalkOK'
  <2>1. \A r \in Orders : r = q
    BY <1>1, OneOrder
  <2> HIDE DEF Orders, seen
  <2>2. walk'.at = "reading" => \A r \in Orders : /\ Len(walk'.seen) <= Len(r)
                                                  /\ \A i \in 1 .. Len(walk'.seen) : walk'.seen[i] = r[i]
    BY <1>5, <1>7, <2>1
  <2>3. walk'.at = "complete" => walk'.seen \in Orders
    <3>1. walk'.at = "complete" => e = <<>>
      BY <1>7
    <3>2. e = <<>> => walk'.seen = q
      BY <1>5, <1>7
    <3> QED BY <1>2, <3>1, <3>2
  <2> QED BY <1>9, <2>2, <2>3, Zenon DEF WalkOK
<1> QED BY <1>8, <1>10 DEF ReportInv

LEMMA ReportNext ==
  ASSUME ReportInv, [UsageNext]_usageVars
  PROVE  ReportInv'
<1>1. CASE UNCHANGED usageVars
  <2>1. PICK days, exclude : days = walk.days /\ exclude = walk.exclude
    OBVIOUS
  <2>2. UNCHANGED <<table, tokens, today>> /\ walk' = walk
    BY <1>1 DEF usageVars
  <2>3. TableOK'
    BY <2>2 DEF ReportInv, TableOK
  <2>4. Ordered(UserRows(walk.days, walk.exclude))' = Ordered(UserRows(walk.days, walk.exclude))
    <3>1. Ordered(UserRows(walk.days, walk.exclude))' = Ordered(UserRows(days, exclude))'
      BY <2>1, <2>2, Zenon
    <3> QED BY <2>1, <2>2, <3>1, SameReport
  <2>5. WalkOK'
    BY <2>2, <2>4, Zenon DEF ReportInv, WalkOK
  <2> QED BY <2>3, <2>5 DEF ReportInv
<1> QED BY <1>1, WriteStep, StartStep, PageStep DEF UsageNext

\* A walk that is complete has read the report.
LEMMA WalkEnds ==
  ASSUME ReportInv
  PROVE  WalkIsComplete
<1> SUFFICES ASSUME walk.at = "complete"
             PROVE  /\ IsInjective(walk.seen)
                    /\ Range(walk.seen) = Groups(UserRows(walk.days, walk.exclude), 2)
                    /\ usage_leaderboard(walk.days, walk.exclude, walk.limit)
                         = {Page(walk.seen, 0, Clamped(walk.limit))}
  BY DEF WalkIsComplete
<1> DEFINE S == UserRows(walk.days, walk.exclude)
           G == Groups(S, 2)
           n == Cardinality(G)
           q == walk.seen
<1>1. q \in Ordered(S) /\ TableOK
  BY DEF ReportInv, WalkOK
<1>2. /\ q \in [1 .. n -> G]
      /\ \A i, j \in 1 .. n : q[i] = q[j] => i = j
      /\ \A g \in G : \E i \in 1 .. n : q[i] = g
  BY <1>1, OrderedSeq
<1>3. \A r \in Ordered(S) : r = q
  BY <1>1, OneOrder
<1> HIDE DEF S, G, n, q
<1>4. IsInjective(q)
  BY <1>2 DEF IsInjective
<1>5. Range(q) = G
  BY <1>2 DEF Range
<1>6. {Page(r, 0, Clamped(walk.limit)) : r \in Ordered(S)} = {Page(q, 0, Clamped(walk.limit))}
  BY <1>1, <1>3, Zenon
<1> QED BY <1>4, <1>5, <1>6, Zenon DEF usage_leaderboard, S, G, q

\* The inductive invariant of the reports: what a reader has seen is how the
\* report begins, in the only order it has.
THEOREM ReportInvariant == UsageSpec => []ReportInv
BY ReportInit, ReportNext, PTL DEF UsageSpec

\* The reports of one table agree with each other, whatever the accounts, the
\* tokens and the rows, and whatever is deleted or written between two reports:
\* in the rows they are made of, in the directions they show and page by page
\* (the admin_usage queries).
THEOREM ReportsStayTrue == UsageSpec => []ReportsAgree
<1>1. ReportInv => ReportsAgree
  <2> SUFFICES ASSUME ReportInv PROVE ReportsAgree
    OBVIOUS
  <2>1. UsageTypeOK
    <3>1. Range(table) \subseteq Cells
      BY DEF ReportInv, TableOK, Range
    <3> QED BY <3>1 DEF ReportInv, TableOK, UsageTypeOK, Walks, Accounts
  <2>2. ReportsReconcile /\ DirectionsAddUp
    BY Reconciled, Directions DEF ReportInv
  <2>3. WalkIsComplete
    BY WalkEnds
  <2> QED BY <2>1, <2>2, <2>3 DEF ReportsAgree
<1> QED BY <1>1, ReportInvariant, PTL

=============================================================================
