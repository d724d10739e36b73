------------------------ MODULE PlayerProgressProofs ------------------------
(***************************************************************************)
(* What holds of PlayerProgress for any tabs, any missions, any days and   *)
(* any careers that the first version saved.                               *)
(***************************************************************************)
EXTENDS PlayerProgress, WellFoundedInduction, FiniteSetTheorems, FunctionTheorems, TLAPS

-----------------------------------------------------------------------------
(* Least elements and sums                                                 *)

(* A set of numbers that is not empty has a least one: what induction over *)
(* numbers rests on below.                                                 *)
LEMMA LeastNumber ==
  ASSUME NEW T \in SUBSET Nat, T # {}
  PROVE  \E n \in T : \A k \in T : n <= k
  <1> DEFINE R == OpToRel(<, Nat)
  <1>1. PICK n \in T : \A k \in T : ~(<<k, n>> \in R)
    <2>1. IsWellFoundedOn(R, Nat)
      BY NatLessThanWellFounded, Zenon
    <2> HIDE DEF R
    <2> QED
      BY <2>1, WFMin, Zenon
  <1>2. ASSUME NEW k \in T
        PROVE  n <= k
    <2>1. <<k, n>> \in Nat \X Nat /\ <<k, n>>[1] = k /\ <<k, n>>[2] = n
      OBVIOUS
    <2>2. k < n => <<k, n>> \in R
      BY <2>1, Zenon DEF OpToRel
    <2> HIDE DEF R
    <2>3. ~(k < n)
      BY <1>1, <2>2
    <2> QED
      BY <2>3
  <1> QED
    BY <1>2

(* The sums up to each place of a sequence, and those up to place m.       *)
Sums(xps, f) == f = [n \in 0 .. Len(xps) |-> IF n = 0 THEN 0 ELSE f[n - 1] + xps[n]]
SumsTo(xps, m) ==
  {f \in [0 .. m -> Nat] :
     \A k \in 0 .. m : f[k] = IF k = 0 THEN 0 ELSE f[k - 1] + xps[k]}

(* The sums of a sequence exist ...                                        *)
LEMMA SumsExist ==
  ASSUME NEW xps \in Seq(Nat)
  PROVE  \E f : Sums(xps, f)
  <1> DEFINE Bad == {m \in 0 .. Len(xps) : SumsTo(xps, m) = {}}
  <1>1. SumsTo(xps, 0) # {}
    <2>1. [k \in 0 .. 0 |-> 0] \in SumsTo(xps, 0)
      BY DEF SumsTo
    <2> QED
      BY <2>1
  <1>2. ASSUME NEW m \in Nat, m < Len(xps), SumsTo(xps, m) # {}
        PROVE  SumsTo(xps, m + 1) # {}
    <2>1. PICK f \in [0 .. m -> Nat] :
            \A k \in 0 .. m : f[k] = IF k = 0 THEN 0 ELSE f[k - 1] + xps[k]
      BY <1>2 DEF SumsTo
    <2> DEFINE g == [k \in 0 .. (m + 1) |-> IF k = m + 1 THEN f[m] + xps[m + 1] ELSE f[k]]
    <2>2. xps[m + 1] \in Nat /\ f[m] + xps[m + 1] \in Nat
      BY <1>2
    <2>3. g \in [0 .. (m + 1) -> Nat]
      BY <2>1, <2>2
    <2>4. \A k \in 0 .. (m + 1) : g[k] = IF k = 0 THEN 0 ELSE g[k - 1] + xps[k]
      BY <2>1
    <2> HIDE DEF g
    <2>5. g \in SumsTo(xps, m + 1)
      BY <2>3, <2>4 DEF SumsTo
    <2> QED
      BY <2>5
  <1>3. Bad = {}
    <2> SUFFICES ASSUME Bad # {}
                 PROVE  FALSE
      OBVIOUS
    <2>1. Bad \in SUBSET Nat
      OBVIOUS
    <2>2. PICK m \in Bad : \A k \in Bad : m <= k
      BY <2>1, LeastNumber
    <2>3. m \in 0 .. Len(xps) /\ SumsTo(xps, m) = {}
      OBVIOUS
    <2>4. m # 0
      BY <1>1, <2>3
    <2>5. /\ m - 1 \in Nat /\ m - 1 \in 0 .. Len(xps) /\ m - 1 < Len(xps)
          /\ ~(m <= m - 1) /\ m - 1 + 1 = m
      BY <2>3, <2>4
    <2>6. m - 1 \notin Bad
      <3> HIDE DEF Bad
      <3> QED
        BY <2>2, <2>5
    <2>7. SumsTo(xps, m - 1) # {}
      BY <2>5, <2>6
    <2>8. SumsTo(xps, m - 1 + 1) # {}
      BY <1>2, <2>5, <2>7
    <2> QED
      BY <2>3, <2>5, <2>8
  <1> DEFINE n == Len(xps)
  <1>4. n \in 0 .. Len(xps)
    OBVIOUS
  <1>5. PICK f \in [0 .. n -> Nat] :
          \A k \in 0 .. n : f[k] = IF k = 0 THEN 0 ELSE f[k - 1] + xps[k]
    BY <1>3, <1>4 DEF SumsTo
  <1>6. f = [k \in 0 .. n |-> f[k]]
    OBVIOUS
  <1>7. f = [k \in 0 .. n |-> IF k = 0 THEN 0 ELSE f[k - 1] + xps[k]]
    BY <1>5, <1>6
  <1> QED
    BY <1>7 DEF Sums

(* ... and are no others.                                                  *)
LEMMA SumsAgree ==
  ASSUME NEW xps \in Seq(Nat), NEW f, Sums(xps, f), NEW g, Sums(xps, g)
  PROVE  \A n \in 0 .. Len(xps) : f[n] = g[n] /\ f[n] \in Nat
  <1> DEFINE Bad == {n \in 0 .. Len(xps) : ~(f[n] = g[n] /\ f[n] \in Nat)}
  <1>1. \A n \in 0 .. Len(xps) : /\ f[n] = IF n = 0 THEN 0 ELSE f[n - 1] + xps[n]
                                 /\ g[n] = IF n = 0 THEN 0 ELSE g[n - 1] + xps[n]
    BY DEF Sums
  <1>2. Bad = {}
    <2> SUFFICES ASSUME Bad # {}
                 PROVE  FALSE
      OBVIOUS
    <2>1. Bad \in SUBSET Nat
      OBVIOUS
    <2>2. PICK n \in Bad : \A k \in Bad : n <= k
      BY <2>1, LeastNumber
    <2>3. n \in 0 .. Len(xps) /\ ~(f[n] = g[n] /\ f[n] \in Nat)
      OBVIOUS
    <2>4. n # 0
      BY <1>1, <2>3
    <2>5. n \in 1 .. Len(xps) /\ n - 1 \in 0 .. Len(xps)
      BY <2>3, <2>4
    <2>6. f[n - 1] = g[n - 1] /\ f[n - 1] \in Nat
      BY <2>2, <2>5
    <2> HIDE DEF Bad
    <2>7. f[n] = f[n - 1] + xps[n] /\ g[n] = g[n - 1] + xps[n]
      BY <1>1, <2>3, <2>4
    <2>8. xps[n] \in Nat
      BY <2>5
    <2>9. f[n] = g[n] /\ f[n] \in Nat
      BY <2>6, <2>7, <2>8
    <2> QED
      BY <2>3, <2>9
  <1> QED
    BY <1>2

(* The sum of a sequence is the last of its sums.                          *)
LEMMA XpTotalIs ==
  ASSUME NEW xps \in Seq(Nat), NEW f, Sums(xps, f)
  PROVE  XpTotal(xps) = f[Len(xps)] /\ XpTotal(xps) \in Nat
  <1> DEFINE g == CHOOSE h : Sums(xps, h)
  <1>1. Sums(xps, g)
    OBVIOUS
  <1>2. XpTotal(xps) = g[Len(xps)]
    BY DEF XpTotal, Sums
  <1> HIDE DEF g
  <1>3. Len(xps) \in 0 .. Len(xps)
    OBVIOUS
  <1> QED
    BY <1>1, <1>2, <1>3, SumsAgree

(* What the sum of XP does when a mission is added.                        *)
LEMMA XpTotalAdds ==
  /\ XpTotal(<<>>) = 0
  /\ \A xps \in Seq(Nat) : XpTotal(xps) \in Nat
  /\ \A xps \in Seq(Nat), x \in Nat : XpTotal(Append(xps, x)) = XpTotal(xps) + x
  <1>1. XpTotal(<<>>) = 0
    <2>1. <<>> \in Seq(Nat) /\ Len(<<>>) = 0
      OBVIOUS
    <2>2. PICK f : Sums(<<>>, f)
      BY <2>1, SumsExist
    <2>3. f[0] = 0
      BY <2>1, <2>2 DEF Sums
    <2>4. XpTotal(<<>>) = f[Len(<<>>)]
      BY <2>1, <2>2, XpTotalIs
    <2> QED
      BY <2>1, <2>3, <2>4
  <1>2. ASSUME NEW xps \in Seq(Nat)
        PROVE  XpTotal(xps) \in Nat
    BY SumsExist, XpTotalIs
  <1>3. ASSUME NEW xps \in Seq(Nat), NEW x \in Nat
        PROVE  XpTotal(Append(xps, x)) = XpTotal(xps) + x
    <2> DEFINE n    == Len(xps)
               more == Append(xps, x)
    <2>1. /\ more \in Seq(Nat) /\ Len(more) = n + 1 /\ n \in Nat
          /\ more[n + 1] = x /\ \A k \in 1 .. n : more[k] = xps[k]
      OBVIOUS
    <2> HIDE DEF more
    <2>2. PICK f : Sums(more, f)
      BY <2>1, SumsExist
    <2> DEFINE g == [k \in 0 .. n |-> f[k]]
    <2>3. \A k \in 0 .. (n + 1) : f[k] = IF k = 0 THEN 0 ELSE f[k - 1] + more[k]
      BY <2>1, <2>2 DEF Sums
    <2>4. \A k \in 0 .. n : g[k] = IF k = 0 THEN 0 ELSE g[k - 1] + xps[k]
      BY <2>1, <2>3
    <2>5. g = [k \in 0 .. n |-> g[k]] /\ g[n] = f[n]
      BY <2>1
    <2> HIDE DEF g
    <2>6. Sums(xps, g)
      BY <2>4, <2>5 DEF Sums
    <2>7. XpTotal(xps) = f[n] /\ XpTotal(more) = f[n + 1]
      BY <2>1, <2>2, <2>5, <2>6, XpTotalIs
    <2> QED
      BY <2>1, <2>3, <2>7 DEF more
  <1> QED
    BY <1>1, <1>2, <1>3

-----------------------------------------------------------------------------
(* Greatest elements and blocks of days                                    *)

(* The greatest element of a set.                                          *)
LEMMA MaxIs ==
  ASSUME NEW S \in SUBSET Int, NEW m \in S, \A x \in S : x <= m
  PROVE  Max(S) = m
  <1>1. \A x \in S : (\A y \in S : x >= y) => x = m
    OBVIOUS
  <1>2. \A y \in S : m >= y
    OBVIOUS
  <1> QED
    BY <1>1, <1>2 DEF Max

(* The least of a set of numbers is in it and below the others.            *)
LEMMA MinIs ==
  ASSUME NEW S \in SUBSET Nat, S # {}
  PROVE  Min(S) \in S /\ \A x \in S : Min(S) <= x
  <1>1. \E n \in S : \A k \in S : n <= k
    BY LeastNumber
  <1> QED
    BY <1>1 DEF Min

(* n days in a row, the last of them day last.                             *)
Row(days, last, n) == \A k \in 0 .. n - 1 : last - k \in days

(* A row of days is no longer than all of them.                            *)
LEMMA RowBounded ==
  ASSUME NEW days \in SUBSET Nat, IsFiniteSet(days), NEW last \in Nat, NEW n \in Nat,
         Row(days, last, n)
  PROVE  n <= Cardinality(days) /\ Cardinality(days) \in Nat
  <1> DEFINE first == last - n + 1
  <1>1. first .. last \subseteq days
    <2> SUFFICES ASSUME NEW d \in first .. last
                 PROVE  d \in days
      OBVIOUS
    <2>1. last - d \in 0 .. n - 1 /\ last - (last - d) = d
      OBVIOUS
    <2> QED
      BY <2>1 DEF Row
  <1>2. Cardinality(first .. last) = n
    BY FS_Interval
  <1>3. Cardinality(first .. last) <= Cardinality(days)
    BY <1>1, FS_Subset
  <1> QED
    BY <1>2, <1>3, FS_CardinalityType

(* The block that ends on a day is the row that goes no further back.      *)
LEMMA BlockToIs ==
  ASSUME NEW days \in SUBSET Nat, IsFiniteSet(days), NEW last \in Nat, NEW n \in Nat,
         Row(days, last, n), last - n \notin days
  PROVE  BlockTo(days, last) = n
  <1> DEFINE S == {k \in 0 .. Cardinality(days) : (last - k + 1) .. last \subseteq days}
  <1>1. n \in S
    <2>1. n \in 0 .. Cardinality(days)
      BY RowBounded
    <2>2. ASSUME NEW d \in (last - n + 1) .. last
          PROVE  d \in days
      <3>1. last - d \in 0 .. n - 1 /\ last - (last - d) = d
        OBVIOUS
      <3> QED
        BY <3>1 DEF Row
    <2> QED
      BY <2>1, <2>2
  <1>2. ASSUME NEW k \in S
        PROVE  k <= n
    <2>1. k \in Int /\ (k > n => last - n \in (last - k + 1) .. last)
      OBVIOUS
    <2> QED
      BY <2>1
  <1>3. S \in SUBSET Int
    OBVIOUS
  <1> HIDE DEF S
  <1>4. Max(S) = n
    BY <1>1, <1>2, <1>3, MaxIs
  <1> QED
    BY <1>4 DEF BlockTo, S

(* There is one for every day.                                             *)
LEMMA BlockExists ==
  ASSUME NEW days \in SUBSET Nat, NEW last \in Nat
  PROVE  \E n \in Nat : Row(days, last, n) /\ last - n \notin days
  <1> DEFINE T == {n \in Nat : last - n \notin days}
  <1>1. last + 1 \in T
    OBVIOUS
  <1>2. PICK n \in T : \A k \in T : n <= k
    <2>1. T \in SUBSET Nat /\ T # {}
      BY <1>1
    <2> QED
      BY <2>1, LeastNumber
  <1>3. Row(days, last, n)
    BY <1>2 DEF Row
  <1> QED
    BY <1>3

(* The longest block, of days of which some are known to be in a row.      *)
LEMMA LongestBlockIs ==
  ASSUME NEW days \in SUBSET Nat, IsFiniteSet(days), NEW d \in days, NEW n \in Nat,
         Row(days, d, n), \A e \in days, k \in Nat : Row(days, e, k) => k <= n
  PROVE  LongestBlock(days) = n
  <1> DEFINE S == {0} \cup {BlockTo(days, e) : e \in days}
  <1>1. ASSUME NEW e \in days
        PROVE  BlockTo(days, e) \in Nat /\ BlockTo(days, e) <= n
    <2>1. PICK k \in Nat : Row(days, e, k) /\ e - k \notin days
      BY BlockExists
    <2>2. BlockTo(days, e) = k
      BY <2>1, BlockToIs
    <2> QED
      BY <2>1, <2>2
  <1>2. n \in S
    <2>1. d - n \notin days
      <3> SUFFICES ASSUME d - n \in days
                   PROVE  FALSE
        OBVIOUS
      <3>1. Row(days, d, n + 1)
        BY DEF Row
      <3> QED
        BY <3>1
    <2>2. BlockTo(days, d) = n
      BY <2>1, BlockToIs
    <2> QED
      BY <2>2
  <1>3. S \in SUBSET Int /\ \A x \in S : x <= n
    BY <1>1
  <1> HIDE DEF S
  <1>4. Max(S) = n
    BY <1>2, <1>3, MaxIs
  <1> QED
    BY <1>4 DEF LongestBlock, S

-----------------------------------------------------------------------------
(* The streak                                                              *)

(* A streak fits the days played: it goes back from the last of them, and  *)
(* no block of them is longer than its best.                               *)
Streaks == [current : Nat, best : Nat, last : Nat \cup {None}]
StreakFits(s, days) ==
  /\ s \in Streaks
  /\ days = {} => s = EMPTY_PROGRESS.streak
  /\ days # {} =>
       /\ s.last \in days /\ \A d \in days : d <= s.last
       /\ Row(days, s.last, s.current) /\ s.last - s.current \notin days
       /\ \E d \in days : Row(days, d, s.best)
       /\ \A d \in days, n \in Nat : Row(days, d, n) => n <= s.best

(* The fields of a streak.                                                 *)
LEMMA StreakFields ==
  /\ \A s \in Streaks : s.current \in Nat /\ s.best \in Nat /\ s.last \in Nat \cup {None}
  /\ \A c, b \in Nat, l \in Nat \cup {None} :
       LET s == [current |-> c, best |-> b, last |-> l]
       IN  s \in Streaks /\ s.current = c /\ s.best = b /\ s.last = l
  /\ EMPTY_PROGRESS.streak = [current |-> 0, best |-> 0, last |-> None]
  BY DEF Streaks, EMPTY_PROGRESS

(* A mission on the last day played changes nothing.                       *)
LEMMA StreakStays ==
  ASSUME NEW days \in SUBSET Nat, NEW s, StreakFits(s, days), NEW today \in Nat,
         s.last = today
  PROVE  StreakOn(s, today) = s /\ StreakFits(s, days \cup {today})
  <1>1. days # {}
    BY StreakFields, NoneAssumption DEF StreakFits
  <1>2. days \cup {today} = days
    BY <1>1 DEF StreakFits
  <1> QED
    BY <1>2 DEF StreakOn

(* On a later day the block goes on, or a new one begins.                  *)
LEMMA StreakGoesOn ==
  ASSUME NEW days \in SUBSET Nat, NEW s, StreakFits(s, days), NEW today \in Nat,
         \A d \in days : d <= today, s.last # today
  PROVE  StreakFits(StreakOn(s, today), days \cup {today})
         /\ s.best <= StreakOn(s, today).best
  <1> DEFINE current == IF s.last # None /\ s.last + 1 = today THEN s.current + 1 ELSE 1
             best    == IF current > s.best THEN current ELSE s.best
             next    == [current |-> current, last |-> today, best |-> best]
             more    == days \cup {today}
  <1>1. /\ s.current \in Nat /\ s.best \in Nat /\ s.last \in Nat \cup {None}
        /\ current \in Nat /\ best \in Nat /\ current >= 1
    BY StreakFields DEF StreakFits
  <1>2. /\ next \in Streaks /\ next.current = current /\ next.best = best
        /\ next.last = today /\ StreakOn(s, today) = next
    BY <1>1, StreakFields DEF StreakOn
  <1>3. \A d \in days : d < today
    <2>1. CASE days = {}
      BY <2>1
    <2>2. CASE days # {}
      <3>1. s.last \in days /\ \A d \in days : d <= s.last
        BY <2>2 DEF StreakFits
      <3>2. \A d \in days : d \in Nat /\ d <= today /\ (d # today => d < today)
        OBVIOUS
      <3>3. s.last \in Nat /\ s.last < today
        BY <3>1, <3>2, Zenon
      <3> QED
        BY <3>1, <3>3
    <2> QED
      BY <2>1, <2>2
  <1>4. ASSUME NEW d \in days, NEW n \in Nat
        PROVE  Row(more, d, n) <=> Row(days, d, n)
    BY <1>3 DEF Row
  <1>5. Row(more, today, current) /\ today - current \notin more
    <2>1. CASE s.last # None /\ s.last + 1 = today
      <3>1. days # {} /\ s.last \in Nat
        BY <1>1, <2>1, StreakFields DEF StreakFits
      <3>2. Row(days, s.last, s.current) /\ s.last - s.current \notin days
        BY <3>1 DEF StreakFits
      <3>3. today - current = s.last - s.current /\ today - current # today
        BY <1>1, <2>1, <3>1
      <3>4. ASSUME NEW k \in 0 .. current - 1
            PROVE  today - k \in more
        <4>1. CASE k = 0
          BY <4>1
        <4>2. CASE k # 0
          <5>1. k - 1 \in 0 .. s.current - 1 /\ s.last - (k - 1) = today - k
            BY <1>1, <2>1, <3>1, <4>2
          <5> QED
            BY <3>2, <5>1 DEF Row
        <4> QED
          BY <4>1, <4>2
      <3> QED
        BY <3>2, <3>3, <3>4 DEF Row
    <2>2. CASE ~(s.last # None /\ s.last + 1 = today)
      <3>1. today - 1 \notin days
        <4>1. CASE days = {}
          BY <4>1
        <4>2. CASE days # {}
          <5>1. s.last \in days /\ \A d \in days : d <= s.last
            BY <4>2 DEF StreakFits
          <5>2. s.last # None /\ s.last \in Nat /\ s.last < today
            BY <1>3, <5>1, NoneAssumption
          <5> QED
            BY <2>2, <5>1, <5>2
        <4> QED
          BY <4>1, <4>2
      <3>2. current = 1
        BY <2>2
      <3> QED
        BY <3>1, <3>2 DEF Row
    <2> QED
      BY <2>1, <2>2
  <1>6. ASSUME NEW n \in Nat, Row(more, today, n)
        PROVE  n <= current
    <2> SUFFICES ASSUME n > current
                 PROVE  FALSE
      BY <1>1
    <2>1. current \in 0 .. n - 1
      BY <1>1
    <2> QED
      BY <1>5, <1>6, <2>1 DEF Row
  <1>7. \E d \in more : Row(more, d, best)
    <2>1. CASE current > s.best
      BY <1>5, <2>1
    <2>2. CASE ~(current > s.best)
      <3>1. days # {}
        BY <1>1, <2>2, StreakFields DEF StreakFits
      <3>2. PICK d \in days : Row(days, d, s.best)
        BY <3>1 DEF StreakFits
      <3> QED
        BY <1>1, <1>4, <2>2, <3>2
    <2> QED
      BY <2>1, <2>2
  <1>8. ASSUME NEW d \in more, NEW n \in Nat, Row(more, d, n)
        PROVE  n <= best
    <2>1. CASE d = today
      BY <1>1, <1>6, <1>8, <2>1
    <2>2. CASE d \in days
      <3>1. n <= s.best
        BY <1>4, <1>8, <2>2 DEF StreakFits
      <3> QED
        BY <1>1, <3>1
    <2> QED
      BY <2>1, <2>2
  <1> HIDE DEF current, best
  <1>9. StreakFits(next, more)
    BY <1>2, <1>3, <1>5, <1>7, <1>8 DEF StreakFits
  <1>10. s.best <= best
    BY <1>1 DEF best
  <1> QED
    BY <1>2, <1>9, <1>10

(* Whatever the day of the mission, the streak still fits.                 *)
LEMMA StreakKept ==
  ASSUME NEW days \in SUBSET Nat, NEW s, StreakFits(s, days), NEW today \in Nat,
         \A d \in days : d <= today
  PROVE  StreakFits(StreakOn(s, today), days \cup {today})
         /\ s.best <= StreakOn(s, today).best
  <1>1. CASE s.last = today
    <2>1. s.best \in Nat
      BY StreakFields DEF StreakFits
    <2> QED
      BY <1>1, <2>1, StreakStays
  <1>2. CASE s.last # today
    BY <1>2, StreakGoesOn
  <1> QED
    BY <1>1, <1>2

(* A streak that fits shows the blocks of the days.                        *)
LEMMA StreakShown ==
  ASSUME NEW days \in SUBSET Nat, IsFiniteSet(days), NEW s, StreakFits(s, days)
  PROVE  /\ s.best = LongestBlock(days)
         /\ IF days = {} THEN s = EMPTY_PROGRESS.streak
            ELSE s.last = Max(days) /\ s.current = BlockTo(days, s.last)
  <1>1. CASE days = {}
    <2>1. s = EMPTY_PROGRESS.streak /\ s.best = 0
      BY <1>1, StreakFields DEF StreakFits
    <2>2. Max({0}) = 0
      BY MaxIs
    <2>3. {0} \cup {BlockTo(days, e) : e \in days} = {0}
      BY <1>1
    <2> QED
      BY <1>1, <2>1, <2>2, <2>3 DEF LongestBlock
  <1>2. CASE days # {}
    <2>1. /\ s.last \in days /\ \A d \in days : d <= s.last
          /\ Row(days, s.last, s.current) /\ s.last - s.current \notin days
          /\ s.current \in Nat /\ s.best \in Nat
      BY <1>2, StreakFields DEF StreakFits
    <2>2. days \in SUBSET Int /\ \A d \in days : d \in Nat
      OBVIOUS
    <2>3. s.last \in Nat
      BY <2>1, <2>2, Zenon
    <2>4. Max(days) = s.last
      BY <2>1, <2>2, MaxIs
    <2>5. BlockTo(days, s.last) = s.current
      BY <2>1, <2>3, BlockToIs
    <2>6. PICK d \in days : Row(days, d, s.best)
      BY <1>2 DEF StreakFits
    <2>7. \A e \in days, k \in Nat : Row(days, e, k) => k <= s.best
      BY <1>2 DEF StreakFits
    <2>8. LongestBlock(days) = s.best
      BY <2>1, <2>6, <2>7, LongestBlockIs
    <2> QED
      BY <1>2, <2>4, <2>5, <2>8
  <1> QED
    BY <1>1, <1>2

-----------------------------------------------------------------------------
(* Logs                                                                    *)

(* A career begins with none, or with one that the first version stored;   *)
(* every mission recorded after that has a day, and tells its news.        *)
Beginnings == Legacy \cup {[runs |-> <<>>, achievements |-> {}]}
News       == [badges : SUBSET AchievementIds,
               rank : SUBSET {RANKS[i].id : i \in DOMAIN RANKS}]
OldEntries == [run : MissionRecords, day : {None}]
NewEntries == [run : MissionRecords, day : Nat, daily : BOOLEAN, news : News]

(* A log that began as a career of the first version, or empty, and went   *)
(* on with missions of this one.                                           *)
LogFrom(old, log) ==
  /\ log \in Seq(OldEntries \cup NewEntries) /\ Len(old.runs) <= Len(log)
  /\ \A i \in 1 .. Len(log) :
       IF i <= Len(old.runs) THEN log[i] = [run |-> old.runs[i], day |-> None]
       ELSE log[i] \in NewEntries

(* The fields of missions and of entries.                                  *)
LEMMA EntryFields ==
  /\ \A m \in MissionRecords : m.xp \in Nat
  /\ \A e \in OldEntries : e.run \in MissionRecords /\ e.day = None
  /\ \A e \in NewEntries :
       /\ e.run \in MissionRecords /\ e.day \in Nat /\ e.day # None
       /\ e.daily \in BOOLEAN /\ e.news \in News
  /\ \A m \in MissionRecords, d \in Nat, b \in BOOLEAN, n \in News :
       [run |-> m, day |-> d, daily |-> b, news |-> n] \in NewEntries
  BY NoneAssumption DEF MissionRecords, OldEntries, NewEntries, News

(* The fields of a beginning.                                              *)
LEMMA BeginningFields ==
  \A old \in Beginnings : /\ old.runs \in Seq(MissionRecords)
                          /\ old.achievements \in SUBSET AchievementIds
                          /\ Len(old.runs) \in Nat /\ DOMAIN old.runs = 1 .. Len(old.runs)
                          /\ old \in Legacy \/ old.achievements = {}
  <1>1. <<>> \in Seq(MissionRecords)
    OBVIOUS
  <1>2. ASSUME NEW old \in Beginnings
        PROVE  /\ old.runs \in Seq(MissionRecords)
               /\ old.achievements \in SUBSET AchievementIds
               /\ old \in Legacy \/ old.achievements = {}
    <2>1. CASE old \in Legacy
      BY <2>1, LegacyAssumption
    <2>2. CASE old = [runs |-> <<>>, achievements |-> {}]
      BY <1>1, <2>2
    <2> QED
      BY <2>1, <2>2 DEF Beginnings
  <1>3. \A s \in Seq(MissionRecords) : Len(s) \in Nat /\ DOMAIN s = 1 .. Len(s)
    OBVIOUS
  <1> QED
    BY <1>2, <1>3

(* What is dated in a log, and what is not.                                *)
LEMMA LogParts ==
  ASSUME NEW old \in Beginnings, NEW log, LogFrom(old, log)
  PROVE  /\ DOMAIN log = 1 .. Len(log) /\ Len(log) \in Nat
         /\ \A i \in DOMAIN log : log[i] \in OldEntries \cup NewEntries
                                  /\ log[i].run \in MissionRecords
         /\ Dated(log) = (Len(old.runs) + 1) .. Len(log)
         /\ \A i \in Dated(log) : log[i] \in NewEntries
         /\ OldOf(log) = LogOf(old)
  <1> DEFINE k == Len(old.runs)
             n == Len(log)
  <1>1. k \in Nat /\ n \in Nat /\ k <= n /\ DOMAIN log = 1 .. n
    BY BeginningFields DEF LogFrom
  <1>2. \A i \in 1 .. n : log[i] \in OldEntries \cup NewEntries
                          /\ log[i].run \in MissionRecords
    BY EntryFields DEF LogFrom
  <1>3. \A i \in 1 .. n : IF i <= k THEN log[i] = [run |-> old.runs[i], day |-> None]
                          ELSE log[i] \in NewEntries
    BY DEF LogFrom
  <1>4. ASSUME NEW i \in 1 .. n, i <= k
        PROVE  log[i].day = None
    <2>1. log[i] = [run |-> old.runs[i], day |-> None]
      BY <1>3, <1>4
    <2> QED
      BY <2>1
  <1>5. \A i \in 1 .. n : ~(i <= k) => log[i].day # None
    BY <1>3, EntryFields
  <1>6. Dated(log) = (k + 1) .. n
    BY <1>1, <1>4, <1>5 DEF Dated
  <1>7. DOMAIN log \ Dated(log) = 1 .. k
    BY <1>1, <1>6
  <1>8. Cardinality(DOMAIN log \ Dated(log)) = k
    <2> HIDE DEF k
    <2>1. k \in Int /\ 1 \in Int
      BY <1>1
    <2>2. Cardinality(1 .. k) = IF 1 > k THEN 0 ELSE k - 1 + 1
      BY <2>1, FS_Interval
    <2>3. Cardinality(1 .. k) = k
      BY <1>1, <2>2
    <2> QED
      BY <1>7, <2>3
  <1>9. OldOf(log) = [i \in 1 .. k |-> log[i]]
    <2>1. OldOf(log) = SubSeq(log, 1, k)
      BY <1>8, Zenon DEF OldOf
    <2> HIDE DEF k
    <2>2. log \in Seq(OldEntries \cup NewEntries)
      BY DEF LogFrom
    <2> QED
      BY <1>1, <2>1, <2>2
  <1>10. LogOf(old) = [i \in 1 .. k |-> log[i]]
    BY <1>1, <1>3, BeginningFields DEF LogOf
  <1> QED
    BY <1>1, <1>2, <1>3, <1>6, <1>9, <1>10

(* A log with one more mission.                                            *)
LEMMA LogGrows ==
  ASSUME NEW old \in Beginnings, NEW log, LogFrom(old, log), NEW e \in NewEntries
  PROVE  LET more == Append(log, e)
         IN  /\ LogFrom(old, more) /\ Len(more) = Len(log) + 1
             /\ more[Len(log) + 1] = e /\ \A i \in 1 .. Len(log) : more[i] = log[i]
             /\ Dated(more) = Dated(log) \cup {Len(log) + 1}
             /\ Dated(log) \subseteq 1 .. Len(log)
  <1> DEFINE more == Append(log, e)
             n    == Len(log)
             k    == Len(old.runs)
  <1>1. /\ k \in Nat /\ n \in Nat /\ k <= n
        /\ log \in Seq(OldEntries \cup NewEntries)
    BY BeginningFields DEF LogFrom
  <1>2. /\ more \in Seq(OldEntries \cup NewEntries) /\ Len(more) = n + 1
        /\ more[n + 1] = e /\ \A i \in 1 .. n : more[i] = log[i]
    BY <1>1
  <1> HIDE DEF more
  <1>3. LogFrom(old, more)
    <2>1. ASSUME NEW i \in 1 .. Len(more)
          PROVE  IF i <= k THEN more[i] = [run |-> old.runs[i], day |-> None]
                 ELSE more[i] \in NewEntries
      <3>1. CASE i = n + 1
        BY <1>1, <1>2, <3>1
      <3>2. CASE i \in 1 .. n
        <4>1. IF i <= k THEN log[i] = [run |-> old.runs[i], day |-> None]
              ELSE log[i] \in NewEntries
          BY <3>2 DEF LogFrom
        <4> QED
          BY <1>2, <3>2, <4>1, Zenon
      <3> QED
        BY <1>1, <1>2, <3>1, <3>2
    <2> QED
      BY <1>1, <1>2, <2>1 DEF LogFrom
  <1>4. Dated(log) = (k + 1) .. n /\ Dated(more) = (k + 1) .. (n + 1)
    BY <1>2, <1>3, LogParts
  <1>5. Dated(more) = Dated(log) \cup {n + 1} /\ Dated(log) \subseteq 1 .. n
    BY <1>1, <1>4
  <1> QED
    BY <1>2, <1>3, <1>5 DEF more

-----------------------------------------------------------------------------
(* Missions and the history                                                *)

(* What counts of an objective.                                            *)
ObjectiveRecords == [xp : Nat, done : BOOLEAN]

(* The objectives of a run.                                                *)
LEMMA ObjectivesAre ==
  \A play \in Plays : Objectives(play) \in Seq(ObjectiveRecords)
  <1> SUFFICES ASSUME NEW play \in Plays
               PROVE  Objectives(play) \in Seq(ObjectiveRecords)
    OBVIOUS
  <1> DEFINE r == play.result
  <1>1. /\ play.scenario \in Range(SCENARIO_DEFINITIONS) /\ play.side \in {"red", "blue"}
        /\ r \in RunResults
    BY PlaysAssumption
  <1>2. /\ r.events \in Nat /\ r.alerts \in Nat /\ r.responses \in Nat
        /\ r.incident \in BOOLEAN /\ r.contained \in BOOLEAN
    BY <1>1 DEF RunResults
  <1> HIDE DEF r
  <1>3. \A xp \in Nat, done \in BOOLEAN : Objective(xp, done) \in ObjectiveRecords
    BY DEF Objective, ObjectiveRecords
  <1>4. \A a, b, c \in ObjectiveRecords : <<a, b, c>> \in Seq(ObjectiveRecords)
    OBVIOUS
  <1>5. ASSUME NEW n \in Nat, NEW x \in Nat, NEW y \in Nat, NEW z \in Nat
        PROVE  Red(r, n, <<x, y, z>>) \in Seq(ObjectiveRecords)
    <2>1. /\ RedFoothold(r) \in BOOLEAN /\ RedVolume(r, n) \in BOOLEAN
          /\ RedTrippedDefense(r) \in BOOLEAN
      BY <1>2 DEF RedFoothold, RedVolume, RedTrippedDefense
    <2>2. /\ Objective(x, RedFoothold(r)) \in ObjectiveRecords
          /\ Objective(y, RedVolume(r, n)) \in ObjectiveRecords
          /\ Objective(z, RedTrippedDefense(r)) \in ObjectiveRecords
      BY <1>3, <2>1, Zenon
    <2>3. Red(r, n, <<x, y, z>>) = <<Objective(x, RedFoothold(r)), Objective(y, RedVolume(r, n)),
                                     Objective(z, RedTrippedDefense(r))>>
      BY DEF Red
    <2> QED
      BY <1>4, <2>2, <2>3, Zenon
  <1>6. ASSUME NEW b \in BOOLEAN, NEW x \in Nat, NEW y \in Nat, NEW z \in Nat
        PROVE  Blue(r, b, <<x, y, z>>) \in Seq(ObjectiveRecords)
    <2>1. BlueDetect(r) \in BOOLEAN /\ BlueCorrelate(r) \in BOOLEAN
      BY <1>2 DEF BlueDetect, BlueCorrelate
    <2>2. /\ Objective(x, BlueDetect(r)) \in ObjectiveRecords
          /\ Objective(y, BlueCorrelate(r)) \in ObjectiveRecords
          /\ Objective(z, b) \in ObjectiveRecords
      BY <1>3, <2>1, Zenon
    <2>3. Blue(r, b, <<x, y, z>>) = <<Objective(x, BlueDetect(r)), Objective(y, BlueCorrelate(r)),
                                      Objective(z, b)>>
      BY DEF Blue
    <2> QED
      BY <1>4, <2>2, <2>3, Zenon
  <1>7. /\ BlueContainByCommand(r) \in BOOLEAN /\ BlueAnyContainByCommand(r) \in BOOLEAN
        /\ BlueRespond(r) \in BOOLEAN
    BY DEF BlueContainByCommand, BlueAnyContainByCommand, BlueRespond, RedTrippedDefense
  <1>8. play.scenario \in {"scn-tutorial-000", "scn-auth-001", "scn-session-002",
                           "scn-doc-003", "scn-doc-004", "scn-svc-005",
                           "scn-corr-006", "scn-pol-007"}
    BY <1>1 DEF Range, SCENARIO_DEFINITIONS
  <1>9. \A c : play.side \in {"red", "blue"} =>
               [red |-> c.red, blue |-> c.blue][play.side] \in {c.red, c.blue}
    OBVIOUS
  <1>10. ASSUME play.scenario = "scn-tutorial-000"
         PROVE  Objectives(play) \in Seq(ObjectiveRecords)
    <2>1. SCENARIO_CONTENT(play.scenario, r) = Tutorial000(r)
      BY <1>10 DEF SCENARIO_CONTENT
    <2>2. \A done \in BOOLEAN : Objective(0, done) \in ObjectiveRecords
      BY <1>3
    <2>3. \A verb : TutorialIssued(r, verb) \in BOOLEAN
      BY DEF TutorialIssued
    <2>4. \A a \in ObjectiveRecords : <<a>> \in Seq(ObjectiveRecords)
      OBVIOUS
    <2>5. \A a, b, c, d \in ObjectiveRecords : <<a, b, c, d>> \in Seq(ObjectiveRecords)
      OBVIOUS
    <2>6. Tutorial000(r).red \in Seq(ObjectiveRecords)
      BY <2>2, <2>4 DEF Tutorial000
    <2>7. Tutorial000(r).blue \in Seq(ObjectiveRecords)
      <3>1. \A verb : Objective(0, TutorialIssued(r, verb)) \in ObjectiveRecords
        BY <2>2, <2>3, Zenon
      <3>2. Tutorial000(r).blue =
              <<Objective(0, TutorialIssued(r, "alerts list")),
                Objective(0, TutorialIssued(r, "events tail")),
                Objective(0, TutorialIssued(r, "status")),
                Objective(0, TutorialIssued(r, "contain session"))>>
        BY DEF Tutorial000
      <3> QED
        BY <2>5, <3>1, <3>2, Zenon
    <2> QED
      BY <1>1, <2>1, <2>6, <2>7 DEF Objectives, r
  <1>11. ASSUME play.scenario # "scn-tutorial-000"
         PROVE  Objectives(play) \in Seq(ObjectiveRecords)
    <2> DEFINE c == SCENARIO_CONTENT(play.scenario, r)
    <2>1. c \in {Auth001(r), Session002(r), Doc003(r), Doc004(r), Svc005(r),
                 Corr006(r), Pol007(r)}
      BY <1>8, <1>11 DEF SCENARIO_CONTENT
    <2> HIDE DEF c
    <2>2. /\ Auth001(r).red \in Seq(ObjectiveRecords)
          /\ Session002(r).red \in Seq(ObjectiveRecords)
          /\ Doc003(r).red \in Seq(ObjectiveRecords)
          /\ Doc004(r).red \in Seq(ObjectiveRecords)
          /\ Svc005(r).red \in Seq(ObjectiveRecords)
          /\ Corr006(r).red \in Seq(ObjectiveRecords)
          /\ Pol007(r).red \in Seq(ObjectiveRecords)
      BY <1>5 DEF Auth001, Session002, Doc003, Doc004, Svc005, Corr006, Pol007
    <2>3. /\ Auth001(r).blue \in Seq(ObjectiveRecords)
          /\ Session002(r).blue \in Seq(ObjectiveRecords)
          /\ Doc003(r).blue \in Seq(ObjectiveRecords)
          /\ Doc004(r).blue \in Seq(ObjectiveRecords)
          /\ Svc005(r).blue \in Seq(ObjectiveRecords)
          /\ Corr006(r).blue \in Seq(ObjectiveRecords)
          /\ Pol007(r).blue \in Seq(ObjectiveRecords)
      BY <1>6, <1>7 DEF Auth001, Session002, Doc003, Doc004, Svc005, Corr006, Pol007
    <2>4. c.red \in Seq(ObjectiveRecords) /\ c.blue \in Seq(ObjectiveRecords)
      BY <2>1, <2>2, <2>3
    <2>5. Objectives(play) = c[play.side]
      BY DEF Objectives, c, r
    <2> QED
      BY <1>1, <2>4, <2>5
  <1> QED
    BY <1>10, <1>11

(* The record of a run: its XP is a number.                                *)
LEMMA RecordOfRun ==
  ASSUME NEW play \in Plays, NEW isDaily \in BOOLEAN
  PROVE  MissionRecord(play, isDaily) \in MissionRecords
  <1> DEFINE objectives == Objectives(play)
             xps == [i \in DOMAIN objectives |-> IF objectives[i].done
                                                   THEN objectives[i].xp ELSE 0]
  <1>1. objectives \in Seq(ObjectiveRecords)
    BY ObjectivesAre
  <1> HIDE DEF objectives
  <1>2. xps \in Seq(Nat)
    <2>1. /\ DOMAIN objectives = 1 .. Len(objectives) /\ Len(objectives) \in Nat
          /\ \A i \in DOMAIN objectives : objectives[i] \in ObjectiveRecords
      BY <1>1
    <2>2. \A o \in ObjectiveRecords : o.xp \in Nat
      BY DEF ObjectiveRecords
    <2>3. \A i \in DOMAIN objectives :
            (IF objectives[i].done THEN objectives[i].xp ELSE 0) \in Nat
      BY <2>1, <2>2
    <2>4. xps \in [1 .. Len(objectives) -> Nat]
      BY <2>1, <2>3
    <2> HIDE DEF xps
    <2> QED
      BY <2>1, <2>4
  <1> HIDE DEF xps
  <1>3. XpTotal(xps) \in Nat
    BY <1>2, XpTotalAdds
  <1>4. EarnedRawXp(play) \in Nat
    BY <1>3 DEF EarnedRawXp, objectives, xps
  <1>5. /\ play.scenario \in Range(SCENARIO_DEFINITIONS) /\ play.side \in {"red", "blue"}
        /\ play.difficulty \in DOMAIN DIFFICULTIES
    BY PlaysAssumption
  <1>6. DIFFICULTIES[play.difficulty] \in Nat
    <2>1. DOMAIN DIFFICULTIES = {"recruit", "analyst", "operator"}
      BY DEF DIFFICULTIES
    <2>2. /\ DIFFICULTIES["recruit"] \in Nat /\ DIFFICULTIES["analyst"] \in Nat
          /\ DIFFICULTIES["operator"] \in Nat
      BY DEF DIFFICULTIES
    <2> QED
      BY <1>5, <2>1, <2>2
  <1>7. \A a, b \in Nat : a * b \in Nat
    OBVIOUS
  <1>8. \A a \in Nat : (a + 2) \div 4 \in Nat
    OBVIOUS
  <1>9. EarnedXp(play, isDaily) \in Nat
    BY <1>4, <1>6, <1>7, <1>8 DEF EarnedXp, BonusMultiplier
  <1>10. AllComplete(play) \in BOOLEAN
    BY DEF AllComplete
  <1> QED
    BY <1>5, <1>9, <1>10 DEF MissionRecord, MissionRecords

(* The history with one more mission, newest first and cut at MAX_HISTORY. *)
Newest(m, missions) ==
  LET history == <<m>> \o missions
  IN  SubSeq(history, 1, IF Len(history) > MAX_HISTORY THEN MAX_HISTORY ELSE Len(history))

(* A record with the fields of a career.                                   *)
IsCareer(p) ==
  p = [totalXp |-> p.totalXp, missions |-> p.missions, achievements |-> p.achievements,
       bests |-> p.bests, beats |-> p.beats, streak |-> p.streak, daily |-> p.daily]

(* What is recorded of a mission, field by field.                          *)
LEMMA RecordFields ==
  ASSUME NEW p, NEW m, NEW isDaily, NEW today,
         NEW after, after = RecordMission(p, m, isDaily, today)
  PROVE  /\ IsCareer(after)
         /\ after.totalXp = p.totalXp + m.xp
         /\ after.missions = Newest(m, p.missions)
         /\ after.bests = BestsWith(p, m).bests
         /\ after.beats = BestsWith(p, m).beats
         /\ after.streak = StreakOn(p.streak, today)
         /\ after.daily = DailyWith(p.daily, today, isDaily)
         /\ \E interim :
              /\ after.achievements = p.achievements \cup EarnedAchievementIds(interim)
              /\ interim.totalXp = after.totalXp /\ interim.missions = after.missions
              /\ interim.beats = after.beats /\ interim.streak = after.streak
              /\ interim.daily = after.daily
  <1> DEFINE missions == Newest(m, p.missions)
             xp == XpAfter(p, m)
             bests == BestsWith(p, m).bests
             beats == BestsWith(p, m).beats
             streak == StreakOn(p.streak, today)
             daily == DailyWith(p.daily, today, isDaily)
             interim == [totalXp |-> xp, missions |-> missions,
                         achievements |-> p.achievements, bests |-> bests,
                         beats |-> beats, streak |-> streak, daily |-> daily]
             earned == p.achievements \cup EarnedAchievementIds(interim)
             next == [totalXp |-> xp, missions |-> missions,
                      achievements |-> earned, bests |-> bests,
                      beats |-> beats, streak |-> streak, daily |-> daily]
  <1>1. RecordMission(p, m, isDaily, today)
          = [interim EXCEPT !.achievements = AchievementsAfter(p, interim)]
    BY Zenon DEF RecordMission, Newest
  <1>2. AchievementsAfter(p, interim) = earned
    BY Zenon DEF AchievementsAfter
  <1>3. xp = p.totalXp + m.xp
    BY DEF XpAfter
  <1> HIDE DEF xp, missions, bests, beats, streak, daily, earned
  <1>4. [interim EXCEPT !.achievements = earned] = next
    OBVIOUS
  <1>5. RecordMission(p, m, isDaily, today) = next
    BY <1>1, <1>2, <1>4
  <1>6. /\ next.totalXp = xp /\ next.missions = missions /\ next.bests = bests
        /\ next.beats = beats /\ next.streak = streak /\ next.daily = daily
        /\ next.achievements = earned
    OBVIOUS
  <1>7. /\ interim.totalXp = xp /\ interim.missions = missions
        /\ interim.beats = beats /\ interim.streak = streak /\ interim.daily = daily
    OBVIOUS
  <1>8. \E i : /\ earned = p.achievements \cup EarnedAchievementIds(i)
               /\ i.totalXp = xp /\ i.missions = missions
               /\ i.beats = beats /\ i.streak = streak /\ i.daily = daily
    <2> HIDE DEF interim
    <2> QED
      BY <1>7 DEF earned
  <1>9. IsCareer(next)
    BY <1>6 DEF IsCareer
  <1> HIDE DEF next
  <1> QED
    BY <1>3, <1>5, <1>6, <1>8, <1>9 DEF missions, bests, beats, streak, daily

(* The history and its XP, as the log has them.                            *)
HistoryFits(p, log) == p.totalXp = XpSum(log) /\ p.missions = HistoryOf(log)

(* The lists a log gives.                                                  *)
LEMMA HistoryIs ==
  ASSUME NEW old \in Beginnings, NEW log, LogFrom(old, log)
  PROVE  /\ XpSum(log) \in Nat
         /\ HistoryOf(log) \in Seq(MissionRecords)
         /\ Len(HistoryOf(log)) = IF Len(log) > MAX_HISTORY THEN MAX_HISTORY ELSE Len(log)
         /\ \A i \in 1 .. Len(HistoryOf(log)) :
              HistoryOf(log)[i] = log[Len(log) + 1 - i].run
  <1> DEFINE l == Len(log)
             n == IF l > MAX_HISTORY THEN MAX_HISTORY ELSE l
             h == [i \in 1 .. n |-> log[l + 1 - i].run]
             xps == [i \in 1 .. l |-> log[i].run.xp]
  <1>1. /\ DOMAIN log = 1 .. l /\ l \in Nat
        /\ \A i \in 1 .. l : log[i].run \in MissionRecords /\ log[i].run.xp \in Nat
    BY LogParts, EntryFields
  <1>2. n \in Nat /\ n <= l
    BY <1>1, CareerAssumption
  <1>3. HistoryOf(log) = h
    BY DEF HistoryOf
  <1>4. xps \in [1 .. l -> Nat]
    BY <1>1
  <1>5. XpSum(log) = XpTotal(xps)
    BY <1>1 DEF XpSum
  <1> HIDE DEF l, n, xps
  <1>6. xps \in Seq(Nat)
    BY <1>1, <1>4
  <1>7. \A i \in 1 .. n : l + 1 - i \in 1 .. l
    BY <1>1, <1>2
  <1>8. h \in [1 .. n -> MissionRecords]
    BY <1>1, <1>7
  <1>9. \A i \in 1 .. n : h[i] = log[l + 1 - i].run
    OBVIOUS
  <1> HIDE DEF h
  <1>10. h \in Seq(MissionRecords) /\ Len(h) = n
    BY <1>2, <1>8
  <1> QED
    BY <1>3, <1>5, <1>6, <1>9, <1>10, XpTotalAdds DEF l, n

(* One more mission.                                                       *)
LEMMA HistoryKept ==
  ASSUME NEW old \in Beginnings, NEW log, LogFrom(old, log), NEW e \in NewEntries,
         NEW p, HistoryFits(p, log)
  PROVE  /\ p.totalXp + e.run.xp = XpSum(Append(log, e))
         /\ Newest(e.run, p.missions) = HistoryOf(Append(log, e))
  <1> DEFINE l == Len(log)
             more == Append(log, e)
             history == <<e.run>> \o p.missions
             k == IF Len(history) > MAX_HISTORY THEN MAX_HISTORY ELSE Len(history)
  <1>1. /\ LogFrom(old, more) /\ Len(more) = l + 1 /\ more[l + 1] = e
        /\ \A i \in 1 .. l : more[i] = log[i]
    BY LogGrows
  <1>2. /\ DOMAIN log = 1 .. l /\ l \in Nat /\ DOMAIN more = 1 .. (l + 1)
        /\ \A i \in 1 .. l : log[i].run.xp \in Nat
        /\ e.run \in MissionRecords /\ e.run.xp \in Nat
    BY <1>1, LogParts, EntryFields
  <1>3. p.totalXp + e.run.xp = XpSum(more)
    <2> DEFINE xps == [i \in DOMAIN log |-> log[i].run.xp]
               all == [i \in DOMAIN more |-> more[i].run.xp]
    <2> HIDE DEF l, more
    <2>1. xps \in [1 .. l -> Nat] /\ DOMAIN xps = 1 .. l
      BY <1>2
    <2>2. xps \in Seq(Nat) /\ Len(xps) = l
      BY <1>2, <2>1
    <2>3. all = [i \in 1 .. (l + 1) |-> IF i = l + 1 THEN e.run.xp ELSE xps[i]]
      BY <1>1, <1>2
    <2>4. Append(xps, e.run.xp) = [i \in 1 .. (l + 1) |-> IF i = l + 1 THEN e.run.xp ELSE xps[i]]
      BY <2>2
    <2>5. XpSum(log) = XpTotal(xps) /\ XpSum(more) = XpTotal(all)
      BY Zenon DEF XpSum
    <2> HIDE DEF xps, all
    <2> QED
      <3>1. all = Append(xps, e.run.xp)
        BY <2>3, <2>4, Zenon
      <3>2. XpTotal(Append(xps, e.run.xp)) = XpTotal(xps) + e.run.xp
        BY <1>2, <2>2, XpTotalAdds
      <3>3. p.totalXp = XpSum(log)
        BY DEF HistoryFits
      <3> QED
        BY <2>5, <3>1, <3>2, <3>3
  <1>4. SubSeq(history, 1, k) = HistoryOf(more)
    <2> DEFINE h == HistoryOf(log)
               g == HistoryOf(more)
    <2> HIDE DEF l, more
    <2>1. p.missions = h
      BY DEF HistoryFits
    <2>2. /\ h \in Seq(MissionRecords) /\ Len(h) = IF l > MAX_HISTORY THEN MAX_HISTORY ELSE l
          /\ \A i \in 1 .. Len(h) : h[i] = log[l + 1 - i].run
      BY HistoryIs DEF l
    <2>3. /\ g \in Seq(MissionRecords)
          /\ Len(g) = IF l + 1 > MAX_HISTORY THEN MAX_HISTORY ELSE l + 1
          /\ \A i \in 1 .. Len(g) : g[i] = more[l + 2 - i].run
      <3>1. \A i \in 1 .. Len(g) : g[i] = more[Len(more) + 1 - i].run
        BY <1>1, HistoryIs
      <3>2. Len(more) + 1 = l + 2
        BY <1>1, <1>2
      <3> QED
        <4>1. /\ g \in Seq(MissionRecords)
              /\ Len(g) = IF Len(more) > MAX_HISTORY THEN MAX_HISTORY ELSE Len(more)
          BY <1>1, HistoryIs
        <4> HIDE DEF g
        <4> QED
          <5>1. Len(g) = IF l + 1 > MAX_HISTORY THEN MAX_HISTORY ELSE l + 1
            BY <1>1, <4>1
          <5>2. \A i \in 1 .. Len(g) : g[i] = more[l + 2 - i].run
            <6>1. \A i \in 1 .. Len(g) : Len(more) + 1 - i = l + 2 - i
              BY <1>1, <1>2, <4>1
            <6> QED
              BY <3>1, <6>1, Zenon
          <5> QED
            BY <4>1, <5>1, <5>2, Zenon
    <2> HIDE DEF h, g
    <2>4. /\ history \in Seq(MissionRecords) /\ Len(history) = Len(h) + 1
          /\ history[1] = e.run /\ \A i \in 1 .. Len(h) : history[i + 1] = h[i]
      BY <1>2, <2>1, <2>2
    <2>5. MAX_HISTORY \in Nat /\ MAX_HISTORY >= 1
      BY CareerAssumption
    <2> HIDE DEF history
    <2>6. k \in Nat /\ k = Len(g) /\ k <= Len(history) /\ k <= Len(h) + 1
      BY <1>2, <2>2, <2>3, <2>4, <2>5
    <2> HIDE DEF k
    <2>7. SubSeq(history, 1, k) \in Seq(MissionRecords) /\ Len(SubSeq(history, 1, k)) = k
          /\ \A i \in 1 .. k : SubSeq(history, 1, k)[i] = history[i]
      BY <2>4, <2>6
    <2>8. ASSUME NEW i \in 1 .. k
          PROVE  history[i] = g[i]
      <3>1. CASE i = 1
        <4>1. g[1] = more[l + 2 - 1].run
          BY <2>3, <2>6, <3>1
        <4>2. l + 2 - 1 = l + 1
          BY <1>2
        <4> QED
          BY <1>1, <2>4, <3>1, <4>1, <4>2
      <3>2. CASE i # 1
        <4>1. i - 1 \in 1 .. Len(h) /\ i - 1 + 1 = i
          BY <2>2, <2>6, <3>2
        <4>2. history[i] = h[i - 1]
          BY <2>4, <4>1
        <4>3. h[i - 1] = log[l + 1 - (i - 1)].run
          BY <2>2, <4>1
        <4>4. l + 1 - (i - 1) = l + 2 - i /\ l + 2 - i \in 1 .. l
          BY <1>2, <2>2, <2>5, <4>1
        <4>5. g[i] = more[l + 2 - i].run
          BY <2>3, <2>6
        <4> QED
          BY <1>1, <4>2, <4>3, <4>4, <4>5
      <3> QED
        BY <3>1, <3>2
    <2>9. g = [i \in 1 .. k |-> g[i]]
      BY <2>3, <2>6
    <2>10. SubSeq(history, 1, k) = [i \in 1 .. k |-> SubSeq(history, 1, k)[i]]
      <3> DEFINE s == SubSeq(history, 1, k)
      <3>1. s \in Seq(MissionRecords) /\ Len(s) = k
        BY <2>7
      <3> HIDE DEF s
      <3>2. s = [i \in 1 .. k |-> s[i]]
        BY <3>1
      <3> QED
        BY <3>2 DEF s
    <2>11. SubSeq(history, 1, k) = g
      BY <2>7, <2>8, <2>9, <2>10
    <2> QED
      BY <2>11 DEF g
  <1> QED
    BY <1>3, <1>4, Zenon DEF Newest

-----------------------------------------------------------------------------
(* Days                                                                    *)

(* The days of a log with one more mission.                                *)
LEMMA DaysGrow ==
  ASSUME NEW old \in Beginnings, NEW log, LogFrom(old, log), NEW e \in NewEntries
  PROVE  LET more == Append(log, e)
         IN  /\ DaysPlayed(more) = DaysPlayed(log) \cup {e.day}
             /\ DailyDays(more) = DailyDays(log) \cup (IF e.daily THEN {e.day} ELSE {})
             /\ DaysPlayed(more) \in SUBSET Nat /\ DaysPlayed(log) \in SUBSET Nat
             /\ DailyDays(log) \subseteq DaysPlayed(log)
  <1> DEFINE more == Append(log, e)
             l == Len(log)
  <1>1. /\ LogFrom(old, more) /\ more[l + 1] = e /\ \A i \in 1 .. l : more[i] = log[i]
        /\ Dated(more) = Dated(log) \cup {l + 1} /\ Dated(log) \subseteq 1 .. l
    BY LogGrows
  <1>2. /\ \A i \in Dated(log) : log[i].day \in Nat
        /\ e.day \in Nat /\ e.daily \in BOOLEAN
    BY LogParts, EntryFields
  <1> HIDE DEF more, l
  <1>3. \A i \in Dated(log) : more[i] = log[i]
    BY <1>1
  <1>4. DaysPlayed(more) = DaysPlayed(log) \cup {e.day}
    BY <1>1, <1>3 DEF DaysPlayed
  <1>5. DailyDays(more) = DailyDays(log) \cup (IF e.daily THEN {e.day} ELSE {})
    <2> DEFINE D == {j \in Dated(log) : log[j].daily}
               E == {j \in Dated(more) : more[j].daily}
    <2>1. E = D \cup (IF e.daily THEN {l + 1} ELSE {})
      BY <1>1, <1>2, <1>3
    <2>2. D \subseteq Dated(log)
      OBVIOUS
    <2>3. DailyDays(log) = {log[i].day : i \in D} /\ DailyDays(more) = {more[i].day : i \in E}
      BY DEF DailyDays
    <2> HIDE DEF D, E
    <2>4. CASE e.daily
      BY <1>1, <1>3, <2>1, <2>2, <2>3, <2>4
    <2>5. CASE ~e.daily
      BY <1>1, <1>3, <2>1, <2>2, <2>3, <2>5
    <2> QED
      BY <1>2, <2>4, <2>5
  <1>6. DaysPlayed(log) \in SUBSET Nat /\ DailyDays(log) \subseteq DaysPlayed(log)
    BY <1>2 DEF DaysPlayed, DailyDays
  <1> QED
    BY <1>2, <1>4, <1>5, <1>6 DEF more

(* The daily keys are the last daily days, in order.                       *)
DailyFits(keys, days) ==
  /\ keys \in Seq(Nat) /\ Len(keys) <= MAX_DAILY_HISTORY
  /\ \A i \in 1 .. Len(keys) : keys[i] \in days
  /\ \A i, j \in 1 .. Len(keys) : i < j => keys[i] < keys[j]
  /\ \A d \in days : \/ \E i \in 1 .. Len(keys) : d = keys[i]
                     \/ Len(keys) = MAX_DAILY_HISTORY /\ d < keys[1]

(* A daily run of a day that has its key already changes nothing.          *)
LEMMA DailyStays ==
  ASSUME NEW keys \in Seq(Nat), NEW days \in SUBSET Nat, DailyFits(keys, days),
         NEW today \in Nat, today \in Range(keys)
  PROVE  DailyFits(keys, days \cup {today})
  <1>1. PICK i \in 1 .. Len(keys) : today = keys[i]
    BY DEF Range
  <1>2. days \cup {today} = days
    BY <1>1 DEF DailyFits
  <1> QED
    BY <1>2

(* The key of another day is added, and the oldest dropped when there are  *)
(* too many.                                                               *)
LEMMA DailyGoesOn ==
  ASSUME NEW keys \in Seq(Nat), NEW days \in SUBSET Nat, DailyFits(keys, days),
         NEW today \in Nat, \A d \in days : d <= today, today \notin Range(keys)
  PROVE  DailyFits(DailyWith(keys, today, TRUE), days \cup {today})
  <1> DEFINE n == Len(keys)
             appended == Append(keys, today)
             excess == n + 1 - MAX_DAILY_HISTORY
             more == days \cup {today}
  <1>1. n \in Nat /\ n <= MAX_DAILY_HISTORY /\ MAX_DAILY_HISTORY \in Nat /\ MAX_DAILY_HISTORY >= 1
    BY CareerAssumption DEF DailyFits
  <1>2. \A i \in 1 .. n : keys[i] \in days /\ keys[i] < today
    <2>1. \A i \in 1 .. n : keys[i] # today /\ keys[i] \in Nat
      BY DEF Range
    <2>2. \A i \in 1 .. n : keys[i] \in days /\ keys[i] <= today
      BY DEF DailyFits
    <2> QED
      BY <2>1, <2>2
  <1>3. /\ \A i, j \in 1 .. n : i < j => keys[i] < keys[j]
        /\ \A d \in days : \/ \E i \in 1 .. n : d = keys[i]
                           \/ n = MAX_DAILY_HISTORY /\ d < keys[1]
    BY DEF DailyFits
  <1>4. /\ appended \in Seq(Nat) /\ Len(appended) = n + 1 /\ appended[n + 1] = today
        /\ \A i \in 1 .. n : appended[i] = keys[i] /\ appended[i] \in Nat
    OBVIOUS
  <1>5. /\ n < MAX_DAILY_HISTORY => DailyWith(keys, today, TRUE) = appended
        /\ n = MAX_DAILY_HISTORY =>
             DailyWith(keys, today, TRUE) = SubSeq(appended, 2, n + 1)
    <2>1. DailyWith(keys, today, TRUE)
            = IF Len(appended) - MAX_DAILY_HISTORY > 0
                THEN SubSeq(appended, Len(appended) - MAX_DAILY_HISTORY + 1, Len(appended))
                ELSE appended
      BY Zenon DEF DailyWith
    <2> HIDE DEF appended, n
    <2>2. n < MAX_DAILY_HISTORY => ~(Len(appended) - MAX_DAILY_HISTORY > 0)
      BY <1>1, <1>4
    <2>3. n = MAX_DAILY_HISTORY => /\ Len(appended) - MAX_DAILY_HISTORY > 0
                                   /\ Len(appended) - MAX_DAILY_HISTORY + 1 = 2
                                   /\ Len(appended) = n + 1
      BY <1>1, <1>4
    <2> QED
      BY <2>1, <2>2, <2>3, Zenon
  <1> HIDE DEF appended, n
  <1>6. CASE n < MAX_DAILY_HISTORY
    <2>1. DailyWith(keys, today, TRUE) = appended
      BY <1>5, <1>6, Zenon
    <2>2. \A i \in 1 .. (n + 1) : appended[i] \in more
      BY <1>1, <1>2, <1>4
    <2>3. ASSUME NEW i \in 1 .. (n + 1), NEW j \in 1 .. (n + 1), i < j
          PROVE  appended[i] < appended[j]
      <3>1. i \in 1 .. n /\ appended[i] = keys[i]
        BY <1>1, <1>4, <2>3
      <3>2. CASE j = n + 1
        BY <1>2, <1>4, <3>1, <3>2
      <3>3. CASE j \in 1 .. n
        BY <1>3, <1>4, <2>3, <3>1, <3>3
      <3> QED
        BY <1>1, <3>2, <3>3
    <2>4. ASSUME NEW d \in more
          PROVE  \E i \in 1 .. (n + 1) : d = appended[i]
      <3>1. CASE d = today
        BY <1>1, <1>4, <3>1
      <3>2. CASE d \in days
        <4>1. PICK i \in 1 .. n : d = keys[i]
          BY <1>1, <1>3, <1>6, <3>2
        <4> QED
          BY <1>1, <1>4, <4>1
      <3> QED
        BY <3>1, <3>2
    <2> QED
      <3>1. Len(appended) <= MAX_DAILY_HISTORY
        BY <1>1, <1>4, <1>6
      <3>2. DailyFits(appended, more)
        <4> HIDE DEF more
        <4> QED
          BY <1>4, <2>2, <2>3, <2>4, <3>1 DEF DailyFits
      <3> QED
        BY <2>1, <3>2, Zenon
  <1>7. CASE n = MAX_DAILY_HISTORY
    <2> DEFINE last == SubSeq(appended, 2, n + 1)
    <2>1. DailyWith(keys, today, TRUE) = last
      BY <1>5, <1>7, Zenon
    <2>2. /\ last \in Seq(Nat) /\ Len(last) = n
          /\ \A i \in 1 .. n : last[i] = appended[i + 1]
      <3>1. last = [i \in 1 .. n |-> appended[i + 1]]
        <4>1. n + 1 - 2 + 1 = n /\ \A i \in 1 .. n : 2 + i - 1 = i + 1
          BY <1>1
        <4>2. last = [i \in 1 .. (n + 1 - 2 + 1) |-> appended[2 + i - 1]]
          BY <1>1, <1>4, SMTT(20)
        <4> QED
          BY <4>1, <4>2
      <3>2. \A i \in 1 .. n : appended[i + 1] \in Nat
        BY <1>1, <1>4
      <3> HIDE DEF last
      <3> QED
        BY <1>1, <3>1, <3>2
    <2> HIDE DEF last
    <2>3. /\ last[n] = today
          /\ \A i \in 1 .. n : i < n => last[i] = keys[i + 1] /\ i + 1 \in 1 .. n
      <3>1. n \in 1 .. n /\ appended[n + 1] = today
        BY <1>1, <1>4, <1>7
      <3>2. ASSUME NEW i \in 1 .. n, i < n
            PROVE  last[i] = keys[i + 1] /\ i + 1 \in 1 .. n
        <4>1. i + 1 \in 1 .. n
          BY <1>1, <3>2
        <4> QED
          BY <1>4, <2>2, <4>1
      <3> QED
        BY <2>2, <3>1, <3>2
    <2>4. \A i \in 1 .. n : last[i] \in more
      BY <1>1, <1>2, <2>3
    <2>5. ASSUME NEW i \in 1 .. n, NEW j \in 1 .. n, i < j
          PROVE  last[i] < last[j]
      <3>1. CASE j = n
        BY <1>1, <1>2, <2>3, <2>5, <3>1
      <3>2. CASE j < n
        BY <1>1, <1>3, <2>3, <2>5, <3>2
      <3> QED
        BY <1>1, <3>1, <3>2
    <2>6. 1 \in 1 .. n /\ n \in 1 .. n
      BY <1>1, <1>7
    <2>7. ASSUME NEW d \in more
          PROVE  \/ \E i \in 1 .. n : d = last[i]
                 \/ n = MAX_DAILY_HISTORY /\ d < last[1]
      <3>1. CASE d = today
        BY <2>3, <2>6, <3>1
      <3>2. CASE d \in days /\ \E i \in 1 .. n : d = keys[i]
        <4>1. PICK i \in 1 .. n : d = keys[i]
          BY <3>2
        <4>2. CASE i = 1
          <5>1. keys[1] < last[1]
            BY <1>1, <1>2, <1>3, <2>3, <2>6
          <5> QED
            BY <1>7, <4>1, <4>2, <5>1
        <4>3. CASE i # 1
          <5>1. i - 1 \in 1 .. n /\ i - 1 < n /\ i - 1 + 1 = i
            BY <1>1, <4>3
          <5>2. last[i - 1] = keys[i]
            BY <2>3, <5>1
          <5> QED
            BY <4>1, <5>1, <5>2
        <4> QED
          BY <4>2, <4>3
      <3>3. CASE d \in days /\ d < keys[1]
        <4>1. keys[1] < last[1] /\ keys[1] \in Nat /\ last[1] \in Nat /\ d \in Nat
          <5>1. keys[1] < last[1]
            BY <1>1, <1>2, <1>3, <2>3, <2>6
          <5>2. \A x \in days : x \in Nat
            OBVIOUS
          <5>3. keys[1] \in days /\ d \in days
            BY <1>2, <2>6, <3>3
          <5>4. last[1] \in Nat
            BY <2>2, <2>6
          <5> QED
            BY <5>1, <5>2, <5>3, <5>4, Zenon
        <4> QED
          BY <1>7, <3>3, <4>1
      <3> QED
        BY <1>3, <3>1, <3>2, <3>3
    <2> QED
      <3>1. DailyFits(last, more)
        <4> HIDE DEF more
        <4> QED
          BY <1>1, <1>7, <2>2, <2>4, <2>5, <2>7 DEF DailyFits
      <3> QED
        BY <2>1, <3>1, Zenon
  <1>8. n < MAX_DAILY_HISTORY \/ n = MAX_DAILY_HISTORY
    BY <1>1
  <1> QED
    BY <1>6, <1>7, <1>8, Zenon

(* Whatever mission is recorded, the daily keys still fit.                 *)
LEMMA DailyKept ==
  ASSUME NEW keys \in Seq(Nat), NEW days \in SUBSET Nat, DailyFits(keys, days),
         NEW today \in Nat, \A d \in days : d <= today, NEW isDaily \in BOOLEAN
  PROVE  DailyFits(DailyWith(keys, today, isDaily),
                   days \cup (IF isDaily THEN {today} ELSE {}))
  <1>1. CASE ~isDaily
    BY <1>1 DEF DailyWith
  <1>2. CASE isDaily /\ today \in Range(keys)
    <2>1. DailyWith(keys, today, isDaily) = keys
      BY <1>2 DEF DailyWith
    <2> QED
      BY <1>2, <2>1, DailyStays
  <1>3. CASE isDaily /\ today \notin Range(keys)
    <2>1. isDaily = TRUE
      BY <1>3
    <2> QED
      BY <1>3, <2>1, DailyGoesOn
  <1> QED
    BY <1>1, <1>2, <1>3

-----------------------------------------------------------------------------
(* Personal bests                                                          *)

(* The best of a scenario and side is that of a dated mission, and none is *)
(* better; beats counts the missions that surpassed all before them.       *)
BestsFit(bests, beats, log) ==
  /\ DOMAIN bests = {Key(log[i].run) : i \in Dated(log)}
  /\ \A k \in DOMAIN bests :
       /\ bests[k] \in Nat
       /\ \E i \in Dated(log) : Key(log[i].run) = k /\ log[i].run.xp = bests[k]
  /\ \A i \in Dated(log) : log[i].run.xp <= bests[Key(log[i].run)]
  /\ IsFiniteSet(Surpassing(log)) /\ beats = Cardinality(Surpassing(log))

(* The earlier missions of the same scenario and side.                     *)
Rivals(log, i) == {j \in Dated(log) : j < i /\ Key(log[j].run) = Key(log[i].run)}

(* One more mission leaves the earlier ones their rivals.                  *)
LEMMA RivalsStay ==
  ASSUME NEW old \in Beginnings, NEW log, LogFrom(old, log), NEW e \in NewEntries,
         NEW i \in Dated(log)
  PROVE  Surpasses(Append(log, e), i) <=> Surpasses(log, i)
  <1> DEFINE more == Append(log, e)
             l == Len(log)
  <1>1. /\ more[l + 1] = e /\ \A j \in 1 .. l : more[j] = log[j]
        /\ Dated(more) = Dated(log) \cup {l + 1} /\ Dated(log) \subseteq 1 .. l
    BY LogGrows
  <1>2. l \in Nat
    BY LogParts
  <1> HIDE DEF more, l
  <1>3. \A j \in Dated(log) : more[j] = log[j]
    BY <1>1
  <1>4. \A j \in Dated(more) : j < i => j \in Dated(log)
    BY <1>1, <1>2
  <1>5. Rivals(more, i) = Rivals(log, i)
    BY <1>1, <1>3, <1>4 DEF Rivals
  <1>6. Rivals(log, i) \subseteq Dated(log)
    BY DEF Rivals
  <1>7. Surpasses(log, i) <=>
          Rivals(log, i) # {} /\ \A j \in Rivals(log, i) : log[j].run.xp < log[i].run.xp
    BY Zenon DEF Surpasses, Rivals
  <1>8. Surpasses(more, i) <=>
          Rivals(more, i) # {} /\ \A j \in Rivals(more, i) : more[j].run.xp < more[i].run.xp
    BY Zenon DEF Surpasses, Rivals
  <1>9. (\A j \in Rivals(log, i) : more[j].run.xp < more[i].run.xp)
          <=> \A j \in Rivals(log, i) : log[j].run.xp < log[i].run.xp
    BY <1>3, <1>6
  <1> QED
    BY <1>5, <1>7, <1>8, <1>9, Zenon DEF more

(* The new mission surpasses the others exactly when it beats the best.    *)
LEMMA NewSurpasses ==
  ASSUME NEW old \in Beginnings, NEW log, LogFrom(old, log), NEW e \in NewEntries,
         NEW bests, NEW beats, BestsFit(bests, beats, log)
  PROVE  Surpasses(Append(log, e), Len(log) + 1)
           <=> Key(e.run) \in DOMAIN bests /\ e.run.xp > bests[Key(e.run)]
  <1> DEFINE more == Append(log, e)
             l == Len(log)
             n == l + 1
             key == Key(e.run)
             R == {j \in Dated(log) : Key(log[j].run) = key}
  <1>1. /\ more[n] = e /\ \A j \in 1 .. l : more[j] = log[j]
        /\ Dated(more) = Dated(log) \cup {n} /\ Dated(log) \subseteq 1 .. l
    BY LogGrows
  <1>2. /\ l \in Nat /\ e.run.xp \in Nat
        /\ \A j \in Dated(log) : log[j].run.xp \in Nat
    BY LogParts, EntryFields
  <1> HIDE DEF more, l, key
  <1>3. \A j \in Dated(log) : more[j] = log[j] /\ j < n
    BY <1>1, <1>2
  <1>4. ~(n < n)
    BY <1>2
  <1> HIDE DEF n
  <1>5. Rivals(more, n) = R
    BY <1>1, <1>3, <1>4 DEF Rivals, key
  <1>6. Surpasses(more, n) <=>
          Rivals(more, n) # {} /\ \A j \in Rivals(more, n) : more[j].run.xp < more[n].run.xp
    BY Zenon DEF Surpasses, Rivals
  <1>7. Surpasses(more, n) <=> R # {} /\ \A j \in R : log[j].run.xp < e.run.xp
    BY <1>1, <1>3, <1>5, <1>6
  <1>8. R # {} <=> key \in DOMAIN bests
    BY DEF BestsFit
  <1>9. ASSUME key \in DOMAIN bests
        PROVE  (\A j \in R : log[j].run.xp < e.run.xp) <=> e.run.xp > bests[key]
    <2>1. PICK b \in Dated(log) : Key(log[b].run) = key /\ log[b].run.xp = bests[key]
      BY <1>9 DEF BestsFit
    <2>2. bests[key] \in Nat /\ \A j \in R : log[j].run.xp <= bests[key]
      BY <1>9 DEF BestsFit
    <2>3. ASSUME \A j \in R : log[j].run.xp < e.run.xp
          PROVE  e.run.xp > bests[key]
      BY <1>2, <2>1, <2>2, <2>3
    <2>4. ASSUME e.run.xp > bests[key], NEW j \in R
          PROVE  log[j].run.xp < e.run.xp
      BY <1>2, <2>2, <2>4
    <2> QED
      BY <2>3, <2>4
  <1> HIDE DEF R
  <1>10. Surpasses(more, n) <=> key \in DOMAIN bests /\ e.run.xp > bests[key]
    BY <1>7, <1>8, <1>9
  <1> QED
    BY <1>10 DEF more, n, l, key

(* Whatever mission is recorded, bests and beats still fit.                *)
LEMMA BestsKept ==
  ASSUME NEW old \in Beginnings, NEW log, LogFrom(old, log), NEW e \in NewEntries,
         NEW p, BestsFit(p.bests, p.beats, log)
  PROVE  BestsFit(BestsWith(p, e.run).bests, BestsWith(p, e.run).beats, Append(log, e))
  <1> DEFINE more == Append(log, e)
             l == Len(log)
             n == l + 1
             m == e.run
             key == Key(m)
             known == key \in DOMAIN p.bests
             newPb == ~known \/ m.xp > p.bests[key]
             bests == IF newPb THEN Improved(p.bests, m) ELSE p.bests
             beats == IF known /\ newPb THEN p.beats + 1 ELSE p.beats
  <1>1. BestsWith(p, m) = [bests |-> bests, beats |-> beats]
    BY Zenon DEF BestsWith
  <1>2. BestsWith(p, m).bests = bests /\ BestsWith(p, m).beats = beats
    <2> HIDE DEF bests, beats
    <2> QED
      BY <1>1
  <1>3. /\ more[n] = e /\ \A j \in 1 .. l : more[j] = log[j]
        /\ Dated(more) = Dated(log) \cup {n} /\ Dated(log) \subseteq 1 .. l
    BY LogGrows
  <1>4. /\ l \in Nat /\ m.xp \in Nat
        /\ \A j \in Dated(log) : log[j].run.xp \in Nat
    BY LogParts, EntryFields
  <1>5. Surpasses(more, n) <=> known /\ newPb
    BY NewSurpasses
  <1>6. \A i \in Dated(log) : Surpasses(more, i) <=> Surpasses(log, i)
    BY RivalsStay
  <1> HIDE DEF more, l
  <1>7. \A j \in Dated(log) : more[j] = log[j]
    BY <1>3
  <1>8. n \notin Dated(log)
    BY <1>3, <1>4
  <1> HIDE DEF n, m
  <1>9. IsFiniteSet(Surpassing(more)) /\ beats = Cardinality(Surpassing(more))
    <2> DEFINE S == Surpassing(log)
    <2>1. IsFiniteSet(S) /\ p.beats = Cardinality(S) /\ n \notin S
      BY <1>8 DEF BestsFit, Surpassing
    <2>2. Surpassing(more) = IF known /\ newPb THEN S \cup {n} ELSE S
      BY <1>3, <1>5, <1>6 DEF Surpassing
    <2> HIDE DEF S, known, newPb
    <2>3. IsFiniteSet(S \cup {n}) /\ Cardinality(S \cup {n}) = Cardinality(S) + 1
      BY <2>1, FS_AddElement
    <2> QED
      BY <2>1, <2>2, <2>3
  <1>10. DOMAIN bests = {Key(more[i].run) : i \in Dated(more)}
    <2>1. {Key(more[i].run) : i \in Dated(more)} = DOMAIN p.bests \cup {key}
      BY <1>3, <1>7 DEF BestsFit, m
    <2>2. DOMAIN Improved(p.bests, m) = DOMAIN p.bests \cup {key}
      BY DEF Improved
    <2> QED
      BY <2>1, <2>2
  <1>11. \A k \in DOMAIN p.bests : p.bests[k] \in Nat
    BY DEF BestsFit
  <1>12. CASE newPb
    <2>1. /\ bests[key] = m.xp
          /\ \A k \in DOMAIN p.bests : k # key => bests[k] = p.bests[k]
          /\ DOMAIN bests = DOMAIN p.bests \cup {key}
      BY <1>12 DEF Improved
    <2> HIDE DEF bests, key
    <2>2. ASSUME NEW k \in DOMAIN bests
          PROVE  /\ bests[k] \in Nat
                 /\ \E i \in Dated(more) : Key(more[i].run) = k /\ more[i].run.xp = bests[k]
      <3>1. CASE k = key
        BY <1>3, <1>4, <2>1, <3>1 DEF key, m
      <3>2. CASE k # key
        <4>1. k \in DOMAIN p.bests /\ bests[k] = p.bests[k]
          BY <2>1, <3>2
        <4>2. PICK i \in Dated(log) : Key(log[i].run) = k /\ log[i].run.xp = p.bests[k]
          BY <4>1 DEF BestsFit
        <4> QED
          BY <1>3, <1>7, <1>11, <4>1, <4>2
      <3> QED
        BY <3>1, <3>2
    <2>3. ASSUME NEW i \in Dated(more)
          PROVE  more[i].run.xp <= bests[Key(more[i].run)]
      <3>1. CASE i = n
        BY <1>3, <1>4, <2>1, <3>1 DEF key, m
      <3>2. CASE i \in Dated(log)
        <4>1. /\ more[i] = log[i] /\ log[i].run.xp <= p.bests[Key(log[i].run)]
              /\ Key(log[i].run) \in DOMAIN p.bests
          BY <1>7, <3>2 DEF BestsFit
        <4>2. CASE Key(log[i].run) = key
          <5>1. m.xp > p.bests[key] /\ p.bests[key] \in Nat
            BY <1>11, <1>12, <4>1, <4>2
          <5> QED
            BY <1>4, <2>1, <3>2, <4>1, <4>2, <5>1
        <4>3. CASE Key(log[i].run) # key
          BY <2>1, <4>1, <4>3
        <4> QED
          BY <4>2, <4>3
      <3> QED
        BY <1>3, <3>1, <3>2
    <2> HIDE DEF beats
    <2>4. BestsFit(bests, beats, more)
      BY <1>9, <1>10, <2>2, <2>3 DEF BestsFit
    <2> QED
      BY <1>2, <2>4, Zenon DEF more, m
  <1>13. CASE ~newPb
    <2>1. bests = p.bests /\ key \in DOMAIN p.bests /\ m.xp <= p.bests[key]
      BY <1>4, <1>11, <1>13
    <2> HIDE DEF bests, key
    <2>2. ASSUME NEW k \in DOMAIN bests
          PROVE  /\ bests[k] \in Nat
                 /\ \E i \in Dated(more) : Key(more[i].run) = k /\ more[i].run.xp = bests[k]
      <3>1. PICK i \in Dated(log) : Key(log[i].run) = k /\ log[i].run.xp = p.bests[k]
        BY <2>1 DEF BestsFit
      <3> QED
        BY <1>3, <1>7, <1>11, <2>1, <3>1
    <2>3. ASSUME NEW i \in Dated(more)
          PROVE  more[i].run.xp <= bests[Key(more[i].run)]
      <3>1. CASE i = n
        BY <1>3, <2>1, <3>1 DEF key, m
      <3>2. CASE i \in Dated(log)
        BY <1>7, <2>1, <3>2 DEF BestsFit
      <3> QED
        BY <1>3, <3>1, <3>2
    <2> HIDE DEF beats
    <2>4. BestsFit(bests, beats, more)
      BY <1>9, <1>10, <2>2, <2>3 DEF BestsFit
    <2> QED
      BY <1>2, <2>4, Zenon DEF more, m
  <1> QED
    BY <1>12, <1>13 DEF m

(* Bests that fit are the maxima of their scenarios and sides.             *)
LEMMA BestsShown ==
  ASSUME NEW old \in Beginnings, NEW log, LogFrom(old, log),
         NEW bests, NEW beats, BestsFit(bests, beats, log), NEW k \in DOMAIN bests
  PROVE  bests[k] = Max({log[i].run.xp : i \in {j \in Dated(log) : Key(log[j].run) = k}})
  <1> DEFINE S == {log[i].run.xp : i \in {j \in Dated(log) : Key(log[j].run) = k}}
  <1>1. bests[k] \in S
    BY DEF BestsFit
  <1>2. \A x \in S : x <= bests[k]
    BY DEF BestsFit
  <1>3. \A i \in Dated(log) : log[i].run.xp \in Nat
    BY LogParts, EntryFields
  <1>4. S \in SUBSET Int
    BY <1>3
  <1> HIDE DEF S
  <1>5. Max(S) = bests[k]
    BY <1>1, <1>2, <1>4, MaxIs
  <1> QED
    BY <1>5 DEF S

-----------------------------------------------------------------------------
(* Achievements                                                            *)

(* What a career shows of each achievement.                                *)
LEMMA AchievementsEarned ==
  ASSUME NEW p
  PROVE  LET ids == EarnedAchievementIds(p)
         IN  /\ \A id \in DOMAIN TrainingOps : id \in ids <=> OpIsComplete(id, p.missions)
             /\ \A id \in DOMAIN XpMarks : id \in ids <=> p.totalXp >= XpMarks[id]
             /\ \A id \in DOMAIN StreakMarks : id \in ids <=> p.streak.best >= StreakMarks[id]
             /\ "daily-driver" \in ids <=> p.daily # <<>>
             /\ "apt-hunter" \in ids <=> \E m \in Range(p.missions) : m.scenario = "scn-corr-006"
             /\ "new-best" \in ids <=> p.beats >= 1
             /\ ids \subseteq AchievementIds
  <1> DEFINE runs   == Range(p.missions)
             sides  == {Key(m) : m \in runs}
             worlds == {m.scenario : m \in runs}
             apt    == IF "scn-corr-006" \in worlds THEN {"apt-hunter"} ELSE {}
             xp     == {id \in DOMAIN XpMarks : p.totalXp >= XpMarks[id]}
             ops    == {id \in DOMAIN TrainingOps : OpIsComplete(id, p.missions)}
             daily  == IF p.daily # <<>> THEN {"daily-driver"} ELSE {}
             streak == {id \in DOMAIN StreakMarks : p.streak.best >= StreakMarks[id]}
             best   == IF p.beats >= 1 THEN {"new-best"} ELSE {}
             firsts == {"first-mission", "red-recon", "blue-recon", "flawless",
                        "operator-tier", "dual-perspective", "full-library"}
  <1>1. \E some \in SUBSET firsts :
          EarnedAchievementIds(p)
            = some \cup apt \cup xp \cup ops \cup daily \cup streak \cup best
    <2> DEFINE b1 == IF runs # {} THEN {"first-mission"} ELSE {}
               b2 == IF \E m \in runs : m.side = "red" THEN {"red-recon"} ELSE {}
               b3 == IF \E m \in runs : m.side = "blue" THEN {"blue-recon"} ELSE {}
               b4 == IF \E m \in runs : m.flawless THEN {"flawless"} ELSE {}
               b5 == IF \E m \in runs : m.difficulty = "operator" THEN {"operator-tier"} ELSE {}
               b6 == IF \E w \in worlds : {<<w, "red">>, <<w, "blue">>} \subseteq sides
                       THEN {"dual-perspective"} ELSE {}
               b7 == IF Cardinality(worlds) >= LIBRARY_SIZE THEN {"full-library"} ELSE {}
    <2>1. EarnedAchievementIds(p)
            = b1 \cup b2 \cup b3 \cup b4 \cup b5 \cup b6 \cup b7
              \cup apt \cup xp \cup ops \cup daily \cup streak \cup best
      BY Zenon DEF EarnedAchievementIds, CompletedOpIds
    <2>2. /\ b1 \subseteq {"first-mission"} /\ b2 \subseteq {"red-recon"}
          /\ b3 \subseteq {"blue-recon"} /\ b4 \subseteq {"flawless"}
          /\ b5 \subseteq {"operator-tier"} /\ b6 \subseteq {"dual-perspective"}
          /\ b7 \subseteq {"full-library"}
      BY Zenon
    <2> HIDE DEF b1, b2, b3, b4, b5, b6, b7
    <2> DEFINE some == b1 \cup b2 \cup b3 \cup b4 \cup b5 \cup b6 \cup b7
    <2>3. some \in SUBSET firsts
      BY <2>2
    <2> QED
      BY <2>1, <2>3
  <1>2. PICK some \in SUBSET firsts :
          EarnedAchievementIds(p)
            = some \cup apt \cup xp \cup ops \cup daily \cup streak \cup best
    BY <1>1
  <1>3. "scn-corr-006" \in worlds <=> \E m \in Range(p.missions) : m.scenario = "scn-corr-006"
    BY Zenon
  <1>4. DOMAIN TrainingOps = {"nightshade", "firestarter", "gridlock"}
    BY DEF TrainingOps
  <1>5. /\ DOMAIN XpMarks \cap DOMAIN StreakMarks = {}
        /\ \A id \in DOMAIN XpMarks \cup DOMAIN StreakMarks : id \notin OtherIds
    BY MarksAssumption
  <1>6. /\ firsts \subseteq OtherIds /\ DOMAIN TrainingOps \subseteq OtherIds
        /\ {"apt-hunter", "daily-driver", "new-best"} \subseteq OtherIds
    BY DEF OtherIds
  <1> HIDE DEF worlds
  <1>7. /\ apt \subseteq {"apt-hunter"} /\ daily \subseteq {"daily-driver"}
        /\ best \subseteq {"new-best"} /\ xp \subseteq DOMAIN XpMarks
        /\ ops \subseteq DOMAIN TrainingOps /\ streak \subseteq DOMAIN StreakMarks
    OBVIOUS
  <1>8. /\ "apt-hunter" \in apt <=> "scn-corr-006" \in worlds
        /\ "daily-driver" \in daily <=> p.daily # <<>>
        /\ "new-best" \in best <=> p.beats >= 1
        /\ \A id \in DOMAIN TrainingOps : id \in ops <=> OpIsComplete(id, p.missions)
        /\ \A id \in DOMAIN XpMarks : id \in xp <=> p.totalXp >= XpMarks[id]
        /\ \A id \in DOMAIN StreakMarks : id \in streak <=> p.streak.best >= StreakMarks[id]
    OBVIOUS
  <1> HIDE DEF apt, daily, best, xp, ops, streak
  <1>9. \A id \in DOMAIN TrainingOps : id \in EarnedAchievementIds(p) <=> id \in ops
    BY <1>2, <1>4, <1>5, <1>6, <1>7
  <1>10. \A id \in DOMAIN XpMarks : id \in EarnedAchievementIds(p) <=> id \in xp
    BY <1>2, <1>5, <1>6, <1>7
  <1>11. \A id \in DOMAIN StreakMarks : id \in EarnedAchievementIds(p) <=> id \in streak
    BY <1>2, <1>5, <1>6, <1>7
  <1>12. /\ "daily-driver" \in EarnedAchievementIds(p) <=> "daily-driver" \in daily
         /\ "apt-hunter" \in EarnedAchievementIds(p) <=> "apt-hunter" \in apt
         /\ "new-best" \in EarnedAchievementIds(p) <=> "new-best" \in best
    BY <1>2, <1>4, <1>5, <1>6, <1>7
  <1>13. EarnedAchievementIds(p) \subseteq AchievementIds
    BY <1>2, <1>6, <1>7 DEF AchievementIds
  <1> QED
    BY <1>3, <1>8, <1>9, <1>10, <1>11, <1>12, <1>13

(* What it is to have earned each achievement.                             *)
LEMMA EarnedIs ==
  ASSUME NEW log
  PROVE  /\ \A id \in DOMAIN TrainingOps :
              Earned(id, log) <=> \E i \in Dated(log) : OpIsComplete(id, KeptAfter(log, i))
         /\ \A id \in DOMAIN XpMarks : Earned(id, log) <=> XpSum(log) >= XpMarks[id]
         /\ \A id \in DOMAIN StreakMarks :
              Earned(id, log) <=> LongestBlock(DaysPlayed(log)) >= StreakMarks[id]
         /\ Earned("daily-driver", log) <=> DailyDays(log) # {}
         /\ Earned("apt-hunter", log) <=>
              \E i \in Dated(log) :
                \E m \in Range(KeptAfter(log, i)) : m.scenario = "scn-corr-006"
         /\ Earned("new-best", log) <=> Surpassing(log) # {}
  <1>1. DOMAIN TrainingOps = {"nightshade", "firestarter", "gridlock"}
    BY DEF TrainingOps
  <1>2. /\ DOMAIN XpMarks \cap DOMAIN StreakMarks = {}
        /\ \A id \in DOMAIN XpMarks \cup DOMAIN StreakMarks : id \notin OtherIds
    BY MarksAssumption
  <1>3. DOMAIN TrainingOps \cup {"apt-hunter", "daily-driver", "new-best"} \subseteq OtherIds
    BY DEF OtherIds
  <1>4. \A id \in DOMAIN TrainingOps :
          /\ id \notin DOMAIN XpMarks /\ id \notin DOMAIN StreakMarks
          /\ id \notin {"apt-hunter", "daily-driver", "new-best"}
    BY <1>1, <1>2, <1>3
  <1>5. \A id \in {"apt-hunter", "daily-driver", "new-best"} :
          id \notin DOMAIN XpMarks /\ id \notin DOMAIN StreakMarks /\ id \notin DOMAIN TrainingOps
    BY <1>1, <1>2, <1>3
  <1>6. \A id \in DOMAIN XpMarks :
          /\ id \notin DOMAIN TrainingOps /\ id \notin DOMAIN StreakMarks
          /\ id \notin {"apt-hunter", "daily-driver", "new-best"}
    BY <1>2, <1>3
  <1>7. \A id \in DOMAIN StreakMarks :
          /\ id \notin DOMAIN TrainingOps /\ id \notin DOMAIN XpMarks
          /\ id \notin {"apt-hunter", "daily-driver", "new-best"}
    BY <1>2, <1>3
  <1>8. \A id \in DOMAIN TrainingOps :
          Earned(id, log) <=> \E i \in Dated(log) : OpIsComplete(id, KeptAfter(log, i))
    BY <1>4 DEF Earned
  <1>9. \A id \in DOMAIN XpMarks : Earned(id, log) <=> XpSum(log) >= XpMarks[id]
    BY <1>6 DEF Earned
  <1>10. \A id \in DOMAIN StreakMarks :
           Earned(id, log) <=> LongestBlock(DaysPlayed(log)) >= StreakMarks[id]
    BY <1>7 DEF Earned
  <1>11. Earned("daily-driver", log) <=> DailyDays(log) # {}
    BY <1>5 DEF Earned
  <1>12. Earned("apt-hunter", log) <=>
           \E i \in Dated(log) :
             \E m \in Range(KeptAfter(log, i)) : m.scenario = "scn-corr-006"
    BY <1>5 DEF Earned
  <1>13. Earned("new-best", log) <=> Surpassing(log) # {}
    BY <1>5 DEF Earned
  <1> QED
    BY <1>8, <1>9, <1>10, <1>11, <1>12, <1>13

(* The missions in the history after mission i.                            *)
LastRuns(log, i) == {log[j].run : j \in {k \in 1 .. i : k > i - MAX_HISTORY}}

(* The history that was kept then holds just these.                        *)
LEMMA KeptIs ==
  ASSUME NEW old \in Beginnings, NEW log, LogFrom(old, log), NEW i \in DOMAIN log
  PROVE  Range(KeptAfter(log, i)) = LastRuns(log, i)
  <1> DEFINE first == Max({1, i + 1 - MAX_HISTORY})
             part  == SubSeq(log, first, i)
  <1>1. /\ log \in Seq(OldEntries \cup NewEntries) /\ Len(log) \in Nat
        /\ DOMAIN log = 1 .. Len(log) /\ i \in 1 .. Len(log)
    BY LogParts DEF LogFrom
  <1>2. MAX_HISTORY \in Nat /\ MAX_HISTORY >= 1
    BY CareerAssumption
  <1>3. first = IF i > MAX_HISTORY THEN i + 1 - MAX_HISTORY ELSE 1
    <2> DEFINE m == i + 1 - MAX_HISTORY
    <2>1. m \in Int /\ (i > MAX_HISTORY => 1 <= m) /\ (~(i > MAX_HISTORY) => m <= 1)
      BY <1>1, <1>2
    <2>2. first = Max({1, m})
      OBVIOUS
    <2> HIDE DEF m, first
    <2>3. {1, m} \in SUBSET Int
      BY <2>1
    <2>4. CASE i > MAX_HISTORY
      <3>1. \A x \in {1, m} : x <= m
        BY <2>4, <2>1
      <3>2. Max({1, m}) = m
        BY <2>3, <3>1, MaxIs
      <3> QED
        BY <2>4, <2>2, <3>2 DEF m
    <2>5. CASE ~(i > MAX_HISTORY)
      <3>1. \A x \in {1, m} : x <= 1
        BY <2>5, <2>1
      <3>2. Max({1, m}) = 1
        BY <2>3, <3>1, MaxIs
      <3> QED
        BY <2>5, <2>2, <3>2
    <2> QED
      BY <2>4, <2>5
  <1> HIDE DEF first
  <1>4. first \in Nat /\ first >= 1 /\ first <= i
    BY <1>1, <1>2, <1>3
  <1>5. \A k \in 1 .. i : k > i - MAX_HISTORY <=> k >= first
    BY <1>1, <1>2, <1>3
  <1>6. /\ part \in Seq(OldEntries \cup NewEntries) /\ Len(part) = i + 1 - first
        /\ \A k \in 1 .. (i + 1 - first) : part[k] = log[first + k - 1]
    BY <1>1, <1>4
  <1> HIDE DEF part
  <1>7. DOMAIN part = 1 .. (i + 1 - first)
    BY <1>6
  <1>8. KeptAfter(log, i) = [k \in 1 .. (i + 1 - first) |-> part[k].run]
    BY <1>7, Zenon DEF KeptAfter, Runs, part, first
  <1>9. Range(KeptAfter(log, i)) = {part[k].run : k \in 1 .. (i + 1 - first)}
    BY <1>8 DEF Range
  <1>10. ASSUME NEW k \in 1 .. (i + 1 - first)
         PROVE  part[k].run \in LastRuns(log, i)
    <2>1. /\ first + k - 1 \in {n \in 1 .. i : n > i - MAX_HISTORY}
          /\ part[k] = log[first + k - 1]
      BY <1>1, <1>4, <1>5, <1>6
    <2> QED
      BY <2>1 DEF LastRuns
  <1>11. ASSUME NEW n \in 1 .. i, n > i - MAX_HISTORY
         PROVE  \E k \in 1 .. (i + 1 - first) : log[n].run = part[k].run
    <2>1. n >= first
      BY <1>5, <1>11
    <2> DEFINE k == n + 1 - first
    <2>2. k \in 1 .. (i + 1 - first) /\ first + k - 1 = n
      BY <1>1, <1>4, <2>1
    <2> HIDE DEF k
    <2>3. part[k] = log[n]
      BY <1>6, <2>2
    <2> QED
      BY <2>2, <2>3
  <1> QED
    BY <1>9, <1>10, <1>11 DEF LastRuns

(* The history is what was kept after the last mission.                    *)
LEMMA HistoryKeeps ==
  ASSUME NEW old \in Beginnings, NEW log, LogFrom(old, log)
  PROVE  Range(HistoryOf(log)) = LastRuns(log, Len(log))
  <1> DEFINE l == Len(log)
             h == HistoryOf(log)
             n == IF l > MAX_HISTORY THEN MAX_HISTORY ELSE l
  <1>1. l \in Nat /\ MAX_HISTORY \in Nat /\ MAX_HISTORY >= 1
    BY LogParts, CareerAssumption
  <1>2. /\ h \in Seq(MissionRecords) /\ Len(h) = n
        /\ \A i \in 1 .. n : h[i] = log[l + 1 - i].run
    <2>1. h \in Seq(MissionRecords) /\ Len(h) = n
      BY HistoryIs
    <2>2. \A i \in 1 .. Len(h) : h[i] = log[l + 1 - i].run
      BY HistoryIs
    <2> QED
      BY <2>1, <2>2
  <1> HIDE DEF l, h
  <1>3. n \in Nat /\ n <= l /\ n <= MAX_HISTORY
    BY <1>1
  <1>4. Range(h) = {h[i] : i \in 1 .. n}
    BY <1>2 DEF Range
  <1>5. ASSUME NEW i \in 1 .. n
        PROVE  h[i] \in LastRuns(log, l)
    <2>1. l + 1 - i \in {k \in 1 .. l : k > l - MAX_HISTORY}
      BY <1>1, <1>3
    <2> QED
      BY <1>2, <2>1 DEF LastRuns
  <1>6. ASSUME NEW k \in 1 .. l, k > l - MAX_HISTORY
        PROVE  \E i \in 1 .. n : log[k].run = h[i]
    <2>1. l + 1 - k \in 1 .. n /\ l + 1 - (l + 1 - k) = k
      BY <1>1, <1>3, <1>6
    <2> QED
      BY <1>2, <2>1
  <1> QED
    BY <1>4, <1>5, <1>6 DEF LastRuns, l, h

(* An op asks only which missions there are, not in which order.           *)
LEMMA OpByMissions ==
  ASSUME NEW op, NEW s, NEW t, Range(s) = Range(t)
  PROVE  OpIsComplete(op, s) <=> OpIsComplete(op, t)
  <1>1. ASSUME NEW r
        PROVE  ClearedIn(op, r) = {k \in TrainingOps[op] : \E m \in Range(r) : Key(m) = k}
    BY DEF ClearedIn, Range
  <1>2. ClearedIn(op, s) = ClearedIn(op, t)
    BY <1>1
  <1> QED
    BY <1>2 DEF OpIsComplete

(* One more mission changes nothing of what was kept before it, and what   *)
(* is kept after it is the new history.                                    *)
LEMMA KeptStays ==
  ASSUME NEW old \in Beginnings, NEW log, LogFrom(old, log), NEW e \in NewEntries
  PROVE  LET more == Append(log, e)
         IN  /\ \A i \in Dated(log) : Range(KeptAfter(more, i)) = Range(KeptAfter(log, i))
             /\ Range(KeptAfter(more, Len(log) + 1)) = Range(HistoryOf(more))
  <1> DEFINE more == Append(log, e)
             l == Len(log)
  <1>1. /\ LogFrom(old, more) /\ Len(more) = l + 1 /\ Dated(log) \subseteq 1 .. l
        /\ \A i \in 1 .. l : more[i] = log[i]
    BY LogGrows
  <1>2. l \in Nat /\ DOMAIN log = 1 .. l /\ DOMAIN more = 1 .. (l + 1)
    BY <1>1, LogParts
  <1> HIDE DEF more
  <1>3. ASSUME NEW i \in Dated(log)
        PROVE  Range(KeptAfter(more, i)) = Range(KeptAfter(log, i))
    <2>1. i \in 1 .. l /\ i \in DOMAIN log /\ i \in DOMAIN more
      BY <1>1, <1>2
    <2>2. \A j \in 1 .. i : more[j].run = log[j].run
      BY <1>1, <1>2, <2>1
    <2>3. LastRuns(more, i) = LastRuns(log, i)
      BY <2>2 DEF LastRuns
    <2> QED
      BY <1>1, <2>1, <2>3, KeptIs
  <1>4. Range(KeptAfter(more, l + 1)) = Range(HistoryOf(more))
    <2>1. l + 1 \in DOMAIN more
      BY <1>2
    <2>2. Range(KeptAfter(more, l + 1)) = LastRuns(more, l + 1)
      BY <1>1, <2>1, KeptIs
    <2>3. Range(HistoryOf(more)) = LastRuns(more, l + 1)
      BY <1>1, HistoryKeeps
    <2> QED
      BY <2>2, <2>3
  <1> QED
    BY <1>3, <1>4 DEF more

(* The achievements that BadgesAreEarned speaks of.                        *)
Badges == {"daily-driver", "apt-hunter", "new-best"}
            \cup DOMAIN TrainingOps \cup DOMAIN XpMarks \cup DOMAIN StreakMarks

(* A daily key there is exactly when there was a daily run.                *)
LEMMA DailyShown ==
  ASSUME NEW days \in SUBSET Nat, NEW keys, DailyFits(keys, days)
  PROVE  keys # <<>> <=> days # {}
  <1>1. keys \in Seq(Nat) /\ Len(keys) \in Nat
    BY DEF DailyFits
  <1>2. ASSUME keys # <<>>
        PROVE  days # {}
    <2>1. 1 \in 1 .. Len(keys)
      BY <1>1, <1>2
    <2> QED
      BY <2>1 DEF DailyFits
  <1>3. ASSUME days # {}
        PROVE  Len(keys) >= 1
    <2>1. PICK d \in days : TRUE
      BY <1>3
    <2>2. MAX_DAILY_HISTORY \in Nat /\ MAX_DAILY_HISTORY >= 1
      BY CareerAssumption
    <2>3. CASE \E i \in 1 .. Len(keys) : d = keys[i]
      BY <1>1, <2>3
    <2>4. CASE Len(keys) = MAX_DAILY_HISTORY
      BY <2>2, <2>4
    <2> QED
      BY <2>1, <2>3, <2>4 DEF DailyFits
  <1>4. keys = <<>> => Len(keys) = 0
    OBVIOUS
  <1> QED
    BY <1>2, <1>3, <1>4

(* With one more mission, exactly those achievements are earned that were  *)
(* earned before or that the career now shows.                             *)
LEMMA EarnedGrows ==
  ASSUME NEW old \in Beginnings, NEW log, LogFrom(old, log), NEW e \in NewEntries,
         NEW streak, StreakFits(streak, DaysPlayed(log)), IsFiniteSet(DaysPlayed(log)),
         NEW next,
         HistoryFits(next, Append(log, e)),
         StreakFits(next.streak, DaysPlayed(Append(log, e))),
         streak.best <= next.streak.best,
         DailyFits(next.daily, DailyDays(Append(log, e))),
         NEW bests, BestsFit(bests, next.beats, Append(log, e)),
         NEW id \in Badges
  PROVE  Earned(id, Append(log, e))
           <=> id \in EarnedAchievementIds(next) \/ (Dated(log) # {} /\ Earned(id, log))
  <1> DEFINE more == Append(log, e)
             l == Len(log)
             ids == EarnedAchievementIds(next)
  <1>1. /\ LogFrom(old, more) /\ Dated(more) = Dated(log) \cup {l + 1}
        /\ \A i \in Dated(log) : Range(KeptAfter(more, i)) = Range(KeptAfter(log, i))
        /\ Range(KeptAfter(more, l + 1)) = Range(HistoryOf(more))
    BY LogGrows, KeptStays
  <1>2. next.totalXp = XpSum(more) /\ next.missions = HistoryOf(more)
    BY DEF HistoryFits
  <1>3. /\ DaysPlayed(more) = DaysPlayed(log) \cup {e.day}
        /\ DailyDays(log) \subseteq DailyDays(more)
        /\ DaysPlayed(more) \in SUBSET Nat /\ DaysPlayed(log) \in SUBSET Nat
        /\ DailyDays(more) \in SUBSET Nat
    <2>1. /\ DaysPlayed(more) = DaysPlayed(log) \cup {e.day}
          /\ DailyDays(more) = DailyDays(log) \cup (IF e.daily THEN {e.day} ELSE {})
          /\ DaysPlayed(more) \in SUBSET Nat /\ DaysPlayed(log) \in SUBSET Nat
          /\ DailyDays(log) \subseteq DaysPlayed(log)
      BY DaysGrow
    <2>2. e.day \in Nat
      BY EntryFields
    <2> HIDE DEF more
    <2> QED
      BY <2>1, <2>2
  <1>4. XpSum(log) \in Nat /\ XpSum(more) \in Nat /\ XpSum(log) <= XpSum(more)
    <2> DEFINE now == [totalXp |-> XpSum(log), missions |-> HistoryOf(log)]
    <2>1. HistoryFits(now, log) /\ now.totalXp = XpSum(log)
      BY DEF HistoryFits
    <2> HIDE DEF now
    <2>2. now.totalXp + e.run.xp = XpSum(more)
      BY <2>1, HistoryKept
    <2>3. e.run.xp \in Nat /\ XpSum(log) \in Nat
      BY EntryFields, HistoryIs
    <2> HIDE DEF more
    <2> QED
      BY <2>1, <2>2, <2>3
  <1>5. CASE id \in DOMAIN TrainingOps
    <2>1. \A i \in Dated(log) :
            OpIsComplete(id, KeptAfter(more, i)) <=> OpIsComplete(id, KeptAfter(log, i))
      BY <1>1, OpByMissions
    <2>2. OpIsComplete(id, KeptAfter(more, l + 1)) <=> OpIsComplete(id, next.missions)
      BY <1>1, <1>2, OpByMissions
    <2>3. id \in ids <=> OpIsComplete(id, next.missions)
      BY <1>5, AchievementsEarned
    <2>4. /\ Earned(id, log) <=> \E i \in Dated(log) : OpIsComplete(id, KeptAfter(log, i))
          /\ Earned(id, more) <=> \E i \in Dated(more) : OpIsComplete(id, KeptAfter(more, i))
      BY <1>5, EarnedIs
    <2> HIDE DEF more, l, ids
    <2>5. Earned(id, more) <=> id \in ids \/ (Dated(log) # {} /\ Earned(id, log))
      BY <1>1, <2>1, <2>2, <2>3, <2>4
    <2> QED
      BY <2>5 DEF more, ids
  <1>6. CASE id \in DOMAIN XpMarks
    <2>1. id \in ids <=> next.totalXp >= XpMarks[id]
      BY <1>6, AchievementsEarned
    <2>2. /\ Earned(id, log) <=> XpSum(log) >= XpMarks[id]
          /\ Earned(id, more) <=> XpSum(more) >= XpMarks[id]
      BY <1>6, EarnedIs
    <2>3. XpMarks[id] \in Nat
      BY <1>6, MarksAssumption
    <2> HIDE DEF more, ids
    <2>4. Earned(id, more) <=> id \in ids \/ (Dated(log) # {} /\ Earned(id, log))
      BY <1>2, <1>4, <2>1, <2>2, <2>3
    <2> QED
      BY <2>4 DEF more, ids
  <1>7. CASE id \in DOMAIN StreakMarks
    <2>1. id \in ids <=> next.streak.best >= StreakMarks[id]
      BY <1>7, AchievementsEarned
    <2>2. /\ Earned(id, log) <=> LongestBlock(DaysPlayed(log)) >= StreakMarks[id]
          /\ Earned(id, more) <=> LongestBlock(DaysPlayed(more)) >= StreakMarks[id]
      BY <1>7, EarnedIs
    <2>3. StreakMarks[id] \in Nat
      BY <1>7, MarksAssumption
    <2>4. IsFiniteSet(DaysPlayed(more))
      BY <1>3, FS_AddElement
    <2>5. /\ streak.best = LongestBlock(DaysPlayed(log))
          /\ next.streak.best = LongestBlock(DaysPlayed(more))
      BY <1>3, <2>4, StreakShown
    <2>6. streak.best \in Nat /\ next.streak.best \in Nat
      BY StreakFields DEF StreakFits
    <2>7. \A a, b, c \in Nat : a >= b /\ a <= c => c >= b
      OBVIOUS
    <2>8. streak.best >= StreakMarks[id] => next.streak.best >= StreakMarks[id]
      BY <2>3, <2>6, <2>7
    <2> HIDE DEF more, ids
    <2>9. Earned(id, more) <=> id \in ids \/ (Dated(log) # {} /\ Earned(id, log))
      BY <2>1, <2>2, <2>5, <2>8, Zenon
    <2> QED
      BY <2>9 DEF more, ids
  <1>8. CASE id = "daily-driver"
    <2>1. id \in ids <=> next.daily # <<>>
      BY <1>8, AchievementsEarned
    <2>2. /\ Earned(id, log) <=> DailyDays(log) # {}
          /\ Earned(id, more) <=> DailyDays(more) # {}
      BY <1>8, EarnedIs
    <2>3. next.daily # <<>> <=> DailyDays(more) # {}
      BY <1>3, DailyShown
    <2> HIDE DEF more, ids
    <2>4. Earned(id, more) <=> id \in ids \/ (Dated(log) # {} /\ Earned(id, log))
      BY <1>3, <2>1, <2>2, <2>3
    <2> QED
      BY <2>4 DEF more, ids
  <1>9. CASE id = "apt-hunter"
    <2>1. id \in ids <=> \E m \in Range(next.missions) : m.scenario = "scn-corr-006"
      BY <1>9, AchievementsEarned
    <2>2. /\ Earned(id, log) <=> \E i \in Dated(log) :
                \E m \in Range(KeptAfter(log, i)) : m.scenario = "scn-corr-006"
          /\ Earned(id, more) <=> \E i \in Dated(more) :
                \E m \in Range(KeptAfter(more, i)) : m.scenario = "scn-corr-006"
      BY <1>9, EarnedIs
    <2> HIDE DEF more, l, ids
    <2>3. Earned(id, more) <=> id \in ids \/ (Dated(log) # {} /\ Earned(id, log))
      BY <1>1, <1>2, <2>1, <2>2
    <2> QED
      BY <2>3 DEF more, ids
  <1>10. CASE id = "new-best"
    <2>1. id \in ids <=> next.beats >= 1
      BY <1>10, AchievementsEarned
    <2>2. /\ Earned(id, log) <=> Surpassing(log) # {}
          /\ Earned(id, more) <=> Surpassing(more) # {}
      BY <1>10, EarnedIs
    <2>3. next.beats >= 1 <=> Surpassing(more) # {}
      <3>1. IsFiniteSet(Surpassing(more)) /\ next.beats = Cardinality(Surpassing(more))
        BY DEF BestsFit
      <3>2. next.beats \in Nat /\ (next.beats = 0 <=> Surpassing(more) = {})
        BY <3>1, FS_CardinalityType, FS_EmptySet
      <3> QED
        BY <3>2
    <2>4. \A i \in Dated(log) : Surpasses(more, i) <=> Surpasses(log, i)
      BY RivalsStay
    <2> HIDE DEF more, ids
    <2>5. Surpassing(log) \subseteq Surpassing(more) /\ (Surpassing(log) # {} => Dated(log) # {})
      BY <1>1, <2>4 DEF Surpassing
    <2>6. Earned(id, more) <=> id \in ids \/ (Dated(log) # {} /\ Earned(id, log))
      BY <2>1, <2>2, <2>3, <2>5
    <2> QED
      BY <2>6 DEF more, ids
  <1> QED
    BY <1>5, <1>6, <1>7, <1>8, <1>9, <1>10 DEF Badges

(* An achievement is held when it was earned, or came with the old career. *)
BadgesFit(p, old, log) ==
  /\ p.achievements \in SUBSET AchievementIds
  /\ \A id \in Badges :
       /\ Dated(log) # {} /\ Earned(id, log) => id \in p.achievements
       /\ id \in p.achievements =>
            (Dated(log) # {} /\ Earned(id, log)) \/ id \in old.achievements

-----------------------------------------------------------------------------
(* News                                                                    *)

(* The place in RANKS of the rank of an XP.                                *)
RankNo(xp) ==
  IF xp >= 3000 THEN 6 ELSE IF xp >= 1500 THEN 5 ELSE IF xp >= 700 THEN 4
  ELSE IF xp >= 300 THEN 3 ELSE IF xp >= 100 THEN 2 ELSE 1

(* Ranks are told apart by their names, and more XP is no lower rank.      *)
LEMMA RankIs ==
  /\ \A xp \in Nat : RankNo(xp) \in 1 .. 6 /\ ComputeRank(xp) = RANKS[RankNo(xp)].id
  /\ \A x, y \in Nat : x <= y => RankNo(x) <= RankNo(y)
  /\ \A i, j \in 1 .. 6 : RANKS[i].id = RANKS[j].id => i = j
  /\ DOMAIN RANKS = 1 .. 6
  <1>1. /\ RANKS[1] = [id |-> "cadet", minXp |-> 0] /\ RANKS[2] = [id |-> "recruit", minXp |-> 100]
        /\ RANKS[3] = [id |-> "analyst", minXp |-> 300]
        /\ RANKS[4] = [id |-> "operator", minXp |-> 700]
        /\ RANKS[5] = [id |-> "commander", minXp |-> 1500]
        /\ RANKS[6] = [id |-> "legend", minXp |-> 3000]
        /\ DOMAIN RANKS = 1 .. 6
    BY DEF RANKS
  <1>2. /\ RANKS[1].minXp = 0 /\ RANKS[2].minXp = 100 /\ RANKS[3].minXp = 300
        /\ RANKS[4].minXp = 700 /\ RANKS[5].minXp = 1500 /\ RANKS[6].minXp = 3000
    BY <1>1
  <1>3. /\ RANKS[1].id = "cadet" /\ RANKS[2].id = "recruit" /\ RANKS[3].id = "analyst"
        /\ RANKS[4].id = "operator" /\ RANKS[5].id = "commander" /\ RANKS[6].id = "legend"
    BY <1>1
  <1>4. ASSUME NEW xp \in Nat
        PROVE  RankNo(xp) \in 1 .. 6 /\ ComputeRank(xp) = RANKS[RankNo(xp)].id
    <2> DEFINE S == {i \in DOMAIN RANKS : xp >= RANKS[i].minXp}
               r == RankNo(xp)
    <2>1. r \in 1 .. 6
      BY DEF RankNo
    <2>2. r \in S
      BY <1>1, <1>2 DEF RankNo
    <2>3. \A i \in S : i <= r
      BY <1>1, <1>2 DEF RankNo
    <2>4. S \in SUBSET Int
      BY <1>1
    <2>5. ComputeRank(xp) = RANKS[Max(S)].id
      BY Zenon DEF ComputeRank
    <2> HIDE DEF S, r
    <2>6. Max(S) = r
      BY <2>2, <2>3, <2>4, MaxIs
    <2> QED
      BY <2>1, <2>5, <2>6 DEF r
  <1>5. \A x, y \in Nat : x <= y => RankNo(x) <= RankNo(y)
    BY DEF RankNo
  <1>6. ASSUME NEW i \in 1 .. 6, NEW j \in 1 .. 6, RANKS[i].id = RANKS[j].id
        PROVE  i = j
    BY <1>3, <1>6
  <1> QED
    BY <1>1, <1>4, <1>5, <1>6

(* No badge is told twice, and each rank told is a higher one.             *)
Told(log) == {i \in Dated(log) : log[i].news.rank # {}}
NewsFit(p, old, log) ==
  /\ \A i \in Dated(log) : log[i].news.badges \subseteq p.achievements
  /\ \A i, j \in Dated(log) : i < j => log[i].news.badges \cap log[j].news.badges = {}
  /\ \A i \in Told(log) : \E r \in 1 .. RankNo(p.totalXp) : log[i].news.rank = {RANKS[r].id}
  /\ \A i, j \in Told(log) : i < j => log[i].news.rank # log[j].news.rank
  /\ Told(log) = {} => ComputeRank(p.totalXp) = ComputeRank(XpSum(LogOf(old)))
  /\ Told(log) # {} => \E i \in Told(log) : /\ \A j \in Told(log) : j <= i
                                            /\ log[i].news.rank = {ComputeRank(p.totalXp)}

(* The news of one more mission.                                           *)
LEMMA NewsKept ==
  ASSUME NEW old \in Beginnings, NEW log, LogFrom(old, log), NEW e \in NewEntries,
         NEW p, NewsFit(p, old, log), p.totalXp \in Nat,
         NEW next, next.totalXp \in Nat, p.totalXp <= next.totalXp,
         p.achievements \subseteq next.achievements, e.news = NewsOf(p, next)
  PROVE  NewsFit(next, old, Append(log, e))
  <1> DEFINE more == Append(log, e)
             n == Len(log) + 1
             b == RankNo(p.totalXp)
             a == RankNo(next.totalXp)
             before == ComputeRank(p.totalXp)
             after == ComputeRank(next.totalXp)
  <1>1. /\ more[n] = e /\ \A i \in 1 .. Len(log) : more[i] = log[i]
        /\ Dated(more) = Dated(log) \cup {n} /\ Dated(log) \subseteq 1 .. Len(log)
    BY LogGrows
  <1>2. \A i \in Dated(log) : i \in Nat /\ more[i] = log[i] /\ i < n
    <2>1. Len(log) \in Nat
      BY LogParts
    <2> HIDE DEF more
    <2> QED
      BY <1>1, <2>1
  <1>3. n \in Nat
    BY LogParts
  <1>4. /\ e.news.badges = next.achievements \ p.achievements
        /\ e.news.rank = {after} \ {before}
    BY DEF NewsOf
  <1>5. /\ a \in 1 .. 6 /\ b \in 1 .. 6 /\ b <= a
        /\ after = RANKS[a].id /\ before = RANKS[b].id
        /\ \A i, j \in 1 .. 6 : RANKS[i].id = RANKS[j].id => i = j
    BY RankIs
  <1> HIDE DEF more, n, a, b, before, after
  <1>6. Told(more) = IF after = before THEN Told(log) ELSE Told(log) \cup {n}
    BY <1>1, <1>2, <1>4 DEF Told
  <1>7. Told(log) \subseteq Dated(log)
    BY DEF Told
  <1>8. \A i \in Dated(more) : more[i].news.badges \subseteq next.achievements
    BY <1>1, <1>2, <1>4 DEF NewsFit
  <1>9. ASSUME NEW i \in Dated(more), NEW j \in Dated(more), i < j
        PROVE  more[i].news.badges \cap more[j].news.badges = {}
    <2>1. i \in Dated(log)
      BY <1>1, <1>2, <1>3, <1>9
    <2>2. CASE j = n
      BY <1>1, <1>2, <1>4, <2>1, <2>2 DEF NewsFit
    <2>3. CASE j \in Dated(log)
      BY <1>2, <1>9, <2>1, <2>3 DEF NewsFit
    <2> QED
      BY <1>1, <2>2, <2>3
  <1>10. ASSUME NEW i \in Told(log)
         PROVE  \E r \in 1 .. b : /\ more[i].news.rank = {RANKS[r].id}
                                /\ log[i].news.rank = {RANKS[r].id}
    BY <1>2, <1>7 DEF NewsFit, b
  <1>11. CASE after = before
    <2>1. a = b
      BY <1>5, <1>11
    <2>2. Told(more) = Told(log)
      BY <1>6, <1>11
    <2>3. \A i \in Told(more) : \E r \in 1 .. a : more[i].news.rank = {RANKS[r].id}
      BY <1>10, <2>1, <2>2
    <2>4. ASSUME NEW i \in Told(more), NEW j \in Told(more), i < j
          PROVE  more[i].news.rank # more[j].news.rank
      BY <1>2, <1>7, <2>2, <2>4 DEF NewsFit
    <2>5. Told(more) = {} => after = ComputeRank(XpSum(LogOf(old)))
      BY <1>11, <2>2 DEF NewsFit, before
    <2>6. Told(more) # {} => \E i \in Told(more) : /\ \A j \in Told(more) : j <= i
                                                   /\ more[i].news.rank = {after}
      BY <1>2, <1>7, <1>11, <2>2 DEF NewsFit, before
    <2> QED
      BY <1>8, <1>9, <2>3, <2>4, <2>5, <2>6 DEF NewsFit, more, a, after
  <1>12. CASE after # before
    <2>1. b < a
      BY <1>5, <1>12
    <2>2. /\ Told(more) = Told(log) \cup {n}
          /\ more[n].news.rank = {RANKS[a].id} /\ e.news.rank = {after}
      BY <1>1, <1>4, <1>5, <1>6, <1>12
    <2>3. ASSUME NEW i \in Told(more)
          PROVE  \E r \in 1 .. a : more[i].news.rank = {RANKS[r].id}
      <3>1. CASE i = n
        BY <1>5, <2>2, <3>1
      <3>2. CASE i \in Told(log)
        BY <1>5, <1>10, <2>1, <3>2
      <3> QED
        BY <2>2, <3>1, <3>2
    <2>4. ASSUME NEW i \in Told(more), NEW j \in Told(more), i < j
          PROVE  more[i].news.rank # more[j].news.rank
      <3>1. i \in Told(log)
        BY <1>2, <1>3, <1>7, <2>2, <2>4
      <3>2. CASE j = n
        <4>1. PICK r \in 1 .. b : more[i].news.rank = {RANKS[r].id}
          BY <1>10, <3>1
        <4>2. RANKS[r].id # RANKS[a].id
          BY <1>5, <2>1, <4>1
        <4> QED
          BY <2>2, <3>2, <4>1, <4>2
      <3>3. CASE j \in Told(log)
        BY <1>2, <1>7, <2>4, <3>1, <3>3 DEF NewsFit
      <3> QED
        BY <2>2, <3>2, <3>3
    <2>5. n \in Told(more) /\ (\A j \in Told(more) : j <= n) /\ more[n].news.rank = {after}
      BY <1>1, <1>2, <1>3, <1>7, <2>2
    <2> QED
      BY <1>8, <1>9, <2>3, <2>4, <2>5 DEF NewsFit, more, a, after
  <1> QED
    BY <1>11, <1>12 DEF more

-----------------------------------------------------------------------------
(* Careers                                                                 *)

(* A career is what its log makes it, up to today.                         *)
CareerFits(p, old, log, today) ==
  /\ IsCareer(p) /\ LogFrom(old, log)
  /\ IsFiniteSet(DaysPlayed(log)) /\ DaysPlayed(log) \in SUBSET Nat
  /\ \A d \in DaysPlayed(log) : d <= today
  /\ HistoryFits(p, log)
  /\ StreakFits(p.streak, DaysPlayed(log))
  /\ DailyFits(p.daily, DailyDays(log))
  /\ BestsFit(p.bests, p.beats, log)
  /\ BadgesFit(p, old, log)
  /\ NewsFit(p, old, log)

(* It stays so when a mission is recorded.                                 *)
LEMMA RecordKeeps ==
  ASSUME NEW p, NEW old \in Beginnings, NEW log, NEW today \in Nat,
         CareerFits(p, old, log, today),
         NEW m \in MissionRecords, NEW isDaily \in BOOLEAN
  PROVE  LET next == RecordMission(p, m, isDaily, today)
             e    == [run |-> m, day |-> today, daily |-> isDaily,
                      news |-> NewsOf(p, next)]
         IN  CareerFits(next, old, Append(log, e), today) /\ e \in NewEntries
  <1> DEFINE next == RecordMission(p, m, isDaily, today)
             e    == [run |-> m, day |-> today, daily |-> isDaily, news |-> NewsOf(p, next)]
             more == Append(log, e)
  <1>1. /\ IsCareer(p) /\ LogFrom(old, log)
        /\ IsFiniteSet(DaysPlayed(log)) /\ DaysPlayed(log) \in SUBSET Nat
        /\ \A d \in DaysPlayed(log) : d <= today
        /\ HistoryFits(p, log) /\ StreakFits(p.streak, DaysPlayed(log))
        /\ DailyFits(p.daily, DailyDays(log)) /\ BestsFit(p.bests, p.beats, log)
        /\ BadgesFit(p, old, log) /\ NewsFit(p, old, log)
    BY DEF CareerFits
  <1>2. /\ IsCareer(next)
        /\ next.totalXp = p.totalXp + m.xp
        /\ next.missions = Newest(m, p.missions)
        /\ next.bests = BestsWith(p, m).bests /\ next.beats = BestsWith(p, m).beats
        /\ next.streak = StreakOn(p.streak, today)
        /\ next.daily = DailyWith(p.daily, today, isDaily)
    <2> HIDE DEF next
    <2>1. next = RecordMission(p, m, isDaily, today)
      BY DEF next
    <2> QED
      BY <2>1, RecordFields
  <1>3. PICK interim :
          /\ next.achievements = p.achievements \cup EarnedAchievementIds(interim)
          /\ interim.totalXp = next.totalXp /\ interim.missions = next.missions
          /\ interim.beats = next.beats /\ interim.streak = next.streak
          /\ interim.daily = next.daily
    <2> HIDE DEF next
    <2>1. next = RecordMission(p, m, isDaily, today)
      BY DEF next
    <2> QED
      BY <2>1, RecordFields
  <1>4. next.achievements \in SUBSET AchievementIds
    BY <1>1, <1>3, AchievementsEarned DEF BadgesFit
  <1>5. /\ p.totalXp \in Nat /\ m.xp \in Nat /\ next.totalXp \in Nat
        /\ p.totalXp <= next.totalXp
    <2>1. p.totalXp \in Nat /\ m.xp \in Nat
      BY <1>1, HistoryIs, EntryFields DEF HistoryFits
    <2> HIDE DEF next
    <2> QED
      BY <1>2, <2>1
  <1>6. e \in NewEntries /\ e.run = m /\ e.day = today /\ e.daily = isDaily
        /\ e.news = NewsOf(p, next)
    <2>1. NewsOf(p, next) \in News
      <3> HIDE DEF next
      <3>1. next.achievements \ p.achievements \in SUBSET AchievementIds
        BY <1>4
      <3>2. {ComputeRank(next.totalXp)} \ {ComputeRank(p.totalXp)}
              \in SUBSET {RANKS[i].id : i \in DOMAIN RANKS}
        BY <1>5, RankIs
      <3> QED
        BY <3>1, <3>2 DEF NewsOf, News
    <2> HIDE DEF next
    <2> QED
      BY <2>1, EntryFields
  <1> HIDE DEF next, e
  <1>7. LogFrom(old, more)
    BY <1>1, <1>6, LogGrows
  <1>8. /\ DaysPlayed(more) = DaysPlayed(log) \cup {today}
        /\ DailyDays(more) = DailyDays(log) \cup (IF isDaily THEN {today} ELSE {})
        /\ DaysPlayed(more) \in SUBSET Nat
        /\ DailyDays(log) \subseteq DaysPlayed(log)
    BY <1>1, <1>6, DaysGrow
  <1>9. IsFiniteSet(DaysPlayed(more)) /\ \A d \in DaysPlayed(more) : d <= today
    <2>1. IsFiniteSet(DaysPlayed(more))
      BY <1>1, <1>8, FS_AddElement
    <2>2. today <= today
      OBVIOUS
    <2> HIDE DEF more
    <2>3. \A d \in DaysPlayed(log) \cup {today} : d <= today
      BY <1>1, <2>2
    <2> QED
      BY <1>8, <2>1, <2>3, Zenon
  <1>10. HistoryFits(next, more)
    BY <1>1, <1>2, <1>6, HistoryKept DEF HistoryFits
  <1>11. StreakFits(next.streak, DaysPlayed(more)) /\ p.streak.best <= next.streak.best
    <2>1. /\ StreakFits(StreakOn(p.streak, today), DaysPlayed(log) \cup {today})
          /\ p.streak.best <= StreakOn(p.streak, today).best
      BY <1>1, StreakKept
    <2> HIDE DEF more
    <2> QED
      BY <1>2, <1>8, <2>1, Zenon
  <1>12. DailyFits(next.daily, DailyDays(more))
    <2>1. p.daily \in Seq(Nat)
      BY <1>1 DEF DailyFits
    <2>2. DailyDays(log) \in SUBSET Nat /\ \A d \in DailyDays(log) : d <= today
      BY <1>1, <1>8
    <2> QED
      BY <1>1, <1>2, <1>8, <2>1, <2>2, DailyKept
  <1>13. BestsFit(next.bests, next.beats, more)
    BY <1>1, <1>2, <1>6, BestsKept
  <1> HIDE DEF more
  <1>14. BadgesFit(next, old, more)
    <2>1. Dated(more) # {}
      BY <1>1, <1>6, LogGrows DEF more
    <2>2. ASSUME NEW id \in Badges
          PROVE  Earned(id, more)
                   <=> id \in EarnedAchievementIds(interim) \/ (Dated(log) # {} /\ Earned(id, log))
      <3>1. /\ HistoryFits(interim, more) /\ StreakFits(interim.streak, DaysPlayed(more))
            /\ p.streak.best <= interim.streak.best
            /\ DailyFits(interim.daily, DailyDays(more))
            /\ BestsFit(next.bests, interim.beats, more)
        BY <1>3, <1>10, <1>11, <1>12, <1>13 DEF HistoryFits
      <3> QED
        BY <1>1, <1>6, <3>1, EarnedGrows DEF more
    <2>3. \A id \in Badges :
            /\ Dated(log) # {} /\ Earned(id, log) => id \in p.achievements
            /\ id \in p.achievements =>
                 (Dated(log) # {} /\ Earned(id, log)) \/ id \in old.achievements
      BY <1>1 DEF BadgesFit
    <2> QED
      BY <1>3, <1>4, <2>1, <2>2, <2>3 DEF BadgesFit
  <1>15. NewsFit(next, old, more)
    BY <1>1, <1>3, <1>5, <1>6, NewsKept DEF more
  <1>16. CareerFits(next, old, more, today)
    BY <1>2, <1>7, <1>8, <1>9, <1>10, <1>11, <1>12, <1>13, <1>14, <1>15 DEF CareerFits
  <1> QED
    BY <1>6, <1>16 DEF more, e, next

(* A career with which a log may begin.                                    *)
LEMMA BeginningFits ==
  ASSUME NEW old \in Beginnings, NEW today, NEW p, IsCareer(p),
         p.totalXp = XpSum(LogOf(old)), p.missions = HistoryOf(LogOf(old)),
         p.achievements = old.achievements, p.bests = << >>, p.beats = 0,
         p.streak = EMPTY_PROGRESS.streak, p.daily = <<>>
  PROVE  CareerFits(p, old, LogOf(old), today)
  <1> DEFINE log == LogOf(old)
             k == Len(old.runs)
  <1>1. /\ old.runs \in Seq(MissionRecords) /\ k \in Nat /\ DOMAIN old.runs = 1 .. k
        /\ old.achievements \in SUBSET AchievementIds
    BY BeginningFields
  <1>2. log = [i \in 1 .. k |-> [run |-> old.runs[i], day |-> None]]
    BY <1>1 DEF LogOf
  <1>3. \A i \in 1 .. k : [run |-> old.runs[i], day |-> None] \in OldEntries \cup NewEntries
    BY <1>1 DEF OldEntries
  <1> HIDE DEF k, log
  <1>4. /\ log \in Seq(OldEntries \cup NewEntries) /\ Len(log) = k
        /\ \A i \in 1 .. k : log[i] = [run |-> old.runs[i], day |-> None]
    BY <1>1, <1>2, <1>3
  <1>5. LogFrom(old, log)
    BY <1>1, <1>4 DEF LogFrom, k
  <1>6. Dated(log) = {}
    <2>1. Dated(log) = (k + 1) .. Len(log)
      BY <1>5, LogParts DEF k
    <2> QED
      BY <1>1, <1>4, <2>1
  <1>7. DaysPlayed(log) = {} /\ DailyDays(log) = {} /\ Surpassing(log) = {} /\ Told(log) = {}
    BY <1>6 DEF DaysPlayed, DailyDays, Surpassing, Told
  <1>8. StreakFits(p.streak, DaysPlayed(log))
    <2>1. p.streak \in Streaks
      <3>1. [current |-> 0, best |-> 0, last |-> None] \in Streaks
        BY DEF Streaks
      <3> QED
        BY <3>1, StreakFields
    <2> QED
      BY <1>7, <2>1 DEF StreakFits
  <1>9. DailyFits(p.daily, DailyDays(log))
    <2>1. <<>> \in Seq(Nat) /\ Len(<<>>) = 0
      OBVIOUS
    <2> QED
      BY <1>7, <2>1, CareerAssumption DEF DailyFits
  <1>10. BestsFit(p.bests, p.beats, log)
    <2>1. DOMAIN << >> = {}
      OBVIOUS
    <2>2. IsFiniteSet({}) /\ Cardinality({}) = 0
      BY FS_EmptySet
    <2>3. DOMAIN p.bests = {}
      BY <2>1
    <2> QED
      BY <1>6, <1>7, <2>2, <2>3 DEF BestsFit
  <1>11. BadgesFit(p, old, log)
    BY <1>1, <1>6 DEF BadgesFit
  <1>12. NewsFit(p, old, log)
    BY <1>6, <1>7 DEF NewsFit, log
  <1>13. HistoryFits(p, log)
    BY DEF HistoryFits, log
  <1>14. IsFiniteSet(DaysPlayed(log))
    BY <1>7, FS_EmptySet
  <1>15. CareerFits(p, old, log, today)
    BY <1>5, <1>7, <1>8, <1>9, <1>10, <1>11, <1>12, <1>13, <1>14 DEF CareerFits
  <1> QED
    BY <1>15 DEF log

(* An empty career.                                                        *)
LEMMA EmptyFits ==
  \A today : \E old \in Beginnings : CareerFits(EMPTY_PROGRESS, old, <<>>, today)
  <1> DEFINE none == [runs |-> <<>>, achievements |-> {}]
  <1>1. none \in Beginnings
    BY DEF Beginnings
  <1>2. none.runs = <<>> /\ none.achievements = {}
    OBVIOUS
  <1> HIDE DEF none
  <1>3. LogOf(none) = <<>>
    BY <1>2 DEF LogOf
  <1>4. XpSum(<<>>) = 0
    <2>1. [i \in DOMAIN <<>> |-> <<>>[i].run.xp] = <<>>
      OBVIOUS
    <2> QED
      BY <2>1, XpTotalAdds DEF XpSum
  <1>5. HistoryOf(<<>>) = <<>>
    BY CareerAssumption DEF HistoryOf
  <1>6. /\ IsCareer(EMPTY_PROGRESS) /\ EMPTY_PROGRESS.totalXp = 0
        /\ EMPTY_PROGRESS.missions = <<>> /\ EMPTY_PROGRESS.achievements = {}
        /\ EMPTY_PROGRESS.bests = << >> /\ EMPTY_PROGRESS.beats = 0
        /\ EMPTY_PROGRESS.daily = <<>>
    BY DEF EMPTY_PROGRESS, IsCareer
  <1> QED
    BY <1>1, <1>2, <1>3, <1>4, <1>5, <1>6, BeginningFits

(* Loading leaves a career as it is, completes one of the first version,   *)
(* and makes an empty one of nothing.                                      *)
LEMMA Loaded ==
  /\ \A p : IsCareer(p) => LoadProgress(p) = p
  /\ LoadProgress(NotStored) = EMPTY_PROGRESS
  /\ \A old : /\ IsCareer(LoadProgress(Saved(old)))
              /\ LoadProgress(Saved(old)).totalXp = XpSum(LogOf(old))
              /\ LoadProgress(Saved(old)).missions = HistoryOf(LogOf(old))
              /\ LoadProgress(Saved(old)).achievements = old.achievements
              /\ LoadProgress(Saved(old)).bests = << >>
              /\ LoadProgress(Saved(old)).beats = 0
              /\ LoadProgress(Saved(old)).streak = EMPTY_PROGRESS.streak
              /\ LoadProgress(Saved(old)).daily = <<>>
  <1> DEFINE fields == {"totalXp", "missions", "achievements", "bests", "beats",
                        "streak", "daily"}
  <1>1. DOMAIN EMPTY_PROGRESS = fields
    BY DEF EMPTY_PROGRESS
  <1>2. ASSUME NEW p, IsCareer(p)
        PROVE  LoadProgress(p) = p
    <2>1. DOMAIN p = fields /\ p = [f \in fields |-> p[f]]
      BY <1>2 DEF IsCareer
    <2> HIDE DEF fields
    <2> QED
      BY <1>1, <2>1 DEF LoadProgress
  <1>3. LoadProgress(NotStored) = EMPTY_PROGRESS
    <2>1. DOMAIN NotStored = {}
      BY DEF NotStored
    <2>2. EMPTY_PROGRESS = [f \in DOMAIN EMPTY_PROGRESS |-> EMPTY_PROGRESS[f]]
      BY DEF EMPTY_PROGRESS
    <2> QED
      BY <2>1, <2>2 DEF LoadProgress
  <1>4. ASSUME NEW old
        PROVE  /\ IsCareer(LoadProgress(Saved(old)))
               /\ LoadProgress(Saved(old)).totalXp = XpSum(LogOf(old))
               /\ LoadProgress(Saved(old)).missions = HistoryOf(LogOf(old))
               /\ LoadProgress(Saved(old)).achievements = old.achievements
               /\ LoadProgress(Saved(old)).bests = << >>
               /\ LoadProgress(Saved(old)).beats = 0
               /\ LoadProgress(Saved(old)).streak = EMPTY_PROGRESS.streak
               /\ LoadProgress(Saved(old)).daily = <<>>
    <2> DEFINE s == Saved(old)
               p == LoadProgress(s)
    <2>1. /\ DOMAIN s = {"totalXp", "missions", "achievements"}
          /\ s["totalXp"] = XpSum(LogOf(old)) /\ s["missions"] = HistoryOf(LogOf(old))
          /\ s["achievements"] = old.achievements
      BY DEF Saved
    <2> HIDE DEF s
    <2>2. p = [f \in fields |-> IF f \in DOMAIN s THEN s[f] ELSE EMPTY_PROGRESS[f]]
      BY <1>1 DEF LoadProgress
    <2>3. /\ EMPTY_PROGRESS["bests"] = << >> /\ EMPTY_PROGRESS["beats"] = 0
          /\ EMPTY_PROGRESS["daily"] = <<>>
      BY DEF EMPTY_PROGRESS
    <2> HIDE DEF p
    <2>4. /\ p["totalXp"] = XpSum(LogOf(old)) /\ p["missions"] = HistoryOf(LogOf(old))
          /\ p["achievements"] = old.achievements /\ p["bests"] = << >> /\ p["beats"] = 0
          /\ p["streak"] = EMPTY_PROGRESS["streak"] /\ p["daily"] = <<>>
      BY <2>1, <2>2, <2>3
    <2>5. IsCareer(p)
      BY <2>2 DEF IsCareer
    <2> QED
      BY <2>4, <2>5 DEF p, s
  <1> QED
    BY <1>2, <1>3, <1>4

(* A career fits a log that began somewhere; it does so on later days too. *)
Fits(p, log, today) == \E old \in Beginnings : CareerFits(p, old, log, today)

(* Days go by and the career still fits.                                   *)
LEMMA FitsLater ==
  ASSUME NEW p, NEW log, NEW today \in Nat, Fits(p, log, today),
         NEW later \in Nat, today <= later
  PROVE  Fits(p, log, later)
  <1>1. PICK old \in Beginnings : CareerFits(p, old, log, today)
    BY DEF Fits
  <1>2. \A d \in DaysPlayed(log) : d <= later
    <2>1. \A d \in Nat : d <= today => d <= later
      OBVIOUS
    <2>2. DaysPlayed(log) \in SUBSET Nat /\ \A d \in DaysPlayed(log) : d <= today
      BY <1>1 DEF CareerFits
    <2> QED
      BY <2>1, <2>2
  <1>3. CareerFits(p, old, log, later)
    BY <1>1, <1>2 DEF CareerFits
  <1> QED
    BY <1>3 DEF Fits

(* A fitting log is a sequence, a fitting career is one.                   *)
LEMMA FitsIs ==
  ASSUME NEW p, NEW log, NEW today, Fits(p, log, today)
  PROVE  IsCareer(p) /\ log \in Seq(OldEntries \cup NewEntries)
  BY DEF Fits, CareerFits, LogFrom

(* Prefixes.                                                               *)
LEMMA PrefixKept ==
  ASSUME NEW s \in Seq(OldEntries \cup NewEntries), NEW t \in Seq(OldEntries \cup NewEntries)
  PROVE  /\ IsPrefix(s, s)
         /\ \A e \in NewEntries : IsPrefix(s, t) => IsPrefix(s, Append(t, e))
  <1>1. IsPrefix(s, s)
    BY DEF IsPrefix
  <1>2. ASSUME NEW e \in NewEntries, IsPrefix(s, t)
        PROVE  IsPrefix(s, Append(t, e))
    <2> DEFINE n == Len(s)
               more == Append(t, e)
    <2>1. n \in Nat /\ n <= Len(t) /\ Len(t) \in Nat
          /\ SubSeq(s, 1, n) = SubSeq(t, 1, n)
      BY <1>2 DEF IsPrefix
    <2>2. /\ Len(more) = Len(t) + 1 /\ more \in Seq(OldEntries \cup NewEntries)
          /\ \A i \in 1 .. Len(t) : more[i] = t[i]
      OBVIOUS
    <2> HIDE DEF n, more
    <2>3. SubSeq(more, 1, n) = [i \in 1 .. n |-> more[i]]
      BY <2>1, <2>2
    <2>4. SubSeq(t, 1, n) = [i \in 1 .. n |-> t[i]]
      BY <2>1
    <2>5. SubSeq(more, 1, n) = SubSeq(t, 1, n)
      BY <2>1, <2>2, <2>3, <2>4
    <2>6. n <= Len(more)
      BY <2>1, <2>2
    <2> QED
      BY <2>1, <2>5, <2>6, Zenon DEF IsPrefix, n, more
  <1> QED
    BY <1>1, <1>2

-----------------------------------------------------------------------------
(* The invariant                                                           *)

(* Tabs are in one of their phases, and days are days of use.              *)
Typed ==
  /\ phase \in [Tabs -> {"closed", "mounted", "ready"}]
  /\ unsaved \in [Tabs -> BOOLEAN] /\ undisturbed \in BOOLEAN
  /\ day \in Days /\ briefed \in [Tabs -> Days]
  /\ DOMAIN mem = Tabs /\ DOMAIN played = Tabs

(* Every tab holds a career that fits the missions it is made of, and what *)
(* is stored is read as one that fits what is kept.                        *)
Fitting ==
  /\ \A t \in Tabs : Fits(mem[t], played[t], day)
  /\ Fits(LoadProgress(disk), kept, day)

(* Undisturbed, one tab at most is open, and it has all that is kept.      *)
Alone ==
  undisturbed =>
    /\ \A t, u \in Tabs : phase[t] # "closed" /\ phase[u] # "closed" => t = u
    /\ \A t \in Tabs : phase[t] = "ready" => IsPrefix(kept, played[t])

(* Together they are inductive, and the properties follow from them.       *)
CareerInvariant == Typed /\ Fitting /\ Alone

(* The first day and the next one.                                         *)
LEMMA DaysAre ==
  /\ Min(Days) \in Days
  /\ \A d \in Days : d \in Nat
  /\ \A d \in Days : d < Max(Days) =>
       LET next == Min({e \in Days : e > d}) IN next \in Days /\ d <= next
  <1>1. Days \in SUBSET Nat /\ Days # {}
    BY CareerAssumption
  <1>2. PICK last \in Days : \A d \in Days : d <= last
    BY CareerAssumption
  <1>3. Max(Days) = last
    BY <1>1, <1>2, MaxIs
  <1>4. ASSUME NEW d \in Days, d < Max(Days)
        PROVE  Min({e \in Days : e > d}) \in Days /\ d <= Min({e \in Days : e > d})
    <2> DEFINE S == {e \in Days : e > d}
    <2>1. d \in Nat /\ last \in Nat /\ d < last
      BY <1>1, <1>3, <1>4
    <2>2. S \in SUBSET Nat /\ S # {}
      BY <1>1, <2>1
    <2>3. \A e \in S : e \in Days /\ d <= e
      BY <1>1, <2>1
    <2> HIDE DEF S
    <2>4. Min(S) \in S
      BY <2>2, MinIs
    <2> QED
      BY <2>3, <2>4 DEF S
  <1>5. Min(Days) \in Days
    BY <1>1, MinIs
  <1> QED
    BY <1>1, <1>4, <1>5

(* At first nothing is stored, or what the first version left.             *)
LEMMA InitCareers == Init => CareerInvariant
  <1> SUFFICES ASSUME Init
               PROVE  CareerInvariant
    OBVIOUS
  <1>1. Typed
    BY DaysAre DEF Init, Typed
  <1>2. \A t \in Tabs : Fits(mem[t], played[t], day)
    BY EmptyFits DEF Init, Fits
  <1>3. Fits(LoadProgress(disk), kept, day)
    <2>1. CASE disk = NotStored /\ kept = <<>>
      BY <2>1, EmptyFits, Loaded DEF Fits
    <2>2. CASE \E old \in Legacy : disk = Saved(old) /\ kept = LogOf(old)
      <3>1. PICK old \in Legacy : disk = Saved(old) /\ kept = LogOf(old)
        BY <2>2
      <3>2. old \in Beginnings
        BY DEF Beginnings
      <3> DEFINE p == LoadProgress(Saved(old))
      <3>3. /\ IsCareer(p) /\ p.totalXp = XpSum(LogOf(old))
            /\ p.missions = HistoryOf(LogOf(old)) /\ p.achievements = old.achievements
            /\ p.bests = << >> /\ p.beats = 0 /\ p.streak = EMPTY_PROGRESS.streak
            /\ p.daily = <<>>
        BY Loaded
      <3> HIDE DEF p
      <3>4. CareerFits(p, old, LogOf(old), day)
        BY <3>2, <3>3, BeginningFits
      <3> QED
        BY <3>1, <3>2, <3>4 DEF Fits, p
    <2> QED
      BY <2>1, <2>2 DEF Init
  <1>4. Alone
    BY DEF Init, Alone
  <1> QED
    BY <1>1, <1>2, <1>3, <1>4 DEF CareerInvariant, Fitting

(* What a tab holds when it mounts, closes or is reset.                    *)
LEMMA EmptyTab ==
  ASSUME Typed, Fitting, NEW t \in Tabs,
         mem' = [mem EXCEPT ![t] = EMPTY_PROGRESS],
         played' = [played EXCEPT ![t] = <<>>],
         UNCHANGED <<disk, day, kept>>
  PROVE  Fitting' /\ DOMAIN mem' = Tabs /\ DOMAIN played' = Tabs
  <1>1. ASSUME NEW u \in Tabs
        PROVE  Fits(mem'[u], played'[u], day')
    <2>1. CASE u = t
      <3>1. mem'[u] = EMPTY_PROGRESS /\ played'[u] = <<>>
        BY <2>1 DEF Typed
      <3> QED
        BY <3>1, EmptyFits DEF Fits
    <2>2. CASE u # t
      BY <2>2 DEF Typed, Fitting
    <2> QED
      BY <2>1, <2>2
  <1>2. Fits(LoadProgress(disk'), kept', day')
    BY DEF Fitting
  <1>3. DOMAIN mem' = Tabs /\ DOMAIN played' = Tabs
    BY DEF Typed
  <1> QED
    BY <1>1, <1>2, <1>3 DEF Fitting

(* A page that mounts shows an empty career.                               *)
LEMMA MountKeeps ==
  ASSUME CareerInvariant, NEW t \in Tabs, Mount(t)
  PROVE  CareerInvariant'
  <1>1. Typed /\ Fitting /\ Alone
    BY DEF CareerInvariant
  <1>2. Fitting' /\ DOMAIN mem' = Tabs /\ DOMAIN played' = Tabs
    BY <1>1, EmptyTab DEF Mount
  <1>3. Typed'
    BY <1>1, <1>2 DEF Mount, Typed
  <1>4. Alone'
    <2>1. \A u \in Tabs : phase'[u] = IF u = t THEN "mounted" ELSE phase[u]
      BY <1>1 DEF Mount, Typed
    <2>2. undisturbed' => \A u \in Tabs : phase[u] = "closed"
      BY DEF Mount
    <2>3. undisturbed' => \A u \in Tabs : /\ phase'[u] # "closed" => u = t
                                          /\ phase'[u] # "ready"
      BY <2>1, <2>2
    <2> QED
      BY <2>3 DEF Alone
  <1> QED
    BY <1>2, <1>3, <1>4 DEF CareerInvariant

(* It then takes the career that is stored, of whatever version.           *)
LEMMA HydrateKeeps ==
  ASSUME CareerInvariant, NEW t \in Tabs, Hydrate(t)
  PROVE  CareerInvariant'
  <1>1. Typed /\ Fitting /\ Alone
    BY DEF CareerInvariant
  <1>2. \A u \in Tabs : /\ mem'[u] = IF u = t THEN LoadProgress(disk) ELSE mem[u]
                        /\ played'[u] = IF u = t THEN kept ELSE played[u]
                        /\ phase'[u] = IF u = t THEN "ready" ELSE phase[u]
    BY <1>1 DEF Hydrate, Typed
  <1>3. Typed'
    BY <1>1 DEF Hydrate, Typed
  <1>4. Fitting'
    BY <1>1, <1>2 DEF Hydrate, Fitting
  <1>5. Alone'
    <2>1. kept \in Seq(OldEntries \cup NewEntries)
      BY <1>1, FitsIs DEF Fitting
    <2>2. IsPrefix(kept, kept)
      BY <2>1, PrefixKept
    <2>3. phase[t] # "closed"
      BY DEF Hydrate
    <2>4. kept' = kept /\ undisturbed' = undisturbed
      BY DEF Hydrate
    <2> QED
      <3>1. undisturbed =>
              /\ \A u, w \in Tabs : phase[u] # "closed" /\ phase[w] # "closed" => u = w
              /\ \A u \in Tabs : phase[u] = "ready" => IsPrefix(kept, played[u])
        BY <1>1 DEF Alone
      <3>2. \A u \in Tabs : phase'[u] # "closed" => phase[u] # "closed"
        BY <1>2, <2>3
      <3>3. ASSUME undisturbed, NEW u \in Tabs, phase'[u] = "ready"
            PROVE  IsPrefix(kept, played'[u])
        BY <1>2, <2>2, <3>1, <3>3
      <3> QED
        BY <2>4, <3>1, <3>2, <3>3 DEF Alone
  <1> QED
    BY <1>3, <1>4, <1>5 DEF CareerInvariant

(* A tab writes the career it holds; undisturbed, that is the one that is  *)
(* stored with more missions.                                              *)
LEMMA PersistKeeps ==
  ASSUME CareerInvariant, NEW t \in Tabs, Persist(t)
  PROVE  /\ CareerInvariant'
         /\ undisturbed => IsPrefix(kept, kept')
  <1>1. Typed /\ Fitting /\ Alone
    BY DEF CareerInvariant
  <1>2. /\ phase[t] = "ready"
        /\ UNCHANGED <<mem, phase, briefed, day, played, undisturbed>>
        /\ \/ disk' = mem[t] /\ kept' = played[t]
           \/ disk' = disk /\ kept' = kept
    BY DEF Persist, MayPersist
  <1>3. Typed'
    BY <1>1 DEF Persist, Typed
  <1>4. /\ IsCareer(mem[t]) /\ played[t] \in Seq(OldEntries \cup NewEntries)
        /\ kept \in Seq(OldEntries \cup NewEntries)
    BY <1>1, FitsIs DEF Fitting
  <1>5. Fits(LoadProgress(disk'), kept', day)
    <2>1. LoadProgress(mem[t]) = mem[t]
      BY <1>4, Loaded
    <2> QED
      BY <1>1, <1>2, <2>1 DEF Fitting
  <1>6. Fitting'
    BY <1>1, <1>2, <1>5 DEF Fitting
  <1>7. undisturbed =>
          /\ \A u, w \in Tabs : phase[u] # "closed" /\ phase[w] # "closed" => u = w
          /\ \A u \in Tabs : phase[u] = "ready" => IsPrefix(kept, played[u])
    BY <1>1 DEF Alone
  <1>8. Alone'
    <2>1. IsPrefix(played[t], played[t])
      BY <1>4, PrefixKept
    <2>2. ASSUME undisturbed, NEW u \in Tabs, phase[u] = "ready"
          PROVE  IsPrefix(kept', played[u])
      <3>1. u = t
        BY <1>2, <1>7, <2>2
      <3> QED
        BY <1>2, <1>7, <2>1, <2>2, <3>1
    <2> QED
      BY <1>2, <1>7, <2>2 DEF Alone
  <1>9. undisturbed => IsPrefix(kept, kept')
    <2>1. IsPrefix(kept, kept)
      BY <1>4, PrefixKept
    <2> QED
      BY <1>2, <1>7, <2>1
  <1> QED
    BY <1>3, <1>6, <1>8, <1>9 DEF CareerInvariant

(* A mission recorded in a tab goes on with that tab's career.             *)
LEMMA RecordKeepsAll ==
  ASSUME CareerInvariant, NEW t \in Tabs, NEW play \in Plays, Record(t, play)
  PROVE  CareerInvariant'
  <1>1. Typed /\ Fitting /\ Alone
    BY DEF CareerInvariant
  <1> DEFINE isDaily == IsDailyChallengeMatch(play, briefed[t])
             m == MissionRecord(play, isDaily)
             next == RecordMission(mem[t], m, isDaily, day)
             e == [run |-> m, day |-> day, daily |-> isDaily, news |-> NewsOf(mem[t], next)]
  <1>2. isDaily \in BOOLEAN
    BY DEF IsDailyChallengeMatch
  <1>3. m \in MissionRecords /\ day \in Nat
    BY <1>1, <1>2, RecordOfRun, DaysAre DEF Typed
  <1>4. /\ mem' = [mem EXCEPT ![t] = next] /\ played' = [played EXCEPT ![t] = Append(@, e)]
        /\ phase[t] = "ready" /\ unsaved' = [unsaved EXCEPT ![t] = TRUE]
        /\ UNCHANGED <<phase, briefed, disk, day, kept, undisturbed>>
    BY DEF Record
  <1>5. PICK old \in Beginnings : CareerFits(mem[t], old, played[t], day)
    BY <1>1 DEF Fitting, Fits
  <1> HIDE DEF isDaily, m
  <1>6. CareerFits(next, old, Append(played[t], e), day) /\ e \in NewEntries
    BY <1>2, <1>3, <1>5, RecordKeeps
  <1> HIDE DEF next, e
  <1>7. \A u \in Tabs : /\ mem'[u] = IF u = t THEN next ELSE mem[u]
                        /\ played'[u] = IF u = t THEN Append(played[t], e) ELSE played[u]
    BY <1>1, <1>4 DEF Typed
  <1>8. Typed'
    BY <1>1, <1>4 DEF Typed
  <1>9. Fitting'
    <2>1. Fits(next, Append(played[t], e), day)
      BY <1>6 DEF Fits
    <2> QED
      BY <1>1, <1>4, <1>7, <2>1 DEF Fitting
  <1>10. Alone'
    <2>1. /\ played[t] \in Seq(OldEntries \cup NewEntries)
          /\ kept \in Seq(OldEntries \cup NewEntries)
      BY <1>1, FitsIs DEF Fitting
    <2>2. IsPrefix(kept, played[t]) => IsPrefix(kept, Append(played[t], e))
      BY <1>6, <2>1, PrefixKept
    <2> QED
      BY <1>1, <1>4, <1>7, <2>2 DEF Alone
  <1> QED
    BY <1>8, <1>9, <1>10 DEF CareerInvariant

(* Briefings, resets, tabs that close and the change of days.              *)
LEMMA OtherStepsKeep ==
  ASSUME CareerInvariant,
         NextDay \/ \E t \in Tabs : Brief(t) \/ ResetProgress(t) \/ Close(t)
  PROVE  CareerInvariant'
  <1>1. Typed /\ Fitting /\ Alone
    BY DEF CareerInvariant
  <1>2. ASSUME NEW t \in Tabs, Brief(t)
        PROVE  CareerInvariant'
    <2>1. Typed'
      BY <1>1, <1>2 DEF Brief, Typed
    <2>2. Fitting' /\ Alone'
      BY <1>1, <1>2 DEF Brief, Fitting, Alone
    <2> QED
      BY <2>1, <2>2 DEF CareerInvariant
  <1>3. ASSUME NEW t \in Tabs, ResetProgress(t)
        PROVE  CareerInvariant'
    <2>1. Fitting' /\ DOMAIN mem' = Tabs /\ DOMAIN played' = Tabs
      BY <1>1, <1>3, EmptyTab DEF ResetProgress
    <2>2. Typed'
      BY <1>1, <1>3, <2>1 DEF ResetProgress, Typed
    <2>3. Alone'
      BY <1>3 DEF ResetProgress, Alone
    <2> QED
      BY <2>1, <2>2, <2>3 DEF CareerInvariant
  <1>4. ASSUME NEW t \in Tabs, Close(t)
        PROVE  CareerInvariant'
    <2>1. Fitting' /\ DOMAIN mem' = Tabs /\ DOMAIN played' = Tabs
      BY <1>1, <1>4, EmptyTab DEF Close
    <2>2. Typed'
      BY <1>1, <1>4, <2>1, DaysAre DEF Close, Typed
    <2>3. \A u \in Tabs : /\ phase'[u] = IF u = t THEN "closed" ELSE phase[u]
                          /\ u # t => played'[u] = played[u]
      BY <1>1, <1>4 DEF Close, Typed
    <2>4. Alone'
      <3>1. undisturbed' = undisturbed /\ kept' = kept
        BY <1>4 DEF Close
      <3>2. \A u \in Tabs : phase'[u] # "closed" => u # t /\ phase'[u] = phase[u]
        BY <2>3
      <3> QED
        BY <1>1, <2>3, <3>1, <3>2 DEF Alone
    <2> QED
      BY <2>1, <2>2, <2>4 DEF CareerInvariant
  <1>5. ASSUME NextDay
        PROVE  CareerInvariant'
    <2>1. day' \in Days /\ day \in Nat /\ day' \in Nat /\ day <= day'
      BY <1>1, <1>5, DaysAre DEF NextDay, Typed
    <2>2. UNCHANGED <<mem, phase, unsaved, briefed, disk, played, kept, undisturbed>>
      BY <1>5 DEF NextDay
    <2>3. Typed'
      BY <1>1, <2>1, <2>2 DEF Typed
    <2>4. Fitting'
      <3>1. ASSUME NEW t \in Tabs
            PROVE  Fits(mem'[t], played'[t], day')
        BY <1>1, <2>1, <2>2, FitsLater DEF Fitting
      <3>2. Fits(LoadProgress(disk'), kept', day')
        BY <1>1, <2>1, <2>2, FitsLater DEF Fitting
      <3> QED
        BY <3>1, <3>2 DEF Fitting
    <2>5. Alone'
      BY <1>1, <2>2 DEF Alone
    <2> QED
      BY <2>3, <2>4, <2>5 DEF CareerInvariant
  <1> QED
    BY <1>2, <1>3, <1>4, <1>5

(* Every step keeps the invariant.                                         *)
LEMMA NextCareers == CareerInvariant /\ [Next]_vars => CareerInvariant'
  <1> SUFFICES ASSUME CareerInvariant, [Next]_vars
               PROVE  CareerInvariant'
    OBVIOUS
  <1>1. CASE UNCHANGED vars
    BY <1>1 DEF vars, CareerInvariant, Typed, Fitting, Alone
  <1>2. CASE \E t \in Tabs : Mount(t)
    BY <1>2, MountKeeps
  <1>3. CASE \E t \in Tabs : Hydrate(t)
    BY <1>3, HydrateKeeps
  <1>4. CASE \E t \in Tabs : Persist(t)
    BY <1>4, PersistKeeps
  <1>5. CASE \E t \in Tabs, play \in Plays : Record(t, play)
    BY <1>5, RecordKeepsAll
  <1>6. CASE NextDay \/ \E t \in Tabs : Brief(t) \/ ResetProgress(t) \/ Close(t)
    BY <1>6, OtherStepsKeep
  <1> QED
    BY <1>1, <1>2, <1>3, <1>4, <1>5, <1>6 DEF Next

(* Every reachable state is of that kind.                                  *)
THEOREM CareersFit == Spec => []CareerInvariant
  <1>1. Init => CareerInvariant
    BY InitCareers
  <1>2. CareerInvariant /\ [Next]_vars => CareerInvariant'
    BY NextCareers
  <1> QED
    BY <1>1, <1>2, PTL DEF Spec

(* A career of the invariant has the fields of a career, and its lists are *)
(* within their caps.                                                      *)
LEMMA ShapeShown ==
  ASSUME NEW p, NEW old \in Beginnings, NEW log, NEW today, CareerFits(p, old, log, today)
  PROVE  /\ DOMAIN p = DOMAIN EMPTY_PROGRESS
         /\ Len(p.missions) <= MAX_HISTORY /\ Len(p.daily) <= MAX_DAILY_HISTORY
         /\ p.totalXp = XpSum(log) /\ p.missions = HistoryOf(log)
  <1>1. IsCareer(p) /\ LogFrom(old, log) /\ HistoryFits(p, log) /\ Len(p.daily) <= MAX_DAILY_HISTORY
    BY DEF CareerFits, DailyFits
  <1>2. DOMAIN p = DOMAIN EMPTY_PROGRESS
    BY <1>1 DEF IsCareer, EMPTY_PROGRESS
  <1>3. MAX_HISTORY \in Nat /\ Len(log) \in Nat
    BY <1>1, LogParts, CareerAssumption
  <1>4. Len(HistoryOf(log)) <= MAX_HISTORY
    BY <1>1, <1>3, HistoryIs
  <1> QED
    BY <1>1, <1>2, <1>4 DEF HistoryFits

(* Its daily keys, as the property about them puts it.                     *)
LEMMA KeysShown ==
  ASSUME NEW keys, NEW days \in SUBSET Nat, DailyFits(keys, days)
  PROVE  /\ Range(keys) \subseteq days
         /\ \A i \in 2 .. Len(keys) : keys[i - 1] < keys[i]
         /\ \A d \in days \ Range(keys) : Len(keys) = MAX_DAILY_HISTORY /\ d < keys[1]
  <1>1. keys \in Seq(Nat) /\ DOMAIN keys = 1 .. Len(keys) /\ Len(keys) \in Nat
    BY DEF DailyFits
  <1>2. Range(keys) = {keys[i] : i \in 1 .. Len(keys)}
    BY <1>1 DEF Range
  <1>3. Range(keys) \subseteq days
    BY <1>2 DEF DailyFits
  <1>4. ASSUME NEW i \in 2 .. Len(keys)
        PROVE  keys[i - 1] < keys[i]
    <2>1. i - 1 \in 1 .. Len(keys) /\ i \in 1 .. Len(keys) /\ i - 1 < i
      BY <1>1
    <2> QED
      BY <2>1 DEF DailyFits
  <1>5. ASSUME NEW d \in days \ Range(keys)
        PROVE  Len(keys) = MAX_DAILY_HISTORY /\ d < keys[1]
    BY <1>2 DEF DailyFits
  <1> QED
    BY <1>3, <1>4, <1>5

(* Its badges: those inherited came with the first version's career.       *)
LEMMA BadgesShown ==
  ASSUME NEW p, NEW old \in Beginnings, NEW log, NEW today, CareerFits(p, old, log, today),
         NEW id \in Badges
  PROVE  /\ Dated(log) # {} /\ Earned(id, log) => id \in p.achievements
         /\ id \in p.achievements =>
              (Dated(log) # {} /\ Earned(id, log)) \/ Inherited(id, log)
  <1>1. LogFrom(old, log) /\ BadgesFit(p, old, log)
    BY DEF CareerFits
  <1>2. OldOf(log) = LogOf(old)
    BY <1>1, LogParts
  <1>3. id \in old.achievements => Inherited(id, log)
    BY <1>2, BeginningFields DEF Inherited
  <1> QED
    BY <1>1, <1>3 DEF BadgesFit

(* Its news.                                                               *)
LEMMA NewsShown ==
  ASSUME NEW p, NEW old \in Beginnings, NEW log, NEW today, CareerFits(p, old, log, today)
  PROVE  /\ \A i, j \in Dated(log) : i < j => log[i].news.badges \cap log[j].news.badges = {}
         /\ \A i, j \in Told(log) : i < j => log[i].news.rank # log[j].news.rank
         /\ {ComputeRank(p.totalXp)} =
              IF Told(log) = {} THEN {ComputeRank(XpSum(OldOf(log)))}
              ELSE log[Max(Told(log))].news.rank
  <1>1. LogFrom(old, log) /\ NewsFit(p, old, log)
    BY DEF CareerFits
  <1>2. /\ OldOf(log) = LogOf(old) /\ DOMAIN log = 1 .. Len(log)
    BY <1>1, LogParts
  <1>3. Told(log) \in SUBSET Int
    BY <1>2 DEF Told, Dated
  <1>4. CASE Told(log) = {}
    BY <1>1, <1>2, <1>4 DEF NewsFit
  <1>5. CASE Told(log) # {}
    <2>1. PICK i \in Told(log) : /\ \A j \in Told(log) : j <= i
                                 /\ log[i].news.rank = {ComputeRank(p.totalXp)}
      BY <1>1, <1>5 DEF NewsFit
    <2>2. Max(Told(log)) = i
      BY <1>3, <2>1, MaxIs
    <2> QED
      BY <1>1, <1>5, <2>1, <2>2 DEF NewsFit
  <1> QED
    BY <1>4, <1>5

(* What the properties range over is in the invariant.                     *)
LEMMA CareersAre ==
  ASSUME CareerInvariant, NEW c \in Careers
  PROVE  \E old \in Beginnings : CareerFits(c[1], old, c[2], day)
  <1>1. PICK t \in Tabs : c = <<mem[t], played[t]>>
    BY DEF Careers
  <1>2. c[1] = mem[t] /\ c[2] = played[t]
    BY <1>1
  <1> QED
    BY <1>2 DEF CareerInvariant, Fitting, Fits

-----------------------------------------------------------------------------
(* The state has its shape, and a career never outgrows the caps, whatever *)
(* loadProgress found in localStorage.                                     *)
THEOREM TypeCorrect == Spec => []TypeOK
  <1>1. CareerInvariant => TypeOK
    <2> SUFFICES ASSUME CareerInvariant
                 PROVE  TypeOK
      OBVIOUS
    <2>1. ASSUME NEW c \in Careers
          PROVE  /\ DOMAIN c[1] = DOMAIN EMPTY_PROGRESS
                 /\ Len(c[1].missions) <= MAX_HISTORY
                 /\ Len(c[1].daily) <= MAX_DAILY_HISTORY
      BY <2>1, CareersAre, ShapeShown
    <2> QED
      BY <2>1 DEF TypeOK, CareerInvariant, Typed
  <1> QED
    BY <1>1, CareersFit, PTL

(* The XP and the history of a career are those of one log of missions,    *)
(* however many tabs recordMission ran in and whichever wrote last.        *)
THEOREM HistoryFollowsLog == Spec => []HistoryIsLog
  <1>1. CareerInvariant => HistoryIsLog
    <2> SUFFICES ASSUME CareerInvariant
                 PROVE  HistoryIsLog
      OBVIOUS
    <2>1. ASSUME NEW c \in Careers
          PROVE  c[1].totalXp = XpSum(c[2]) /\ c[1].missions = HistoryOf(c[2])
      BY <2>1, CareersAre, ShapeShown
    <2> QED
      BY <2>1 DEF HistoryIsLog
  <1> QED
    BY <1>1, CareersFit, PTL

(* The streak of updateStreak is the block of days played that ends on the *)
(* last of them, and its best the longest block there was.                 *)
THEOREM StreakFollowsDays == Spec => []StreakIsBlock
  <1>1. CareerInvariant => StreakIsBlock
    <2> SUFFICES ASSUME CareerInvariant
                 PROVE  StreakIsBlock
      OBVIOUS
    <2>1. ASSUME NEW c \in Careers
          PROVE  /\ c[1].streak.best = LongestBlock(DaysPlayed(c[2]))
                 /\ IF DaysPlayed(c[2]) = {} THEN c[1].streak = EMPTY_PROGRESS.streak
                    ELSE /\ c[1].streak.last = Max(DaysPlayed(c[2]))
                         /\ c[1].streak.current = BlockTo(DaysPlayed(c[2]), c[1].streak.last)
      <3>1. PICK old \in Beginnings : CareerFits(c[1], old, c[2], day)
        BY <2>1, CareersAre
      <3>2. /\ IsFiniteSet(DaysPlayed(c[2])) /\ DaysPlayed(c[2]) \in SUBSET Nat
            /\ StreakFits(c[1].streak, DaysPlayed(c[2]))
        BY <3>1 DEF CareerFits
      <3> QED
        BY <3>2, StreakShown
    <2> QED
      BY <2>1 DEF StreakIsBlock
  <1> QED
    BY <1>1, CareersFit, PTL

(* A personal best is the most XP ever recorded for its scenario and side, *)
(* and personalBestBeats counts the missions that surpassed all before.    *)
THEOREM BestsAreMaxima == Spec => []BestIsMax
  <1>1. CareerInvariant => BestIsMax
    <2> SUFFICES ASSUME CareerInvariant
                 PROVE  BestIsMax
      OBVIOUS
    <2>1. ASSUME NEW c \in Careers
          PROVE  /\ DOMAIN c[1].bests = {Key(c[2][i].run) : i \in Dated(c[2])}
                 /\ \A k \in DOMAIN c[1].bests : c[1].bests[k] =
                      Max({c[2][i].run.xp : i \in {j \in Dated(c[2]) : Key(c[2][j].run) = k}})
                 /\ c[1].beats = Cardinality(Surpassing(c[2]))
      <3>1. PICK old \in Beginnings : CareerFits(c[1], old, c[2], day)
        BY <2>1, CareersAre
      <3>2. LogFrom(old, c[2]) /\ BestsFit(c[1].bests, c[1].beats, c[2])
        BY <3>1 DEF CareerFits
      <3>3. \A k \in DOMAIN c[1].bests : c[1].bests[k] =
              Max({c[2][i].run.xp : i \in {j \in Dated(c[2]) : Key(c[2][j].run) = k}})
        BY <3>2, BestsShown
      <3> QED
        BY <3>2, <3>3 DEF BestsFit
    <2> QED
      BY <2>1 DEF BestIsMax
  <1> QED
    BY <1>1, CareersFit, PTL

(* dailyChallengeKeys holds the last days with a daily run, in order.      *)
THEOREM DailyKeysFollowDays == Spec => []DailyKeysAreDays
  <1>1. CareerInvariant => DailyKeysAreDays
    <2> SUFFICES ASSUME CareerInvariant
                 PROVE  DailyKeysAreDays
      OBVIOUS
    <2>1. ASSUME NEW c \in Careers
          PROVE  /\ Range(c[1].daily) \subseteq DailyDays(c[2])
                 /\ \A i \in 2 .. Len(c[1].daily) : c[1].daily[i - 1] < c[1].daily[i]
                 /\ \A d \in DailyDays(c[2]) \ Range(c[1].daily) :
                      Len(c[1].daily) = MAX_DAILY_HISTORY /\ d < c[1].daily[1]
      <3>1. PICK old \in Beginnings : CareerFits(c[1], old, c[2], day)
        BY <2>1, CareersAre
      <3>2. DaysPlayed(c[2]) \in SUBSET Nat /\ DailyFits(c[1].daily, DailyDays(c[2]))
        BY <3>1 DEF CareerFits
      <3>3. DailyDays(c[2]) \in SUBSET Nat
        BY <3>2 DEF DailyDays, DaysPlayed
      <3> QED
        BY <3>2, <3>3, KeysShown
    <2> QED
      BY <2>1 DEF DailyKeysAreDays
  <1> QED
    BY <1>1, CareersFit, PTL

(* Streak and daily keys are those of the days of the whole log.           *)
THEOREM DaysFollowLog == Spec => []DaysAreCounted
  <1>1. StreakIsBlock /\ DailyKeysAreDays => DaysAreCounted
    BY DEF DaysAreCounted
  <1> QED
    BY <1>1, StreakFollowsDays, DailyKeysFollowDays, PTL

(* An achievement is held exactly when the missions of the career earned   *)
(* it at some time, or it came with a career of the first version.         *)
THEOREM BadgesFollowLog == Spec => []BadgesAreEarned
  <1>1. CareerInvariant => BadgesAreEarned
    <2> SUFFICES ASSUME CareerInvariant
                 PROVE  BadgesAreEarned
      OBVIOUS
    <2>1. ASSUME NEW c \in Careers, NEW id \in Badges
          PROVE  /\ Dated(c[2]) # {} /\ Earned(id, c[2]) => id \in c[1].achievements
                 /\ id \in c[1].achievements =>
                      (Dated(c[2]) # {} /\ Earned(id, c[2])) \/ Inherited(id, c[2])
      <3>1. PICK old \in Beginnings : CareerFits(c[1], old, c[2], day)
        BY <2>1, CareersAre
      <3> QED
        BY <2>1, <3>1, BadgesShown
    <2> QED
      BY <2>1 DEF BadgesAreEarned, Badges
  <1> QED
    BY <1>1, CareersFit, PTL

(* The banner announces each badge once and each rank once, and the rank   *)
(* of the player card is the last one announced.                           *)
THEOREM NewsToldOnce == Spec => []NewsOnce
  <1>1. CareerInvariant => NewsOnce
    <2> SUFFICES ASSUME CareerInvariant
                 PROVE  NewsOnce
      OBVIOUS
    <2>1. ASSUME NEW c \in Careers
          PROVE  /\ \A i, j \in Dated(c[2]) :
                      i < j => c[2][i].news.badges \cap c[2][j].news.badges = {}
                 /\ \A i, j \in Told(c[2]) : i < j => c[2][i].news.rank # c[2][j].news.rank
                 /\ {ComputeRank(c[1].totalXp)} =
                      IF Told(c[2]) = {} THEN {ComputeRank(XpSum(OldOf(c[2])))}
                      ELSE c[2][Max(Told(c[2]))].news.rank
      BY <2>1, CareersAre, NewsShown
    <2> QED
      BY <2>1 DEF NewsOnce, Told
  <1> QED
    BY <1>1, CareersFit, PTL

(* While one tab is open at a time and no career is reset, the stored      *)
(* career only grows: the page that mounted with an empty career never     *)
(* writes it, and a write that fails leaves the old one.                   *)
THEOREM StoredCareerGrows == Spec => StoreGrows
  <1>1. CareerInvariant /\ [Next]_vars => [undisturbed' => IsPrefix(kept, kept')]_vars
    <2> SUFFICES ASSUME CareerInvariant, [Next]_vars
                 PROVE  [undisturbed' => IsPrefix(kept, kept')]_vars
      OBVIOUS
    <2>1. IsPrefix(kept, kept)
      BY FitsIs, PrefixKept DEF CareerInvariant, Fitting
    <2>2. CASE UNCHANGED vars
      BY <2>2
    <2>3. CASE \E t \in Tabs : Persist(t)
      <3>1. undisturbed => IsPrefix(kept, kept')
        BY <2>3, PersistKeeps
      <3> QED
        BY <2>3, <3>1 DEF Persist
    <2>4. CASE \/ \E t \in Tabs : Mount(t) \/ Hydrate(t) \/ Brief(t)
                                  \/ ResetProgress(t) \/ Close(t)
               \/ \E t \in Tabs, play \in Plays : Record(t, play)
               \/ NextDay
      <3>1. kept' = kept
        BY <2>4 DEF Mount, Hydrate, Brief, ResetProgress, Close, Record, NextDay
      <3> QED
        BY <2>1, <3>1
    <2> QED
      BY <2>2, <2>3, <2>4 DEF Next
  <1> QED
    BY <1>1, CareersFit, PTL DEF Spec, StoreGrows

=============================================================================
