--------------------------- MODULE SchedulerProofs ---------------------------
(***************************************************************************)
(* Theorems about Scheduler, for every list of windows and every length of *)
(* a day: which windows the loop keeps, and for what it closes the gate.   *)
(*                                                                         *)
(* A window begins at its first time of the week and again after each      *)
(* period, a day or a week, so what the loop computes in days and times of *)
(* day is turned into remainders: how many ticks ago a definition's last   *)
(* pre-close moment was.                                                   *)
(***************************************************************************)
EXTENDS Scheduler, FiniteSetTheorems, TLAPS

----------------------------------------------------------------------------
(* Remainders.                                                              *)

LEMMA Remainder ==
    ASSUME NEW a \in Int, NEW w \in Nat \ {0}
    PROVE  /\ a % w \in 0 .. w - 1 /\ a \div w \in Int
           /\ a = (a \div w) * w + (a % w)
<1>1. a % w \in 0 .. w - 1 /\ a \div w \in Int
  OBVIOUS
<1>2. a = (a \div w) * w + (a % w)
  OBVIOUS
<1> QED
  BY <1>1, <1>2

LEMMA RemainderIs ==
    ASSUME NEW a \in Int, NEW w \in Nat \ {0}, NEW k \in Int, NEW r \in 0 .. w - 1,
           a = k * w + r
    PROVE  a % w = r
OBVIOUS

LEMMA Shifted ==
    ASSUME NEW a \in Int, NEW b \in Int, NEW w \in Nat \ {0}, \E k \in Int : b = a + k * w
    PROVE  b % w = a % w
<1> DEFINE q == a \div w
           r == a % w
<1>1. q \in Int /\ r \in 0 .. w - 1 /\ a = q * w + r
  BY Remainder
<1>2. PICK k \in Int : b = a + k * w
  OBVIOUS
<1> HIDE DEF q, r
<1>3. b = (q + k) * w + r /\ q + k \in Int
  BY <1>1, <1>2
<1> QED
  BY <1>1, <1>3, RemainderIs DEF r

LEMMA NextRemainder ==
    ASSUME NEW a \in Int, NEW w \in Nat \ {0}
    PROVE  (a + 1) % w = IF a % w = w - 1 THEN 0 ELSE (a % w) + 1
<1> DEFINE q == a \div w
           r == a % w
<1>1. q \in Int /\ r \in 0 .. w - 1 /\ a = q * w + r
  BY Remainder
<1> HIDE DEF q, r
<1>2. CASE r = w - 1
  <2>1. a + 1 = (q + 1) * w + 0 /\ q + 1 \in Int /\ a + 1 \in Int /\ 0 \in 0 .. w - 1
    BY <1>1, <1>2
  <2>2. (a + 1) % w = 0
    BY <2>1, RemainderIs
  <2> QED BY <2>2, <1>2 DEF r
<1>3. CASE r # w - 1
  <2>1. a + 1 = q * w + (r + 1) /\ r + 1 \in 0 .. w - 1
    BY <1>1, <1>3
  <2>2. (a + 1) % w = r + 1
    BY <2>1, <1>1, RemainderIs
  <2> QED BY <2>2, <1>1, <1>3 DEF r
<1> QED
  BY <1>2, <1>3

\* Of what is less than w either way.
LEMMA SmallRemainder ==
    ASSUME NEW w \in Nat \ {0}, NEW x \in 0 .. w - 1, NEW y \in 0 .. w - 1
    PROVE  (x - y) % w = IF x >= y THEN x - y ELSE w + x - y
<1>1. CASE x >= y
  <2>1. x - y = 0 * w + (x - y) /\ x - y \in 0 .. w - 1
    BY <1>1
  <2>2. (x - y) % w = x - y
    BY <2>1, RemainderIs
  <2> QED BY <2>2, <1>1
<1>2. CASE x < y
  <2>1. x - y = (-1) * w + (w + x - y) /\ w + x - y \in 0 .. w - 1
    BY <1>2
  <2>2. (x - y) % w = w + x - y
    BY <2>1, RemainderIs
  <2> QED BY <2>2, <1>2
<1> QED
  BY <1>1, <1>2

\* A multiple of w within a bound of w.
LEMMA Multiples ==
    ASSUME NEW w \in Nat \ {0}, NEW k \in Int, NEW m \in Int
    PROVE  /\ k * w > m * w => k > m
           /\ k * w >= m * w => k >= m
           /\ k * w = m * w => k = m
OBVIOUS

LEMMA DaysOfWeek ==
    ASSUME NEW w \in Nat \ {0}, NEW d \in 1 .. 6
    PROVE  d * w \in Int /\ d * w >= w /\ d * w <= 6 * w /\ (d - 7) * w = d * w - 7 * w
OBVIOUS

----------------------------------------------------------------------------
(* A definition's period and first window.                                  *)

Period(i) == IF Windows[i].kind = "daily" THEN DayTicks ELSE Week

First(i) == LET w == Windows[i]
            IN  IF w.kind = "daily" THEN w.start ELSE At(w.startDay, w.start)

\* Ticks since the last pre-close moment of definition i, as of time t.
Since(i, t) == (t + Before - First(i)) % Period(i)

\* How long the loop serves a window of i: as long as it lasts, except that a
\* weekly one that ends later on its own weekday is served for a week more.
Span(i) == LET w == Windows[i] IN DaysToEnd(w) * DayTicks + w.end - w.start

LEMMA TickTypes ==
    /\ DayTicks \in Nat \ {0} /\ Before \in Nat
    /\ Week \in Nat \ {0} /\ Week = 7 * DayTicks
BY TicksAssumption DEF Week

LEMMA DefTypes ==
    ASSUME NEW i \in Defs
    PROVE  /\ Windows[i] \in WindowDefs
           /\ Windows[i].kind \in {"daily", "weekly"}
           /\ Windows[i].startDay \in 0 .. 6 /\ Windows[i].endDay \in 0 .. 6
           /\ Windows[i].start \in 0 .. DayTicks - 1 /\ Windows[i].end \in 0 .. DayTicks - 1
           /\ Period(i) \in Nat \ {0} /\ First(i) \in Int
           /\ \E m \in {1, 7} : Week = m * Period(i)
<1>1. Windows[i] \in WindowDefs
  BY WindowsAssumption DEF Defs
<1>2. /\ Windows[i].kind \in {"daily", "weekly"}
      /\ Windows[i].startDay \in 0 .. 6 /\ Windows[i].endDay \in 0 .. 6
      /\ Windows[i].start \in 0 .. DayTicks - 1 /\ Windows[i].end \in 0 .. DayTicks - 1
  BY <1>1 DEF WindowDefs
<1>3. Period(i) \in Nat \ {0} /\ First(i) \in Int
  BY <1>2, TickTypes DEF Period, First, At
<1>4. \E m \in {1, 7} : Week = m * Period(i)
  BY TickTypes DEF Period
<1> QED
  BY <1>1, <1>2, <1>3, <1>4

\* How long a window lasts, and is served.
LEMMA Lengths ==
    ASSUME NEW i \in Defs
    PROVE  /\ Lasts(i) \in 1 .. Period(i) /\ Span(i) \in Int /\ Span(i) >= Lasts(i)
           /\ (Windows[i].kind = "weekly" /\ Windows[i].startDay = Windows[i].endDay
                  => Windows[i].end <= Windows[i].start)
              => Span(i) = Lasts(i)
<1> DEFINE w == Windows[i]
           D == DayTicks
<1>1. /\ w.kind \in {"daily", "weekly"} /\ w.startDay \in 0 .. 6 /\ w.endDay \in 0 .. 6
      /\ w.start \in 0 .. D - 1 /\ w.end \in 0 .. D - 1 /\ D \in Nat \ {0}
      /\ Week \in Nat \ {0} /\ Week = 7 * D
  BY DefTypes, TickTypes
<1>2. CASE w.kind = "daily"
  <2> DEFINE s == (w.end - w.start) % D
  <2>1. Lasts(i) = IF s # 0 THEN s ELSE D
    BY <1>2 DEF Lasts
  <2>2. Span(i) = IF w.end <= w.start THEN D + w.end - w.start ELSE w.end - w.start
    BY <1>1, <1>2 DEF Span, DaysToEnd
  <2>3. s = IF w.end >= w.start THEN w.end - w.start ELSE D + w.end - w.start
    BY <1>1, SmallRemainder
  <2> HIDE DEF s
  <2> QED BY <2>1, <2>2, <2>3, <1>1, <1>2 DEF Period
<1>3. CASE w.kind = "weekly"
  <2> DEFINE d == (w.endDay - w.startDay) % 7
             a == At(w.endDay, w.end) - At(w.startDay, w.start)
             s == a % Week
  <2>1. Lasts(i) = IF s # 0 THEN s ELSE Week
    BY <1>3 DEF Lasts
  <2>2. d \in 0 .. 6 /\ d = IF w.endDay >= w.startDay THEN w.endDay - w.startDay
                          ELSE 7 + w.endDay - w.startDay
    <3>1. w.endDay - w.startDay \in Int /\ 7 \in Nat \ {0}
      BY <1>1
    <3>2. d \in 0 .. 7 - 1
      BY ONLY <3>1, Remainder
    <3> QED BY <3>2, <1>1, SmallRemainder
  <2>3. Span(i) = (IF d = 0 THEN 7 ELSE d) * D + w.end - w.start
    BY <1>3 DEF Span, DaysToEnd
  <2>4. a = (w.endDay - w.startDay) * D + w.end - w.start /\ a \in Int
    BY <1>1 DEF At
  <2> HIDE DEF d, a
  <2>5. CASE d # 0
    <3> DEFINE r == d * D + w.end - w.start
    <3>1. d \in 1 .. 6
      BY <2>2, <2>5
    <3>2. r \in 1 .. Week - 1
      <4> DEFINE p == d * D
      <4>1. p \in Int /\ p >= D /\ p <= 6 * D
        BY <3>1, TickTypes, DaysOfWeek
      <4> HIDE DEF p
      <4>2. p + w.end - w.start \in 1 .. Week - 1
        BY <4>1, <1>1
      <4> QED BY <4>2 DEF p
    <3>3. \E k \in Int : a = k * Week + r
      <4>1. CASE w.endDay >= w.startDay
        <5>1. d = w.endDay - w.startDay
          BY <4>1, <2>2
        <5>2. a = 0 * Week + r
          BY <5>1, <2>4, <1>1
        <5> QED BY <5>2
      <4>2. CASE w.endDay < w.startDay
        <5>1. a = (d - 7) * D + w.end - w.start
          <6>1. w.endDay - w.startDay = d - 7
            BY <4>2, <2>2, <1>1
          <6> QED BY <6>1, <2>4
        <5> DEFINE p == d * D
        <5>2. (d - 7) * D = p - Week /\ p \in Int
          BY <3>1, <1>1, DaysOfWeek
        <5> HIDE DEF p
        <5>3. a = (-1) * Week + (p + w.end - w.start)
          BY <5>1, <5>2, <1>1
        <5> QED BY <5>3 DEF p
      <4> HIDE DEF r
      <4> QED BY <4>1, <4>2, <1>1
    <3>4. s = r
      <4> HIDE DEF r
      <4>1. PICK k \in Int : a = k * Week + r
        BY <3>3
      <4>2. r \in 0 .. Week - 1 /\ a \in Int /\ Week \in Nat \ {0}
        BY <3>2, <2>4, <1>1
      <4>3. a % Week = r
        BY <4>1, <4>2, RemainderIs
      <4> QED BY <4>3 DEF s
    <3>5. Lasts(i) = r /\ Span(i) = r
      <4>1. Span(i) = r
        BY <2>3, <2>5
      <4> HIDE DEF r, s
      <4> QED BY <4>1, <2>1, <3>2, <3>4
    <3>6. Period(i) = Week /\ w.startDay # w.endDay
      BY <1>1, <1>3, <2>2, <2>5 DEF Period
    <3> HIDE DEF r
    <3> QED BY <3>2, <3>5, <3>6, <1>1
  <2>6. CASE d = 0
    <3>1. w.endDay = w.startDay /\ a = w.end - w.start
      BY <2>2, <2>4, <2>6, <1>1
    <3>2. Span(i) = Week + w.end - w.start
      BY <2>3, <2>6, <1>1
    <3>3. s = IF w.end >= w.start THEN w.end - w.start ELSE Week + w.end - w.start
      <4>1. w.end \in 0 .. Week - 1 /\ w.start \in 0 .. Week - 1
        BY <1>1
      <4>2. (w.end - w.start) % Week
               = IF w.end >= w.start THEN w.end - w.start ELSE Week + w.end - w.start
        BY <4>1, <1>1, SmallRemainder
      <4> QED BY <4>2, <3>1
    <3>4. Period(i) = Week
      BY <1>1, <1>3 DEF Period
    <3> HIDE DEF s
    <3> QED BY <2>1, <3>1, <3>2, <3>3, <3>4, <1>1, <1>3
  <2> QED BY <2>5, <2>6
<1> QED
  BY <1>1, <1>2, <1>3

----------------------------------------------------------------------------
(* Windows and pre-close moments as remainders.                             *)

\* The seven days of a week and a time of day.
LEMMA DaySplit ==
    ASSUME NEW D \in Nat \ {0}, NEW x \in Int
    PROVE  /\ \E d \in 0 .. 6 : (x - d * D) % (7 * D) = x % D
           /\ \A d \in 0 .. 6 : \E q \in 0 .. 6 : (x - d * D) % (7 * D) = q * D + (x % D)
<1> DEFINE k == x \div D
           r == x % D
           W == 7 * D
<1>1. k \in Int /\ r \in 0 .. D - 1 /\ x = k * D + r /\ W \in Nat \ {0} /\ W = 7 * D
  BY Remainder
<1> HIDE DEF k, r, W
<1>2. ASSUME NEW d \in 0 .. 6, NEW m \in Int, NEW e \in 0 .. 6, k - d = 7 * m + e
      PROVE  (x - d * D) % W = e * D + r
  <2>1. k = d + 7 * m + e
    BY <1>2, <1>1
  <2>2. k * D = d * D + m * W + e * D
    BY <2>1, <1>1
  <2> DEFINE y == x - d * D
             p == e * D
  <2>3. y \in Int /\ p \in Int /\ p >= 0 /\ p <= 6 * D
    BY <1>1
  <2>4. y = m * W + (p + r)
    BY <2>2, <1>1
  <2> HIDE DEF y, p
  <2>5. p + r \in 0 .. W - 1
    BY <2>3, <1>1
  <2>6. y % W = p + r
    BY <2>3, <2>4, <2>5, <1>1, RemainderIs
  <2> QED BY <2>6 DEF y, p
<1>3. \A n \in Int : \E m \in Int : \E e \in 0 .. 6 : n = 7 * m + e
  <2> TAKE n \in Int
  <2>1. n \div 7 \in Int /\ n % 7 \in 0 .. 6 /\ n = 7 * (n \div 7) + (n % 7)
    OBVIOUS
  <2> QED BY <2>1
<1>4. \E d \in 0 .. 6 : (x - d * D) % W = r
  <2>1. PICK m \in Int : \E e \in 0 .. 6 : k = 7 * m + e
    BY <1>1, <1>3
  <2>2. PICK e \in 0 .. 6 : k = 7 * m + e
    BY <2>1
  <2>3. k - e = 7 * m + 0 /\ 0 \in 0 .. 6
    BY <2>2, <1>1
  <2>4. (x - e * D) % W = 0 * D + r
    BY <2>3, <1>2
  <2>5. 0 * D + r = r
    BY <1>1
  <2> QED BY <2>4, <2>5
<1>5. \A d \in 0 .. 6 : \E q \in 0 .. 6 : (x - d * D) % W = q * D + r
  <2> TAKE d \in 0 .. 6
  <2>1. k - d \in Int
    BY <1>1
  <2>2. PICK m \in Int : \E e \in 0 .. 6 : k - d = 7 * m + e
    BY <2>1, <1>3
  <2>3. PICK e \in 0 .. 6 : k - d = 7 * m + e
    BY <2>2
  <2>4. (x - d * D) % W = e * D + r
    BY <2>3, <1>2
  <2> QED BY <2>4
<1> QED
  BY <1>4, <1>5 DEF W, r

LEMMA PreCloseIsZero ==
    ASSUME NEW i \in Defs, NEW t \in Int
    PROVE  PreCloseMoment(i, t) <=> Since(i, t) = 0
<1>1. CASE Windows[i].kind = "daily"
  <2> DEFINE x == t + Before - Windows[i].start
             D == DayTicks
  <2>1. /\ D \in Nat \ {0} /\ x \in Int
        /\ \A d \in Int : t + Before - At(d, Windows[i].start) = x - d * D
    BY DefTypes, TickTypes DEF At
  <2>2. PreCloseMoment(i, t) <=> \E d \in 0 .. 6 : (x - d * D) % (7 * D) = 0
    BY <2>1, <1>1 DEF PreCloseMoment, Begins, Week
  <2>3. Since(i, t) = x % D
    BY <1>1 DEF Since, First, Period
  <2> HIDE DEF x, D
  <2>4. x % D \in 0 .. D - 1
    BY <2>1, Remainder
  <2>5. ASSUME NEW q \in 0 .. 6, q * D + (x % D) = 0
        PROVE  x % D = 0
    <3>1. q * D >= 0 /\ q * D \in Int
      BY <2>1
    <3> QED BY <3>1, <2>4, <2>5
  <2>6. /\ \E d \in 0 .. 6 : (x - d * D) % (7 * D) = x % D
        /\ \A d \in 0 .. 6 : \E q \in 0 .. 6 : (x - d * D) % (7 * D) = q * D + (x % D)
    BY <2>1, DaySplit
  <2> QED BY <2>2, <2>3, <2>5, <2>6
<1>2. CASE Windows[i].kind = "weekly"
  BY <1>2 DEF PreCloseMoment, Begins, Since, First, Period
<1> QED
  BY <1>1, <1>2, DefTypes

LEMMA InWindowIs ==
    ASSUME NEW i \in Defs, NEW t \in Int
    PROVE  InWindow(i, t) <=> (t - First(i)) % Period(i) < Lasts(i)
<1>1. CASE Windows[i].kind = "daily"
  <2> DEFINE x == t - Windows[i].start
             D == DayTicks
             L == Lasts(i)
  <2>1. /\ D \in Nat \ {0} /\ x \in Int /\ L \in Int
        /\ \A d \in Int : t - At(d, Windows[i].start) = x - d * D
    BY DefTypes, TickTypes, Lengths DEF At
  <2>2. InWindow(i, t) <=> \E d \in 0 .. 6 : (x - d * D) % (7 * D) < L
    BY <2>1, <1>1 DEF InWindow, Begins, Week
  <2>3. (t - First(i)) % Period(i) = x % D
    BY <1>1 DEF First, Period
  <2> HIDE DEF x, D, L
  <2>4. x % D \in 0 .. D - 1
    BY <2>1, Remainder
  <2>5. ASSUME NEW q \in 0 .. 6, q * D + (x % D) < L
        PROVE  x % D < L
    <3>1. q * D >= 0 /\ q * D \in Int
      BY <2>1
    <3> QED BY <3>1, <2>1, <2>4, <2>5
  <2>6. /\ \E d \in 0 .. 6 : (x - d * D) % (7 * D) = x % D
        /\ \A d \in 0 .. 6 : \E q \in 0 .. 6 : (x - d * D) % (7 * D) = q * D + (x % D)
    BY <2>1, DaySplit
  <2>7. InWindow(i, t) <=> x % D < L
    BY <2>2, <2>5, <2>6
  <2> QED BY <2>7, <2>3 DEF L
<1>2. CASE Windows[i].kind = "weekly"
  BY <1>2 DEF InWindow, Begins, First, Period
<1> QED
  BY <1>1, <1>2, DefTypes

\* The week wraps around; a period divides it.
LEMMA Wrapped ==
    ASSUME NEW i \in Defs, NEW t \in Int, NEW c \in Int
    PROVE  (t % Week) \in Clock /\ ((t % Week) + c) % Period(i) = (t + c) % Period(i)
<1> DEFINE q == t \div Week
           r == t % Week
           P == Period(i)
<1>1. q \in Int /\ r \in 0 .. Week - 1 /\ t = q * Week + r
  BY TickTypes, Remainder
<1>2. P \in Nat \ {0}
  BY DefTypes
<1>3. PICK m \in {1, 7} : Week = m * P
  BY DefTypes
<1> HIDE DEF q, r, P
<1>4. q * Week = (q * m) * P /\ q * m \in Int
  BY <1>1, <1>2, <1>3
<1> DEFINE a == r + c
           b == t + c
           n == q * m
<1>5. a \in Int /\ b \in Int /\ n \in Int /\ b = a + n * P
  BY <1>1, <1>4, <1>2, TickTypes
<1> HIDE DEF a, b, n
<1>6. b % P = a % P
  BY <1>2, <1>5, Shifted
<1> QED
  BY <1>1, <1>6 DEF P, r, a, b, Clock

\* One tick later.
LEMMA SinceNext ==
    ASSUME NEW i \in Defs, NEW t \in Int
    PROVE  /\ Since(i, t) \in 0 .. Period(i) - 1
           /\ Since(i, (t + 1) % Week)
                 = IF Since(i, t) = Period(i) - 1 THEN 0 ELSE Since(i, t) + 1
<1> DEFINE c == Before - First(i)
           P == Period(i)
<1>1. c \in Int /\ P \in Nat \ {0} /\ t + c \in Int /\ t + 1 \in Int
  BY DefTypes, TickTypes
<1>2. Since(i, t) = (t + c) % P
  BY DefTypes, TickTypes DEF Since
<1>3. (t + 1) % Week \in Clock /\ (((t + 1) % Week) + c) % P = (t + 1 + c) % P
  BY <1>1, Wrapped
<1>4. Since(i, (t + 1) % Week) = (((t + 1) % Week) + c) % P
  <2>1. (t + 1) % Week \in Int
    BY <1>3, TickTypes DEF Clock
  <2> DEFINE u == (t + 1) % Week
  <2> HIDE DEF u
  <2>2. u \in Int => Since(i, u) = (u + c) % P
    BY DefTypes, TickTypes DEF Since
  <2> QED BY <2>1, <2>2 DEF u
<1> HIDE DEF c, P
<1>5. t + 1 + c = (t + c) + 1
  BY <1>1
<1>6. (t + 1 + c) % P = IF (t + c) % P = P - 1 THEN 0 ELSE ((t + c) % P) + 1
  BY <1>1, <1>5, NextRemainder
<1>7. (t + c) % P \in 0 .. P - 1
  BY <1>1, Remainder
<1> QED
  BY <1>2, <1>3, <1>4, <1>6, <1>7 DEF P

\* Longer ago than the lead and the window's length: the window is over.
LEMMA Over ==
    ASSUME NEW i \in Defs, NEW t \in Int, Since(i, t) >= Before + Lasts(i)
    PROVE  ~InWindow(i, t)
<1> DEFINE P == Period(i)
           y == t - First(i)
           s == Since(i, t)
           k == (y + Before) \div P
<1>1. P \in Nat \ {0} /\ y \in Int /\ Before \in Nat /\ Lasts(i) \in 1 .. P /\ y + Before \in Int
  BY DefTypes, TickTypes, Lengths
<1>2. s = (y + Before) % P
  <2>1. t + Before - First(i) = y + Before
    BY DefTypes, TickTypes
  <2> QED BY <2>1 DEF Since
<1>3. s \in 0 .. P - 1 /\ k \in Int /\ y + Before = k * P + s
  <2> HIDE DEF y, P, s
  <2> QED BY <1>1, <1>2, Remainder
<1>4. s >= Before + Lasts(i)
  OBVIOUS
<1> HIDE DEF P, y, s, k
<1>5. y = k * P + (s - Before) /\ s - Before \in 0 .. P - 1 /\ s - Before >= Lasts(i)
  BY <1>1, <1>3, <1>4
<1>6. y % P = s - Before
  BY <1>1, <1>3, <1>5, RemainderIs
<1> QED
  BY <1>5, <1>6, <1>1, <1>3, InWindowIs DEF P, y

----------------------------------------------------------------------------
(* Candidates.                                                              *)

LEMMA DaysAndWeeks ==
    ASSUME NEW D \in Nat \ {0}, NEW n \in Int, NEW k \in Int, NEW u \in Int, n = 7 * k + u
    PROVE  n * D = k * (7 * D) + u * D /\ u * D \in Int /\ k * (7 * D) \in Int
OBVIOUS

LEMMA DaysBefore ==
    ASSUME NEW D \in Nat \ {0}, NEW n \in Int, NEW a \in Int, NEW t \in Int, a = n - t
    PROVE  a * D = n * D - t * D /\ n * D \in Int /\ t * D \in Int
OBVIOUS

LEMMA TodayIs ==
    ASSUME now \in Clock
    PROVE  /\ now \in Int /\ Today \in 0 .. 6 /\ TimeOfDay \in 0 .. DayTicks - 1
           /\ now = Today * DayTicks + TimeOfDay
<1> DEFINE D == DayTicks
           q == now \div D
           r == now % D
<1>1. D \in Nat \ {0} /\ now \in 0 .. 7 * D - 1 /\ now \in Int
  BY TickTypes DEF Clock
<1>2. q \in Int /\ r \in 0 .. D - 1 /\ now = q * D + r
  BY <1>1, Remainder
<1>3. Today = q /\ TimeOfDay = r
  BY DEF Today, TimeOfDay
<1> HIDE DEF D, q, r
<1>4. q * D > (-1) * D /\ 7 * D > q * D
  BY <1>1, <1>2
<1>5. q \in 0 .. 6
  <2>1. -1 \in Int /\ 7 \in Int
    OBVIOUS
  <2>2. q > -1 /\ 7 > q
    BY <2>1, <1>1, <1>2, <1>4, Multiples
  <2> QED BY <2>2, <1>2
<1> QED
  BY <1>1, <1>2, <1>3, <1>5 DEF D

\* What an occurrence of definition i is, counted in its periods.
LEMMA OccurrenceAt ==
    ASSUME now \in Clock, NEW i \in Defs, NEW a \in Days(Windows[i])
    PROVE  LET c == Occurrence(Windows[i], a)
           IN  /\ a \in Int
               /\ c \in [pre : Int, start : Int, end : Int]
               /\ c.start = c.pre + Before /\ c.end = c.start + Span(i)
               /\ \E k \in Int :
                     /\ now + c.start = First(i) + k * Period(i)
                     /\ Today + a = IF Windows[i].kind = "daily" THEN k
                                    ELSE 7 * k + Windows[i].startDay
<1> DEFINE w == Windows[i]
           D == DayTicks
           c == Occurrence(w, a)
           m == a * D - TimeOfDay
           e == DaysToEnd(w) * D
<1>1. /\ w.kind \in {"daily", "weekly"} /\ w.startDay \in 0 .. 6 /\ w.endDay \in 0 .. 6
      /\ w.start \in 0 .. D - 1 /\ w.end \in 0 .. D - 1 /\ D \in Nat \ {0} /\ Before \in Nat
      /\ Week = 7 * D
  BY DefTypes, TickTypes
<1>2. a \in 0 .. 8 /\ (w.kind = "weekly" => (Today + a) % 7 = w.startDay)
  BY <1>1 DEF Days
<1>3. now \in Int /\ Today \in 0 .. 6 /\ TimeOfDay \in Int /\ now = Today * D + TimeOfDay
  BY TodayIs, TickTypes
<1>4. DaysToEnd(w) \in Int
  BY <1>1, Remainder DEF DaysToEnd
<1>5. m \in Int /\ e \in Int /\ now + m = (Today + a) * D
  BY <1>1, <1>2, <1>3, <1>4
<1>6. c = [pre |-> m + w.start - Before, start |-> m + w.start, end |-> m + e + w.end]
  BY DEF Occurrence
<1>7. Span(i) = e + w.end - w.start
  BY DEF Span
<1>8. \E k \in Int : /\ (Today + a) * D + w.start = First(i) + k * Period(i)
                     /\ Today + a = IF w.kind = "daily" THEN k ELSE 7 * k + w.startDay
  <2>1. CASE w.kind = "daily"
    <3>1. (Today + a) * D + w.start = First(i) + (Today + a) * Period(i)
      BY <2>1, <1>1, <1>2, <1>3 DEF First, Period
    <3>2. Today + a \in Int
      BY <1>2, <1>3
    <3> QED BY <3>1, <3>2, <2>1
  <2>2. CASE w.kind = "weekly"
    <3> DEFINE n == Today + a
               k == n \div 7
    <3>1. n \in Int /\ n % 7 = w.startDay
      BY <1>2, <1>3, <2>2
    <3>2. k \in Int /\ n = 7 * k + (n % 7)
      BY <3>1
    <3>3. First(i) = w.startDay * D + w.start /\ Period(i) = 7 * D
      BY <2>2, <1>1 DEF First, Period, At
    <3> HIDE DEF n, k
    <3>4. n = 7 * k + w.startDay
      BY <3>1, <3>2
    <3>5. n * D = k * (7 * D) + w.startDay * D /\ k * (7 * D) \in Int /\ w.startDay * D \in Int
      <4> DEFINE u == w.startDay
      <4>1. u \in Int /\ n = 7 * k + u /\ n \in Int
        BY <3>1, <3>4, <1>1 DEF n
      <4> HIDE DEF u, D
      <4>2. D \in Nat \ {0}
        BY <1>1
      <4> QED BY ONLY <3>2, <4>1, <4>2, DaysAndWeeks DEF u
    <3>6. n * D + w.start = First(i) + k * Period(i)
      <4> DEFINE x == k * (7 * D)
                 u == w.startDay * D
      <4>1. n * D = x + u /\ x \in Int /\ u \in Int
        BY <3>5
      <4>2. First(i) = u + w.start /\ k * Period(i) = x
        BY <3>3
      <4> HIDE DEF x, u
      <4> QED BY <4>1, <4>2, <1>1
    <3> QED BY <3>2, <3>4, <3>6, <2>2 DEF n
  <2> QED BY <2>1, <2>2, <1>1
<1> HIDE DEF m, e
<1>9. /\ c \in [pre : Int, start : Int, end : Int]
      /\ c.start = c.pre + Before /\ c.end = c.start + Span(i)
      /\ now + c.start = (Today + a) * D + w.start
  BY <1>1, <1>3, <1>5, <1>6, <1>7
<1> HIDE DEF c, w, D
<1>10. \E k \in Int : /\ now + c.start = First(i) + k * Period(i)
                      /\ Today + a = IF w.kind = "daily" THEN k ELSE 7 * k + w.startDay
  BY <1>8, <1>9
<1>11. a \in Int
  BY <1>2
<1> QED
  BY <1>9, <1>10, <1>11 DEF c, w

\* What the loop may sleep towards.
LEMMA CandidateIs ==
    ASSUME now \in Clock, NEW i \in Defs, NEW c \in Candidates(Windows[i])
    PROVE  /\ c \in [pre : Int, start : Int, end : Int] /\ c.pre > 0
           /\ c.start = c.pre + Before /\ c.end = c.start + Span(i)
           /\ \E k \in Int : now + c.start = First(i) + k * Period(i)
<1>1. PICK a \in Upcoming(Windows[i]) : c = Occurrence(Windows[i], a)
  BY DEF Candidates
<1>2. a \in Days(Windows[i]) /\ c.pre > 0
  BY <1>1 DEF Upcoming
<1> QED
  BY <1>1, <1>2, OccurrenceAt

\* With a lead of at most a day, the days that are looked at hold the next pre-close
\* moment of every definition.
LEMMA Soonest ==
    ASSUME now \in Clock, Before <= DayTicks, NEW i \in Defs
    PROVE  \E c \in Candidates(Windows[i]) : c.pre = Period(i) - Since(i, now)
<1> DEFINE w == Windows[i]
           D == DayTicks
           P == Period(i)
           F == First(i)
           y == now + Before - F
           s == Since(i, now)
           k == (y \div P) + 1
           a == IF w.kind = "daily" THEN k - Today ELSE 7 * k + w.startDay - Today
<1>1. /\ w.kind \in {"daily", "weekly"} /\ w.startDay \in 0 .. 6
      /\ w.start \in 0 .. D - 1 /\ D \in Nat \ {0} /\ Before \in 0 .. D
      /\ P \in Nat \ {0} /\ F \in Int
  BY DefTypes, TickTypes
<1>2. /\ now \in Int /\ Today \in 0 .. 6 /\ TimeOfDay \in 0 .. D - 1
      /\ now = Today * D + TimeOfDay
  BY TodayIs
<1>3. y \in Int
  BY <1>1, <1>2
<1>4. s \in 0 .. P - 1 /\ k \in Int /\ y = (k - 1) * P + s
  <2>1. s = y % P
    BY DEF Since
  <2> DEFINE q == y \div P
  <2> HIDE DEF y, P, s
  <2>2. q \in Int /\ y % P \in 0 .. P - 1 /\ y = q * P + (y % P)
    BY <1>1, <1>3, Remainder
  <2>3. k = q + 1
    OBVIOUS
  <2> HIDE DEF q
  <2> QED BY <2>1, <2>2, <2>3
<1> DEFINE kP == k * P
<1>5. kP \in Int /\ y = kP - P + s /\ y = now + Before - F
  BY <1>1, <1>4
\* The day of that moment.
<1>6. /\ a \in Int /\ Today + a = IF w.kind = "daily" THEN k ELSE 7 * k + w.startDay
      /\ a * D = P - s + TimeOfDay - w.start + Before
  <2>1. CASE w.kind = "daily"
    <3>1. P = D /\ F = w.start /\ a = k - Today /\ a \in Int
      BY <2>1, <1>2, <1>4 DEF Period, First
    <3>2. a * D = kP - Today * D
      BY <3>1, <1>1, <1>2, <1>4
    <3> HIDE DEF a, kP, y, k, s
    <3> QED BY <3>1, <3>2, <2>1, <1>1, <1>2, <1>4, <1>5
  <2>2. CASE w.kind = "weekly"
    <3>1. P = 7 * D /\ F = w.startDay * D + w.start
      BY <2>2, TickTypes DEF Period, First, At
    <3> DEFINE g == w.startDay
               n == 7 * k + g
               u == g * D
               T == Today
               t == T * D
    <3>2. g \in Int /\ T \in Int /\ k \in Int /\ D \in Nat \ {0}
      <4>1. g \in Int /\ D \in Nat \ {0}
        BY <1>1
      <4>2. T \in Int
        BY <1>2
      <4>3. k \in Int
        BY <1>4
      <4> QED BY <4>1, <4>2, <4>3
    <3> HIDE DEF k, D, T, g
    <3>3. a = n - T
      <4>1. a = 7 * k + g - T
        BY <2>2 DEF T, g
      <4> HIDE DEF a
      <4> QED BY <4>1, <3>2
    <3> HIDE DEF a
    <3>4. n \in Int /\ a \in Int /\ T + a = n
      BY <3>2, <3>3
    <3>5. n * D = k * (7 * D) + u /\ u \in Int
      BY <3>2, <3>4, DaysAndWeeks
    <3> HIDE DEF n
    <3>6. a * D = n * D - t /\ n * D \in Int /\ t \in Int
      BY <3>2, <3>3, <3>4, DaysBefore
    <3>7. kP = k * (7 * D)
      BY <3>1
    <3>8. F = u + w.start /\ now = t + TimeOfDay
      BY <3>1, <1>2 DEF T, g
    <3> HIDE DEF u, t, kP, y, s, F
    <3>9. a * D = P - s + TimeOfDay - w.start + Before
      <4> DEFINE v == w.start
                 o == TimeOfDay
                 p == a * D
      <4>1. p = kP + u - t
        BY <3>5, <3>6, <3>7
      <4>2. kP \in Int /\ y = kP - P + s /\ y = now + Before - F
        BY <1>5
      <4>3. s \in Int /\ P \in Int /\ v \in Int /\ o \in Int /\ Before \in Int
        BY <1>1, <1>2, <1>4
      <4>4. F = u + v /\ now = t + o /\ u \in Int /\ t \in Int
        BY <3>5, <3>6, <3>8
      <4> HIDE DEF v, o, p, P, w
      <4>5. p = P - s + o - v + Before
        BY <4>1, <4>2, <4>3, <4>4
      <4> QED BY <4>5 DEF p, o, v
    <3> QED BY <3>4, <3>9, <2>2 DEF T, n, g
  <2> QED BY <2>1, <2>2, <1>1
<1> HIDE DEF a, kP, y, k, s
<1>7. a \in Days(w)
  <2> DEFINE p == a * D
  <2>1. P = IF w.kind = "daily" THEN D ELSE 7 * D
    BY TickTypes DEF Period
  <2>2. p = P - s + TimeOfDay - w.start + Before
    BY <1>6
  <2>3. p \in Int
    BY <1>6, <1>1
  <2> HIDE DEF p, P
  <2>4. p > -D /\ p < 2 * D + P
    BY <2>2, <2>3, <1>1, <1>2, <1>4
  <2>5. p > (-1) * D /\ (w.kind = "daily" => 3 * D > p) /\ (w.kind = "weekly" => 9 * D > p)
    BY <2>1, <2>3, <2>4, <1>1
  <2>6. -1 \in Int /\ 3 \in Int /\ 9 \in Int
    OBVIOUS
  <2>7. a > -1 /\ (w.kind = "daily" => 3 > a) /\ (w.kind = "weekly" => 9 > a)
    BY <2>5, <2>6, <1>1, <1>6, Multiples DEF p
  <2>8. w.kind = "weekly" => (Today + a) % 7 = w.startDay
    BY <1>1, <1>4, <1>6
  <2> HIDE DEF w
  <2>9. w.kind = "daily" => a \in 0 .. 2
    BY <2>7, <1>6
  <2>10. w.kind = "weekly" => a \in 0 .. 8
    BY <2>7, <1>6
  <2> QED BY <2>8, <2>9, <2>10, <1>1 DEF Days
<1>8. Occurrence(w, a).pre = P - s
  <2>1. Occurrence(w, a).pre = a * D - TimeOfDay + w.start - Before
    BY DEF Occurrence
  <2> QED BY <2>1, <1>1, <1>2, <1>4, <1>6
<1>9. a \in Upcoming(w)
  BY <1>1, <1>4, <1>7, <1>8 DEF Upcoming
\* It is the earliest.
<1>10. \A b \in Upcoming(w) : a <= b
  <2> TAKE b \in Upcoming(w)
  <2> DEFINE d == Occurrence(w, b)
  <2>1. b \in Days(w) /\ d.pre > 0
    BY DEF Upcoming
  <2>2. /\ b \in Int /\ d.pre \in Int /\ d.start = d.pre + Before
        /\ \E n \in Int : /\ now + d.start = F + n * P
                          /\ Today + b = IF w.kind = "daily" THEN n ELSE 7 * n + w.startDay
    BY <2>1, OccurrenceAt
  <2>3. PICK n \in Int : /\ now + d.start = F + n * P
                         /\ Today + b = IF w.kind = "daily" THEN n ELSE 7 * n + w.startDay
    BY <2>2
  <2> DEFINE nP == n * P
             x == d.pre
  <2>4. x \in Int /\ x > 0 /\ now + x + Before = F + nP /\ nP \in Int
    BY <2>1, <2>2, <2>3, <1>1, <1>2
  <2> HIDE DEF nP, d, x, P, F, w, D
  <2>5. nP > kP - P
    BY <2>4, <1>1, <1>2, <1>4, <1>5
  <2>6. n * P > (k - 1) * P
    BY <2>5, <1>1, <1>4 DEF nP, kP
  <2>7. n > k - 1
    <3>1. k - 1 \in Int
      BY <1>4
    <3> DEFINE h == k - 1
    <3> HIDE DEF h
    <3>2. n > h
      BY <3>1, <2>6, <1>1, Multiples DEF h
    <3> QED BY <3>2 DEF h
  <2> QED BY <2>2, <2>3, <2>7, <1>1, <1>2, <1>4, <1>6
<1>11. Occurrence(w, a) \in Candidates(w)
  BY <1>9, <1>10 DEF Candidates
<1> QED
  BY <1>8, <1>11 DEF s

----------------------------------------------------------------------------
(* The invariant of the loop.                                               *)

Pos(n) == IF n > 0 THEN n ELSE 0

Serving == {"closing", "sleep_start", "sleep_end"}

\* The gate is closed exactly while a window is served, and the deadlines behind
\* the loop have run out.
GateFollowsPhase ==
    /\ phase \in {"compute", "sleep_pre"} => accepting
    /\ phase \in Serving => ~accepting /\ left.pre = 0
    /\ phase = "sleep_end" => left.start = 0

\* The deadlines are those of an occurrence of definition i.
DeadlinesOf(i) ==
    /\ left.start = Pos(left.end - Span(i))
    /\ left.pre = Pos(left.end - Span(i) - Before)
    /\ left.end > 0 => \E k \in Int : now + left.end - Span(i) = First(i) + k * Period(i)

ServesSome == phase \in Serving \cup {"sleep_pre"} => \E i \in Defs : DeadlinesOf(i)

ServiceInv == TypeOK /\ GateFollowsPhase /\ ServesSome

\* No pre-close moment comes before the one the loop sleeps until.
SleepsToSoonest ==
    phase = "sleep_pre" /\ left.pre > 0 => \A i \in Defs : left.pre <= Period(i) - Since(i, now)

\* A window that was waited for is over, or is served to its end.
AwaitedServed(i) ==
    \/ phase \in {"crashed", "stopped"}
    \/ Since(i, now) >= Before + Lasts(i)
    \/ /\ phase \in Serving \cup {"sleep_pre"} /\ left.pre = 0
       /\ left.end >= Before + Lasts(i) - Since(i, now)

KeptInv == SleepsToSoonest /\ \A i \in awaited : AwaitedServed(i)

\* What the loop sleeps towards when it has computed.
LEMMA NextWindowIs ==
    ASSUME now \in Clock, NEW c \in NextWindow
    PROVE  /\ c \in [pre : Nat, start : Nat, end : Nat] /\ c.pre > 0
           /\ \E i \in Defs :
                 /\ c.start = c.pre + Before /\ c.end = c.start + Span(i)
                 /\ \E k \in Int : now + c.start = First(i) + k * Period(i)
           /\ Before <= DayTicks => \A i \in Defs : c.pre <= Period(i) - Since(i, now)
<1>1. PICK i \in Defs :
         /\ c \in Candidates(Windows[i])
         /\ \A j \in Defs : \A d \in Candidates(Windows[j]) :
               c.pre < d.pre \/ (c.pre = d.pre /\ i <= j)
  BY DEF NextWindow
<1>2. /\ c \in [pre : Int, start : Int, end : Int] /\ c.pre > 0
      /\ c.start = c.pre + Before /\ c.end = c.start + Span(i)
      /\ \E k \in Int : now + c.start = First(i) + k * Period(i)
  BY <1>1, CandidateIs
<1>3. Span(i) \in Int /\ Span(i) >= 1
  <2>1. Lasts(i) \in 1 .. Period(i) /\ Span(i) \in Int /\ Span(i) >= Lasts(i)
    BY Lengths
  <2> QED BY <2>1, DefTypes
<1>4. c \in [pre : Nat, start : Nat, end : Nat]
  <2>1. c.pre \in Nat /\ c.start \in Nat /\ c.end \in Nat
    BY <1>2, <1>3, TickTypes
  <2> QED BY <2>1, <1>2
<1>5. ASSUME Before <= DayTicks, NEW j \in Defs
      PROVE  c.pre <= Period(j) - Since(j, now)
  <2>1. PICK d \in Candidates(Windows[j]) : d.pre = Period(j) - Since(j, now)
    BY <1>5, Soonest
  <2>2. c.pre < d.pre \/ c.pre = d.pre
    BY <1>1
  <2>3. d.pre \in Int /\ c.pre \in Int
    BY <2>1, <1>2, CandidateIs
  <2> QED BY <2>1, <2>2, <2>3
<1> QED
  BY <1>1, <1>2, <1>4, <1>5

\* A tick brings the deadlines of an occurrence one tick nearer.
LEMMA DeadlinesTick ==
    ASSUME TypeOK, Tick, NEW i \in Defs, DeadlinesOf(i)
    PROVE  DeadlinesOf(i)'
<1> DEFINE S == Span(i)
           F == First(i)
           P == Period(i)
           e == left.end
<1>1. /\ S \in Int /\ S >= 1 /\ F \in Int /\ P \in Nat \ {0} /\ e \in Nat /\ now \in Int
      /\ left.pre \in Nat /\ left.start \in Nat /\ Before \in Nat
  <2>1. Lasts(i) \in 1 .. P /\ S \in Int /\ S >= Lasts(i)
    BY Lengths
  <2>2. F \in Int /\ P \in Nat \ {0}
    BY DefTypes
  <2>3. e \in Nat /\ now \in Int /\ left.pre \in Nat /\ left.start \in Nat
    BY TodayIs DEF TypeOK
  <2>4. S >= 1
    BY <2>1, <2>2
  <2> QED BY <2>1, <2>2, <2>3, <2>4, TickTypes
<1>2. /\ left.start = Pos(e - S) /\ left.pre = Pos(e - S - Before)
      /\ e > 0 => \E k \in Int : now + e - S = F + k * P
  BY DEF DeadlinesOf
<1>3. /\ left'.pre = Less(left.pre) /\ left'.start = Less(left.start) /\ left'.end = Less(e)
      /\ now' = (now + 1) % Week
  BY DEF Tick
<1> DEFINE n == now'
           f == left'.end
<1>4. f = Less(e) /\ n = (now + 1) % Week
  BY <1>3
<1> HIDE DEF S, F, P, e, n, f
<1>5. left'.start = Pos(f - S) /\ left'.pre = Pos(f - S - Before)
  BY <1>1, <1>2, <1>3, <1>4 DEF Pos, Less
<1>6. ASSUME f > 0
      PROVE  \E k \in Int : n + f - S = F + k * P
  <2>1. e > 0 /\ f = e - 1
    BY <1>1, <1>4, <1>6 DEF Less
  <2>2. PICK k \in Int : now + e - S = F + k * P
    BY <1>2, <2>1
  <2> DEFINE q == (now + 1) \div Week
  <2>3. q \in Int /\ n \in Int /\ now + 1 = q * Week + n
    <3>1. now + 1 \in Int /\ Week \in Nat \ {0}
      BY <1>1, TickTypes
    <3>2. (now + 1) % Week \in 0 .. Week - 1 /\ q \in Int /\ now + 1 = q * Week + ((now + 1) % Week)
      BY <3>1, Remainder
    <3> QED BY <3>2, <1>4, TickTypes
  <2>4. PICK m \in {1, 7} : Week = m * P
    BY DefTypes DEF P
  <2> HIDE DEF q
  <2>5. q * Week = (q * m) * P /\ q * m \in Int
    BY <2>3, <2>4, <1>1
  <2> DEFINE j == k - q * m
             kP == k * P
             gP == (q * m) * P
  <2>6. j \in Int /\ j * P = kP - gP /\ kP \in Int /\ gP \in Int
    BY <2>5, <1>1
  <2>7. now + 1 = gP + n /\ now + e - S = F + kP
    BY <2>2, <2>3, <2>5
  <2> HIDE DEF j, kP, gP
  <2>8. n + f - S = F + j * P
    BY <2>1, <2>3, <2>6, <2>7, <1>1
  <2> QED BY <2>6, <2>8
<1> QED
  BY <1>5, <1>6 DEF DeadlinesOf, S, F, P, n, f

LEMMA DeadlinesUnchanged ==
    ASSUME NEW i \in Defs, UNCHANGED <<now, left>>
    PROVE  /\ DeadlinesOf(i) => DeadlinesOf(i)'
           /\ Since(i, now)' = Since(i, now)
BY DEF DeadlinesOf, Since, Span, DaysToEnd, First, Period, At

LEMMA InitService == Init => ServiceInv
BY DEF Init, ServiceInv, TypeOK, Phases, NoWindow, GateFollowsPhase, ServesSome, Serving

\* A step that leaves clock and deadlines alone.
LEMMA StillServes ==
    ASSUME ServesSome, UNCHANGED <<now, left>>,
           phase' \in Serving \cup {"sleep_pre"} => phase \in Serving \cup {"sleep_pre"}
    PROVE  ServesSome'
<1> SUFFICES ASSUME phase' \in Serving \cup {"sleep_pre"}
             PROVE  \E i \in Defs : DeadlinesOf(i)'
  BY DEF ServesSome, Serving, Defs
<1>1. PICK i \in Defs : DeadlinesOf(i)
  BY DEF ServesSome
<1> QED
  BY <1>1, DeadlinesUnchanged

LEMMA ServiceStep ==
    ASSUME ServiceInv, [Next]_vars
    PROVE  ServiceInv'
<1> USE DEF ServiceInv
<1>1. CASE ComputeNextWindow
  <2>1. phase = "compute" /\ accepting /\ UNCHANGED <<now, mode, accepting, awaited>>
    BY <1>1 DEF ComputeNextWindow, GateFollowsPhase
  <2>2. CASE NextWindow = {}
    BY <1>1, <2>1, <2>2
       DEF ComputeNextWindow, TypeOK, Phases, GateFollowsPhase, ServesSome, Serving
  <2>3. CASE NextWindow # {}
    <3>1. PICK c \in NextWindow : phase' = "sleep_pre" /\ left' = c
      BY <1>1, <2>3 DEF ComputeNextWindow
    <3>2. /\ c \in [pre : Nat, start : Nat, end : Nat] /\ c.pre > 0
          /\ \E i \in Defs :
                /\ c.start = c.pre + Before /\ c.end = c.start + Span(i)
                /\ \E k \in Int : now + c.start = First(i) + k * Period(i)
      BY NextWindowIs DEF TypeOK
    <3>3. PICK i \in Defs :
             /\ c.start = c.pre + Before /\ c.end = c.start + Span(i)
             /\ \E k \in Int : now + c.start = First(i) + k * Period(i)
      BY <3>2
    <3>4. TypeOK'
      BY <2>1, <3>1, <3>2 DEF TypeOK, Phases
    <3>5. GateFollowsPhase'
      BY <2>1, <3>1 DEF GateFollowsPhase, Serving
    <3>6. Span(i) \in Int /\ Before \in Nat /\ c.pre \in Nat /\ c.start \in Nat /\ c.end \in Nat
          /\ now \in Int
      <4>1. Span(i) \in Int
        BY Lengths
      <4> QED BY <4>1, <3>2, TickTypes, TodayIs DEF TypeOK
    <3>7. c.end - Span(i) = c.start /\ now + c.end - Span(i) = now + c.start
      BY <3>3, <3>6
    <3>8. DeadlinesOf(i)'
      <4>1. c.start = Pos(c.end - Span(i)) /\ c.pre = Pos(c.end - Span(i) - Before)
        BY <3>2, <3>3, <3>6, <3>7 DEF Pos
      <4>2. \E k \in Int : now + c.end - Span(i) = First(i) + k * Period(i)
        BY <3>3, <3>7
      <4> QED BY <2>1, <3>1, <4>1, <4>2 DEF DeadlinesOf
    <3> QED BY <3>4, <3>5, <3>8 DEF ServesSome
  <2> QED BY <2>2, <2>3
<1>2. CASE EnterPreClose
  <2>1. left.pre = 0
    BY <1>2 DEF EnterPreClose, TypeOK
  <2>2. TypeOK' /\ GateFollowsPhase'
    BY <1>2, <2>1 DEF EnterPreClose, TypeOK, Phases, GateFollowsPhase, Serving
  <2> QED BY <1>2, <2>2, StillServes DEF EnterPreClose
<1>3. CASE EnterMaintenance
  <2>1. left.start = 0 /\ left.pre = 0
    BY <1>3 DEF EnterMaintenance, TypeOK, GateFollowsPhase, Serving
  <2>2. TypeOK' /\ GateFollowsPhase'
    BY <1>3, <2>1 DEF EnterMaintenance, TypeOK, Phases, GateFollowsPhase, Serving
  <2> QED BY <1>3, <2>2, StillServes DEF EnterMaintenance, Serving
<1>4. CASE ExitMaintenance
  BY <1>4 DEF ExitMaintenance, TypeOK, Phases, GateFollowsPhase, ServesSome, Serving
<1>5. CASE CloseSequenceEnds
  <2>1. TypeOK' /\ GateFollowsPhase'
    BY <1>5 DEF CloseSequenceEnds, TypeOK, Phases, GateFollowsPhase, Serving
  <2> QED BY <1>5, <2>1, StillServes DEF CloseSequenceEnds, Serving
<1>6. CASE CloseSequenceRaises \/ Stop
  BY <1>6 DEF CloseSequenceRaises, Stop, TypeOK, Phases, GateFollowsPhase, ServesSome, Serving
<1>9. CASE ServerRestart
  <2>1. TypeOK'
    BY <1>9 DEF ServerRestart, NoWindow, TypeOK, Phases
  <2>2. GateFollowsPhase' /\ ServesSome'
    BY <1>9 DEF ServerRestart, GateFollowsPhase, ServesSome, Serving
  <2> QED BY <2>1, <2>2
<1>7. CASE Tick
  <2>1. /\ now' = (now + 1) % Week /\ UNCHANGED <<phase, mode, accepting>>
        /\ left' = [pre |-> Less(left.pre), start |-> Less(left.start), end |-> Less(left.end)]
    BY <1>7 DEF Tick
  <2>2. now' \in Clock
    <3>1. now + 1 \in Int
      BY TodayIs DEF TypeOK
    <3>2. (now + 1) % Week \in 0 .. Week - 1
      BY <3>1, TickTypes, Remainder
    <3> QED BY <2>1, <3>2 DEF Clock
  <2>3. awaited' \subseteq Defs
    BY <1>7 DEF Tick, TypeOK, Defs
  <2>4. left' \in [pre : Nat, start : Nat, end : Nat]
        /\ (left.pre = 0 => left'.pre = 0) /\ (left.start = 0 => left'.start = 0)
    BY <2>1 DEF Less, TypeOK
  <2>5. TypeOK' /\ GateFollowsPhase'
    BY <2>1, <2>2, <2>3, <2>4 DEF TypeOK, GateFollowsPhase, Defs
  <2>6. ServesSome'
    <3> SUFFICES ASSUME phase' \in Serving \cup {"sleep_pre"}
                 PROVE  \E i \in Defs : DeadlinesOf(i)'
      BY DEF ServesSome, Serving, Defs
    <3>1. PICK i \in Defs : DeadlinesOf(i)
      BY <2>1 DEF ServesSome
    <3> QED BY <3>1, <1>7, DeadlinesTick
  <2> QED BY <2>5, <2>6
<1>8. CASE UNCHANGED vars
  <2>1. TypeOK' /\ GateFollowsPhase'
    BY <1>8 DEF vars, TypeOK, GateFollowsPhase, Defs
  <2> QED BY <1>8, <2>1, StillServes DEF vars
<1> QED
  BY <1>1, <1>2, <1>3, <1>4, <1>5, <1>6, <1>7, <1>8, <1>9 DEF Next, Wake

\* Every variable of the loop keeps its type: the deadlines never run below zero, and
\* _compute_next_window never returns a window in the past.
THEOREM SchedulerTypeCorrect == Spec => []TypeOK
<1>1. ServiceInv => TypeOK
  BY DEF ServiceInv
<1> QED
  BY InitService, ServiceStep, <1>1, PTL DEF Spec

\* Signals are refused only from a window's pre-close moment to its end, and while the
\* close sequence runs late: proved for every configuration in which a weekly window
\* that begins and ends on one weekday does not end later in that day than it began.
THEOREM RefusalsAreForWindows ==
    ASSUME \A i \in Defs : Windows[i].kind = "weekly" /\ Windows[i].startDay = Windows[i].endDay
                              => Windows[i].end <= Windows[i].start
    PROVE  Spec => []RefusesOnlyForWindows
<1>1. ASSUME ServiceInv
      PROVE  RefusesOnlyForWindows
  <2> SUFFICES ASSUME Running, ~accepting, phase # "closing"
               PROVE  \E i \in Defs : InWindow(i, now) \/ InWindow(i, (now + left.start) % Week)
    BY DEF RefusesOnlyForWindows
  <2>1. phase \in {"sleep_start", "sleep_end"} /\ ~Due
    BY <1>1 DEF ServiceInv, TypeOK, Phases, GateFollowsPhase, Running
  <2>2. PICK i \in Defs : DeadlinesOf(i)
    BY <1>1, <2>1 DEF ServiceInv, ServesSome, Serving
  <2>3. /\ left.start = Pos(left.end - Span(i))
        /\ left.end > 0 => \E k \in Int : now + left.end - Span(i) = First(i) + k * Period(i)
    BY <2>2 DEF DeadlinesOf
  <2> DEFINE S == Span(i)
             F == First(i)
             P == Period(i)
             e == left.end
             L == Lasts(i)
  <2>4. L \in 1 .. P /\ S \in Int /\ S = L
    BY Lengths
  <2>5. F \in Int /\ P \in Nat \ {0}
    BY DefTypes
  <2>6. e \in Nat /\ left.start \in Nat /\ now \in Int
    BY <1>1, TodayIs DEF ServiceInv, TypeOK
  <2>7. CASE phase = "sleep_start"
    <3> HIDE DEF S, F, P, e, L
    <3>1. left.start > 0
      BY <2>1, <2>6, <2>7 DEF Due
    <3>2. left.start = e - S /\ e > 0
      BY <3>1, <2>3, <2>4, <2>5, <2>6 DEF Pos, S, e
    <3>3. PICK k \in Int : now + e - S = F + k * P
      BY <3>2, <2>3 DEF S, e, F, P
    <3> DEFINE t == now + left.start
               kP == k * P
    <3>4. t \in Int /\ t = F + kP /\ kP \in Int
      BY <3>2, <3>3, <2>4, <2>5, <2>6
    <3>5. t - F = k * P + 0 /\ t - F \in Int /\ 0 \in 0 .. P - 1
      <4> HIDE DEF t, kP
      <4>1. t - F = kP + 0 /\ t - F \in Int
        BY <3>4, <2>5
      <4> QED BY <4>1, <2>5 DEF kP
    <3> HIDE DEF t, kP
    <3>6. (t - F) % P = 0
      BY <3>5, <2>5, RemainderIs
    <3>7. (t % Week) \in Clock /\ ((t % Week) + (-F)) % P = (t + (-F)) % P
      <4>1. -F \in Int
        BY <2>5
      <4> QED BY <4>1, <3>4, Wrapped DEF P
    <3> DEFINE u == t % Week
    <3>8. u \in Int
      BY <3>7, TickTypes DEF Clock
    <3>9. (u - F) % P = 0
      <4> HIDE DEF u
      <4>1. u + (-F) = u - F /\ t + (-F) = t - F
        BY <3>4, <3>8, <2>5
      <4> QED BY <4>1, <3>6, <3>7 DEF u
    <3> HIDE DEF u
    <3>10. InWindow(i, u)
      BY <3>8, <3>9, <2>4, <2>5, InWindowIs DEF F, P, L
    <3> QED BY <3>10 DEF u, t
  <2>8. CASE phase = "sleep_end"
    <3>1. left.start = 0
      BY <1>1, <2>8 DEF ServiceInv, GateFollowsPhase
    <3> HIDE DEF S, F, P, e, L
    <3>2. e > 0 /\ e <= S
      <4>1. e > 0
        BY <2>1, <2>6, <2>8 DEF Due, e
      <4> QED BY <4>1, <3>1, <2>3, <2>4, <2>5, <2>6 DEF Pos, S, e
    <3>3. PICK k \in Int : now + e - S = F + k * P
      BY <3>2, <2>3 DEF S, e, F, P
    <3> DEFINE kP == k * P
    <3>4. kP \in Int /\ now + e - S = F + kP
      BY <3>3, <2>5
    <3>5. now - F = k * P + (S - e) /\ now - F \in Int /\ S - e \in 0 .. P - 1 /\ S - e < L
      <4> HIDE DEF kP
      <4>1. now - F = kP + (S - e) /\ now - F \in Int /\ S - e \in 0 .. P - 1 /\ S - e < L
        BY <3>2, <3>4, <2>4, <2>5, <2>6
      <4> QED BY <4>1 DEF kP
    <3>6. (now - F) % P = S - e
      <4> DEFINE y == now - F
                 r == S - e
      <4>1. y = k * P + r /\ y \in Int /\ r \in 0 .. P - 1
        BY <3>5
      <4> HIDE DEF y, r
      <4>2. y % P = r
        BY <4>1, <2>5, RemainderIs
      <4> QED BY <4>2 DEF y, r
    <3> QED BY <3>5, <3>6, <2>6, InWindowIs DEF F, P, L
  <2> QED BY <2>1, <2>7, <2>8
<1> QED
  BY InitService, ServiceStep, <1>1, PTL DEF Spec

----------------------------------------------------------------------------
(* Windows that were waited for are kept.                                   *)

\* A step that is not a tick keeps what was promised to a window.
LEMMA StillAwaited ==
    ASSUME NEW i \in Defs, UNCHANGED now, AwaitedServed(i),
           \/ phase' \in {"crashed", "stopped"}
           \/ UNCHANGED <<phase, left>>
           \/ /\ phase \notin {"crashed", "stopped"} /\ UNCHANGED left
              /\ phase' \in Serving
           \/ /\ phase \notin {"crashed", "stopped"}
              /\ phase \in Serving \cup {"sleep_pre"} => left.pre > 0
    PROVE  AwaitedServed(i)'
<1>1. /\ Since(i, now)' = Since(i, now) /\ Lasts(i)' = Lasts(i)
  BY DEF Since, First, Period, At, Lasts
<1> QED
  BY <1>1 DEF AwaitedServed, Serving

LEMMA InitKept == Init => KeptInv
BY DEF Init, KeptInv, SleepsToSoonest

LEMMA KeptTick ==
    ASSUME ServiceInv, KeptInv, Tick
    PROVE  KeptInv'
<1> DEFINE Gone(i) == Since(i, now)
           moments == {i \in Defs : PreCloseMoment(i, now')}
<1>1. /\ ~Due /\ now' = (now + 1) % Week /\ UNCHANGED <<phase, mode, accepting>>
      /\ left' = [pre |-> Less(left.pre), start |-> Less(left.start), end |-> Less(left.end)]
      /\ awaited' = (awaited \ moments)
                    \cup (IF phase = "sleep_pre" /\ Cardinality(moments) = 1 THEN moments ELSE {})
  BY DEF Tick
<1>2. now \in Int /\ now' \in Int /\ left \in [pre : Nat, start : Nat, end : Nat]
      /\ awaited \subseteq Defs
  <2>1. now' \in Clock
    BY ServiceStep DEF Next, ServiceInv, TypeOK
  <2> QED BY <2>1, TodayIs, TickTypes DEF ServiceInv, TypeOK, Clock
<1>3. \A i \in Defs :
         /\ Since(i, now) \in 0 .. Period(i) - 1
         /\ Since(i, now') = IF Since(i, now) = Period(i) - 1 THEN 0 ELSE Since(i, now) + 1
         /\ Since(i, now)' = Since(i, now')
         /\ Period(i) \in Nat \ {0} /\ Period(i)' = Period(i) /\ Lasts(i)' = Lasts(i)
         /\ (i \in moments <=> Since(i, now') = 0)
  <2> TAKE i \in Defs
  <2>1. /\ Since(i, now) \in 0 .. Period(i) - 1
        /\ Since(i, (now + 1) % Week)
              = IF Since(i, now) = Period(i) - 1 THEN 0 ELSE Since(i, now) + 1
    BY <1>2, SinceNext
  <2>2. Since(i, now)' = Since(i, now') /\ Period(i)' = Period(i) /\ Lasts(i)' = Lasts(i)
    BY DEF Since, First, Period, At, Lasts
  <2>3. Period(i) \in Nat \ {0}
    BY DefTypes
  <2>4. PreCloseMoment(i, now') <=> Since(i, now') = 0
    BY <1>2, PreCloseIsZero
  <2> QED BY <1>1, <2>1, <2>2, <2>3, <2>4
<1> HIDE DEF moments
<1>4. SleepsToSoonest'
  <2> SUFFICES ASSUME phase' = "sleep_pre", left'.pre > 0, NEW i \in Defs
               PROVE  left'.pre <= Period(i)' - Since(i, now)'
    BY DEF SleepsToSoonest, Defs
  <2>1. left.pre > 0 /\ left'.pre = left.pre - 1 /\ left.pre \in Nat
    BY <1>1, <1>2 DEF Less
  <2>2. left.pre <= Period(i) - Since(i, now)
    BY <1>1, <2>1 DEF KeptInv, SleepsToSoonest
  <2>3. left'.pre <= Period(i) - Since(i, now')
    <3> DEFINE P == Period(i)
               s == Since(i, now)
               t == Since(i, now')
               x == left.pre
               y == left'.pre
    <3>1. /\ x \in Nat /\ y = x - 1 /\ y > 0 /\ x <= P - s
          /\ s \in 0 .. P - 1 /\ P \in Nat \ {0} /\ t = IF s = P - 1 THEN 0 ELSE s + 1
      BY <1>3, <2>1, <2>2
    <3> HIDE DEF P, s, t, x, y
    <3>2. y <= P - t
      BY <3>1
    <3> QED BY <3>2 DEF P, t, y
  <2> QED BY <2>3, <1>3
<1>5. ASSUME NEW i \in awaited, i \notin moments
      PROVE  AwaitedServed(i)'
  <2>1. i \in Defs /\ AwaitedServed(i)
    BY <1>2 DEF KeptInv
  <2> DEFINE s == Since(i, now)
             t == Since(i, now')
             L == Lasts(i)
             x == left.end
             y == left'.end
  <2>2. L \in Int
    BY <2>1, Lengths
  <2>3. s \in Nat /\ t = s + 1 /\ Since(i, now)' = t /\ Lasts(i)' = L
    BY <1>3, <1>5, <2>1
  <2>4. x \in Nat /\ y = Less(x) /\ Before \in Nat
    BY <1>1, <1>2, TickTypes
  <2>5. phase = "sleep_pre" => left.pre > 0
    BY <1>1, <1>2 DEF Due
  <2>6. left.pre = 0 => left'.pre = 0
    BY <1>1 DEF Less
  <2>7. \/ phase \in {"crashed", "stopped"}
        \/ s >= Before + L
        \/ phase \in Serving \cup {"sleep_pre"} /\ left.pre = 0 /\ x >= Before + L - s
    BY <2>1 DEF AwaitedServed
  <2> HIDE DEF s, t, L, x, y
  <2>8. /\ s >= Before + L => t >= Before + L
        /\ x >= Before + L - s => t >= Before + L \/ y >= Before + L - t
    BY <2>2, <2>3, <2>4 DEF Less
  <2>9. \/ phase \in {"crashed", "stopped"}
        \/ t >= Before + L
        \/ phase \in Serving \cup {"sleep_pre"} /\ left'.pre = 0 /\ y >= Before + L - t
    BY <2>6, <2>7, <2>8
  <2> QED BY <1>1, <2>3, <2>9 DEF AwaitedServed, y
<1>6. ASSUME phase = "sleep_pre", Cardinality(moments) = 1, NEW i \in moments
      PROVE  AwaitedServed(i)'
  <2>1. PICK j \in Defs : DeadlinesOf(j)
    BY <1>6 DEF ServiceInv, ServesSome
  <2>2. i \in Defs /\ Since(i, now') = 0
    BY <1>3, <1>6 DEF moments
  <2>3. left.pre > 0
    BY <1>1, <1>2, <1>6 DEF Due
  <2>4. left.pre = 1 /\ left'.pre = 0
    <3>1. left.pre <= Period(i) - Since(i, now)
      BY <1>6, <2>2, <2>3 DEF KeptInv, SleepsToSoonest
    <3>2. Since(i, now) = Period(i) - 1 /\ Period(i) \in Int
      <4> DEFINE P == Period(i)
                 s == Since(i, now)
                 t == Since(i, now')
      <4>1. t = 0 /\ s \in 0 .. P - 1 /\ P \in Int /\ t = IF s = P - 1 THEN 0 ELSE s + 1
        BY <1>3, <2>2
      <4> HIDE DEF P, s, t
      <4>2. s = P - 1
        BY <4>1
      <4> QED BY <4>1, <4>2 DEF P, s
    <3> DEFINE P == Period(i)
               x == left.pre
    <3>3. x <= P - (P - 1) /\ P \in Int /\ x \in Nat /\ x > 0
      BY <3>1, <3>2, <2>3, <1>2
    <3> HIDE DEF P, x
    <3>4. x = 1
      BY <3>3
    <3> QED BY <3>4, <1>1 DEF x, Less
  <2> DEFINE S == Span(j)
             F == First(j)
             P == Period(j)
             e == left.end
  <2>5. /\ S \in Int /\ S >= 1 /\ F \in Int /\ P \in Nat \ {0} /\ Before \in Nat /\ e \in Nat
        /\ S >= Lasts(j) /\ Lasts(j) \in Int
    <3>1. Lasts(j) \in 1 .. P /\ S \in Int /\ S >= Lasts(j)
      BY Lengths
    <3>2. F \in Int /\ P \in Nat \ {0}
      BY DefTypes
    <3> HIDE DEF S, F, P
    <3> QED BY <3>1, <3>2, TickTypes, <1>2
  <2>6. /\ 1 = Pos(e - S - Before)
        /\ e > 0 => \E k \in Int : now + e - S = F + k * P
    BY <2>1, <2>4 DEF DeadlinesOf
  <2> HIDE DEF S, F, P, e
  <2>7. e = S + Before + 1
    BY <2>5, <2>6 DEF Pos
  \* The window that is served is the one whose moment it is.
  <2>8. Since(j, now') = 0
    <3>1. PICK k \in Int : now + e - S = F + k * P
      BY <2>5, <2>6, <2>7
    <3> DEFINE y == now + 1 + Before - F
               kP == k * P
               c == Before - F
    <3>2. kP \in Int /\ now + e - S = F + kP /\ c \in Int
      BY <3>1, <2>5
    <3>3. y = kP + 0 /\ y \in Int
      <4> HIDE DEF kP, c
      <4> QED BY <3>2, <2>5, <2>7, <1>2
    <3>4. y = k * P + 0 /\ 0 \in 0 .. P - 1
      BY <3>3, <2>5
    <3> HIDE DEF y
    <3>5. y % P = 0
      BY <3>3, <3>4, <2>5, RemainderIs
    <3>6. (((now + 1) % Week) + c) % P = (now + 1 + c) % P
      <4>1. now + 1 \in Int
        BY <1>2
      <4> HIDE DEF c
      <4> QED BY <4>1, <3>2, Wrapped DEF P
    <3>7. now + 1 + c = y /\ ((now + 1) % Week) + c = now' + Before - F
      BY <1>1, <1>2, <2>5 DEF y
    <3> QED BY <3>5, <3>6, <3>7 DEF Since, P, F
  <2>9. i = j
    <3>1. j \in moments
      BY <1>3, <2>8
    <3>2. IsFiniteSet(moments)
      <4>1. moments \subseteq 1 .. Len(Windows) /\ Len(Windows) \in Nat
        BY WindowsAssumption DEF moments, Defs
      <4>2. IsFiniteSet(1 .. Len(Windows))
        BY <4>1, FS_Interval
      <4> QED BY <4>1, <4>2, FS_Subset
    <3>3. PICK x : moments = {x}
      BY <1>6, <3>2, FS_Singleton
    <3> QED BY <3>1, <3>3, <1>6
  <2>10. left'.end >= Before + Lasts(i) - Since(i, now')
    <3>1. left'.end = S + Before
      <4>1. left'.end = Less(e)
        BY <1>1 DEF e
      <4> QED BY <4>1, <2>5, <2>7 DEF Less
    <3> QED BY <3>1, <2>2, <2>5, <2>9
  <2> QED BY <1>1, <1>3, <1>6, <2>2, <2>4, <2>10 DEF AwaitedServed
<1>7. ASSUME NEW i \in awaited'
      PROVE  AwaitedServed(i)'
  BY <1>1, <1>5, <1>6
<1> QED
  BY <1>4, <1>7 DEF KeptInv

LEMMA KeptStep ==
    ASSUME Before <= DayTicks, ServiceInv, KeptInv, [Next]_vars
    PROVE  KeptInv'
<1>0. now \in Clock /\ left \in [pre : Nat, start : Nat, end : Nat] /\ awaited \subseteq Defs
      /\ phase \in Phases
  BY DEF ServiceInv, TypeOK
<1>1. CASE ComputeNextWindow
  <2>1. phase = "compute" /\ UNCHANGED <<now, awaited>>
        /\ (phase' = "crashed" \/ \E c \in NextWindow : phase' = "sleep_pre" /\ left' = c)
    BY <1>1 DEF ComputeNextWindow
  <2>2. SleepsToSoonest'
    <3> SUFFICES ASSUME phase' = "sleep_pre", NEW i \in Defs
                 PROVE  left'.pre <= Period(i)' - Since(i, now)'
      BY DEF SleepsToSoonest, Defs
    <3>1. PICK c \in NextWindow : left' = c
      BY <2>1
    <3>2. c.pre <= Period(i) - Since(i, now)
      BY <1>0, NextWindowIs
    <3>3. Period(i)' = Period(i) /\ Since(i, now)' = Since(i, now)
      BY <2>1 DEF Since, First, Period, At
    <3> QED BY <3>1, <3>2, <3>3
  <2>3. ASSUME NEW i \in awaited
        PROVE  AwaitedServed(i)'
    BY <1>0, <2>1, StillAwaited DEF KeptInv, Serving
  <2> QED BY <2>1, <2>2, <2>3 DEF KeptInv
<1>2. CASE EnterPreClose \/ EnterMaintenance \/ CloseSequenceEnds
  <2>1. /\ UNCHANGED <<now, left, awaited>> /\ phase' \in Serving
        /\ phase \notin {"crashed", "stopped"}
    BY <1>2 DEF EnterPreClose, EnterMaintenance, CloseSequenceEnds, Serving
  <2>2. SleepsToSoonest'
    BY <2>1 DEF SleepsToSoonest, Serving
  <2>3. ASSUME NEW i \in awaited
        PROVE  AwaitedServed(i)'
    BY <1>0, <2>1, StillAwaited DEF KeptInv
  <2> QED BY <2>1, <2>2, <2>3 DEF KeptInv
\* The window is over when the gate opens again.
<1>3. CASE ExitMaintenance
  <2>1. UNCHANGED <<now, left, awaited>> /\ phase = "sleep_end" /\ phase' = "compute"
        /\ left.end = 0
    BY <1>3, <1>0 DEF ExitMaintenance
  <2>2. SleepsToSoonest'
    BY <2>1 DEF SleepsToSoonest
  <2>3. ASSUME NEW i \in awaited
        PROVE  AwaitedServed(i)'
    <3>1. i \in Defs /\ AwaitedServed(i)
      BY <1>0 DEF KeptInv
    <3> DEFINE s == Since(i, now)
               L == Lasts(i)
    <3>2. s \in Int /\ L \in Int /\ Before \in Int
      <4>1. now \in Int
        BY <1>0, TickTypes DEF Clock
      <4>2. s \in 0 .. Period(i) - 1
        BY <3>1, <4>1, SinceNext
      <4>3. L \in 1 .. Period(i)
        BY <3>1, Lengths
      <4> QED BY <4>2, <4>3, TickTypes
    <3>3. s >= Before + L \/ left.end >= Before + L - s
      BY <3>1, <2>1 DEF AwaitedServed
    <3> HIDE DEF s, L
    <3>4. s >= Before + L
      BY <2>1, <3>2, <3>3
    <3>5. Since(i, now)' = Since(i, now) /\ Lasts(i)' = Lasts(i)
      BY <2>1 DEF Since, First, Period, At, Lasts
    <3> QED BY <3>4, <3>5 DEF AwaitedServed, s, L
  <2> QED BY <2>1, <2>2, <2>3 DEF KeptInv
<1>4. CASE CloseSequenceRaises \/ Stop
  <2>1. UNCHANGED <<now, awaited>> /\ phase' \in {"crashed", "stopped"}
    BY <1>4 DEF CloseSequenceRaises, Stop
  <2> QED BY <2>1 DEF KeptInv, SleepsToSoonest, AwaitedServed
<1>5. CASE ServerRestart
  BY <1>5 DEF ServerRestart, KeptInv, SleepsToSoonest
<1>6. CASE Tick
  BY <1>6, KeptTick
<1>7. CASE UNCHANGED vars
  <2>1. UNCHANGED <<now, left, phase, awaited>>
    BY <1>7 DEF vars
  <2>2. SleepsToSoonest'
    <3>1. \A i \in Defs : Period(i)' = Period(i) /\ Since(i, now)' = Since(i, now)
      BY <2>1 DEF Since, First, Period, At
    <3> QED BY <2>1, <3>1 DEF KeptInv, SleepsToSoonest, Defs
  <2>3. ASSUME NEW i \in awaited
        PROVE  AwaitedServed(i)'
    BY <1>0, <2>1, StillAwaited DEF KeptInv
  <2> QED BY <2>1, <2>2, <2>3 DEF KeptInv
<1> QED
  BY <1>1, <1>2, <1>3, <1>4, <1>5, <1>6, <1>7 DEF Next, Wake

\* A window is kept, from its start to its end, whenever the loop was asleep at its
\* pre-close moment and no other window shares it: proved for every configuration in
\* which MAINTENANCE_CLOSE_MINUTES_BEFORE is at most a day: with more,
\* _compute_next_window may overlook a window or find none.
THEOREM AwaitedWindowsAreKept ==
    ASSUME Before <= DayTicks
    PROVE  Spec => []WindowsKept
<1>1. ServiceInv /\ KeptInv => WindowsKept
  <2> SUFFICES ASSUME ServiceInv, KeptInv, Running, NEW i \in awaited, InWindow(i, now)
               PROVE  ~accepting
    BY DEF WindowsKept
  <2>1. /\ phase \in Phases \ {"crashed", "stopped"} /\ ~Due /\ now \in Int /\ i \in Defs
        /\ left.pre \in Nat
    BY TodayIs DEF ServiceInv, TypeOK, Running
  <2>2. ~(Since(i, now) >= Before + Lasts(i))
    BY <2>1, Over
  <2>3. phase \in Serving \cup {"sleep_pre"} /\ left.pre = 0
    BY <2>1, <2>2 DEF KeptInv, AwaitedServed
  <2>4. phase \in Serving
    BY <2>1, <2>3 DEF Due
  <2> QED BY <2>4 DEF ServiceInv, GateFollowsPhase
<1>2. Init => ServiceInv /\ KeptInv
  BY InitService, InitKept
<1>3. ServiceInv /\ KeptInv /\ [Next]_vars => (ServiceInv /\ KeptInv)'
  BY ServiceStep, KeptStep
<1> QED
  BY <1>1, <1>2, <1>3, PTL DEF Spec
==============================================================================
