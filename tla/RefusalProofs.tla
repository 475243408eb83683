--------------------------- MODULE RefusalProofs ---------------------------
(***************************************************************************)
(* Theorems about the two components that refuse calls: RateLimit, in      *)
(* front of the handlers, for any number of keys, any rate and any size of *)
(* the in-memory map; and CircuitBreaker, in front of what handlers call,  *)
(* for any number of callers and any threshold, timeout and number of      *)
(* half-open calls.                                                        *)
(***************************************************************************)
EXTENDS RateLimit, CircuitBreaker, FiniteSetTheorems, SequenceTheorems, TLAPS

-----------------------------------------------------------------------------
(* RateLimit: sequences of ages.                                            *)

USE RateLimitAssumption

\* Ages in the order of the hits: those of any age on come first.
Layered(ages) ==
    \A t \in Ages : \E n \in 0 .. Len(ages) :
        \A i \in 1 .. Len(ages) : ages[i] >= t <=> i <= n

\* No age is that of a whole window.
Young(ages) == \A i \in 1 .. Len(ages) : ages[i] < Window

\* Older hits come first.
LEMMA LayeredIsSorted ==
    ASSUME NEW a \in Seq(Ages), Layered(a),
           NEW i \in 1 .. Len(a), NEW j \in 1 .. Len(a), i <= j
    PROVE  a[i] >= a[j]
<1>1. a[j] \in Ages
  OBVIOUS
<1>2. PICK n \in 0 .. Len(a) : \A q \in 1 .. Len(a) : a[q] >= a[j] <=> q <= n
  BY <1>1 DEF Layered
<1> QED
  BY <1>1, <1>2 DEF Ages

\* Within cuts off the hits of a whole window's age.
LEMMA WithinCuts ==
    ASSUME NEW a \in Seq(Ages), Layered(a)
    PROVE  /\ Within(a) \in Seq(Ages)
           /\ \E g \in 0 .. Len(a) :
                /\ \A i \in 1 .. Len(a) : a[i] >= Window <=> i <= g
                /\ Len(Within(a)) = Len(a) - g
                /\ \A i \in 1 .. Len(a) - g : Within(a)[i] = a[i + g]
<1> DEFINE Cut(n) == \A i \in 1 .. Len(a) : a[i] >= Window <=> i <= n
           g == CHOOSE n \in 0 .. Len(a) : Cut(n)
<1>1. \E n \in 0 .. Len(a) : Cut(n)
  BY DEF Layered, Ages
<1>2. g \in 0 .. Len(a) /\ Cut(g)
  BY <1>1
<1>3. Within(a) = SubSeq(a, g + 1, Len(a))
  BY DEF Within
<1> HIDE DEF g
<1>4. Within(a) \in Seq(Ages) /\ Len(Within(a)) = Len(a) - g
  BY <1>2, <1>3
<1>5. \A i \in 1 .. Len(a) - g : Within(a)[i] = a[i + g]
  BY <1>2, <1>3
<1> QED
  BY <1>2, <1>4, <1>5

\* What Within leaves is young and in order.
LEMMA WithinIsYoung ==
    ASSUME NEW a \in Seq(Ages), Layered(a)
    PROVE  Young(Within(a)) /\ Layered(Within(a)) /\ Len(Within(a)) <= Len(a)
<1>1. PICK g \in 0 .. Len(a) :
            /\ \A i \in 1 .. Len(a) : a[i] >= Window <=> i <= g
            /\ Len(Within(a)) = Len(a) - g
            /\ \A i \in 1 .. Len(a) - g : Within(a)[i] = a[i + g]
  BY WithinCuts
<1>2. \A i \in 1 .. Len(a) : a[i] \in Ages
  OBVIOUS
<1>3. Young(Within(a))
  BY <1>1, <1>2 DEF Young, Ages
<1>4. ASSUME NEW t \in Ages
      PROVE  \E n \in 0 .. Len(Within(a)) :
                \A i \in 1 .. Len(Within(a)) : Within(a)[i] >= t <=> i <= n
  <2>1. PICK n \in 0 .. Len(a) : \A i \in 1 .. Len(a) : a[i] >= t <=> i <= n
    BY DEF Layered
  <2>2. CASE n >= g
    <3>1. n - g \in 0 .. Len(Within(a))
      BY <1>1, <2>2
    <3>2. \A i \in 1 .. Len(Within(a)) : Within(a)[i] >= t <=> i <= n - g
      BY <1>1, <2>1, <2>2
    <3> QED
      BY <3>1, <3>2
  <2>3. CASE n < g
    <3>1. 0 \in 0 .. Len(Within(a))
      BY <1>1
    <3>2. \A i \in 1 .. Len(Within(a)) : Within(a)[i] >= t <=> i <= 0
      BY <1>1, <2>1, <2>3
    <3> QED
      BY <3>1, <3>2
  <2> QED
    BY <2>2, <2>3
<1> QED
  BY <1>1, <1>3, <1>4 DEF Layered

\* A hit now is the youngest.
LEMMA LayeredWithHit ==
    ASSUME NEW a \in Seq(Ages), Layered(a)
    PROVE  Append(a, 0) \in Seq(Ages) /\ Layered(Append(a, 0))
<1>1. 0 \in Ages
  BY DEF Ages
<1>2. ASSUME NEW t \in Ages
      PROVE  \E n \in 0 .. Len(Append(a, 0)) :
                \A i \in 1 .. Len(Append(a, 0)) : Append(a, 0)[i] >= t <=> i <= n
  <2>1. PICK n \in 0 .. Len(a) : \A i \in 1 .. Len(a) : a[i] >= t <=> i <= n
    BY DEF Layered
  <2>2. CASE t = 0
    <3>1. \A i \in 1 .. Len(Append(a, 0)) : Append(a, 0)[i] \in Ages
      BY <1>1
    <3>2. \A i \in 1 .. Len(Append(a, 0)) :
              Append(a, 0)[i] >= t <=> i <= Len(Append(a, 0))
      BY <2>2, <3>1 DEF Ages
    <3>3. Len(Append(a, 0)) \in 0 .. Len(Append(a, 0))
      OBVIOUS
    <3> QED
      BY <3>2, <3>3
  <2>3. CASE t # 0
    <3>1. t > 0
      BY <2>3 DEF Ages
    <3>2. \A i \in 1 .. Len(Append(a, 0)) : Append(a, 0)[i] >= t <=> i <= n
      BY <2>1, <3>1 DEF Ages
    <3>3. n \in 0 .. Len(Append(a, 0))
      OBVIOUS
    <3> QED
      BY <3>2, <3>3
  <2> QED
    BY <2>2, <2>3
<1>3. Append(a, 0) \in Seq(Ages)
  BY <1>1
<1>4. Layered(Append(a, 0))
  BY <1>2 DEF Layered
<1> QED
  BY <1>3, <1>4

\* What is no older than an age is no older than a greater one.
LEMMA AgesAreOrdered ==
    ASSUME NEW x \in Ages, NEW y \in Ages, NEW z \in Ages, x >= y, x <= z
    PROVE  y <= z
BY DEF Ages

\* A tick keeps the order of ages.
LEMMA OlderKeepsOrder ==
    ASSUME NEW x \in Ages, NEW y \in Ages, x <= y
    PROVE  Older(x) <= Older(y) /\ Older(x) \in Ages /\ Older(y) \in Ages
BY DEF Ages, Older

\* A tick later.
LEMMA LayeredAged ==
    ASSUME NEW a \in Seq(Ages), Layered(a)
    PROVE  /\ Aged(a) \in Seq(Ages)
           /\ Len(Aged(a)) = Len(a)
           /\ \A i \in 1 .. Len(a) : Aged(a)[i] = Older(a[i])
           /\ Layered(Aged(a))
<1>1. \A i \in 1 .. Len(a) : a[i] \in Ages /\ Older(a[i]) \in Ages
  BY DEF Ages, Older
<1>2. /\ Aged(a) \in Seq(Ages)
      /\ Len(Aged(a)) = Len(a)
      /\ \A i \in 1 .. Len(a) : Aged(a)[i] = Older(a[i])
  BY <1>1 DEF Aged
<1>3. ASSUME NEW t \in Ages
      PROVE  \E n \in 0 .. Len(a) : \A i \in 1 .. Len(a) : Aged(a)[i] >= t <=> i <= n
  <2>1. CASE t = 0
    <3>1. \A i \in 1 .. Len(a) : Aged(a)[i] >= t
      BY <1>1, <1>2, <2>1 DEF Ages
    <3> QED
      BY <3>1
  <2>2. CASE t # 0
    <3>1. t - 1 \in Ages
      BY <2>2 DEF Ages
    <3>2. PICK n \in 0 .. Len(a) : \A i \in 1 .. Len(a) : a[i] >= t - 1 <=> i <= n
      BY <3>1 DEF Layered
    <3>3. \A i \in 1 .. Len(a) : Aged(a)[i] >= t <=> a[i] >= t - 1
      BY <1>1, <1>2 DEF Ages, Older
    <3> QED
      BY <3>2, <3>3
  <2> QED
    BY <2>1, <2>2
<1> QED
  BY <1>2, <1>3 DEF Layered

-----------------------------------------------------------------------------
(* A fixed window of a given age that counted some hits: the recent hits    *)
(* are at most Times older ones, of the window before, and those it counted.*)

Fits(ages, age, counted) ==
    \E n \in 0 .. Len(ages) :
        /\ n <= Times
        /\ Len(ages) - n <= counted
        /\ Len(ages) - n <= Times
        /\ \A i \in 1 .. n : ages[i] >= age

\* A hit that passes while less than Times are counted.
LEMMA FitsWithHit ==
    ASSUME NEW a \in Seq(Ages), NEW age \in Ages, NEW c \in Counts, Fits(a, age, c)
    PROVE  /\ Fits(a, age, Up(c))
           /\ c < Times => Fits(Append(a, 0), age, Up(c))
<1>1. PICK n \in 0 .. Len(a) :
        /\ n <= Times
        /\ Len(a) - n <= c
        /\ Len(a) - n <= Times
        /\ \A i \in 1 .. n : a[i] >= age
  BY DEF Fits
<1>2. Fits(a, age, Up(c))
  <2>1. Len(a) - n <= Up(c)
    BY <1>1 DEF Counts, Up
  <2> QED
    BY <1>1, <2>1 DEF Fits
<1>3. ASSUME c < Times PROVE Fits(Append(a, 0), age, Up(c))
  <2>1. /\ n \in 0 .. Len(Append(a, 0))
        /\ Len(Append(a, 0)) - n <= Up(c)
        /\ Len(Append(a, 0)) - n <= Times
    BY <1>1, <1>3 DEF Counts, Up
  <2>2. \A i \in 1 .. n : Append(a, 0)[i] >= age
    BY <1>1
  <2> QED
    BY <1>1, <2>1, <2>2 DEF Fits
<1> QED
  BY <1>2, <1>3

\* When the window is over, a new one begins with nothing counted.
LEMMA FitsNewWindow ==
    ASSUME NEW a \in Seq(Ages), NEW c \in Counts, Young(a), Fits(a, Window, c)
    PROVE  Fits(a, 0, 0)
<1>1. PICK n \in 0 .. Len(a) :
        /\ Len(a) - n <= Times
        /\ \A i \in 1 .. n : a[i] >= Window
  BY DEF Fits
<1>2. \A i \in 1 .. Len(a) : a[i] \in Ages /\ a[i] < Window
  BY DEF Young
<1>3. n = 0
  <2>1. n > 0 => 1 \in 1 .. n /\ 1 \in 1 .. Len(a)
    OBVIOUS
  <2> QED
    BY <1>1, <1>2, <2>1 DEF Ages
<1>4. Len(a) <= Times
  BY <1>1, <1>3
<1>5. \A i \in 1 .. Len(a) : a[i] >= 0
  BY <1>2 DEF Ages
<1>6. Len(a) \in 0 .. Len(a) /\ Len(a) - Len(a) <= 0 /\ Len(a) - Len(a) <= Times
  OBVIOUS
<1> QED
  BY <1>4, <1>5, <1>6 DEF Fits

\* A tick later.
LEMMA FitsAged ==
    ASSUME NEW a \in Seq(Ages), NEW age \in Ages, NEW c \in Counts,
           Layered(a), Fits(a, age, c)
    PROVE  Fits(Within(Aged(a)), Older(age), c)
<1> DEFINE b == Aged(a)
<1>1. b \in Seq(Ages) /\ Len(b) = Len(a) /\ Layered(b)
  BY LayeredAged
<1>2. \A i \in 1 .. Len(a) : b[i] = Older(a[i])
  BY LayeredAged
<1> HIDE DEF b
<1>3. PICK g \in 0 .. Len(b) :
            /\ Len(Within(b)) = Len(b) - g
            /\ \A i \in 1 .. Len(b) - g : Within(b)[i] = b[i + g]
  BY <1>1, WithinCuts
<1>4. PICK n \in 0 .. Len(a) :
        /\ n <= Times
        /\ Len(a) - n <= c
        /\ Len(a) - n <= Times
        /\ \A i \in 1 .. n : a[i] >= age
  BY DEF Fits
<1>5. \A i \in 1 .. n : b[i] >= Older(age)
  <2> SUFFICES ASSUME NEW i \in 1 .. n PROVE b[i] >= Older(age)
    OBVIOUS
  <2>1. a[i] \in Ages /\ a[i] >= age /\ b[i] = Older(a[i])
    BY <1>2, <1>4
  <2> QED
    BY <2>1 DEF Ages, Older
<1> DEFINE m == IF n > g THEN n - g ELSE 0
<1>6. /\ m \in 0 .. Len(Within(b))
      /\ m <= Times
      /\ Len(Within(b)) - m <= c
      /\ Len(Within(b)) - m <= Times
  BY <1>1, <1>3, <1>4 DEF Counts
<1>7. \A i \in 1 .. m : Within(b)[i] >= Older(age)
  <2> SUFFICES ASSUME NEW i \in 1 .. m PROVE Within(b)[i] >= Older(age)
    OBVIOUS
  <2>1. i \in 1 .. Len(b) - g /\ i + g \in 1 .. n
    BY <1>1, <1>4
  <2> QED
    BY <1>3, <1>5, <2>1
<1> HIDE DEF m
<1>8. Fits(Within(b), Older(age), c)
  BY <1>6, <1>7 DEF Fits
<1> QED
  BY <1>8 DEF b

\* No more than Times hits of each window are recent.
LEMMA FitsIsWithinLimit ==
    ASSUME NEW a \in Seq(Ages), NEW age \in Ages, NEW c \in Counts, Fits(a, age, c)
    PROVE  Len(a) <= 2 * Times
<1>1. PICK n \in 0 .. Len(a) : n <= Times /\ Len(a) - n <= Times
  BY DEF Fits
<1> QED
  BY <1>1

-----------------------------------------------------------------------------
(* The log of the sliding window: each recent hit, from the youngest on, has *)
(* one in the log that is no older.                                          *)

Covers(l, a) ==
    /\ Len(a) <= Len(l)
    /\ \A i \in 1 .. Len(a) : l[Len(l) + 1 - i] <= a[Len(a) + 1 - i]

\* A log without its old hits.
LEMMA CoversWithin ==
    ASSUME NEW l \in Seq(Ages), NEW a \in Seq(Ages), Layered(l), Young(a), Covers(l, a)
    PROVE  Covers(Within(l), a)
<1>1. PICK g \in 0 .. Len(l) :
            /\ \A i \in 1 .. Len(l) : l[i] >= Window <=> i <= g
            /\ Len(Within(l)) = Len(l) - g
            /\ \A i \in 1 .. Len(l) - g : Within(l)[i] = l[i + g]
  BY WithinCuts
<1>2. Len(a) <= Len(l) - g
  <2> SUFFICES ASSUME Len(a) > Len(l) - g PROVE FALSE
    BY <1>1
  <2> DEFINE i == Len(l) + 1 - g
  <2>1. i \in 1 .. Len(a) /\ g \in 1 .. Len(l) /\ Len(l) + 1 - i = g
    BY DEF Covers
  <2>2. l[g] \in Ages /\ a[Len(a) + 1 - i] \in Ages
    BY <2>1
  <2>3. l[g] >= Window
    BY <1>1, <2>1
  <2>4. a[Len(a) + 1 - i] < Window
    BY <2>1 DEF Young
  <2>5. l[Len(l) + 1 - i] <= a[Len(a) + 1 - i]
    BY <2>1 DEF Covers
  <2> QED
    BY <2>1, <2>2, <2>3, <2>4, <2>5 DEF Ages
<1>3. ASSUME NEW i \in 1 .. Len(a)
      PROVE  Within(l)[Len(Within(l)) + 1 - i] <= a[Len(a) + 1 - i]
  <2>1. Within(l)[Len(Within(l)) + 1 - i] = l[Len(l) + 1 - i]
    BY <1>1, <1>2
  <2> QED
    BY <2>1 DEF Covers
<1> QED
  BY <1>1, <1>2, <1>3 DEF Covers

\* A hit that is logged, recent or not.
LEMMA CoversWithHit ==
    ASSUME NEW l \in Seq(Ages), NEW a \in Seq(Ages), Layered(l), Covers(l, a)
    PROVE  Covers(Append(l, 0), a) /\ Covers(Append(l, 0), Append(a, 0))
<1> DEFINE m == Append(l, 0)
<1>1. /\ Len(m) = Len(l) + 1
      /\ m[Len(m)] = 0
      /\ \A i \in 1 .. Len(l) : m[i] = l[i]
  OBVIOUS
<1>2. \A i \in 1 .. Len(l) : l[i] \in Ages
  OBVIOUS
<1>3. \A i \in 1 .. Len(a) : a[i] \in Ages
  OBVIOUS
<1> HIDE DEF m
<1>4. ASSUME NEW i \in 1 .. Len(a) PROVE m[Len(m) + 1 - i] <= a[Len(a) + 1 - i]
  <2>1. Len(a) + 1 - i \in 1 .. Len(a)
    OBVIOUS
  <2>2. CASE i = 1
    BY <1>1, <1>3, <2>1, <2>2 DEF Ages
  <2>3. CASE i > 1
    <3>1. /\ Len(m) + 1 - i \in 1 .. Len(l)
          /\ Len(l) + 1 - i \in 1 .. Len(l)
          /\ Len(l) + 1 - i <= Len(m) + 1 - i
      BY <1>1, <2>3 DEF Covers
    <3>2. m[Len(m) + 1 - i] = l[Len(m) + 1 - i]
      BY <1>1, <3>1
    <3>3. l[Len(l) + 1 - i] >= l[Len(m) + 1 - i]
      BY <3>1, LayeredIsSorted
    <3>4. l[Len(l) + 1 - i] <= a[Len(a) + 1 - i]
      BY DEF Covers
    <3>5. /\ l[Len(m) + 1 - i] \in Ages
          /\ l[Len(l) + 1 - i] \in Ages
          /\ a[Len(a) + 1 - i] \in Ages
      BY <1>2, <1>3, <2>1, <3>1
    <3>6. l[Len(m) + 1 - i] <= a[Len(a) + 1 - i]
      BY <3>3, <3>4, <3>5, AgesAreOrdered
    <3> QED
      BY <3>2, <3>6
  <2> QED
    BY <2>2, <2>3
<1>5. Covers(m, a)
  BY <1>1, <1>4 DEF Covers
<1> DEFINE b == Append(a, 0)
<1>6. /\ Len(b) = Len(a) + 1
      /\ b[Len(b)] = 0
      /\ \A i \in 1 .. Len(a) : b[i] = a[i]
  OBVIOUS
<1> HIDE DEF b
<1>7. ASSUME NEW i \in 1 .. Len(b) PROVE m[Len(m) + 1 - i] <= b[Len(b) + 1 - i]
  <2>1. CASE i = 1
    BY <1>1, <1>6, <2>1
  <2>2. CASE i > 1
    <3>1. i - 1 \in 1 .. Len(a) /\ Len(a) <= Len(l)
      BY <1>6, <2>2 DEF Covers
    <3>2. /\ Len(b) + 1 - i = Len(a) + 1 - (i - 1)
          /\ Len(m) + 1 - i = Len(l) + 1 - (i - 1)
          /\ Len(b) + 1 - i \in 1 .. Len(a)
          /\ Len(m) + 1 - i \in 1 .. Len(l)
      BY <1>1, <1>6, <3>1
    <3>3. l[Len(l) + 1 - (i - 1)] <= a[Len(a) + 1 - (i - 1)]
      BY <3>1 DEF Covers
    <3> QED
      BY <1>1, <1>6, <3>2, <3>3
  <2> QED
    BY <2>1, <2>2
<1>8. Covers(m, b)
  BY <1>1, <1>6, <1>7 DEF Covers
<1> QED
  BY <1>5, <1>8 DEF m, b

\* A tick later.
LEMMA CoversAged ==
    ASSUME NEW l \in Seq(Ages), NEW a \in Seq(Ages), Layered(l), Layered(a),
           Covers(l, a)
    PROVE  Covers(Aged(l), Within(Aged(a)))
<1> DEFINE m == Aged(l)
           b == Aged(a)
<1>1. /\ m \in Seq(Ages)
      /\ Len(m) = Len(l)
      /\ \A i \in 1 .. Len(l) : m[i] = Older(l[i])
  BY LayeredAged
<1>2. b \in Seq(Ages) /\ Len(b) = Len(a) /\ Layered(b)
  BY LayeredAged
<1>3. \A i \in 1 .. Len(a) : b[i] = Older(a[i])
  BY LayeredAged
<1> HIDE DEF m, b
<1>4. PICK g \in 0 .. Len(b) :
            /\ Len(Within(b)) = Len(b) - g
            /\ \A i \in 1 .. Len(b) - g : Within(b)[i] = b[i + g]
  BY <1>2, WithinCuts
<1>5. ASSUME NEW i \in 1 .. Len(Within(b))
      PROVE  m[Len(m) + 1 - i] <= Within(b)[Len(Within(b)) + 1 - i]
  <2>1. /\ i \in 1 .. Len(a)
        /\ Len(a) + 1 - i \in 1 .. Len(a)
        /\ Len(l) + 1 - i \in 1 .. Len(l)
    BY <1>2, <1>4 DEF Covers
  <2>2. Within(b)[Len(Within(b)) + 1 - i] = b[Len(a) + 1 - i]
    BY <1>2, <1>4
  <2>3. l[Len(l) + 1 - i] <= a[Len(a) + 1 - i]
    BY <2>1 DEF Covers
  <2>4. l[Len(l) + 1 - i] \in Ages /\ a[Len(a) + 1 - i] \in Ages
    BY <2>1
  <2>5. Older(l[Len(l) + 1 - i]) <= Older(a[Len(a) + 1 - i])
    BY <2>3, <2>4, OlderKeepsOrder
  <2>6. m[Len(l) + 1 - i] = Older(l[Len(l) + 1 - i])
    BY <1>1, <2>1
  <2>7. b[Len(a) + 1 - i] = Older(a[Len(a) + 1 - i])
    BY <1>3, <2>1
  <2> QED
    BY <1>1, <2>2, <2>5, <2>6, <2>7
<1>6. Len(Within(b)) <= Len(m)
  BY <1>1, <1>2, <1>4 DEF Covers
<1>7. Covers(m, Within(b))
  BY <1>5, <1>6 DEF Covers
<1> QED
  BY <1>7 DEF m, b

-----------------------------------------------------------------------------
(* The map of windows, after a hit.                                          *)

\* A place is in the sequence, or after it if the key is not in there.
LEMMA PlaceFound ==
    ASSUME NEW s \in Seq(Keys), NEW k
    PROVE  /\ Place(k, s) \in 1 .. Len(s) + 1
           /\ Place(k, s) <= Len(s) => s[Place(k, s)] = k
           /\ Place(k, s) > Len(s) => \A i \in 1 .. Len(s) : s[i] # k
<1>1. CASE \E i \in 1 .. Len(s) : s[i] = k
  <2> DEFINE p == CHOOSE i \in 1 .. Len(s) : s[i] = k
  <2>1. p \in 1 .. Len(s) /\ s[p] = k
    BY <1>1
  <2>2. Place(k, s) = p
    BY <1>1 DEF Place
  <2> HIDE DEF p
  <2> QED
    BY <2>1, <2>2
<1>2. CASE ~\E i \in 1 .. Len(s) : s[i] = k
  BY <1>2 DEF Place
<1> QED
  BY <1>1, <1>2

\* What is left when place p is vacated.
LEMMA PlaceVacated ==
    ASSUME NEW S, NEW s \in Seq(S), NEW p \in 1 .. Len(s) + 1
    PROVE  /\ WithoutPlace(s, p) \in Seq(S)
           /\ Len(WithoutPlace(s, p)) = IF p <= Len(s) THEN Len(s) - 1 ELSE Len(s)
           /\ \A i \in 1 .. Len(WithoutPlace(s, p)) :
                WithoutPlace(s, p)[i] = s[IF i < p THEN i ELSE i + 1]
<1> DEFINE u == SubSeq(s, 1, p - 1)
           v == SubSeq(s, p + 1, Len(s))
<1>1. u \in Seq(S) /\ Len(u) = p - 1 /\ \A i \in 1 .. p - 1 : u[i] = s[i]
  OBVIOUS
<1>2. /\ v \in Seq(S)
      /\ Len(v) = IF p <= Len(s) THEN Len(s) - p ELSE 0
      /\ \A i \in 1 .. Len(v) : v[i] = s[i + p]
  OBVIOUS
<1>3. WithoutPlace(s, p) = u \o v
  BY DEF WithoutPlace
<1> HIDE DEF u, v
<1>4. u \o v \in Seq(S) /\ Len(u \o v) = Len(u) + Len(v)
  BY <1>1, <1>2, ConcatProperties
<1>5. ASSUME NEW i \in 1 .. Len(u \o v)
      PROVE  (u \o v)[i] = s[IF i < p THEN i ELSE i + 1]
  <2>1. CASE i < p
    BY <1>1, <1>2, <2>1
  <2>2. CASE i >= p
    <3>1. i - Len(u) \in 1 .. Len(v)
      BY <1>1, <1>4, <2>2
    <3>2. (u \o v)[i] = v[i - Len(u)]
      BY <1>1, <1>2, <2>2
    <3>3. v[i - Len(u)] = s[i - Len(u) + p]
      BY <1>2, <3>1
    <3>4. i - Len(u) + p = i + 1
      BY <1>1
    <3>5. v[i - Len(u)] = s[i + 1]
      BY <3>3, <3>4
    <3>6. ~(i < p)
      BY <2>2
    <3> QED
      BY <3>2, <3>5, <3>6
  <2> QED
    BY <2>1, <2>2
<1> QED
  BY <1>1, <1>2, <1>3, <1>4, <1>5

\* The sequence t after a hit: w last, place p of s vacated and, if there is one
\* too many, the first dropped.
Shifted(t, s, p, w) ==
    /\ Len(t) \in 1 .. MaxKeys
    /\ t[Len(t)] = w
    /\ \E d \in {0, 1} :
         /\ d = 1 <=> p > Len(s) /\ Len(s) = MaxKeys
         /\ Len(t) = (IF p <= Len(s) THEN Len(s) ELSE Len(s) + 1) - d
         /\ \A i \in 1 .. Len(t) - 1 : t[i] = s[IF i + d < p THEN i + d ELSE i + d + 1]

\* So it is after every hit.
LEMMA AfterHit ==
    ASSUME NEW S, NEW s \in Seq(S), Len(s) <= MaxKeys, NEW p \in 1 .. Len(s) + 1, NEW w \in S
    PROVE  /\ LastOnes(Append(WithoutPlace(s, p), w)) \in Seq(S)
           /\ Shifted(LastOnes(Append(WithoutPlace(s, p), w)), s, p, w)
<1> DEFINE r == WithoutPlace(s, p)
           q == Append(r, w)
           t == LastOnes(Append(WithoutPlace(s, p), w))
<1>1. /\ r \in Seq(S)
      /\ Len(r) = IF p <= Len(s) THEN Len(s) - 1 ELSE Len(s)
      /\ \A i \in 1 .. Len(r) : r[i] = s[IF i < p THEN i ELSE i + 1]
  BY PlaceVacated
<1> HIDE DEF r
<1>2. /\ q \in Seq(S)
      /\ Len(q) = Len(r) + 1
      /\ q[Len(q)] = w
      /\ \A i \in 1 .. Len(r) : q[i] = r[i]
  BY <1>1
<1>3. t = IF Len(q) > MaxKeys THEN Tail(q) ELSE q
  BY DEF LastOnes, r
<1> HIDE DEF q, t
<1>4. ASSUME Len(q) > MaxKeys PROVE t \in Seq(S) /\ Shifted(t, s, p, w)
  <2>1. Len(r) = Len(s) /\ Len(s) = MaxKeys /\ p > Len(s)
    BY <1>1, <1>2, <1>4
  <2>2. /\ t \in Seq(S)
        /\ Len(t) = Len(q) - 1
        /\ \A i \in 1 .. Len(t) : t[i] = q[i + 1]
    BY <1>2, <1>3, <1>4
  <2>3. t[Len(t)] = w
    BY <1>2, <2>1, <2>2
  <2>4. \A i \in 1 .. Len(t) - 1 : t[i] = s[IF i + 1 < p THEN i + 1 ELSE i + 1 + 1]
    BY <1>1, <1>2, <2>1, <2>2
  <2> QED
    BY <1>2, <2>1, <2>2, <2>3, <2>4 DEF Shifted
<1>5. ASSUME ~(Len(q) > MaxKeys) PROVE t \in Seq(S) /\ Shifted(t, s, p, w)
  <2>1. t = q
    BY <1>3, <1>5
  <2>2. ~(p > Len(s) /\ Len(s) = MaxKeys)
    BY <1>1, <1>2, <1>5
  <2>3. \A i \in 1 .. Len(t) - 1 : t[i] = s[IF i + 0 < p THEN i + 0 ELSE i + 0 + 1]
    BY <1>1, <1>2, <2>1
  <2>4. Len(t) = (IF p <= Len(s) THEN Len(s) ELSE Len(s) + 1) - 0
    BY <1>1, <1>2, <2>1
  <2>5. Len(t) \in 1 .. MaxKeys
    BY <1>1, <1>2, <1>5, <2>1
  <2> QED
    BY <1>2, <2>1, <2>2, <2>3, <2>4, <2>5 DEF Shifted
<1>6. t \in Seq(S) /\ Shifted(t, s, p, w)
  BY <1>4, <1>5
<1> QED
  BY <1>6 DEF t

-----------------------------------------------------------------------------
(* The invariant.                                                            *)

AWindow == [key : Keys, age : Ages, count : Counts]
AnAnswer == [remaining : 0 .. Times, wait : Ages]

AgesInv ==
    \A k \in Keys : Layered(log[k]) /\ Layered(recent[k]) /\ Young(recent[k])

LimiterTypes == LimiterTypeOK /\ AgesInv

\* The ticks since the window of a counter began.
StartAge(k) == IF ttl[k] = 0 THEN 0 ELSE Window - ttl[k]

FixedInv ==
    \A k \in Keys :
        /\ count[k] = 0 <=> ttl[k] = 0
        /\ Fits(recent[k], StartAge(k), count[k])

SlidingInv == \A k \in Keys : Covers(log[k], recent[k])

Distinct(map) ==
    \A i, j \in 1 .. Len(map) : map[i].key = map[j].key => i = j

MemoryInv ==
    /\ Distinct(windows)
    /\ \A i \in 1 .. Len(windows) :
         Fits(recent[windows[i].key], windows[i].age, windows[i].count)
    /\ \A k \in Keys \ Held(windows) : recent[k] = <<>>

WindowsInv ==
    /\ LimiterTypes
    /\ kind = "fixed" => FixedInv
    /\ kind = "sliding" => SlidingInv
    /\ kind = "memory" => MemoryInv

\* Every window is a record of known parts.
LEMMA WindowParts ==
    ASSUME NEW w \in AWindow
    PROVE  w.key \in Keys /\ w.age \in Ages /\ w.count \in Counts
BY DEF AWindow

\* The keys of the map, at their places.
LEMMA KeysOfMap ==
    ASSUME LimiterTypeOK
    PROVE  /\ KnownKeys \in Seq(Keys)
           /\ Len(KnownKeys) = Len(windows)
           /\ \A i \in 1 .. Len(windows) : KnownKeys[i] = windows[i].key
<1>1. windows \in Seq(AWindow)
  BY DEF LimiterTypeOK, AWindow
<1>2. \A i \in 1 .. Len(windows) : windows[i].key \in Keys
  BY <1>1, WindowParts
<1> QED
  BY <1>1, <1>2 DEF KnownKeys

\* The entry of a key.
LEMMA EntryFound ==
    ASSUME LimiterTypeOK, NEW k \in Keys
    PROVE  /\ Entry(k) \in 1 .. Len(windows) + 1
           /\ Entry(k) <= Len(windows) => windows[Entry(k)].key = k
           /\ Entry(k) > Len(windows) => \A i \in 1 .. Len(windows) : windows[i].key # k
<1>1. /\ Entry(k) \in 1 .. Len(KnownKeys) + 1
      /\ Entry(k) <= Len(KnownKeys) => KnownKeys[Entry(k)] = k
      /\ Entry(k) > Len(KnownKeys) => \A i \in 1 .. Len(KnownKeys) : KnownKeys[i] # k
  BY KeysOfMap, PlaceFound DEF Entry
<1> QED
  BY <1>1, KeysOfMap

\* The window a hit is counted in.
LEMMA WindowOfHit ==
    ASSUME LimiterTypeOK, NEW k \in Keys
    PROVE  /\ CurrentWindow(k) \in AWindow
           /\ CurrentWindow(k).key = k
           /\ CountedWindow(k) \in AWindow
           /\ CountedWindow(k).key = k
           /\ CountedWindow(k).age = CurrentWindow(k).age
           /\ CountedWindow(k).count = Up(CurrentWindow(k).count)
<1>1. windows \in Seq(AWindow)
  BY DEF LimiterTypeOK, AWindow
<1>2. CASE Entry(k) <= Len(windows) /\ windows[Entry(k)].age < Window
  <2>1. Entry(k) \in 1 .. Len(windows)
    BY <1>2, EntryFound
  <2>2. windows[Entry(k)] \in AWindow
    BY <1>1, <2>1
  <2>3. CurrentWindow(k) = windows[Entry(k)]
    BY <1>2 DEF CurrentWindow
  <2>4. CurrentWindow(k) \in AWindow /\ CurrentWindow(k).key = k
    BY <1>2, <2>2, <2>3, EntryFound
  <2> QED
    BY <2>4 DEF CountedWindow, AWindow, Up, Counts
<1>3. CASE ~(Entry(k) <= Len(windows) /\ windows[Entry(k)].age < Window)
  <2>1. CurrentWindow(k) = [key |-> k, age |-> 0, count |-> 0]
    BY <1>3 DEF CurrentWindow
  <2>2. CurrentWindow(k) \in AWindow /\ CurrentWindow(k).key = k
    BY <2>1 DEF AWindow, Ages, Counts
  <2> QED
    BY <2>2 DEF CountedWindow, AWindow, Up, Counts
<1> QED
  BY <1>2, <1>3

\* The map after a hit.
LEMMA MapAfterHit ==
    ASSUME LimiterTypeOK, NEW k \in Keys, MemoryHit(k)
    PROVE  windows' \in Seq(AWindow) /\ Shifted(windows', windows, Entry(k), CountedWindow(k))
<1>1. windows \in Seq(AWindow) /\ Len(windows) <= MaxKeys
  BY DEF LimiterTypeOK, AWindow
<1>2. Entry(k) \in 1 .. Len(windows) + 1
  BY EntryFound
<1>3. CountedWindow(k) \in AWindow
  BY WindowOfHit
<1>4. windows' = LastOnes(Append(WithoutPlace(windows, Entry(k)), CountedWindow(k)))
  BY DEF MemoryHit, Touched
<1> QED
  BY <1>1, <1>2, <1>3, <1>4, AfterHit

\* Nothing of a key that is hit remains in the other places.
LEMMA OthersAfterHit ==
    ASSUME LimiterTypeOK, Distinct(windows), NEW k \in Keys, MemoryHit(k)
    PROVE  /\ \A i \in 1 .. Len(windows') - 1 :
                \E j \in 1 .. Len(windows) :
                    windows'[i] = windows[j] /\ windows[j].key # k
           /\ Distinct(windows')
<1>1. PICK d \in {0, 1} :
        /\ d = 1 <=> Entry(k) > Len(windows) /\ Len(windows) = MaxKeys
        /\ Len(windows') =
             (IF Entry(k) <= Len(windows) THEN Len(windows) ELSE Len(windows) + 1) - d
        /\ \A i \in 1 .. Len(windows') - 1 :
             windows'[i] = windows[IF i + d < Entry(k) THEN i + d ELSE i + d + 1]
  BY MapAfterHit DEF Shifted
<1> DEFINE from(i) == IF i + d < Entry(k) THEN i + d ELSE i + d + 1
<1>2. Entry(k) \in 1 .. Len(windows) + 1
  BY EntryFound
<1>3. Len(windows') \in 1 .. MaxKeys /\ windows'[Len(windows')].key = k
  BY MapAfterHit, WindowOfHit DEF Shifted
<1>4. Len(windows) \in Nat
  BY DEF LimiterTypeOK
<1>5. ASSUME NEW i \in 1 .. Len(windows') - 1
      PROVE  /\ from(i) \in 1 .. Len(windows)
             /\ windows'[i] = windows[from(i)]
             /\ windows[from(i)].key # k
  <2>1. from(i) \in 1 .. Len(windows) /\ from(i) # Entry(k)
    BY <1>1, <1>2, <1>3, <1>4
  <2>2. windows'[i] = windows[from(i)]
    BY <1>1
  <2>3. windows[from(i)].key # k
    <3>1. CASE Entry(k) <= Len(windows)
      <4>1. windows[Entry(k)].key = k /\ Entry(k) \in 1 .. Len(windows)
        BY <1>2, <1>4, <3>1, EntryFound
      <4> HIDE DEF from
      <4> QED
        BY <2>1, <4>1 DEF Distinct
    <3>2. CASE Entry(k) > Len(windows)
      <4> HIDE DEF from
      <4> QED
        BY <2>1, <3>2, EntryFound
    <3> QED
      BY <1>2, <1>4, <3>1, <3>2
  <2> QED
    BY <2>1, <2>2, <2>3
<1>6. \A i, j \in 1 .. Len(windows') - 1 : from(i) = from(j) => i = j
  BY <1>2, <1>3, <1>4
<1> HIDE DEF from
<1>7. ASSUME NEW i \in 1 .. Len(windows'), NEW j \in 1 .. Len(windows'),
             windows'[i].key = windows'[j].key
      PROVE  i = j
  <2>1. CASE i < Len(windows') /\ j < Len(windows')
    <3>1. i \in 1 .. Len(windows') - 1 /\ j \in 1 .. Len(windows') - 1
      BY <1>3, <2>1
    <3>2. from(i) \in 1 .. Len(windows) /\ from(j) \in 1 .. Len(windows)
      BY <1>5, <3>1
    <3>3. windows[from(i)].key = windows[from(j)].key
      BY <1>5, <1>7, <3>1
    <3>4. from(i) = from(j)
      BY <3>2, <3>3 DEF Distinct
    <3> QED
      BY <1>6, <3>1, <3>4
  <2>2. CASE i = Len(windows') /\ j < Len(windows')
    <3>1. j \in 1 .. Len(windows') - 1
      BY <1>3, <2>2
    <3>2. windows'[j].key # k
      BY <1>5, <3>1
    <3> QED
      BY <1>3, <1>7, <2>2, <3>2
  <2>3. CASE j = Len(windows') /\ i < Len(windows')
    <3>1. i \in 1 .. Len(windows') - 1
      BY <1>3, <2>3
    <3>2. windows'[i].key # k
      BY <1>5, <3>1
    <3> QED
      BY <1>3, <1>7, <2>3, <3>2
  <2> QED
    BY <1>3, <2>1, <2>2, <2>3
<1> QED
  BY <1>5, <1>7 DEF Distinct

-----------------------------------------------------------------------------
(* Types, and the order of the ages.                                         *)

\* The log that is left when a hit arrives.
LEMMA LogOfHit ==
    ASSUME LimiterTypes, NEW k \in Keys
    PROVE  /\ Within(log[k]) \in Seq(Ages)
           /\ Layered(Within(log[k]))
           /\ Young(Within(log[k]))
           /\ Len(Within(log[k])) <= Len(log[k])
           /\ Len(log[k]) \in 0 .. Times
<1>1. log[k] \in Seq(Ages) /\ Layered(log[k]) /\ Len(log[k]) <= Times
  BY DEF LimiterTypes, LimiterTypeOK, AgesInv
<1>2. Len(log[k]) \in 0 .. Times
  BY <1>1
<1> QED
  BY <1>1, <1>2, WithinCuts, WithinIsYoung

\* There are three limiters.
LEMMA ThreeKinds ==
    LimiterTypeOK => kind = "fixed" \/ kind = "sliding" \/ kind = "memory"
BY DEF LimiterTypeOK, RateLimitAssumption

\* Answers have their types.
LEMMA AnswerTypes ==
    ASSUME LimiterTypes, NEW k \in Keys
    PROVE  Passes(k) \in BOOLEAN /\ Remaining(k) \in 0 .. Times /\ ResetAfter(k) \in Ages
<1>1. Passes(k) \in BOOLEAN
  BY DEF Passes
<1>2. count[k] \in Counts /\ ttl[k] \in Ages
  BY DEF LimiterTypes, LimiterTypeOK
<1>3. Len(Within(log[k])) \in Nat
  BY LogOfHit
<1>4. CurrentWindow(k).age \in Ages /\ CurrentWindow(k).count \in Counts
  BY WindowOfHit, WindowParts DEF LimiterTypes
<1>5. Remaining(k) \in 0 .. Times
  <2> DEFINE used == CASE kind = "fixed" -> count[k]
                       [] kind = "sliding" -> Len(Within(log[k]))
                       [] kind = "memory" -> CurrentWindow(k).count
  <2>1. used \in Nat
    BY <1>2, <1>3, <1>4, ThreeKinds DEF LimiterTypes, Counts
  <2>2. Remaining(k) = IF used < Times THEN Times - used - 1 ELSE 0
    BY DEF Remaining
  <2> HIDE DEF used
  <2> QED
    BY <2>1, <2>2
<1>6. CASE kind = "fixed"
  <2>1. ResetAfter(k) = FixedLife(k)
    BY <1>6 DEF ResetAfter
  <2> QED
    BY <1>1, <1>2, <1>5, <2>1 DEF FixedLife, Ages
<1>7. CASE kind = "memory"
  <2>1. ResetAfter(k) = Window - CurrentWindow(k).age
    BY <1>7 DEF ResetAfter
  <2> QED
    BY <1>1, <1>4, <1>5, <2>1 DEF Ages
<1>8. CASE kind = "sliding"
  <2>1. ResetAfter(k) = IF Passes(k) THEN Window ELSE Window - Within(log[k])[1]
    BY <1>8 DEF ResetAfter
  <2>2. ~Passes(k) => 1 \in 1 .. Len(Within(log[k]))
    BY <1>3, <1>8 DEF Passes
  <2>3. ~Passes(k) => Within(log[k])[1] \in Ages
    BY <2>2, LogOfHit
  <2>4. ResetAfter(k) \in Ages
    BY <2>1, <2>3 DEF Ages
  <2> QED
    BY <1>1, <1>5, <2>4
<1> QED
  BY <1>6, <1>7, <1>8, ThreeKinds DEF LimiterTypes

\* Counting a hit keeps the types and the order of the log.
LEMMA CountTypes ==
    ASSUME LimiterTypes, NEW k \in Keys, Count(k)
    PROVE  /\ count' \in [Keys -> Counts]
           /\ ttl' \in [Keys -> Ages]
           /\ log' \in [Keys -> Seq(Ages)]
           /\ \A j \in Keys : Len(log'[j]) <= Times /\ Layered(log'[j])
           /\ windows' \in Seq(AWindow)
           /\ Len(windows') <= MaxKeys
<1>1. /\ count \in [Keys -> Counts]
      /\ ttl \in [Keys -> Ages]
      /\ log \in [Keys -> Seq(Ages)]
      /\ \A j \in Keys : Len(log[j]) <= Times /\ Layered(log[j])
      /\ windows \in Seq(AWindow)
      /\ Len(windows) <= MaxKeys
  BY DEF LimiterTypes, LimiterTypeOK, AgesInv, AWindow
<1>2. CASE FixedHit(k)
  <2>1. Up(count[k]) \in Counts /\ FixedLife(k) \in Ages
    BY <1>1 DEF Up, Counts, FixedLife, Ages
  <2> QED
    BY <1>1, <1>2, <2>1 DEF FixedHit
<1>3. CASE SlidingHit(k)
  <2> DEFINE l == IF Len(Within(log[k])) < Times THEN Append(Within(log[k]), 0)
                  ELSE Within(log[k])
  <2>1. l \in Seq(Ages) /\ Layered(l)
    BY LogOfHit, LayeredWithHit
  <2>2. Len(l) <= Times
    BY LogOfHit
  <2>3. log' = [log EXCEPT ![k] = l]
    BY <1>3 DEF SlidingHit
  <2> HIDE DEF l
  <2>4. log' \in [Keys -> Seq(Ages)]
    BY <1>1, <2>1, <2>3
  <2>5. \A j \in Keys : log'[j] = IF j = k THEN l ELSE log[j]
    BY <1>1, <2>3
  <2>6. \A j \in Keys : Len(log'[j]) <= Times /\ Layered(log'[j])
    BY <1>1, <2>1, <2>2, <2>5
  <2> QED
    BY <1>1, <1>3, <2>4, <2>6 DEF SlidingHit
<1>4. CASE MemoryHit(k)
  <2>1. windows' \in Seq(AWindow) /\ Len(windows') <= MaxKeys
    BY <1>4, MapAfterHit DEF LimiterTypes, Shifted
  <2> QED
    BY <1>1, <1>4, <2>1 DEF MemoryHit
<1> QED
  BY <1>2, <1>3, <1>4 DEF Count

\* What becomes of the recent hits of a key when it, or another, is hit.
LEMMA RecentTypes ==
    ASSUME LimiterTypes, NEW k \in Keys,
           NEW r, r = <<>> \/ r = recent[k] \/ r = Append(recent[k], 0)
    PROVE  r \in Seq(Ages) /\ Layered(r) /\ Young(r)
<1>1. recent[k] \in Seq(Ages) /\ Layered(recent[k]) /\ Young(recent[k])
  BY DEF LimiterTypes, LimiterTypeOK, AgesInv
<1>2. CASE r = <<>>
  <2>1. r \in Seq(Ages) /\ Len(r) = 0
    BY <1>2
  <2>2. Young(r)
    BY <2>1 DEF Young
  <2>3. \A i \in 1 .. Len(r) : FALSE
    BY <2>1
  <2>4. 0 \in 0 .. Len(r)
    BY <2>1
  <2>5. Layered(r)
    BY <2>3, <2>4 DEF Layered
  <2> QED
    BY <2>1, <2>2, <2>5
<1>3. CASE r = Append(recent[k], 0)
  <2>1. Append(recent[k], 0) \in Seq(Ages) /\ Layered(Append(recent[k], 0))
    BY <1>1, LayeredWithHit
  <2>2. Young(Append(recent[k], 0))
    BY <1>1 DEF Young
  <2> QED
    BY <1>3, <2>1, <2>2
<1> QED
  BY <1>1, <1>2, <1>3

\* The recent hits after a hit.
LEMMA RecentAfterHit ==
    ASSUME LimiterTypes, NEW k \in Keys, Hit(k)
    PROVE  /\ recent' \in [Keys -> Seq(Ages)]
           /\ \A j \in Keys :
                /\ Layered(recent'[j])
                /\ Young(recent'[j])
                /\ recent'[j] = IF kind = "memory" /\ j \notin Held(windows') THEN <<>>
                                ELSE IF j = k /\ Passes(k) THEN Append(recent[j], 0)
                                ELSE recent[j]
<1>1. recent' = [j \in Keys |-> IF kind = "memory" /\ j \notin Held(windows') THEN <<>>
                                ELSE IF j = k /\ Passes(k) THEN Append(recent[j], 0)
                                ELSE recent[j]]
  BY DEF Hit
<1>2. ASSUME NEW j \in Keys
      PROVE  /\ recent'[j] \in Seq(Ages) /\ Layered(recent'[j]) /\ Young(recent'[j])
             /\ recent'[j] = IF kind = "memory" /\ j \notin Held(windows') THEN <<>>
                             ELSE IF j = k /\ Passes(k) THEN Append(recent[j], 0)
                             ELSE recent[j]
  <2>1. recent'[j] = IF kind = "memory" /\ j \notin Held(windows') THEN <<>>
                     ELSE IF j = k /\ Passes(k) THEN Append(recent[j], 0)
                     ELSE recent[j]
    BY <1>1
  <2>2. recent'[j] = <<>> \/ recent'[j] = recent[j] \/ recent'[j] = Append(recent[j], 0)
    BY <2>1
  <2> QED
    BY <2>1, <2>2, RecentTypes
<1>3. recent' \in [Keys -> Seq(Ages)]
  BY <1>1, <1>2
<1> QED
  BY <1>2, <1>3

\* What a tick does to logs and recent hits.
LEMMA AgesAfterTick ==
    ASSUME LimiterTypes, LimiterTick
    PROVE  /\ log' \in [Keys -> Seq(Ages)]
           /\ recent' \in [Keys -> Seq(Ages)]
           /\ \A k \in Keys :
                /\ log'[k] = Aged(log[k]) /\ Len(log'[k]) = Len(log[k])
                /\ recent'[k] = Within(Aged(recent[k]))
                /\ Layered(log'[k]) /\ Layered(recent'[k]) /\ Young(recent'[k])
<1>1. /\ log' = [k \in Keys |-> Aged(log[k])]
      /\ recent' = [k \in Keys |-> Within(Aged(recent[k]))]
  BY DEF LimiterTick
<1>2. ASSUME NEW k \in Keys
      PROVE  /\ Aged(log[k]) \in Seq(Ages) /\ Layered(Aged(log[k]))
             /\ Len(Aged(log[k])) = Len(log[k])
             /\ Within(Aged(recent[k])) \in Seq(Ages)
             /\ Layered(Within(Aged(recent[k]))) /\ Young(Within(Aged(recent[k])))
  <2>1. /\ log[k] \in Seq(Ages) /\ Layered(log[k])
        /\ recent[k] \in Seq(Ages) /\ Layered(recent[k])
    BY DEF LimiterTypes, LimiterTypeOK, AgesInv
  <2>2. Aged(recent[k]) \in Seq(Ages) /\ Layered(Aged(recent[k]))
    BY <2>1, LayeredAged
  <2> QED
    BY <2>1, <2>2, LayeredAged, WithinCuts, WithinIsYoung
<1>3. log' \in [Keys -> Seq(Ages)] /\ recent' \in [Keys -> Seq(Ages)]
  BY <1>1, <1>2
<1>4. \A k \in Keys : log'[k] = Aged(log[k]) /\ recent'[k] = Within(Aged(recent[k]))
  BY <1>1
<1> QED
  BY <1>2, <1>3, <1>4

\* What a tick does to the map.
LEMMA MapAfterTick ==
    ASSUME LimiterTypeOK, LimiterTick
    PROVE  /\ windows' \in Seq(AWindow)
           /\ Len(windows') = Len(windows)
           /\ \A i \in 1 .. Len(windows) :
                /\ windows'[i].key = windows[i].key
                /\ windows'[i].age = Older(windows[i].age)
                /\ windows'[i].count = windows[i].count
<1>1. windows \in Seq(AWindow)
  BY DEF LimiterTypeOK, AWindow
<1>2. windows' = [i \in 1 .. Len(windows) |-> [windows[i] EXCEPT !.age = Older(@)]]
  BY DEF LimiterTick
<1>3. ASSUME NEW i \in 1 .. Len(windows)
      PROVE  /\ windows'[i] \in AWindow
             /\ windows'[i].key = windows[i].key
             /\ windows'[i].age = Older(windows[i].age)
             /\ windows'[i].count = windows[i].count
  <2>1. windows[i] \in AWindow
    BY <1>1
  <2>2. windows'[i] = [windows[i] EXCEPT !.age = Older(@)]
    BY <1>2
  <2> QED
    BY <2>1, <2>2 DEF AWindow, Older, Ages
<1>4. windows' \in Seq(AWindow) /\ Len(windows') = Len(windows)
  BY <1>1, <1>2, <1>3
<1> QED
  BY <1>3, <1>4

\* The order of keys after a hit.
LEMMA OrderAfterHit ==
    ASSUME LimiterTypeOK, NEW k \in Keys, Hit(k), kind = "memory"
    PROVE  order' \in Seq(Keys) /\ Shifted(order', order, Place(k, order), k)
<1>1. order' = LastOnes(Append(WithoutPlace(order, Place(k, order)), k))
  BY DEF Hit
<1>2. order \in Seq(Keys) /\ Len(order) <= MaxKeys
  BY DEF LimiterTypeOK
<1>3. Place(k, order) \in 1 .. Len(order) + 1
  BY <1>2, PlaceFound
<1> QED
  BY <1>1, <1>2, <1>3, AfterHit

\* A hit, and one that is let through because Redis fails, keep the types.
LEMMA TypesAfterHit ==
    ASSUME LimiterTypes, NEW k \in Keys, Hit(k)
    PROVE  LimiterTypes'
<1>1. /\ count' \in [Keys -> Counts]
      /\ ttl' \in [Keys -> Ages]
      /\ log' \in [Keys -> Seq(Ages)]
      /\ \A j \in Keys : Len(log'[j]) <= Times /\ Layered(log'[j])
      /\ windows' \in Seq(AWindow)
      /\ Len(windows') <= MaxKeys
  BY CountTypes DEF Hit
<1>2. /\ recent' \in [Keys -> Seq(Ages)]
      /\ \A j \in Keys : Layered(recent'[j]) /\ Young(recent'[j])
  BY RecentAfterHit
<1>3. order' \in Seq(Keys) /\ Len(order') <= MaxKeys
  <2>1. CASE kind = "memory"
    BY <2>1, OrderAfterHit DEF Shifted, LimiterTypes
  <2>2. CASE kind # "memory"
    BY <2>2 DEF Hit, LimiterTypes, LimiterTypeOK
  <2> QED
    BY <2>1, <2>2
<1>4. allowed' \in [Keys -> BOOLEAN]
  <2> DEFINE b == Passes(k)
  <2>1. b \in BOOLEAN /\ allowed' = [allowed EXCEPT ![k] = b]
    BY AnswerTypes DEF Hit
  <2>2. allowed \in [Keys -> BOOLEAN]
    BY DEF LimiterTypes, LimiterTypeOK
  <2> HIDE DEF b
  <2> QED
    BY <2>1, <2>2
<1>5. told' \in [Keys -> AnAnswer \cup {Untold}]
  <2> DEFINE a == [remaining |-> Remaining(k), wait |-> ResetAfter(k)]
  <2>1. a \in AnAnswer
    BY AnswerTypes DEF AnAnswer
  <2>2. told' = [told EXCEPT ![k] = a] /\ told \in [Keys -> AnAnswer \cup {Untold}]
    BY DEF Hit, LimiterTypes, LimiterTypeOK, AnAnswer
  <2> HIDE DEF a
  <2> QED
    BY <2>1, <2>2
<1>6. kind' \in Kinds
  BY DEF Hit, LimiterTypes, LimiterTypeOK
<1>7. LimiterTypeOK'
  BY <1>1, <1>2, <1>3, <1>4, <1>5, <1>6 DEF LimiterTypeOK, AWindow, AnAnswer
<1>8. AgesInv'
  BY <1>1, <1>2 DEF AgesInv
<1> QED
  BY <1>7, <1>8 DEF LimiterTypes

\* A call whose answer was lost keeps the types.
LEMMA TypesAfterDegraded ==
    ASSUME LimiterTypes, NEW k \in Keys, HitDegraded(k)
    PROVE  LimiterTypes'
<1>1. /\ count' \in [Keys -> Counts]
      /\ ttl' \in [Keys -> Ages]
      /\ log' \in [Keys -> Seq(Ages)]
      /\ \A j \in Keys : Len(log'[j]) <= Times /\ Layered(log'[j])
      /\ windows' \in Seq(AWindow)
      /\ Len(windows') <= MaxKeys
  <2>1. CASE Count(k)
    BY <2>1, CountTypes
  <2>2. CASE UNCHANGED <<count, ttl, log, windows>>
    BY <2>2 DEF LimiterTypes, LimiterTypeOK, AgesInv, AWindow
  <2> QED
    BY <2>1, <2>2 DEF HitDegraded
<1>2. UNCHANGED <<kind, allowed, recent, order>> /\ told' = [told EXCEPT ![k] = Untold]
  BY DEF HitDegraded
<1>3. told' \in [Keys -> AnAnswer \cup {Untold}]
  BY <1>2 DEF LimiterTypes, LimiterTypeOK, AnAnswer
<1>4. LimiterTypeOK'
  BY <1>1, <1>2, <1>3 DEF LimiterTypes, LimiterTypeOK, AWindow, AnAnswer
<1>5. AgesInv'
  BY <1>1, <1>2 DEF LimiterTypes, AgesInv
<1> QED
  BY <1>4, <1>5 DEF LimiterTypes

\* A tick keeps the types.
LEMMA TypesAfterTick ==
    ASSUME LimiterTypes, LimiterTick
    PROVE  LimiterTypes'
<1>1. /\ count \in [Keys -> Counts]
      /\ ttl \in [Keys -> Ages]
      /\ told \in [Keys -> AnAnswer \cup {Untold}]
      /\ Len(windows) <= MaxKeys
      /\ \A k \in Keys : Len(log[k]) <= Times
  BY DEF LimiterTypes, LimiterTypeOK, AnAnswer
<1>2. count' \in [Keys -> Counts] /\ ttl' \in [Keys -> Ages]
  BY <1>1 DEF LimiterTick, Less, Counts, Ages
<1>3. told' \in [Keys -> AnAnswer \cup {Untold}]
  <2>1. ASSUME NEW a \in AnAnswer PROVE [a EXCEPT !.wait = Less(@)] \in AnAnswer
    BY DEF AnAnswer, Less, Ages
  <2>2. told' = [k \in Keys |-> IF told[k] = Untold THEN Untold
                                ELSE [told[k] EXCEPT !.wait = Less(@)]]
    BY DEF LimiterTick
  <2>3. ASSUME NEW k \in Keys
        PROVE  (IF told[k] = Untold THEN Untold
                ELSE [told[k] EXCEPT !.wait = Less(@)]) \in AnAnswer \cup {Untold}
    BY <1>1, <2>1
  <2> QED
    BY <2>2, <2>3
<1>4. windows' \in Seq(AWindow) /\ Len(windows') <= MaxKeys
  BY <1>1, MapAfterTick DEF LimiterTypes
<1>5. UNCHANGED <<kind, allowed, order>>
  BY DEF LimiterTick
<1>6. LimiterTypeOK'
  BY <1>1, <1>2, <1>3, <1>4, <1>5, AgesAfterTick
  DEF LimiterTypes, LimiterTypeOK, AWindow, AnAnswer
<1>7. AgesInv'
  BY AgesAfterTick DEF AgesInv
<1> QED
  BY <1>6, <1>7 DEF LimiterTypes

-----------------------------------------------------------------------------
(* The fixed window: what its counter says of the recent hits.               *)

\* A hit that is counted opens a window if there is none.
LEMMA CountedByFixed ==
    ASSUME LimiterTypes, FixedInv, NEW k \in Keys, FixedHit(k)
    PROVE  \A j \in Keys :
             /\ count'[j] = 0 <=> ttl'[j] = 0
             /\ StartAge(j)' = StartAge(j)
             /\ count'[j] = IF j = k THEN Up(count[k]) ELSE count[j]
<1>1. count \in [Keys -> Counts] /\ ttl \in [Keys -> Ages]
  BY DEF LimiterTypes, LimiterTypeOK
<1>2. /\ count' = [count EXCEPT ![k] = Up(count[k])]
      /\ ttl' = [ttl EXCEPT ![k] = FixedLife(k)]
  BY DEF FixedHit
<1>3. \A j \in Keys : count[j] = 0 <=> ttl[j] = 0
  BY DEF FixedInv
<1> SUFFICES ASSUME NEW j \in Keys
             PROVE  /\ count'[j] = 0 <=> ttl'[j] = 0
                    /\ StartAge(j)' = StartAge(j)
                    /\ count'[j] = IF j = k THEN Up(count[k]) ELSE count[j]
  OBVIOUS
<1>4. CASE j = k
  <2>1. count'[j] = Up(count[j]) /\ ttl'[j] = FixedLife(j)
    BY <1>1, <1>2, <1>4
  <2>2. count[j] \in Counts /\ ttl[j] \in Ages /\ (count[j] = 0 <=> ttl[j] = 0)
    BY <1>1, <1>3
  <2> QED
    BY <1>4, <2>1, <2>2 DEF StartAge, FixedLife, Up, Counts, Ages
<1>5. CASE j # k
  <2>1. count'[j] = count[j] /\ ttl'[j] = ttl[j]
    BY <1>1, <1>2, <1>5
  <2> QED
    BY <1>3, <1>5, <2>1 DEF StartAge
<1> QED
  BY <1>4, <1>5

\* A window's start is at most a window ago.
LEMMA StartAgeIsAge ==
    ASSUME LimiterTypes, NEW k \in Keys
    PROVE  StartAge(k) \in Ages /\ count[k] \in Counts /\ ttl[k] \in Ages
<1>1. count[k] \in Counts /\ ttl[k] \in Ages
  BY DEF LimiterTypes, LimiterTypeOK
<1> QED
  BY <1>1 DEF StartAge, Ages

\* Hits keep the windows of counters.
LEMMA FixedAfterHit ==
    ASSUME LimiterTypes, FixedInv, kind = "fixed", NEW k \in Keys, Hit(k)
    PROVE  FixedInv'
<1>1. FixedHit(k)
  BY DEF Hit, Count
<1> SUFFICES ASSUME NEW j \in Keys
             PROVE  (count'[j] = 0 <=> ttl'[j] = 0)
                    /\ Fits(recent'[j], StartAge(j)', count'[j])
  BY DEF FixedInv
<1>2. /\ count'[j] = 0 <=> ttl'[j] = 0
      /\ StartAge(j)' = StartAge(j)
      /\ count'[j] = IF j = k THEN Up(count[k]) ELSE count[j]
  BY <1>1, CountedByFixed
<1>3. recent'[j] = IF j = k /\ Passes(k) THEN Append(recent[j], 0) ELSE recent[j]
  BY RecentAfterHit
<1>4. Fits(recent[j], StartAge(j), count[j]) /\ recent[j] \in Seq(Ages)
  BY DEF FixedInv, LimiterTypes, LimiterTypeOK
<1>5. /\ Fits(recent[j], StartAge(j), Up(count[j]))
      /\ count[j] < Times => Fits(Append(recent[j], 0), StartAge(j), Up(count[j]))
  BY <1>4, FitsWithHit, StartAgeIsAge
<1>6. Passes(k) => count[k] < Times
  BY DEF Passes
<1> QED
  BY <1>2, <1>3, <1>4, <1>5, <1>6

\* Calls whose answers are lost keep the windows of counters.
LEMMA FixedAfterDegraded ==
    ASSUME LimiterTypes, FixedInv, kind = "fixed", NEW k \in Keys, HitDegraded(k)
    PROVE  FixedInv'
<1>1. recent' = recent
  BY DEF HitDegraded
<1>2. CASE FixedHit(k)
  <2> SUFFICES ASSUME NEW j \in Keys
               PROVE  (count'[j] = 0 <=> ttl'[j] = 0)
                      /\ Fits(recent'[j], StartAge(j)', count'[j])
    BY DEF FixedInv
  <2>1. /\ count'[j] = 0 <=> ttl'[j] = 0
        /\ StartAge(j)' = StartAge(j)
        /\ count'[j] = IF j = k THEN Up(count[k]) ELSE count[j]
    BY <1>2, CountedByFixed
  <2>2. Fits(recent[j], StartAge(j), count[j]) /\ recent[j] \in Seq(Ages)
    BY DEF FixedInv, LimiterTypes, LimiterTypeOK
  <2>3. Fits(recent[j], StartAge(j), Up(count[j]))
    BY <2>2, FitsWithHit, StartAgeIsAge
  <2> QED
    BY <1>1, <2>1, <2>2, <2>3
<1>3. CASE UNCHANGED <<count, ttl, log, windows>>
  BY <1>1, <1>3 DEF FixedInv, StartAge
<1> QED
  BY <1>2, <1>3 DEF HitDegraded, Count

\* A tick ages a window, or ends it.
LEMMA FixedAfterTick ==
    ASSUME LimiterTypes, FixedInv, LimiterTick
    PROVE  FixedInv'
<1> SUFFICES ASSUME NEW j \in Keys
             PROVE  (count'[j] = 0 <=> ttl'[j] = 0)
                    /\ Fits(recent'[j], StartAge(j)', count'[j])
  BY DEF FixedInv
<1>1. ttl'[j] = Less(ttl[j]) /\ count'[j] = IF ttl[j] <= 1 THEN 0 ELSE count[j]
  BY DEF LimiterTick
<1>2. (count[j] = 0 <=> ttl[j] = 0) /\ Fits(recent[j], StartAge(j), count[j])
  BY DEF FixedInv
<1>3. StartAge(j) \in Ages /\ count[j] \in Counts /\ ttl[j] \in Ages
  BY StartAgeIsAge
<1>4. recent[j] \in Seq(Ages) /\ Layered(recent[j])
  BY DEF LimiterTypes, LimiterTypeOK, AgesInv
<1>5. /\ recent'[j] = Within(Aged(recent[j]))
      /\ recent'[j] \in Seq(Ages) /\ Young(recent'[j])
  BY AgesAfterTick
<1>6. Fits(recent'[j], Older(StartAge(j)), count[j])
  BY <1>2, <1>3, <1>4, <1>5, FitsAged
<1>7. count'[j] = 0 <=> ttl'[j] = 0
  BY <1>1, <1>2, <1>3 DEF Less, Ages
<1>8. CASE ttl[j] > 1
  <2>1. StartAge(j)' = Older(StartAge(j)) /\ count'[j] = count[j]
    BY <1>1, <1>3, <1>8 DEF StartAge, Older, Less, Ages
  <2> QED
    BY <1>6, <1>7, <2>1
<1>9. CASE ttl[j] = 1
  <2>1. Older(StartAge(j)) = Window /\ StartAge(j)' = 0 /\ count'[j] = 0
    BY <1>1, <1>9 DEF StartAge, Older, Less
  <2>2. Fits(recent'[j], 0, 0)
    BY <1>3, <1>5, <1>6, <2>1, FitsNewWindow
  <2> QED
    BY <1>7, <2>1, <2>2
<1>10. CASE ttl[j] = 0
  <2>1. StartAge(j) = 0 /\ StartAge(j)' = 0 /\ count[j] = 0 /\ count'[j] = 0
    BY <1>1, <1>2, <1>10 DEF StartAge, Less
  <2>2. \A i \in 1 .. Len(recent'[j]) : recent'[j][i] \in Ages
    BY <1>5
  <2>3. PICK n \in 0 .. Len(recent'[j]) : n <= Times /\ Len(recent'[j]) - n <= 0
    BY <1>6, <2>1 DEF Fits
  <2>4. \A i \in 1 .. n : recent'[j][i] >= 0
    BY <2>2, <2>3 DEF Ages
  <2>5. Len(recent'[j]) - n <= Times
    BY <2>3
  <2>6. Fits(recent'[j], 0, 0)
    BY <2>3, <2>4, <2>5 DEF Fits
  <2> QED
    BY <1>7, <2>1, <2>6
<1> QED
  BY <1>3, <1>8, <1>9, <1>10 DEF Ages

-----------------------------------------------------------------------------
(* The sliding window: its log has every recent hit.                         *)

\* A hit that is logged, or not because the log is full.
LEMMA LogCovers ==
    ASSUME LimiterTypes, SlidingInv, NEW k \in Keys, SlidingHit(k)
    PROVE  \A j \in Keys :
             /\ Covers(log'[j], recent[j])
             /\ j = k /\ Len(Within(log[k])) < Times => Covers(log'[j], Append(recent[j], 0))
<1> DEFINE w == Within(log[k])
           l == IF Len(w) < Times THEN Append(w, 0) ELSE w
<1>1. /\ log \in [Keys -> Seq(Ages)]
      /\ \A j \in Keys : /\ Covers(log[j], recent[j])
                         /\ Layered(log[j])
                         /\ recent[j] \in Seq(Ages)
                         /\ Young(recent[j])
  BY DEF LimiterTypes, LimiterTypeOK, AgesInv, SlidingInv
<1>2. \A j \in Keys : log'[j] = IF j = k THEN l ELSE log[j]
  BY <1>1 DEF SlidingHit
<1>3. w \in Seq(Ages) /\ Layered(w)
  BY LogOfHit
<1>4. Covers(w, recent[k])
  <2>1. log[k] \in Seq(Ages)
    BY <1>1
  <2> QED
    BY <1>1, <2>1, CoversWithin
<1> HIDE DEF w
<1>5. Covers(Append(w, 0), recent[k]) /\ Covers(Append(w, 0), Append(recent[k], 0))
  BY <1>1, <1>3, <1>4, CoversWithHit
<1>6. /\ Covers(l, recent[k])
      /\ Len(w) < Times => Covers(l, Append(recent[k], 0))
  BY <1>4, <1>5
<1> HIDE DEF l
<1> QED
  BY <1>1, <1>2, <1>6 DEF w

\* Hits keep every recent hit in the log.
LEMMA SlidingAfterHit ==
    ASSUME LimiterTypes, SlidingInv, kind = "sliding", NEW k \in Keys, Hit(k)
    PROVE  SlidingInv'
<1>1. SlidingHit(k)
  BY DEF Hit, Count
<1> SUFFICES ASSUME NEW j \in Keys PROVE Covers(log'[j], recent'[j])
  BY DEF SlidingInv
<1>2. recent'[j] = IF j = k /\ Passes(k) THEN Append(recent[j], 0) ELSE recent[j]
  BY RecentAfterHit
<1>3. Passes(k) => Len(Within(log[k])) < Times
  BY DEF Passes
<1> QED
  BY <1>1, <1>2, <1>3, LogCovers

\* Calls whose answers are lost may be logged too.
LEMMA SlidingAfterDegraded ==
    ASSUME LimiterTypes, SlidingInv, kind = "sliding", NEW k \in Keys, HitDegraded(k)
    PROVE  SlidingInv'
<1>1. recent' = recent
  BY DEF HitDegraded
<1>2. CASE SlidingHit(k)
  BY <1>1, <1>2, LogCovers DEF SlidingInv
<1>3. CASE UNCHANGED <<count, ttl, log, windows>>
  BY <1>1, <1>3 DEF SlidingInv
<1> QED
  BY <1>2, <1>3 DEF HitDegraded, Count

\* A tick ages the log and the recent hits alike.
LEMMA SlidingAfterTick ==
    ASSUME LimiterTypes, SlidingInv, LimiterTick
    PROVE  SlidingInv'
<1> SUFFICES ASSUME NEW j \in Keys PROVE Covers(log'[j], recent'[j])
  BY DEF SlidingInv
<1>1. log'[j] = Aged(log[j]) /\ recent'[j] = Within(Aged(recent[j]))
  BY AgesAfterTick
<1>2. /\ log[j] \in Seq(Ages) /\ Layered(log[j])
      /\ recent[j] \in Seq(Ages) /\ Layered(recent[j])
      /\ Covers(log[j], recent[j])
  BY DEF LimiterTypes, LimiterTypeOK, AgesInv, SlidingInv
<1> QED
  BY <1>1, <1>2, CoversAged

-----------------------------------------------------------------------------
(* The map of windows: what its entries say of the recent hits.              *)

\* The window a hit is counted in fits the recent hits: that of the entry, or a
\* new one if the entry is over, or was evicted.
LEMMA CurrentWindowFits ==
    ASSUME LimiterTypes, MemoryInv, NEW k \in Keys
    PROVE  Fits(recent[k], CurrentWindow(k).age, CurrentWindow(k).count)
<1>1. windows \in Seq(AWindow)
  BY DEF LimiterTypes, LimiterTypeOK, AWindow
<1>2. recent[k] \in Seq(Ages) /\ Young(recent[k])
  BY DEF LimiterTypes, LimiterTypeOK, AgesInv
<1>3. /\ Entry(k) \in 1 .. Len(windows) + 1
      /\ Entry(k) <= Len(windows) => windows[Entry(k)].key = k
      /\ Entry(k) > Len(windows) => \A i \in 1 .. Len(windows) : windows[i].key # k
  BY EntryFound DEF LimiterTypes
<1>4. CASE Entry(k) <= Len(windows)
  <2>1. Entry(k) \in 1 .. Len(windows)
    BY <1>1, <1>3, <1>4
  <2> DEFINE w == windows[Entry(k)]
  <2>2. w \in AWindow /\ w.key = k /\ Fits(recent[w.key], w.age, w.count)
    BY <1>1, <1>3, <1>4, <2>1 DEF MemoryInv
  <2>3. w.age \in Ages /\ w.count \in Counts
    BY <2>2, WindowParts
  <2>4. CASE w.age < Window
    <3>1. CurrentWindow(k) = w
      BY <1>4, <2>4 DEF CurrentWindow
    <3> QED
      BY <2>2, <3>1
  <2>5. CASE ~(w.age < Window)
    <3>1. CurrentWindow(k) = [key |-> k, age |-> 0, count |-> 0]
      BY <2>5 DEF CurrentWindow
    <3>2. w.age = Window
      BY <2>3, <2>5 DEF Ages
    <3> HIDE DEF w
    <3>3. Fits(recent[k], 0, 0)
      BY <1>2, <2>2, <2>3, <3>2, FitsNewWindow
    <3> QED
      BY <3>1, <3>3
  <2> QED
    BY <2>4, <2>5
<1>5. CASE Entry(k) > Len(windows)
  <2>1. ~(Entry(k) <= Len(windows))
    BY <1>1, <1>3, <1>5
  <2>2. CurrentWindow(k) = [key |-> k, age |-> 0, count |-> 0]
    BY <2>1 DEF CurrentWindow
  <2>3. k \notin Held(windows)
    BY <1>3, <1>5 DEF Held
  <2>4. recent[k] = <<>>
    BY <2>3 DEF MemoryInv
  <2>5. Len(recent[k]) = 0 /\ 0 \in 0 .. Len(recent[k]) /\ 0 <= Times
    BY <2>4
  <2>6. Fits(recent[k], 0, 0)
    BY <2>5 DEF Fits
  <2> QED
    BY <2>2, <2>6
<1> QED
  BY <1>1, <1>3, <1>4, <1>5

\* Hits keep the entries of the map.
LEMMA MemoryAfterHit ==
    ASSUME LimiterTypes, MemoryInv, kind = "memory", NEW k \in Keys, Hit(k)
    PROVE  MemoryInv'
<1>1. MemoryHit(k)
  BY DEF Hit, Count
<1>2. Distinct(windows')
  BY <1>1, OthersAfterHit DEF LimiterTypes, MemoryInv
<1>3. ASSUME NEW j \in Keys \ Held(windows') PROVE recent'[j] = <<>>
  BY RecentAfterHit
<1>4. windows \in Seq(AWindow) /\ windows' \in Seq(AWindow)
  BY <1>1, MapAfterHit DEF LimiterTypes, LimiterTypeOK, AWindow
<1>5. Len(windows') \in 1 .. MaxKeys /\ windows'[Len(windows')] = CountedWindow(k)
  BY <1>1, MapAfterHit DEF LimiterTypes, Shifted
<1>6. ASSUME NEW i \in 1 .. Len(windows')
      PROVE  Fits(recent'[windows'[i].key], windows'[i].age, windows'[i].count)
  <2> DEFINE j == windows'[i].key
  <2>1. j \in Keys /\ j \in Held(windows')
    <3>1. windows'[i] \in AWindow
      BY <1>4
    <3> QED
      BY <3>1, WindowParts DEF Held
  <2>2. recent'[j] = IF j = k /\ Passes(k) THEN Append(recent[j], 0) ELSE recent[j]
    <3> HIDE DEF j
    <3> QED
      BY <2>1, RecentAfterHit
  <2>3. CASE i < Len(windows')
    <3>1. i \in 1 .. Len(windows') - 1
      BY <1>5, <2>3
    <3>2. PICK p \in 1 .. Len(windows) :
                windows'[i] = windows[p] /\ windows[p].key # k
      BY <1>1, <3>1, OthersAfterHit DEF LimiterTypes, MemoryInv
    <3>3. Fits(recent[windows[p].key], windows[p].age, windows[p].count)
      BY DEF MemoryInv
    <3>4. recent'[j] = recent[windows[p].key]
      BY <2>2, <3>2
    <3> QED
      BY <3>2, <3>3, <3>4
  <2>4. CASE i = Len(windows')
    <3>1. windows'[i] = CountedWindow(k)
      BY <1>5, <2>4
    <3> DEFINE c == CurrentWindow(k)
    <3>2. /\ CountedWindow(k).key = k
          /\ CountedWindow(k).age = c.age
          /\ CountedWindow(k).count = Up(c.count)
          /\ c \in AWindow
      BY WindowOfHit DEF LimiterTypes
    <3>3. c.age \in Ages /\ c.count \in Counts
      BY <3>2, WindowParts
    <3>4. Fits(recent[k], c.age, c.count) /\ recent[k] \in Seq(Ages)
      BY CurrentWindowFits DEF LimiterTypes, LimiterTypeOK
    <3>5. Passes(k) => c.count < Times
      BY DEF Passes
    <3> HIDE DEF c
    <3>6. /\ Fits(recent[k], c.age, Up(c.count))
          /\ c.count < Times => Fits(Append(recent[k], 0), c.age, Up(c.count))
      BY <3>3, <3>4, FitsWithHit
    <3>7. j = k
      BY <3>1, <3>2
    <3>8. Fits(recent'[k], c.age, Up(c.count))
      BY <2>2, <3>5, <3>6, <3>7
    <3> QED
      BY <3>1, <3>2, <3>8
  <2> QED
    BY <1>5, <2>3, <2>4
<1> QED
  BY <1>2, <1>3, <1>6 DEF MemoryInv

\* A tick ages the entries.
LEMMA MemoryAfterTick ==
    ASSUME LimiterTypes, MemoryInv, LimiterTick
    PROVE  MemoryInv'
<1>1. windows \in Seq(AWindow) /\ windows' \in Seq(AWindow) /\ Len(windows') = Len(windows)
  BY MapAfterTick DEF LimiterTypes, LimiterTypeOK, AWindow
<1>2. \A i \in 1 .. Len(windows) :
        /\ windows'[i].key = windows[i].key
        /\ windows'[i].age = Older(windows[i].age)
        /\ windows'[i].count = windows[i].count
  BY MapAfterTick DEF LimiterTypes
<1>3. Distinct(windows')
  BY <1>1, <1>2 DEF MemoryInv, Distinct
<1>4. ASSUME NEW i \in 1 .. Len(windows')
      PROVE  Fits(recent'[windows'[i].key], windows'[i].age, windows'[i].count)
  <2> DEFINE w == windows[i]
  <2>1. i \in 1 .. Len(windows) /\ w \in AWindow
    BY <1>1
  <2>2. w.key \in Keys /\ w.age \in Ages /\ w.count \in Counts
    BY <2>1, WindowParts
  <2>3. Fits(recent[w.key], w.age, w.count)
    BY <2>1 DEF MemoryInv
  <2>4. windows'[i].key = w.key /\ windows'[i].age = Older(w.age) /\ windows'[i].count = w.count
    BY <1>2, <2>1
  <2> HIDE DEF w
  <2>5. recent[w.key] \in Seq(Ages) /\ Layered(recent[w.key])
    BY <2>2 DEF LimiterTypes, LimiterTypeOK, AgesInv
  <2>6. Fits(Within(Aged(recent[w.key])), Older(w.age), w.count)
    BY <2>2, <2>3, <2>5, FitsAged
  <2>7. recent'[w.key] = Within(Aged(recent[w.key]))
    BY <2>2, AgesAfterTick
  <2> QED
    BY <2>4, <2>6, <2>7
<1>5. ASSUME NEW k \in Keys \ Held(windows') PROVE recent'[k] = <<>>
  <2>1. k \notin Held(windows)
    BY <1>1, <1>2 DEF Held
  <2>2. recent[k] = <<>>
    BY <2>1 DEF MemoryInv
  <2>3. Len(recent[k]) = 0 /\ recent[k] \in Seq(Ages) /\ Layered(recent[k])
    BY <2>2 DEF LimiterTypes, LimiterTypeOK, AgesInv
  <2>4. Aged(recent[k]) \in Seq(Ages) /\ Len(Aged(recent[k])) = 0 /\ Layered(Aged(recent[k]))
    BY <2>3, LayeredAged
  <2>5. Within(Aged(recent[k])) \in Seq(Ages) /\ Len(Within(Aged(recent[k]))) <= 0
    BY <2>4, WithinCuts, WithinIsYoung
  <2>6. Within(Aged(recent[k])) = <<>>
    BY <2>5
  <2> QED
    BY <2>6, AgesAfterTick
<1> QED
  BY <1>3, <1>4, <1>5 DEF MemoryInv

-----------------------------------------------------------------------------
(* The limits.                                                               *)

\* Every step keeps what each limiter's state says of the recent hits.
LEMMA WindowsInvStep == WindowsInv /\ [LimiterNext]_limiter => WindowsInv'
<1> SUFFICES ASSUME WindowsInv, [LimiterNext]_limiter PROVE WindowsInv'
  OBVIOUS
<1> USE DEF WindowsInv
<1>1. ASSUME NEW k \in Keys, Hit(k) PROVE WindowsInv'
  <2>1. kind' = kind
    BY <1>1 DEF Hit
  <2> QED
    BY <1>1, <2>1, TypesAfterHit, FixedAfterHit, SlidingAfterHit, MemoryAfterHit
<1>2. ASSUME NEW k \in Keys, HitDegraded(k) PROVE WindowsInv'
  <2>1. kind' = kind /\ kind # "memory"
    BY <1>2 DEF HitDegraded
  <2> QED
    BY <1>2, <2>1, TypesAfterDegraded, FixedAfterDegraded, SlidingAfterDegraded
<1>3. CASE LimiterTick
  <2>1. kind' = kind
    BY <1>3 DEF LimiterTick
  <2> QED
    BY <1>3, <2>1, TypesAfterTick, FixedAfterTick, SlidingAfterTick, MemoryAfterTick
<1>4. CASE UNCHANGED limiter
  BY <1>4 DEF limiter, LimiterTypes, LimiterTypeOK, AgesInv, FixedInv, StartAge,
              SlidingInv, MemoryInv
<1> QED
  BY <1>1, <1>2, <1>3, <1>4 DEF LimiterNext

\* It holds before the first hit.
LEMMA WindowsInvInit == LimiterInit => WindowsInv
<1> SUFFICES ASSUME LimiterInit PROVE WindowsInv
  OBVIOUS
<1> DEFINE none == <<>>
<1>1. none \in Seq(Ages) /\ Len(none) = 0
  OBVIOUS
<1>2. Layered(none) /\ Young(none) /\ Covers(none, none) /\ Fits(none, 0, 0)
  BY <1>1 DEF Layered, Young, Covers, Fits
<1>3. \A k \in Keys : log[k] = none /\ recent[k] = none /\ count[k] = 0 /\ ttl[k] = 0
  BY DEF LimiterInit
<1>4. windows = <<>> /\ Len(windows) = 0
  BY DEF LimiterInit
<1> HIDE DEF none
<1>5. LimiterTypeOK
  <2>1. count \in [Keys -> Counts] /\ ttl \in [Keys -> Ages] /\ allowed \in [Keys -> BOOLEAN]
    BY DEF LimiterInit, Counts, Ages
  <2>2. log \in [Keys -> Seq(Ages)] /\ recent \in [Keys -> Seq(Ages)]
    BY DEF LimiterInit
  <2>3. \A k \in Keys : Len(log[k]) <= Times
    BY <1>1, <1>3
  <2>4. told \in [Keys -> AnAnswer \cup {Untold}]
    BY DEF LimiterInit
  <2>5. windows \in Seq(AWindow) /\ Len(windows) <= MaxKeys
    BY <1>4
  <2>6. order \in Seq(Keys) /\ Len(order) <= MaxKeys /\ kind \in Kinds
    BY DEF LimiterInit
  <2> QED
    BY <2>1, <2>2, <2>3, <2>4, <2>5, <2>6 DEF LimiterTypeOK, AWindow, AnAnswer
<1>6. AgesInv /\ SlidingInv
  BY <1>2, <1>3 DEF AgesInv, SlidingInv
<1>7. FixedInv
  BY <1>2, <1>3 DEF FixedInv, StartAge
<1>8. MemoryInv
  BY <1>3, <1>4 DEF MemoryInv, Distinct, none
<1> QED
  BY <1>5, <1>6, <1>7, <1>8 DEF WindowsInv, LimiterTypes

\* So it always holds.
LEMMA WindowsInvariance == LimiterSpec => []WindowsInv
BY WindowsInvInit, WindowsInvStep, PTL DEF LimiterSpec

\* Types: no log outgrows the limit, and no map its places.
THEOREM LimiterTypeCorrectness == LimiterSpec => []LimiterTypeOK
<1>1. WindowsInv => LimiterTypeOK
  BY DEF WindowsInv, LimiterTypes
<1> QED
  BY <1>1, WindowsInvariance, PTL

\* No window of time sees more than Times hits of a key pass the sliding limiter,
\* nor more than 2 * Times one of the others, whatever was evicted in between and
\* whichever answers were lost.
THEOREM LimitsAreKept == LimiterSpec => []WithinLimit
<1>1. WindowsInv => WithinLimit
  <2> SUFFICES ASSUME WindowsInv, NEW k \in Keys
               PROVE  Len(recent[k]) <= IF kind = "sliding" THEN Times ELSE 2 * Times
    BY DEF WithinLimit
  <2>1. /\ LimiterTypes
        /\ recent[k] \in Seq(Ages)
        /\ log[k] \in Seq(Ages)
        /\ Len(log[k]) <= Times
    BY DEF WindowsInv, LimiterTypes, LimiterTypeOK
  <2>2. CASE kind = "sliding"
    <3>1. Len(recent[k]) <= Len(log[k])
      BY <2>2 DEF WindowsInv, SlidingInv, Covers
    <3> QED
      BY <2>1, <2>2, <3>1
  <2>3. CASE kind = "fixed"
    <3>1. Fits(recent[k], StartAge(k), count[k])
      BY <2>3 DEF WindowsInv, FixedInv
    <3>2. Len(recent[k]) <= 2 * Times
      BY <2>1, <3>1, StartAgeIsAge, FitsIsWithinLimit
    <3> QED
      BY <2>3, <3>2
  <2>4. CASE kind = "memory"
    <3> DEFINE c == CurrentWindow(k)
    <3>1. Fits(recent[k], c.age, c.count)
      BY <2>1, <2>4, CurrentWindowFits DEF WindowsInv
    <3>2. c \in AWindow
      BY <2>1, WindowOfHit DEF LimiterTypes
    <3>3. c.age \in Ages /\ c.count \in Counts
      BY <3>2, WindowParts
    <3> HIDE DEF c
    <3>4. Len(recent[k]) <= 2 * Times
      BY <2>1, <3>1, <3>3, FitsIsWithinLimit
    <3> QED
      BY <2>4, <3>4
  <2> QED
    BY <2>1, <2>2, <2>3, <2>4, ThreeKinds DEF LimiterTypes
<1> QED
  BY <1>1, WindowsInvariance, PTL

-----------------------------------------------------------------------------
(* What callers are told.                                                    *)

FixedTold ==
    \A k \in Keys : told[k] # Untold =>
        /\ told[k].wait = ttl[k]
        /\ told[k].remaining > 0 => count[k] < Times

SlidingTold ==
    \A k \in Keys : told[k] # Untold =>
        /\ Len(log[k]) > 0
        /\ log[k][1] + told[k].wait >= Window
        /\ told[k].remaining > 0 => Len(log[k]) < Times

MemoryTold ==
    \A i \in 1 .. Len(windows) : told[windows[i].key] # Untold =>
        /\ windows[i].age + told[windows[i].key].wait >= Window
        /\ told[windows[i].key].remaining > 0 => windows[i].count < Times

ToldInv ==
    /\ WindowsInv
    /\ kind = "fixed" => FixedTold
    /\ kind = "sliding" => SlidingTold
    /\ kind = "memory" => MemoryTold

\* What the caller of a hit, and the others, were told after it.
LEMMA ToldAfterHit ==
    ASSUME LimiterTypes, NEW k \in Keys, Hit(k)
    PROVE  /\ told'[k].remaining = Remaining(k)
           /\ told'[k].wait = ResetAfter(k)
           /\ \A j \in Keys \ {k} : told'[j] = told[j]
<1>1. told' = [told EXCEPT ![k] = [remaining |-> Remaining(k), wait |-> ResetAfter(k)]]
  BY DEF Hit
<1>2. told \in [Keys -> AnAnswer \cup {Untold}]
  BY DEF LimiterTypes, LimiterTypeOK, AnAnswer
<1>3. told'[k] = [remaining |-> Remaining(k), wait |-> ResetAfter(k)]
  BY <1>1, <1>2
<1>4. \A j \in Keys \ {k} : told'[j] = told[j]
  BY <1>1, <1>2
<1> QED
  BY <1>3, <1>4

\* Answers, and what a tick makes of them.
LEMMA ToldAfterTick ==
    ASSUME LimiterTypes, LimiterTick, NEW k \in Keys, told'[k] # Untold
    PROVE  /\ told[k] # Untold
           /\ told[k].wait \in Ages
           /\ told'[k].wait = Less(told[k].wait)
           /\ told'[k].remaining = told[k].remaining
<1>1. told'[k] = IF told[k] = Untold THEN Untold ELSE [told[k] EXCEPT !.wait = Less(@)]
  BY DEF LimiterTick
<1>2. told[k] # Untold
  BY <1>1
<1>3. told[k] \in AnAnswer
  BY <1>2 DEF LimiterTypes, LimiterTypeOK, AnAnswer
<1>4. told'[k] = [told[k] EXCEPT !.wait = Less(@)]
  BY <1>1, <1>2
<1> QED
  BY <1>2, <1>3, <1>4 DEF AnAnswer

\* The fixed window announces what is left of the counter's life.
LEMMA FixedToldAfterHit ==
    ASSUME LimiterTypes, FixedInv, FixedTold, kind = "fixed", NEW k \in Keys, Hit(k)
    PROVE  FixedTold'
<1>1. /\ count \in [Keys -> Counts] /\ ttl \in [Keys -> Ages]
      /\ count' = [count EXCEPT ![k] = Up(count[k])]
      /\ ttl' = [ttl EXCEPT ![k] = FixedLife(k)]
  BY DEF Hit, Count, FixedHit, LimiterTypes, LimiterTypeOK
<1> SUFFICES ASSUME NEW j \in Keys, told'[j] # Untold
             PROVE  /\ told'[j].wait = ttl'[j]
                    /\ told'[j].remaining > 0 => count'[j] < Times
  BY DEF FixedTold
<1>2. CASE j = k
  <2>1. told'[j].wait = FixedLife(k)
    BY <1>2, ToldAfterHit DEF ResetAfter
  <2>2. told'[j].remaining = IF count[k] < Times THEN Times - count[k] - 1 ELSE 0
    BY <1>2, ToldAfterHit DEF Remaining
  <2>3. count'[j] = Up(count[k]) /\ ttl'[j] = FixedLife(k)
    BY <1>1, <1>2
  <2>4. count[k] \in Counts
    BY <1>1
  <2> QED
    BY <2>1, <2>2, <2>3, <2>4 DEF Up, Counts
<1>3. CASE j # k
  <2>1. count'[j] = count[j] /\ ttl'[j] = ttl[j] /\ told'[j] = told[j]
    BY <1>1, <1>3, ToldAfterHit
  <2> QED
    BY <2>1 DEF FixedTold
<1> QED
  BY <1>2, <1>3

\* A lost answer says nothing, and changes nothing of what others were told.
LEMMA FixedToldAfterDegraded ==
    ASSUME LimiterTypes, FixedTold, kind = "fixed", NEW k \in Keys, HitDegraded(k)
    PROVE  FixedTold'
<1>1. /\ count \in [Keys -> Counts] /\ ttl \in [Keys -> Ages]
      /\ told \in [Keys -> AnAnswer \cup {Untold}]
      /\ told' = [told EXCEPT ![k] = Untold]
  BY DEF HitDegraded, LimiterTypes, LimiterTypeOK, AnAnswer
<1>2. \A j \in Keys \ {k} : count'[j] = count[j] /\ ttl'[j] = ttl[j]
  BY <1>1 DEF HitDegraded, Count, FixedHit
<1>3. \A j \in Keys : told'[j] # Untold => j # k /\ told'[j] = told[j]
  BY <1>1
<1> QED
  BY <1>2, <1>3 DEF FixedTold

\* The time announced runs down with the counter's life.
LEMMA FixedToldAfterTick ==
    ASSUME LimiterTypes, FixedTold, LimiterTick
    PROVE  FixedTold'
<1> SUFFICES ASSUME NEW j \in Keys, told'[j] # Untold
             PROVE  /\ told'[j].wait = ttl'[j]
                    /\ told'[j].remaining > 0 => count'[j] < Times
  BY DEF FixedTold
<1>1. ttl'[j] = Less(ttl[j]) /\ count'[j] = IF ttl[j] <= 1 THEN 0 ELSE count[j]
  BY DEF LimiterTick
<1>2. /\ told[j] # Untold
      /\ told'[j].wait = Less(told[j].wait)
      /\ told'[j].remaining = told[j].remaining
  BY ToldAfterTick
<1>3. told[j].wait = ttl[j] /\ (told[j].remaining > 0 => count[j] < Times)
  BY <1>2 DEF FixedTold
<1> QED
  BY <1>1, <1>2, <1>3

\* The sliding window announces when the oldest hit of its log is over.
LEMMA SlidingToldAfterHit ==
    ASSUME LimiterTypes, SlidingTold, kind = "sliding", NEW k \in Keys, Hit(k)
    PROVE  SlidingTold'
<1> DEFINE w == Within(log[k])
           l == IF Len(w) < Times THEN Append(w, 0) ELSE w
<1>1. log \in [Keys -> Seq(Ages)] /\ log' = [log EXCEPT ![k] = l]
  BY DEF Hit, Count, SlidingHit, LimiterTypes, LimiterTypeOK
<1>2. w \in Seq(Ages)
  BY LogOfHit
<1>3. Passes(k) <=> Len(w) < Times
  BY DEF Passes
<1>4. ResetAfter(k) = IF Passes(k) THEN Window ELSE Window - w[1]
  BY DEF ResetAfter
<1>5. Remaining(k) = IF Len(w) < Times THEN Times - Len(w) - 1 ELSE 0
  BY DEF Remaining
<1> HIDE DEF w
<1> SUFFICES ASSUME NEW j \in Keys, told'[j] # Untold
             PROVE  /\ Len(log'[j]) > 0
                    /\ log'[j][1] + told'[j].wait >= Window
                    /\ told'[j].remaining > 0 => Len(log'[j]) < Times
  BY DEF SlidingTold
<1>6. CASE j = k
  <2>1. told'[j].wait = ResetAfter(k) /\ told'[j].remaining = Remaining(k)
    BY <1>6, ToldAfterHit
  <2>2. log'[j] = l
    BY <1>1, <1>6
  <2>3. CASE Len(w) < Times
    <3>1. l = Append(w, 0)
      BY <2>3
    <3>2. l \in Seq(Ages) /\ Len(l) = Len(w) + 1
      <4>1. 0 \in Ages
        BY DEF Ages
      <4> HIDE DEF l
      <4> QED
        BY <1>2, <3>1, <4>1
    <3>3. l[1] \in Ages
      BY <3>2
    <3>4. told'[j].wait = Window /\ told'[j].remaining = Times - Len(w) - 1
      BY <1>3, <1>4, <1>5, <2>1, <2>3
    <3> HIDE DEF l
    <3> QED
      BY <1>2, <2>2, <3>2, <3>3, <3>4 DEF Ages
  <2>4. CASE ~(Len(w) < Times)
    <3>1. l = w
      BY <2>4
    <3>2. 1 \in 1 .. Len(w)
      BY <1>2, <2>4
    <3>3. w[1] \in Ages
      BY <1>2, <3>2
    <3>4. told'[j].wait = Window - w[1] /\ told'[j].remaining = 0
      BY <1>3, <1>4, <1>5, <2>1, <2>4
    <3> QED
      BY <2>2, <3>1, <3>2, <3>3, <3>4 DEF Ages
  <2> QED
    BY <2>3, <2>4
<1>7. CASE j # k
  <2>1. log'[j] = log[j] /\ told'[j] = told[j]
    BY <1>1, <1>7, ToldAfterHit
  <2> QED
    BY <2>1 DEF SlidingTold
<1> QED
  BY <1>6, <1>7

\* A lost answer says nothing, and changes nothing of what others were told.
LEMMA SlidingToldAfterDegraded ==
    ASSUME LimiterTypes, SlidingTold, kind = "sliding", NEW k \in Keys, HitDegraded(k)
    PROVE  SlidingTold'
<1>1. /\ log \in [Keys -> Seq(Ages)]
      /\ told \in [Keys -> AnAnswer \cup {Untold}]
      /\ told' = [told EXCEPT ![k] = Untold]
  BY DEF HitDegraded, LimiterTypes, LimiterTypeOK, AnAnswer
<1>2. \A j \in Keys \ {k} : log'[j] = log[j]
  BY <1>1 DEF HitDegraded, Count, SlidingHit
<1>3. \A j \in Keys : told'[j] # Untold => j # k /\ told'[j] = told[j]
  BY <1>1
<1> QED
  BY <1>2, <1>3 DEF SlidingTold

\* The oldest hit of the log ages as the announced time runs down.
LEMMA SlidingToldAfterTick ==
    ASSUME LimiterTypes, SlidingTold, LimiterTick
    PROVE  SlidingTold'
<1> SUFFICES ASSUME NEW j \in Keys, told'[j] # Untold
             PROVE  /\ Len(log'[j]) > 0
                    /\ log'[j][1] + told'[j].wait >= Window
                    /\ told'[j].remaining > 0 => Len(log'[j]) < Times
  BY DEF SlidingTold
<1>1. log[j] \in Seq(Ages) /\ Layered(log[j])
  BY DEF LimiterTypes, LimiterTypeOK, AgesInv
<1>2. /\ told[j] # Untold
      /\ told[j].wait \in Ages
      /\ told'[j].wait = Less(told[j].wait)
      /\ told'[j].remaining = told[j].remaining
  BY ToldAfterTick
<1>3. /\ Len(log[j]) > 0
      /\ log[j][1] + told[j].wait >= Window
      /\ told[j].remaining > 0 => Len(log[j]) < Times
  BY <1>2 DEF SlidingTold
<1>4. log'[j] = Aged(log[j]) /\ Len(log'[j]) = Len(log[j])
  BY AgesAfterTick
<1>5. 1 \in 1 .. Len(log[j])
  BY <1>1, <1>3
<1>6. log[j][1] \in Ages /\ log'[j][1] = Older(log[j][1])
  BY <1>1, <1>4, <1>5, LayeredAged
<1>7. log'[j][1] + told'[j].wait >= Window
  BY <1>2, <1>3, <1>6 DEF Older, Less, Ages
<1> QED
  BY <1>2, <1>3, <1>4, <1>7

\* The map of windows announces when the entry's window is over.
LEMMA MemoryToldAfterHit ==
    ASSUME LimiterTypes, MemoryInv, MemoryTold, kind = "memory", NEW k \in Keys, Hit(k)
    PROVE  MemoryTold'
<1>1. MemoryHit(k)
  BY DEF Hit, Count
<1>2. Len(windows') \in 1 .. MaxKeys /\ windows'[Len(windows')] = CountedWindow(k)
  BY <1>1, MapAfterHit DEF LimiterTypes, Shifted
<1>3. windows \in Seq(AWindow)
  BY DEF LimiterTypes, LimiterTypeOK, AWindow
<1> SUFFICES ASSUME NEW i \in 1 .. Len(windows'), told'[windows'[i].key] # Untold
             PROVE  /\ windows'[i].age + told'[windows'[i].key].wait >= Window
                    /\ told'[windows'[i].key].remaining > 0 => windows'[i].count < Times
  BY DEF MemoryTold
<1>4. CASE i < Len(windows')
  <2>1. i \in 1 .. Len(windows') - 1
    BY <1>2, <1>4
  <2>2. PICK p \in 1 .. Len(windows) : windows'[i] = windows[p] /\ windows[p].key # k
    BY <1>1, <2>1, OthersAfterHit DEF LimiterTypes, MemoryInv
  <2>3. windows[p].key \in Keys
    BY <1>3, WindowParts
  <2>4. told'[windows[p].key] = told[windows[p].key]
    BY <2>2, <2>3, ToldAfterHit
  <2> QED
    BY <2>2, <2>4 DEF MemoryTold
<1>5. CASE i = Len(windows')
  <2> DEFINE c == CurrentWindow(k)
  <2>1. windows'[i] = CountedWindow(k)
    BY <1>2, <1>5
  <2>2. /\ CountedWindow(k).key = k
        /\ CountedWindow(k).age = c.age
        /\ CountedWindow(k).count = Up(c.count)
        /\ c \in AWindow
    BY WindowOfHit DEF LimiterTypes
  <2>3. c.age \in Ages /\ c.count \in Counts
    BY <2>2, WindowParts
  <2>4. told'[k].wait = Window - c.age
    BY ToldAfterHit DEF ResetAfter
  <2>5. told'[k].remaining = IF c.count < Times THEN Times - c.count - 1 ELSE 0
    BY ToldAfterHit DEF Remaining
  <2> HIDE DEF c
  <2>6. windows'[i].age + told'[k].wait >= Window
    BY <2>1, <2>2, <2>3, <2>4 DEF Ages
  <2>7. told'[k].remaining > 0 => windows'[i].count < Times
    BY <2>1, <2>2, <2>3, <2>5 DEF Up, Counts
  <2> QED
    BY <2>1, <2>2, <2>6, <2>7
<1> QED
  BY <1>2, <1>4, <1>5

\* Entries age as the announced times run down.
LEMMA MemoryToldAfterTick ==
    ASSUME LimiterTypes, MemoryTold, LimiterTick
    PROVE  MemoryTold'
<1> SUFFICES ASSUME NEW i \in 1 .. Len(windows'), told'[windows'[i].key] # Untold
             PROVE  /\ windows'[i].age + told'[windows'[i].key].wait >= Window
                    /\ told'[windows'[i].key].remaining > 0 => windows'[i].count < Times
  BY DEF MemoryTold
<1>1. i \in 1 .. Len(windows) /\ windows \in Seq(AWindow)
  BY MapAfterTick DEF LimiterTypes, LimiterTypeOK, AWindow
<1> DEFINE w == windows[i]
<1>2. /\ windows'[i].key = w.key
      /\ windows'[i].age = Older(w.age)
      /\ windows'[i].count = w.count
  BY <1>1, MapAfterTick DEF LimiterTypes
<1>3. w.key \in Keys /\ w.age \in Ages
  BY <1>1, WindowParts
<1>4. told[w.key] # Untold =>
        /\ w.age + told[w.key].wait >= Window
        /\ told[w.key].remaining > 0 => w.count < Times
  BY <1>1 DEF MemoryTold
<1> HIDE DEF w
<1>5. /\ told[w.key] # Untold
      /\ told[w.key].wait \in Ages
      /\ told'[w.key].wait = Less(told[w.key].wait)
      /\ told'[w.key].remaining = told[w.key].remaining
  BY <1>2, <1>3, ToldAfterTick
<1>6. Older(w.age) + Less(told[w.key].wait) >= Window
  BY <1>3, <1>4, <1>5 DEF Older, Less, Ages
<1> QED
  BY <1>2, <1>4, <1>5, <1>6

\* Every step keeps what callers were told true.
LEMMA ToldInvStep == ToldInv /\ [LimiterNext]_limiter => ToldInv'
<1> SUFFICES ASSUME ToldInv, [LimiterNext]_limiter PROVE ToldInv'
  OBVIOUS
<1>1. WindowsInv /\ WindowsInv' /\ LimiterTypes
  BY WindowsInvStep DEF ToldInv, WindowsInv
<1> USE DEF ToldInv
<1>2. ASSUME NEW k \in Keys, Hit(k) PROVE ToldInv'
  <2>1. kind' = kind
    BY <1>2 DEF Hit
  <2> QED
    BY <1>1, <1>2, <2>1, FixedToldAfterHit, SlidingToldAfterHit, MemoryToldAfterHit
    DEF WindowsInv
<1>3. ASSUME NEW k \in Keys, HitDegraded(k) PROVE ToldInv'
  <2>1. kind' = kind /\ kind # "memory"
    BY <1>3 DEF HitDegraded
  <2> QED
    BY <1>1, <1>3, <2>1, FixedToldAfterDegraded, SlidingToldAfterDegraded
<1>4. CASE LimiterTick
  <2>1. kind' = kind
    BY <1>4 DEF LimiterTick
  <2> QED
    BY <1>1, <1>4, <2>1, FixedToldAfterTick, SlidingToldAfterTick, MemoryToldAfterTick
<1>5. CASE UNCHANGED limiter
  BY <1>1, <1>5 DEF limiter, FixedTold, SlidingTold, MemoryTold
<1> QED
  BY <1>2, <1>3, <1>4, <1>5 DEF LimiterNext

\* Callers can pace themselves: whoever was told that hits remain passes, and so
\* does whoever has waited for as long as it was told.
THEOREM AnnouncementsAreTrue == LimiterSpec => []AnnouncementsHold
<1>1. LimiterInit => ToldInv
  <2> SUFFICES ASSUME LimiterInit PROVE ToldInv
    OBVIOUS
  <2>1. \A k \in Keys : told[k] = Untold
    BY DEF LimiterInit
  <2>2. Len(windows) = 0
    BY DEF LimiterInit
  <2> QED
    BY <2>1, <2>2, WindowsInvInit DEF ToldInv, FixedTold, SlidingTold, MemoryTold
<1>2. ToldInv => AnnouncementsHold
  <2> SUFFICES ASSUME ToldInv, NEW k \in Keys, told[k] # Untold,
                      told[k].remaining > 0 \/ told[k].wait = 0
               PROVE  Passes(k)
    BY DEF AnnouncementsHold
  <2>1. LimiterTypes /\ LimiterTypeOK
    BY DEF ToldInv, WindowsInv, LimiterTypes
  <2>2. CASE kind = "fixed"
    <3>1. /\ told[k].wait = ttl[k]
          /\ told[k].remaining > 0 => count[k] < Times
          /\ count[k] = 0 <=> ttl[k] = 0
      BY <2>2 DEF ToldInv, FixedTold, WindowsInv, FixedInv
    <3> QED
      BY <2>2, <3>1 DEF Passes
  <2>3. CASE kind = "sliding"
    <3>1. /\ Len(log[k]) > 0
          /\ log[k][1] + told[k].wait >= Window
          /\ told[k].remaining > 0 => Len(log[k]) < Times
      BY <2>3 DEF ToldInv, SlidingTold
    <3>2. log[k] \in Seq(Ages) /\ Layered(log[k]) /\ Len(log[k]) <= Times
      BY <2>1 DEF LimiterTypes, LimiterTypeOK, AgesInv
    <3>3. PICK g \in 0 .. Len(log[k]) :
            /\ \A i \in 1 .. Len(log[k]) : log[k][i] >= Window <=> i <= g
            /\ Len(Within(log[k])) = Len(log[k]) - g
      BY <3>2, WithinCuts
    <3>4. 1 \in 1 .. Len(log[k])
      BY <3>1, <3>2
    <3>5. log[k][1] \in Ages
      BY <3>2, <3>4
    <3>6. told[k].wait = 0 => g >= 1
      BY <3>1, <3>3, <3>4, <3>5 DEF Ages
    <3>7. Len(Within(log[k])) < Times
      BY <3>1, <3>2, <3>3, <3>6
    <3> QED
      BY <2>3, <3>7 DEF Passes
  <2>4. CASE kind = "memory"
    <3>1. CASE Entry(k) <= Len(windows) /\ windows[Entry(k)].age < Window
      <4> DEFINE i == Entry(k)
      <4>1. i \in 1 .. Len(windows) /\ windows[i].key = k
        BY <2>1, <3>1, EntryFound
      <4>2. windows \in Seq(AWindow)
        BY <2>1 DEF LimiterTypeOK, AWindow
      <4>3. windows[i].age \in Ages /\ windows[i].age < Window
        BY <3>1, <4>1, <4>2, WindowParts
      <4>4. CurrentWindow(k) = windows[i]
        BY <3>1 DEF CurrentWindow
      <4> HIDE DEF i
      <4>5. /\ windows[i].age + told[k].wait >= Window
            /\ told[k].remaining > 0 => windows[i].count < Times
        BY <2>4, <4>1 DEF ToldInv, MemoryTold
      <4>6. told[k].wait # 0
        BY <4>3, <4>5 DEF Ages
      <4> QED
        BY <2>4, <4>4, <4>5, <4>6 DEF Passes
    <3>2. CASE ~(Entry(k) <= Len(windows) /\ windows[Entry(k)].age < Window)
      <4>1. CurrentWindow(k) = [key |-> k, age |-> 0, count |-> 0]
        BY <3>2 DEF CurrentWindow
      <4>2. CurrentWindow(k).count < Times
        BY <4>1
      <4> QED
        BY <2>4, <4>2 DEF Passes
    <3> QED
      BY <3>1, <3>2
  <2> QED
    BY <2>1, <2>2, <2>3, <2>4, ThreeKinds
<1> QED
  BY <1>1, <1>2, ToldInvStep, PTL DEF LimiterSpec

-----------------------------------------------------------------------------
(* The keys that are kept.                                                   *)

\* The map stands in the order of the last hits: what is evicted is the key not
\* hit for longest.
THEOREM RecentKeysAreKept == LimiterSpec => []KeepsRecentKeys
<1> DEFINE Inv == LimiterTypeOK /\ KeepsRecentKeys
<1>1. LimiterInit => KeepsRecentKeys
  BY DEF LimiterInit, KeepsRecentKeys, KnownKeys
<1>2. ASSUME Inv, LimiterTypes, LimiterTypeOK', [LimiterNext]_limiter
      PROVE  KeepsRecentKeys'
  <2> SUFFICES ASSUME kind' = "memory" PROVE KnownKeys' = order'
    BY DEF KeepsRecentKeys
  <2>1. kind = "memory"
    BY <1>2 DEF LimiterNext, Hit, HitDegraded, LimiterTick, limiter
  <2>2. KnownKeys = order
    BY <1>2, <2>1 DEF KeepsRecentKeys
  <2>3. /\ KnownKeys' = [i \in 1 .. Len(windows') |-> windows'[i].key]
        /\ windows' \in Seq(AWindow)
        /\ order' \in Seq(Keys)
    BY <1>2 DEF KnownKeys, LimiterTypeOK, AWindow
  <2>4. Len(order) = Len(windows) /\ \A i \in 1 .. Len(windows) : order[i] = windows[i].key
    BY <1>2, <2>2, KeysOfMap
  <2>5. ASSUME NEW k \in Keys, Hit(k) PROVE KnownKeys' = order'
    <3> DEFINE p == Entry(k)
    <3>1. MemoryHit(k)
      BY <2>1, <2>5 DEF Hit, Count
    <3>2. p = Place(k, order) /\ p \in 1 .. Len(windows) + 1
      BY <1>2, <2>2, EntryFound DEF Entry
    <3>3. Shifted(windows', windows, p, CountedWindow(k))
      BY <1>2, <3>1, MapAfterHit
    <3>4. Shifted(order', order, p, k)
      BY <1>2, <2>1, <2>5, <3>2, OrderAfterHit
    <3>5. CountedWindow(k).key = k
      BY <1>2, WindowOfHit
    <3> HIDE DEF p
    <3>6. PICK d \in {0, 1} :
            /\ d = 1 <=> p > Len(windows) /\ Len(windows) = MaxKeys
            /\ Len(windows') =
                 (IF p <= Len(windows) THEN Len(windows) ELSE Len(windows) + 1) - d
            /\ \A i \in 1 .. Len(windows') - 1 :
                 windows'[i] = windows[IF i + d < p THEN i + d ELSE i + d + 1]
      BY <3>3 DEF Shifted
    <3>7. PICK e \in {0, 1} :
            /\ e = 1 <=> p > Len(order) /\ Len(order) = MaxKeys
            /\ Len(order') = (IF p <= Len(order) THEN Len(order) ELSE Len(order) + 1) - e
            /\ \A i \in 1 .. Len(order') - 1 :
                 order'[i] = order[IF i + e < p THEN i + e ELSE i + e + 1]
      BY <3>4 DEF Shifted
    <3>8. d = e /\ Len(order') = Len(windows') /\ Len(windows') \in 1 .. MaxKeys
      BY <2>4, <3>3, <3>6, <3>7 DEF Shifted
    <3>9. ASSUME NEW i \in 1 .. Len(windows') PROVE order'[i] = windows'[i].key
      <4>1. CASE i = Len(windows')
        <5>1. order'[Len(order')] = k
          BY <3>4 DEF Shifted
        <5>2. windows'[Len(windows')] = CountedWindow(k)
          BY <3>3 DEF Shifted
        <5> QED
          BY <3>5, <3>8, <4>1, <5>1, <5>2
      <4>2. CASE i < Len(windows')
        <5> DEFINE q == IF i + d < p THEN i + d ELSE i + d + 1
        <5>1. i \in 1 .. Len(windows') - 1
          BY <3>8, <4>2
        <5>2. q \in 1 .. Len(windows)
          <6>1. Len(windows) \in Nat
            BY <1>2 DEF LimiterTypeOK
          <6>2. Len(windows') = (IF p <= Len(windows) THEN Len(windows)
                                 ELSE Len(windows) + 1) - d
            BY <3>6
          <6> QED
            BY <3>2, <5>1, <6>1, <6>2
        <5>3. windows'[i] = windows[q] /\ order'[i] = order[q]
          BY <3>6, <3>7, <3>8, <5>1
        <5> HIDE DEF q
        <5> QED
          BY <2>4, <5>2, <5>3
      <4> QED
        BY <3>8, <4>1, <4>2
    <3> QED
      BY <2>3, <3>8, <3>9
  <2>6. CASE LimiterTick
    <3>1. /\ Len(windows') = Len(windows)
          /\ \A i \in 1 .. Len(windows) : windows'[i].key = windows[i].key
      BY <1>2, <2>6, MapAfterTick
    <3>2. order' = order
      BY <2>6 DEF LimiterTick
    <3>3. order \in Seq(Keys)
      BY <1>2 DEF LimiterTypeOK
    <3> QED
      BY <2>3, <2>4, <3>1, <3>2, <3>3
  <2>7. CASE UNCHANGED limiter
    BY <2>2, <2>7 DEF limiter, KnownKeys
  <2> QED
    BY <1>2, <2>1, <2>5, <2>6, <2>7 DEF LimiterNext, HitDegraded
<1>3. WindowsInv => LimiterTypes /\ LimiterTypeOK
  BY DEF WindowsInv, LimiterTypes
<1>4. KeepsRecentKeys /\ WindowsInv /\ WindowsInv' /\ [LimiterNext]_limiter
      => KeepsRecentKeys'
  <2>1. WindowsInv' => LimiterTypeOK'
    BY DEF WindowsInv, LimiterTypes
  <2> QED
    BY <1>2, <1>3, <2>1
<1> QED
  BY <1>1, <1>4, WindowsInvariance, PTL DEF LimiterSpec

-----------------------------------------------------------------------------
(* CircuitBreaker: its counters.                                            *)

HIDE RateLimitAssumption

\* Slots exist in a half-open period only.
SlotsOnlyHalfOpen == state # "half_open" => halfOpenCalls = 0 /\ slots = {}

CountInv == TypeOK /\ ClosedBelowThreshold /\ SlotsOnlyHalfOpen

SlotInv == CountInv /\ SlotsMatchProbes

USE CallersAssumption, ParametersAssumption DEF breaker

\* Every step keeps the counters in range and the failure count of a closed
\* circuit below the threshold.
LEMMA CountInvStep == CountInv /\ [Next]_vars => CountInv'
<1> SUFFICES ASSUME CountInv, [Next]_vars PROVE CountInv'
  OBVIOUS
<1> USE DEF CountInv, TypeOK, ClosedBelowThreshold, SlotsOnlyHalfOpen
<1>1. ASSUME NEW c \in Callers, BeforeCall(c) PROVE CountInv'
  BY <1>1 DEF BeforeCall, AdmitClosed, AdmitProbe, TakeSlot, Recovered, ToHalfOpen
<1>2. ASSUME OnSuccess PROVE ClosedBelowThreshold' /\ SlotsOnlyHalfOpen'
  BY <1>2 DEF OnSuccess, ToClosed
<1>3. ASSUME OnFailure PROVE ClosedBelowThreshold' /\ SlotsOnlyHalfOpen'
  BY <1>3 DEF OnFailure, CountFailure, ToOpen
<1>4. ASSUME NEW c \in Callers, Succeed(c) PROVE CountInv'
  BY <1>2, <1>4 DEF Succeed, Return, OnSuccess, ToClosed
<1>5. ASSUME NEW c \in Callers, Fail(c) PROVE CountInv'
  BY <1>3, <1>5 DEF Fail, Return, OnFailure, CountFailure, ToOpen
<1>6. ASSUME NEW c \in Callers, Cancel(c) PROVE CountInv'
  BY <1>3, <1>6 DEF Cancel, Return, OnFailure, CountFailure, ToOpen
<1>7. CASE ReadState
  BY <1>7 DEF ReadState, Recovered, ToHalfOpen
<1>8. CASE Reset
  BY <1>8 DEF Reset, ToClosed
<1>9. CASE Tick
  BY <1>9 DEF Tick
<1>10. CASE UpstreamChanges
  BY <1>10 DEF UpstreamChanges
<1>11. CASE UNCHANGED vars
  BY <1>11 DEF vars
<1> QED
  BY <1>1, <1>4, <1>5, <1>6, <1>7, <1>8, <1>9, <1>10, <1>11
  DEF Next, CallerStep

\* Types, and the failure count of a closed circuit.
LEMMA CountInvariance == Spec => []CountInv
<1>1. Init => CountInv
  BY DEF Init, CountInv, TypeOK, ClosedBelowThreshold, SlotsOnlyHalfOpen
<1> QED
  BY <1>1, CountInvStep, PTL DEF Spec

\* Types: the counters stay within their limits.
THEOREM TypeCorrectness == Spec => []TypeOK
<1>1. CountInv => TypeOK
  BY DEF CountInv
<1> QED
  BY <1>1, CountInvariance, PTL

\* A closed circuit never has failure_threshold failures counted: on_failure has
\* opened it, and every way back to closed starts the count again.
THEOREM ClosedIsBelowThreshold == Spec => []ClosedBelowThreshold
<1>1. CountInv => ClosedBelowThreshold
  BY DEF CountInv
<1> QED
  BY <1>1, CountInvariance, PTL

\* Failures recorded by calls admitted earlier leave _opened_at of an open
\* circuit alone (the early return of _transition).
THEOREM NoProlongedOpening == Spec => LateFailuresDoNotProlong
<1> DEFINE RunsOn == state = "open" /\ state' = "open" => elapsed' >= elapsed
<1>1. CountInv /\ [Next]_vars => [RunsOn]_vars
  <2> SUFFICES ASSUME CountInv, Next, state = "open", state' = "open"
               PROVE  elapsed' >= elapsed
    OBVIOUS
  <2> USE DEF CountInv, TypeOK
  <2>1. ASSUME NEW c \in Callers, CallerStep(c) PROVE elapsed' = elapsed
    BY <2>1 DEF CallerStep, BeforeCall, AdmitClosed, AdmitProbe, TakeSlot,
                ToHalfOpen, Succeed, Fail, Cancel, OnSuccess, OnFailure, ToOpen
  <2>2. CASE Tick
    BY <2>2 DEF Tick
  <2>3. CASE ReadState \/ Reset \/ UpstreamChanges
    BY <2>3 DEF ReadState, ToHalfOpen, Reset, ToClosed, UpstreamChanges
  <2> QED
    BY <2>1, <2>2, <2>3 DEF Next
<1> QED
  BY <1>1, CountInvariance, PTL DEF Spec, LateFailuresDoNotProlong

\* Only recovery_timeout or reset() ends the open state.
THEOREM OpenEndsInTime == Spec => OpenLastsTheTimeout
<1> DEFINE InTime == state = "open" /\ state' # "open"
                     => elapsed >= RecoveryTimeout \/ Reset
<1>1. [Next]_vars => [InTime]_vars
  <2> SUFFICES ASSUME Next, state = "open", state' # "open"
               PROVE  elapsed >= RecoveryTimeout \/ Reset
    OBVIOUS
  <2>1. ASSUME NEW c \in Callers, CallerStep(c) PROVE elapsed >= RecoveryTimeout
    BY <2>1 DEF CallerStep, BeforeCall, AdmitClosed, AdmitProbe, TakeSlot,
                Recovered, Succeed, Fail, Cancel, OnSuccess, OnFailure, ToOpen
  <2>2. CASE Tick \/ UpstreamChanges
    BY <2>2 DEF Tick, UpstreamChanges
  <2>3. CASE ReadState
    BY <2>3 DEF ReadState, Recovered
  <2> QED
    BY <2>1, <2>2, <2>3 DEF Next
<1> QED
  BY <1>1, PTL DEF Spec, OpenLastsTheTimeout

-----------------------------------------------------------------------------
(* The slots of a half-open period.                                        *)

\* Taking a slot adds one caller to the holders.
LEMMA OneMoreHolder ==
    ASSUME NEW S \in SUBSET Callers, NEW c \in Callers, c \notin S
    PROVE  Cardinality(S \cup {c}) = Cardinality(S) + 1
<1>1. IsFiniteSet(S)
  BY FS_Subset
<1> QED
  BY <1>1, FS_AddElement

\* If no call made through call() or the transport is ever cancelled, every step
\* keeps the count of half-open calls equal to the number of probes in flight.
LEMMA SlotInvStep ==
    ASSUME Cancellable \subseteq ContextCallers
    PROVE  SlotInv /\ [Next]_vars => SlotInv'
<1> SUFFICES ASSUME SlotInv, [Next]_vars PROVE SlotsMatchProbes'
  BY CountInvStep DEF SlotInv
<1> USE DEF SlotInv, CountInv, TypeOK, SlotsOnlyHalfOpen, SlotsMatchProbes
<1>1. ASSUME NEW c \in Callers, BeforeCall(c) PROVE SlotsMatchProbes'
  <2>1. CASE AdmitClosed(c)
    BY <1>1, <2>1 DEF BeforeCall, AdmitClosed
  <2>2. CASE Recovered /\ ToHalfOpen /\ TakeSlot(c, 0, {})
    <3>1. Cardinality({} \cup {c}) = 1
      BY OneMoreHolder, FS_EmptySet
    <3> QED
      BY <1>1, <2>2, <3>1 DEF BeforeCall, TakeSlot, ToHalfOpen
  <2>3. CASE state = "half_open" /\ TakeSlot(c, halfOpenCalls, slots) /\ state' = state
    <3>1. c \notin slots
      BY <1>1, <2>3 DEF BeforeCall
    <3> QED
      BY <1>1, <2>3, <3>1, OneMoreHolder DEF BeforeCall, TakeSlot
  <2> QED
    BY <1>1, <2>1, <2>2, <2>3 DEF BeforeCall, AdmitProbe
<1>2. ASSUME OnSuccess \/ OnFailure PROVE state' # "half_open"
  BY <1>2 DEF OnSuccess, OnFailure, ToOpen, ToClosed
<1>3. ASSUME NEW c \in Callers, Succeed(c) \/ Fail(c) \/ Cancel(c)
      PROVE  SlotsMatchProbes'
  BY <1>2, <1>3 DEF Succeed, Fail, Cancel
<1>4. CASE ReadState
  BY <1>4, FS_EmptySet DEF ReadState
<1>5. CASE Reset
  BY <1>5 DEF Reset, ToClosed
<1>6. CASE Tick \/ UpstreamChanges \/ UNCHANGED vars
  BY <1>6 DEF Tick, UpstreamChanges, vars
<1> QED
  BY <1>1, <1>3, <1>4, <1>5, <1>6 DEF Next, CallerStep

\* No slot of a half-open period is lost, provided that calls through call() and
\* the transport, which record nothing when cancelled, are not cancelled.
THEOREM NoSlotIsLost ==
    ASSUME Cancellable \subseteq ContextCallers
    PROVE  Spec => []SlotsMatchProbes
<1>1. Init => SlotInv
  BY DEF Init, SlotInv, CountInv, TypeOK, ClosedBelowThreshold,
         SlotsOnlyHalfOpen, SlotsMatchProbes
<1>2. SlotInv /\ [Next]_vars => SlotInv'
  BY SlotInvStep
<1>3. SlotInv => SlotsMatchProbes
  BY DEF SlotInv
<1> QED
  BY <1>1, <1>2, <1>3, PTL DEF Spec
=============================================================================
