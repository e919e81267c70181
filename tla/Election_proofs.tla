-------------------------- MODULE Election_proofs --------------------------
(***************************************************************************)
(* The election and the order in which a recovery tells the nodes, for     *)
(* reports of any length, any observations and any limits.  The sort is    *)
(* the point: the comparisons are not transitive, and what it keeps to is  *)
(* the part of them that is.  The reports are those of Analysis_proofs.    *)
(***************************************************************************)
EXTENDS Election, Analysis_proofs, WellFoundedInduction

-----------------------------------------------------------------------------
\* A nonempty set of numbers has a least one.
LEMMA Least ==
  ASSUME NEW T \in SUBSET Nat, T # {}
  PROVE  \E x \in T : \A y \in T : x <= y
<1>1. PICK x \in T : \A y \in T : <<y, x>> \notin OpToRel(<, Nat)
  BY NatLessThanWellFounded, WFMin
<1>2. \A y \in T : ~(y < x)
  BY <1>1 DEF OpToRel
<1> QED
  BY <1>2

\* And a largest one, if there is a bound.
LEMMA Largest ==
  ASSUME NEW n \in Nat, NEW T \in SUBSET (0..n), T # {}
  PROVE  \E x \in T : \A y \in T : y <= x
<1> DEFINE D == {d \in Nat : n - d \in T}
<1>1. D # {}
  <2>1. PICK x \in T : TRUE
    OBVIOUS
  <2>2. n - x \in Nat /\ n - (n - x) = x
    BY <2>1
  <2> QED
    BY <2>1, <2>2
<1>2. PICK d \in D : \A e \in D : d <= e
  BY <1>1, Least
<1>3. \A y \in T : n - y \in Nat /\ n - (n - y) = y
  OBVIOUS
<1>4. \A y \in T : n - y \in D
  BY <1>3
<1>5. \A y \in T : y <= n - d
  BY <1>2, <1>4
<1> QED
  BY <1>2, <1>5

-----------------------------------------------------------------------------
(* Insertion.  x is put behind the last element it does not come before,   *)
(* so that it comes before all that follow it.                             *)
LEMMA Inserted ==
  ASSUME NEW S, NEW t \in Seq(S), NEW x \in S, NEW less
  PROVE  /\ Insert(t, x, less) \in Seq(S)
         /\ Len(Insert(t, x, less)) = Len(t) + 1
         /\ \E p \in 1..(Len(t) + 1) :
              /\ \A j \in 1..(Len(t) + 1) : Insert(t, x, less)[j] =
                   IF j < p THEN t[j] ELSE IF j = p THEN x ELSE t[j - 1]
              /\ p > 1 => <<x, t[p - 1]>> \notin less
              /\ \A j \in p..Len(t) : <<x, t[j]>> \in less
<1> DEFINE stop == {k \in DOMAIN t : <<x, t[k]>> \notin less} \cup {0}
           k == CHOOSE k \in stop : \A j \in stop : j <= k
           n == Len(t)
<1>1. n \in Nat /\ DOMAIN t = 1..n
  BY LenProperties
<1>2. stop \in SUBSET (0..n) /\ stop # {}
  BY <1>1
<1>3. \A j : j \in stop <=> j = 0 \/ (j \in 1..n /\ <<x, t[j]>> \notin less)
  BY <1>1
<1>4. \E m \in stop : \A j \in stop : j <= m
  <2> HIDE DEF stop
  <2> QED
    BY <1>1, <1>2, Largest
<1>5. k \in stop /\ \A j \in stop : j <= k
  BY <1>4
<1>6. Insert(t, x, less) = InsertAt(t, k + 1, x)
  BY DEF Insert
<1> HIDE DEF k, stop
<1>7. k \in 0..n /\ k \in Nat /\ k + 1 - 1 = k
  BY <1>1, <1>2, <1>5
<1>8. k > 0 => <<x, t[k]>> \notin less
  BY <1>3, <1>5, <1>7
<1>9. \A j \in (k + 1)..n : <<x, t[j]>> \in less
  <2> SUFFICES ASSUME NEW j \in (k + 1)..n, <<x, t[j]>> \notin less
               PROVE  FALSE
    OBVIOUS
  <2>1. j \in 1..n /\ j > k
    BY <1>1, <1>7
  <2> QED
    BY <1>3, <1>5, <1>7, <2>1
<1>10. \A j \in 1..n : t[j] \in S
  BY ElementOfSeq
<1> DEFINE a == SubSeq(t, 1, k)
           b == SubSeq(t, k + 1, n)
<1>11. /\ a \in Seq(S) /\ Len(a) = k
       /\ \A j \in 1..k : a[j] = t[j]
  <2>1. \A j \in 1..k : t[j] \in S
    BY <1>1, <1>7, <1>10
  <2>2. /\ a \in Seq(S) /\ Len(a) = IF 1 <= k THEN k - 1 + 1 ELSE 0
        /\ \A j \in 1..(k - 1 + 1) : a[j] = t[1 + j - 1]
    BY <1>7, <2>1, SubSeqProperties
  <2> HIDE DEF a
  <2> QED
    BY <1>7, <2>2
<1>12. /\ b \in Seq(S) /\ Len(b) = n - k
       /\ \A j \in 1..(n - k) : b[j] = t[k + j]
  <2>1. \A j \in (k + 1)..n : t[j] \in S
    BY <1>1, <1>7, <1>10
  <2>2. /\ b \in Seq(S)
        /\ Len(b) = IF k + 1 <= n THEN n - (k + 1) + 1 ELSE 0
        /\ \A j \in 1..(n - (k + 1) + 1) : b[j] = t[k + 1 + j - 1]
    BY <1>1, <1>7, <2>1, SubSeqProperties
  <2> HIDE DEF b
  <2>3. \A j \in 1..(n - k) : b[j] = t[k + j]
    <3> SUFFICES ASSUME NEW j \in 1..(n - k) PROVE b[j] = t[k + j]
      OBVIOUS
    <3>1. j \in 1..(n - (k + 1) + 1) /\ k + 1 + j - 1 = k + j
      BY <1>1, <1>7
    <3> QED
      BY <2>2, <3>1
  <2>4. Len(b) = n - k
    <3>1. n \in Nat /\ k \in 0..n
      BY <1>1, <1>7
    <3>2. Len(b) = IF k + 1 <= n THEN n - (k + 1) + 1 ELSE 0
      BY <2>2
    <3> HIDE DEF n
    <3>3. (IF k + 1 <= n THEN n - (k + 1) + 1 ELSE 0) = n - k
      BY <3>1
    <3> QED
      BY <3>2, <3>3
  <2> QED
    BY <2>2, <2>3, <2>4
<1> HIDE DEF a, b
<1> DEFINE c == a \o <<x>>
<1>13. /\ c \in Seq(S) /\ Len(c) = k + 1
       /\ \A j \in 1..(k + 1) : c[j] = IF j <= k THEN t[j] ELSE x
  <2>1. <<x>> \in Seq(S) /\ Len(<<x>>) = 1 /\ <<x>>[1] = x
    OBVIOUS
  <2>2. /\ c \in Seq(S) /\ Len(c) = k + 1
        /\ \A j \in 1..(k + 1) : c[j] = IF j <= k THEN a[j] ELSE <<x>>[j - k]
    BY <1>11, <2>1, ConcatProperties
  <2> HIDE DEF c
  <2>3. \A j \in 1..(k + 1) : j <= k \/ j - k = 1
    BY <1>7
  <2> QED
    BY <1>7, <1>11, <2>1, <2>2, <2>3
<1> HIDE DEF c
<1> DEFINE u == c \o b
<1>14. /\ u \in Seq(S) /\ Len(u) = n + 1
       /\ \A j \in 1..(n + 1) : u[j] =
            IF j < k + 1 THEN t[j] ELSE IF j = k + 1 THEN x ELSE t[j - 1]
  <2>1. /\ u \in Seq(S) /\ Len(u) = k + 1 + (n - k)
        /\ \A j \in 1..(k + 1 + (n - k)) :
             u[j] = IF j <= k + 1 THEN c[j] ELSE b[j - (k + 1)]
    <3>1. /\ u \in Seq(S) /\ Len(u) = Len(c) + Len(b)
          /\ \A j \in 1..(Len(c) + Len(b)) :
               u[j] = IF j <= Len(c) THEN c[j] ELSE b[j - Len(c)]
      BY <1>12, <1>13, ConcatProperties
    <3>2. Len(c) = k + 1 /\ Len(b) = n - k
      BY <1>12, <1>13
    <3> HIDE DEF u
    <3> QED
      BY ONLY <3>1, <3>2
  <2> HIDE DEF u
  <2>2. ASSUME NEW j \in 1..(n + 1), j > k + 1
        PROVE  u[j] = t[j - 1]
    <3>1. /\ j - (k + 1) \in 1..(n - k) /\ k + (j - (k + 1)) = j - 1
          /\ j \in 1..(k + 1 + (n - k)) /\ ~(j <= k + 1)
      BY <1>1, <1>7, <2>2
    <3> QED
      BY <1>12, <2>1, <3>1
  <2>3. ASSUME NEW j \in 1..(n + 1), j <= k + 1
        PROVE  u[j] = IF j <= k THEN t[j] ELSE x
    <3>1. j \in 1..(k + 1 + (n - k)) /\ j \in 1..(k + 1)
      BY <1>1, <1>7, <2>3
    <3> QED
      BY <1>13, <2>1, <2>3, <3>1
  <2>4. k + 1 + (n - k) = n + 1
    BY <1>1, <1>7
  <2> QED
    BY <1>1, <1>7, <2>1, <2>2, <2>3, <2>4
<1>15. Insert(t, x, less) = u
  <2> DEFINE q == k + 1
  <2>1. q - 1 = k
    BY <1>7
  <2> HIDE DEF q
  <2>2. InsertAt(t, q, x) = SubSeq(t, 1, q - 1) \o <<x>> \o SubSeq(t, q, n)
    BY DEF InsertAt
  <2>3. InsertAt(t, q, x) = SubSeq(t, 1, k) \o <<x>> \o SubSeq(t, q, n)
    BY <2>1, <2>2
  <2> QED
    BY <1>6, <2>3 DEF a, b, c, q
<1>16. k + 1 \in 1..(n + 1) /\ k + 1 - 1 = k /\ (k + 1 > 1 => k > 0)
  BY <1>1, <1>7
<1> HIDE DEF u
<1> DEFINE p == k + 1
<1>17. /\ p \in 1..(n + 1)
       /\ \A j \in 1..(n + 1) : u[j] =
            IF j < p THEN t[j] ELSE IF j = p THEN x ELSE t[j - 1]
       /\ p > 1 => <<x, t[p - 1]>> \notin less
       /\ \A j \in p..n : <<x, t[j]>> \in less
  <2>1. p > 1 => <<x, t[p - 1]>> \notin less
    BY <1>7, <1>8
  <2> QED
    BY <1>9, <1>14, <1>16, <2>1
<1> QED
  BY <1>14, <1>15, <1>17

\* Insertion adds x and nothing else.
LEMMA InsertedSet ==
  ASSUME NEW S, NEW t \in Seq(S), NEW x \in S, NEW less
  PROVE  ToSet(Insert(t, x, less)) = ToSet(t) \cup {x}
<1> DEFINE u == Insert(t, x, less)
           n == Len(t)
<1>1. PICK p \in 1..(n + 1) :
        /\ \A j \in 1..(n + 1) :
             u[j] = IF j < p THEN t[j] ELSE IF j = p THEN x ELSE t[j - 1]
        /\ p > 1 => <<x, t[p - 1]>> \notin less
        /\ \A j \in p..n : <<x, t[j]>> \in less
  BY Inserted
<1>2. /\ n \in Nat /\ DOMAIN t = 1..n
      /\ u \in Seq(S) /\ Len(u) = n + 1 /\ DOMAIN u = 1..(n + 1)
  BY Inserted, LenProperties
<1> HIDE DEF u, n
<1>3. \A j \in 1..(n + 1) : u[j] \in {t[k] : k \in 1..n} \cup {x}
  <2> SUFFICES ASSUME NEW j \in 1..(n + 1), j # p
               PROVE  \E k \in 1..n : u[j] = t[k]
    BY <1>1
  <2>1. CASE j < p
    BY <1>1, <1>2, <2>1
  <2>2. CASE j > p
    <3>1. j - 1 \in 1..n /\ u[j] = t[j - 1]
      BY <1>1, <1>2, <2>2
    <3> QED
      BY <3>1
  <2> QED
    BY <1>1, <1>2, <2>1, <2>2
<1>4. \A k \in 1..n : \E j \in 1..(n + 1) : u[j] = t[k]
  <2> SUFFICES ASSUME NEW k \in 1..n
               PROVE  \E j \in 1..(n + 1) : u[j] = t[k]
    OBVIOUS
  <2>1. CASE k < p
    BY <1>1, <1>2, <2>1
  <2>2. CASE k >= p
    <3>1. k + 1 \in 1..(n + 1) /\ k + 1 > p /\ k + 1 - 1 = k
      BY <1>1, <1>2, <2>2
    <3>2. u[k + 1] = t[k + 1 - 1]
      BY <1>1, <3>1
    <3> QED
      BY <3>1, <3>2
  <2> QED
    BY <1>1, <1>2, <2>1, <2>2
<1>5. u[p] = x
  BY <1>1, <1>2
<1>6. ToSet(u) = {u[j] : j \in 1..(n + 1)} /\ ToSet(t) = {t[k] : k \in 1..n}
  BY <1>2 DEF ToSet
<1> QED
  BY <1>1, <1>3, <1>4, <1>5, <1>6 DEF u

\* Everything stands before what comes after it.
Ordered(t, before) ==
  \A j, k \in DOMAIN t : j < k => <<t[j], t[k]>> \in before

(* What a comparison, transitive or not, says of a relation that is: less  *)
(* implies it, and not less implies its converse.                          *)
Keeps(less, before, S) ==
  /\ \A x, y \in S : IF <<x, y>> \in less THEN <<x, y>> \in before
                                          ELSE <<y, x>> \in before
  /\ \A x, y, z \in S : <<x, y>> \in before /\ <<y, z>> \in before
                          => <<x, z>> \in before

\* Insertion keeps such an order.
LEMMA InsertedOrder ==
  ASSUME NEW S, NEW t \in Seq(S), NEW x \in S, NEW less, NEW before,
         Keeps(less, before, S), Ordered(t, before)
  PROVE  Ordered(Insert(t, x, less), before)
<1> DEFINE u == Insert(t, x, less)
           n == Len(t)
<1>1. PICK p \in 1..(n + 1) :
        /\ \A j \in 1..(n + 1) :
             u[j] = IF j < p THEN t[j] ELSE IF j = p THEN x ELSE t[j - 1]
        /\ p > 1 => <<x, t[p - 1]>> \notin less
        /\ \A j \in p..n : <<x, t[j]>> \in less
  BY Inserted
<1>2. /\ n \in Nat /\ DOMAIN t = 1..n
      /\ u \in Seq(S) /\ Len(u) = n + 1 /\ DOMAIN u = 1..(n + 1)
  BY Inserted, LenProperties
<1>3. \A j \in 1..n : t[j] \in S
  BY ElementOfSeq
<1> HIDE DEF u, n
<1>4. \A j \in 1..n : j < p => <<t[j], x>> \in before
  <2> SUFFICES ASSUME NEW j \in 1..n, j < p PROVE <<t[j], x>> \in before
    OBVIOUS
  <2>1. p > 1 /\ p - 1 \in 1..n
    BY <1>1, <1>2
  <2>2. <<t[p - 1], x>> \in before
    BY <1>1, <1>3, <2>1 DEF Keeps
  <2>3. j = p - 1 \/ j < p - 1
    BY <1>1, <1>2
  <2>4. j < p - 1 => <<t[j], t[p - 1]>> \in before
    BY <1>2, <2>1 DEF Ordered
  <2> QED
    BY <1>3, <2>1, <2>2, <2>3, <2>4 DEF Keeps
<1>5. \A j \in p..n : <<x, t[j]>> \in before
  <2> SUFFICES ASSUME NEW j \in p..n PROVE <<x, t[j]>> \in before
    OBVIOUS
  <2>1. j \in 1..n /\ <<x, t[j]>> \in less
    BY <1>1, <1>2
  <2> QED
    BY <1>3, <2>1 DEF Keeps
<1> SUFFICES ASSUME NEW j \in 1..(n + 1), NEW k \in 1..(n + 1), j < k
             PROVE  <<u[j], u[k]>> \in before
  BY <1>2 DEF Ordered, u
<1>6. CASE k < p
  <2>1. j < p /\ u[j] = t[j] /\ u[k] = t[k]
    BY <1>1, <1>6
  <2>2. j \in 1..n /\ k \in 1..n
    BY <1>1, <1>2, <1>6, <2>1
  <2>3. <<t[j], t[k]>> \in before
    BY <1>2, <2>2 DEF Ordered
  <2> QED
    BY <2>1, <2>3
<1>7. CASE k = p
  BY <1>1, <1>2, <1>4, <1>7
<1>8. CASE k > p
  <2>1. k - 1 \in 1..n /\ k - 1 \in p..n /\ u[k] = t[k - 1]
    BY <1>1, <1>2, <1>8
  <2>2. CASE j < p
    <3>1. j \in 1..n /\ j < k - 1 /\ u[j] = t[j]
      BY <1>1, <1>2, <1>8, <2>2
    <3> QED
      BY <1>2, <2>1, <3>1 DEF Ordered
  <2>3. CASE j = p
    BY <1>1, <1>5, <2>1, <2>3
  <2>4. CASE j > p
    <3>1. j - 1 \in 1..n /\ j - 1 < k - 1 /\ u[j] = t[j - 1]
      BY <1>1, <1>2, <2>4
    <3> QED
      BY <1>2, <2>1, <3>1 DEF Ordered
  <2> QED
    BY <1>1, <2>2, <2>3, <2>4
<1> QED
  BY <1>1, <1>6, <1>7, <1>8

-----------------------------------------------------------------------------
\* The sort is what its recursion says.
LEMMA SortingStep ==
  ASSUME NEW S, NEW s \in Seq(S), NEW some, NEW less
  PROVE  /\ Sorting(s, some, less)[0] = <<>>
         /\ \A n \in 1..Len(s) : Sorting(s, some, less)[n] =
              IF s[n] \in some
              THEN Insert(Sorting(s, some, less)[n - 1], s[n], less)
              ELSE Sorting(s, some, less)[n - 1]
<1> DEFINE body(g, n) ==
             IF n = 0 THEN <<>>
             ELSE IF s[n] \in some THEN Insert(g[n - 1], s[n], less)
             ELSE g[n - 1]
           Sorts(g, n) == g = [k \in 0..n |-> body(g, k)]
           Unsorted == {n \in 0..Len(s) : \A g : ~Sorts(g, n)}
<1>1. Len(s) \in Nat
  BY LenProperties
<1>2. Unsorted = {}
  <2> SUFFICES ASSUME Unsorted # {} PROVE FALSE
    OBVIOUS
  <2>1. Unsorted \in SUBSET Nat
    BY <1>1
  <2>2. PICK n \in Unsorted : \A m \in Unsorted : n <= m
    BY <2>1, Least
  <2>3. CASE n = 0
    <3> DEFINE e == <<>>
               g == [k \in 0..0 |-> e]
    <3>1. \A k \in 0..0 : k = 0
      OBVIOUS
    <3>2. [k \in 0..0 |-> body(g, k)] = g
      BY <3>1
    <3> QED
      BY <2>2, <2>3, <3>2
  <2>4. CASE n # 0
    <3>1. n \in Nat /\ n - 1 \in 0..Len(s)
      BY <1>1, <2>4
    <3>2. n - 1 \notin Unsorted
      <4> HIDE DEF Unsorted
      <4>1. ~(n <= n - 1)
        BY <3>1
      <4> QED
        BY <2>2, <4>1
    <3>3. PICK g : Sorts(g, n - 1)
      BY <3>1, <3>2
    <3> DEFINE h == [k \in 0..n |-> IF k = n THEN body(g, n) ELSE g[k]]
    <3>4. \A k \in 0..n : k # n => k \in 0..(n - 1)
      BY <3>1
    <3>5. \A k \in 0..n : k # 0 => k - 1 \in 0..(n - 1) /\ k - 1 # n /\ k - 1 \in 0..n
      BY <3>1
    <3>6. \A k \in 0..(n - 1) : g[k] = body(g, k)
      BY <3>3
    <3>7. \A k \in 0..n : k # 0 => h[k - 1] = g[k - 1]
      BY <3>5
    <3> HIDE DEF h
    <3>8. \A k \in 0..n : body(h, k) = body(g, k)
      BY <3>7
    <3> HIDE DEF body
    <3>9. h = [k \in 0..n |-> body(h, k)]
      BY <3>4, <3>6, <3>8 DEF h
    <3> QED
      BY <2>2, <3>9
  <2> QED
    BY <2>3, <2>4
<1>3. \E g : Sorts(g, Len(s))
  BY <1>1, <1>2
<1> DEFINE f == Sorting(s, some, less)
<1>4. f = CHOOSE g : Sorts(g, Len(s))
  BY DEF Sorting
<1>5. Sorts(f, Len(s))
  BY <1>3, <1>4
<1>6. \A n \in 0..Len(s) : f[n] = body(f, n)
  <2> HIDE DEF f, body
  <2> QED
    BY <1>5
<1>7. 0 \in 0..Len(s) /\ \A n \in 1..Len(s) : n \in 0..Len(s) /\ n # 0
  BY <1>1
<1> HIDE DEF f
<1> QED
  BY <1>6, <1>7 DEF f

(* The sort yields the elements that are not filtered out, and keeps every *)
(* transitive order the comparison keeps to.                               *)
LEMMA Sorted ==
  ASSUME NEW S, NEW s \in Seq(S), NEW some, NEW less, NEW before,
         Keeps(less, before, ToSet(s) \cap some)
  PROVE  /\ InsertionSort(s, some, less) \in Seq(ToSet(s) \cap some)
         /\ ToSet(InsertionSort(s, some, less)) = ToSet(s) \cap some
         /\ Ordered(InsertionSort(s, some, less), before)
         /\ ToSet(s) \subseteq some =>
              Len(InsertionSort(s, some, less)) = Len(s)
<1> DEFINE Y == ToSet(s) \cap some
           f == Sorting(s, some, less)
           seen(n) == {s[k] : k \in 1..n} \cap some
           Good(t, n) == /\ t \in Seq(Y)
                         /\ ToSet(t) = seen(n)
                         /\ Ordered(t, before)
                         /\ ToSet(s) \subseteq some => Len(t) = n
           Bad == {n \in 0..Len(s) : ~Good(f[n], n)}
<1>1. Len(s) \in Nat /\ DOMAIN s = 1..Len(s)
  BY LenProperties
<1>2. ToSet(s) = {s[k] : k \in 1..Len(s)}
  BY <1>1 DEF ToSet
<1>3. /\ f[0] = <<>>
      /\ \A n \in 1..Len(s) :
           f[n] = IF s[n] \in some THEN Insert(f[n - 1], s[n], less)
                  ELSE f[n - 1]
  BY SortingStep
<1> HIDE DEF f
<1>4. Good(<<>>, 0)
  <2>1. <<>> \in Seq(Y) /\ Len(<<>>) = 0
    BY EmptySeq
  <2>2. DOMAIN <<>> = {}
    OBVIOUS
  <2>3. ToSet(<<>>) = {} /\ seen(0) = {}
    BY <2>2 DEF ToSet
  <2> QED
    BY <2>1, <2>2, <2>3 DEF Ordered
<1>5. ASSUME NEW n \in 1..Len(s), NEW t, Good(t, n - 1)
      PROVE  Good(IF s[n] \in some THEN Insert(t, s[n], less) ELSE t, n)
  <2>1. {s[k] : k \in 1..n} = {s[k] : k \in 1..(n - 1)} \cup {s[n]}
    <3>1. \A k \in 1..n : k = n \/ k \in 1..(n - 1)
      BY <1>1
    <3>2. n \in 1..n /\ \A k \in 1..(n - 1) : k \in 1..n
      BY <1>1
    <3> QED
      BY <3>1, <3>2
  <2>2. CASE s[n] \in some
    <3> DEFINE u == Insert(t, s[n], less)
    <3>1. s[n] \in Y
      BY <1>2, <2>2
    <3>2. t \in Seq(Y) /\ Ordered(t, before) /\ ToSet(t) = seen(n - 1)
      BY <1>5
    <3> HIDE DEF Y
    <3>3. u \in Seq(Y) /\ Len(u) = Len(t) + 1
      BY <3>1, <3>2, Inserted
    <3>4. ToSet(u) = ToSet(t) \cup {s[n]}
      BY <3>1, <3>2, InsertedSet
    <3>5. Keeps(less, before, Y)
      BY DEF Y
    <3>6. Ordered(u, before)
      BY <3>1, <3>2, <3>5, InsertedOrder
    <3>7. ToSet(u) = seen(n)
      BY <2>1, <2>2, <3>2, <3>4
    <3>8. ToSet(s) \subseteq some => Len(t) + 1 = n
      BY <1>1, <1>5
    <3> QED
      BY <2>2, <3>3, <3>6, <3>7, <3>8
  <2>3. CASE s[n] \notin some
    <3>1. seen(n) = seen(n - 1)
      BY <2>1, <2>3
    <3>2. ~(ToSet(s) \subseteq some)
      BY <1>2, <2>3
    <3> QED
      BY <1>5, <2>3, <3>1, <3>2
  <2> QED
    BY <2>2, <2>3
<1> HIDE DEF Good
<1>6. Bad = {}
  <2> SUFFICES ASSUME Bad # {} PROVE FALSE
    OBVIOUS
  <2>1. Bad \in SUBSET Nat
    BY <1>1
  <2>2. PICK n \in Bad : \A m \in Bad : n <= m
    BY <2>1, Least
  <2>3. n \in 0..Len(s) /\ ~Good(f[n], n)
    BY <2>2
  <2>4. n # 0
    BY <1>3, <1>4, <2>3
  <2>5. n \in 1..Len(s) /\ n - 1 \in 0..Len(s) /\ ~(n <= n - 1)
    BY <1>1, <2>3, <2>4
  <2>6. Good(f[n - 1], n - 1)
    BY <2>2, <2>5
  <2> QED
    BY <1>3, <1>5, <2>3, <2>5, <2>6
<1>7. Good(f[Len(s)], Len(s))
  BY <1>1, <1>6
<1>8. InsertionSort(s, some, less) = f[Len(s)]
  BY DEF InsertionSort, f
<1> QED
  BY <1>2, <1>7, <1>8 DEF Good

-----------------------------------------------------------------------------
\* Who is eligible was reported, is a follower and within the limits.
LEMMA EligibleKind ==
  ASSUME Reported, NEW i \in Eligible(set)
  PROVE  /\ i \in ToSet(set.instances) /\ i \in Instance /\ i.uuid # Master
         /\ i.valid /\ i.upstream \notin {"disconnected", "stopped"}
         /\ i.priority >= 0
         /\ MaxLSNLag # 0 => i.lsn <= MaxLSNLag
         /\ MaxIdleLag # 0 => Idle(i) <= MaxIdleLag
<1>1. i \in Followers(set) /\ i \in ToSet(set.instances)
  BY DEF Eligible, AliveFollowers, Followers
<1>2. i \in Instance /\ i.uuid # Master
  BY <1>1, Observed
<1> QED
  BY <1>1, <1>2 DEF Eligible, AliveFollowers, UpstreamAlive

\* The numbers the comparisons look at.
LEMMA Numbers ==
  ASSUME NEW i \in Instance
  PROVE  i.lsn \in Int /\ i.priority \in Int /\ Idle(i) \in Nat
BY NumberAssumption DEF Instance, Idle

\* A uuid stands for one instance of a report.
LEMMA InstanceOfUuid ==
  ASSUME Reported, NEW i \in ToSet(set.instances)
  PROVE  InstanceOf(i.uuid) = i
<1>1. \A j \in ToSet(set.instances) : j.uuid = i.uuid => j = i
  BY DEF Reported, Distinct, ToSet
<1> QED
  BY <1>1 DEF InstanceOf

\* The idle elector finds an eligible follower with the least idle time.
LEMMA IdleElected ==
  ASSUME Reported, Eligible(set) # {}
  PROVE  \E c \in Eligible(set) :
           /\ IdleChoose(set) = c.uuid
           /\ \A i \in Eligible(set) : Idle(c) <= Idle(i)
<1> DEFINE s == set.instances
           at == EligibleAt(set)
           idle(k) == Idle(s[k])
           least(k) == \A j \in at : /\ idle(k) <= idle(j)
                                     /\ j < k => idle(k) < idle(j)
<1>1. s \in Seq(Instance) /\ Len(s) \in Nat /\ DOMAIN s = 1..Len(s)
  BY LenProperties DEF Reported
<1>2. \A i \in Eligible(set) : \E k \in at : s[k] = i
  BY EligibleKind DEF EligibleAt, ToSet
<1>3. at \in SUBSET Nat /\ at # {} /\ \A k \in at : s[k] \in Eligible(set)
  BY <1>1, <1>2 DEF EligibleAt
<1>4. \A k \in at : idle(k) \in Nat
  BY <1>3, EligibleKind, Numbers
<1> HIDE DEF at, idle
<1>5. PICK d \in {idle(k) : k \in at} : \A e \in {idle(k) : k \in at} : d <= e
  <2>1. {idle(k) : k \in at} \in SUBSET Nat /\ {idle(k) : k \in at} # {}
    BY <1>3, <1>4
  <2> QED
    BY <2>1, Least
<1>6. PICK k \in {j \in at : idle(j) = d} : \A j \in {l \in at : idle(l) = d} : k <= j
  <2>1. {j \in at : idle(j) = d} \in SUBSET Nat /\ {j \in at : idle(j) = d} # {}
    BY <1>3, <1>5
  <2> QED
    BY <2>1, Least
<1>7. least(k)
  <2> SUFFICES ASSUME NEW j \in at
               PROVE  idle(k) <= idle(j) /\ (j < k => idle(k) < idle(j))
    OBVIOUS
  <2>1. k \in Nat /\ j \in Nat /\ idle(k) = d /\ d \in Nat /\ idle(j) \in Nat
    BY <1>3, <1>4, <1>6
  <2>2. d <= idle(j)
    BY <1>5
  <2>3. idle(j) = d => k <= j
    BY <1>6
  <2> QED
    BY <2>1, <2>2, <2>3
<1> DEFINE c == CHOOSE l \in at : least(l)
<1>8. c \in at /\ least(c)
  BY <1>6, <1>7
<1>9. IdleChoose(set) = s[c].uuid
  BY DEF IdleChoose, at, idle
<1> HIDE DEF c
<1>10. \A i \in Eligible(set) : Idle(s[c]) <= Idle(i)
  BY <1>2, <1>8 DEF idle
<1> QED
  BY <1>3, <1>8, <1>9, <1>10

(* The smart elector finds an eligible follower that stands before all     *)
(* others in every transitive order its comparison keeps to.               *)
LEMMA SmartElected ==
  ASSUME Reported, Eligible(set) # {}, HasMaster(set), NEW before,
         Keeps({p \in Eligible(set) \X Eligible(set) :
                  SmartLess(p[1], p[2], MasterOf(set))},
               before, Eligible(set))
  PROVE  /\ InstanceOf(SmartChoose(set)) \in Eligible(set)
         /\ SmartChoose(set) = InstanceOf(SmartChoose(set)).uuid
         /\ \A i \in Eligible(set) :
              \/ i = InstanceOf(SmartChoose(set))
              \/ <<InstanceOf(SmartChoose(set)), i>> \in before
<1> DEFINE some == Eligible(set)
           t == SmartSorted(set)
<1>1. set.instances \in Seq(Instance)
  BY DEF Reported
<1>2. ToSet(set.instances) \cap some = some
  BY EligibleKind
<1>3. t \in Seq(some) /\ ToSet(t) = some /\ Ordered(t, before)
  BY <1>1, <1>2, Sorted DEF SmartSorted
<1> HIDE DEF t
<1>4. Len(t) \in Nat /\ DOMAIN t = 1..Len(t)
  BY <1>3, LenProperties
<1>5. \A i \in some : \E k \in 1..Len(t) : i = t[k]
  BY <1>3, <1>4 DEF ToSet
<1>6. 1 \in 1..Len(t)
  BY <1>4, <1>5
<1>7. t[1] \in some
  BY <1>3, <1>6, ElementOfSeq
<1>8. SmartChoose(set) = t[1].uuid
  BY DEF SmartChoose, t
<1>9. InstanceOf(SmartChoose(set)) = t[1]
  BY <1>7, <1>8, EligibleKind, InstanceOfUuid
<1>10. \A i \in some : i = t[1] \/ <<t[1], i>> \in before
  <2> SUFFICES ASSUME NEW i \in some, i # t[1] PROVE <<t[1], i>> \in before
    OBVIOUS
  <2>1. PICK k \in 1..Len(t) : i = t[k]
    BY <1>5
  <2>2. 1 < k
    BY <1>4, <2>1
  <2> QED
    BY <1>3, <1>4, <1>6, <2>1, <2>2 DEF Ordered
<1> QED
  BY <1>7, <1>8, <1>9, <1>10

\* Without followers that may be promoted there is nobody to elect.
LEMMA ElectedAmong ==
  /\ IdleChoose(set) # None => Eligible(set) # {}
  /\ SmartChoose(set) # None => Eligible(set) # {} /\ HasMaster(set)
BY DEF IdleChoose, SmartChoose

\* The trivial order, in which the smart elector's choice is any.
LEMMA SmartAmong ==
  ASSUME Reported, Eligible(set) # {}, HasMaster(set)
  PROVE  /\ InstanceOf(SmartChoose(set)) \in Eligible(set)
         /\ SmartChoose(set) = InstanceOf(SmartChoose(set)).uuid
<1> DEFINE before == Eligible(set) \X Eligible(set)
           less == {p \in Eligible(set) \X Eligible(set) :
                      SmartLess(p[1], p[2], MasterOf(set))}
<1>1. Keeps(less, before, Eligible(set))
  <2> HIDE DEF less
  <2> QED
    BY DEF Keeps
<1> QED
  BY <1>1, SmartElected

(* Either elector only names followers the filter lets through: those that *)
(* were polled, still replicate and are within the limits of the           *)
(* configuration (filter in internal/quorum).                              *)
THEOREM ElectedMayBePromotedHolds == Spec => []ElectedMayBePromoted
<1>1. Reported => ElectedMayBePromoted
  <2> SUFFICES ASSUME Reported, NEW u \in Chosen
               PROVE  /\ InstanceOf(u) \in Eligible(set)
                      /\ u = InstanceOf(u).uuid
    BY EligibleKind, LimitAssumption DEF ElectedMayBePromoted, WithinLimits
  <2>1. CASE u = IdleChoose(set)
    <3>1. PICK c \in Eligible(set) :
            /\ IdleChoose(set) = c.uuid
            /\ \A i \in Eligible(set) : Idle(c) <= Idle(i)
      BY <2>1, ElectedAmong, IdleElected DEF Chosen
    <3> QED
      BY <2>1, <3>1, EligibleKind, InstanceOfUuid
  <2>2. CASE u = SmartChoose(set)
    BY <2>2, ElectedAmong, SmartAmong DEF Chosen
  <2> QED
    BY <2>1, <2>2 DEF Chosen
<1> QED
  BY <1>1, ReportedInv, PTL

(* As long as the master is in the report and some follower was polled, is *)
(* in upstream, has no negative priority and is within the limits, both    *)
(* electors name somebody (elector.go, idle.go, smart.go).                 *)
THEOREM SomebodyIsElectedHolds == Spec => []SomebodyIsElected
<1>1. Reported => SomebodyIsElected
  <2> SUFFICES ASSUME Reported, HasMaster(set),
                      NEW i \in ToSet(set.instances), i.uuid # Master,
                      i.valid, UpstreamAlive(i), WithinLimits(i)
               PROVE  IdleChoose(set) # None /\ SmartChoose(set) # None
    BY DEF SomebodyIsElected
  <2>1. i \in AliveFollowers(set)
    BY DEF AliveFollowers, Followers, Reported
  <2>2. MaxLSNLag # 0 => MaxLSNLag > 0
    BY LimitAssumption
  <2>3. MaxIdleLag # 0 => MaxIdleLag > 0
    BY LimitAssumption
  <2>4. i \in Eligible(set)
    BY <2>1, <2>2, <2>3 DEF Eligible, WithinLimits
  <2>5. \A c \in Eligible(set) : c.uuid # None
    BY EligibleKind, NoneAssumption DEF Instance
  <2> QED
    BY <2>4, <2>5, IdleElected, SmartAmong
<1> QED
  BY <1>1, ReportedInv, PTL

(* The idle elector finds the follower that heard from the master last, in *)
(* a report of any length (idle.go).                                       *)
THEOREM IdleIsLatestHolds == Spec => []IdleIsLatest
<1>1. Reported => IdleIsLatest
  <2> SUFFICES ASSUME Reported, IdleChoose(set) # None
               PROVE  \A i \in Eligible(set) :
                        Idle(InstanceOf(IdleChoose(set))) <= Idle(i)
    BY DEF IdleIsLatest
  <2>1. PICK c \in Eligible(set) :
          /\ IdleChoose(set) = c.uuid
          /\ \A i \in Eligible(set) : Idle(c) <= Idle(i)
    BY ElectedAmong, IdleElected
  <2> QED
    BY <2>1, EligibleKind, InstanceOfUuid
<1> QED
  BY <1>1, ReportedInv, PTL

-----------------------------------------------------------------------------
\* The classes compare two conditions, the first one first.
LEMMA ClassOrder ==
  ASSUME NEW l, NEW r, NEW m
  PROVE  /\ Class(l, m) = Class(r, m) <=>
              /\ (l.fingerprint = m.fingerprint) <=> (r.fingerprint = m.fingerprint)
              /\ (l.upstream = "follow") <=> (r.upstream = "follow")
         /\ BetterClass(l, r, m) <=>
              \/ l.fingerprint = m.fingerprint /\ r.fingerprint # m.fingerprint
              \/ /\ (l.fingerprint = m.fingerprint) <=> (r.fingerprint = m.fingerprint)
                 /\ l.upstream = "follow" /\ r.upstream # "follow"
BY DEF Class, BetterClass

\* Of two classes one is better, unless they are the same, and so on.
LEMMA ClassesOrdered ==
  ASSUME NEW x, NEW y, NEW z, NEW m
  PROVE  /\ BetterClass(x, y, m) =>
              ~BetterClass(y, x, m) /\ Class(x, m) # Class(y, m)
         /\ \/ BetterClass(x, y, m)
            \/ BetterClass(y, x, m)
            \/ Class(x, m) = Class(y, m)
         /\ BetterClass(x, y, m) /\ BetterClass(y, z, m) => BetterClass(x, z, m)
         /\ BetterClass(x, y, m) /\ Class(y, m) = Class(z, m) => BetterClass(x, z, m)
         /\ Class(x, m) = Class(y, m) /\ BetterClass(y, z, m) => BetterClass(x, z, m)
<1>1. /\ BetterClass(x, y, m) => ~BetterClass(y, x, m) /\ Class(x, m) # Class(y, m)
      /\ \/ BetterClass(x, y, m)
         \/ BetterClass(y, x, m)
         \/ Class(x, m) = Class(y, m)
  BY ClassOrder
<1>2. BetterClass(x, y, m) /\ BetterClass(y, z, m) => BetterClass(x, z, m)
  BY ClassOrder
<1>3. BetterClass(x, y, m) /\ Class(y, m) = Class(z, m) => BetterClass(x, z, m)
  BY ClassOrder
<1>4. Class(x, m) = Class(y, m) /\ BetterClass(y, z, m) => BetterClass(x, z, m)
  BY ClassOrder
<1> QED
  BY <1>1, <1>2, <1>3, <1>4

(* What the smart elector's choice comes before, for the transitive orders *)
(* that look at the class first: better classes come before worse ones and *)
(* within(x, y) decides in a class.                                        *)
LEMMA SmartWithin ==
  ASSUME Reported, Eligible(set) # {}, HasMaster(set), NEW within,
         \A x, y \in Eligible(set) :
           Class(x, MasterOf(set)) = Class(y, MasterOf(set)) =>
             IF SmartLess(x, y, MasterOf(set)) THEN <<x, y>> \in within
                                               ELSE <<y, x>> \in within,
         \A x, y, z \in Eligible(set) :
           <<x, y>> \in within /\ <<y, z>> \in within => <<x, z>> \in within
  PROVE  /\ InstanceOf(SmartChoose(set)) \in Eligible(set)
         /\ \A i \in Eligible(set) :
              /\ ~BetterClass(i, InstanceOf(SmartChoose(set)), MasterOf(set))
              /\ \/ i = InstanceOf(SmartChoose(set))
                 \/ Class(i, MasterOf(set)) #
                      Class(InstanceOf(SmartChoose(set)), MasterOf(set))
                 \/ <<InstanceOf(SmartChoose(set)), i>> \in within
<1> DEFINE some == Eligible(set)
           m == MasterOf(set)
           less == {p \in some \X some : SmartLess(p[1], p[2], m)}
           before == {p \in some \X some :
                        \/ BetterClass(p[1], p[2], m)
                        \/ Class(p[1], m) = Class(p[2], m) /\ p \in within}
           c == InstanceOf(SmartChoose(set))
<1>1. \A x, y \in some : <<x, y>> \in less <=> SmartLess(x, y, m)
  OBVIOUS
<1>2. \A x, y \in some : <<x, y>> \in before <=>
        BetterClass(x, y, m) \/ (Class(x, m) = Class(y, m) /\ <<x, y>> \in within)
  OBVIOUS
<1> HIDE DEF some, m
<1>3. Keeps(less, before, some)
  <2> HIDE DEF less, before
  <2>1. ASSUME NEW x \in some, NEW y \in some
        PROVE  IF <<x, y>> \in less THEN <<x, y>> \in before
                                    ELSE <<y, x>> \in before
    <3>1. CASE BetterClass(x, y, m)
      BY <1>1, <1>2, <3>1 DEF SmartLess
    <3>2. CASE BetterClass(y, x, m)
      BY <1>1, <1>2, <3>2, ClassesOrdered DEF SmartLess
    <3>3. CASE Class(x, m) = Class(y, m)
      BY <1>1, <1>2, <3>3 DEF some, m
    <3> QED
      BY <3>1, <3>2, <3>3, ClassesOrdered
  <2>2. ASSUME NEW x \in some, NEW y \in some, NEW z \in some,
               <<x, y>> \in before, <<y, z>> \in before
        PROVE  <<x, z>> \in before
    <3>1. CASE BetterClass(x, y, m)
      BY <1>2, <2>2, <3>1, ClassesOrdered
    <3>2. CASE Class(x, m) = Class(y, m) /\ <<x, y>> \in within
      <4>1. CASE BetterClass(y, z, m)
        BY <1>2, <3>2, <4>1, ClassesOrdered
      <4>2. CASE Class(y, m) = Class(z, m) /\ <<y, z>> \in within
        <5>1. <<x, z>> \in within
          BY <3>2, <4>2 DEF some
        <5> QED
          BY <1>2, <3>2, <4>2, <5>1
      <4> QED
        BY <1>2, <2>2, <4>1, <4>2
    <3> QED
      BY <1>2, <2>2, <3>1, <3>2
  <2> QED
    BY <2>1, <2>2 DEF Keeps
<1>4. c \in some /\ \A i \in some : i = c \/ <<c, i>> \in before
  <2> HIDE DEF before
  <2> QED
    BY <1>3, SmartElected DEF some, m
<1> HIDE DEF c, before
<1>5. ASSUME NEW i \in some
      PROVE  ~BetterClass(i, c, m)
  <2>1. CASE i = c
    BY <2>1, ClassesOrdered
  <2>2. CASE BetterClass(c, i, m)
    BY <2>2, ClassesOrdered
  <2>3. CASE Class(c, m) = Class(i, m)
    BY <2>3, ClassesOrdered
  <2> QED
    BY <1>2, <1>4, <2>1, <2>2, <2>3
<1>6. ASSUME NEW i \in some
      PROVE  i = c \/ Class(i, m) # Class(c, m) \/ <<c, i>> \in within
  BY <1>2, <1>4, ClassesOrdered
<1> QED
  BY <1>4, <1>5, <1>6 DEF some, m, c

(* Nobody of a better class is passed over by the smart elector, and       *)
(* nobody of its class nearer to the master unless a follower is in front  *)
(* of it: insertion by a comparison that is not transitive keeps that much *)
(* (instanceSorter.Less in smart.go).                                      *)
THEOREM SmartKeepsPrecedenceHolds == Spec => []SmartKeepsPrecedence
<1>1. Reported => SmartKeepsPrecedence
  <2> SUFFICES ASSUME Reported, SmartChoose(set) # None
               PROVE  SmartKeepsPrecedence
    BY DEF SmartKeepsPrecedence
  <2> DEFINE some == Eligible(set)
             m == MasterOf(set)
             c == InstanceOf(SmartChoose(set))
  <2>1. some # {} /\ HasMaster(set)
    BY ElectedAmong
  <2>2. \A i \in some : ~BetterClass(i, c, m)
    <3> DEFINE any == some \X some
    <3>1. \A x, y \in some : <<x, y>> \in any
      OBVIOUS
    <3> HIDE DEF any
    <3> QED
      BY <2>1, <3>1, SmartWithin
  <2>3. ASSUME \A i \in some : i.lsn >= 0,
               NEW i \in some, Class(i, m) = Class(c, m)
        PROVE  c.lsn <= i.lsn
    <3> DEFINE within == {p \in some \X some : p[1].lsn <= p[2].lsn}
    <3>1. \A x \in some : x.lsn \in Int /\ x.lsn >= 0
      BY <2>3, EligibleKind, Numbers
    <3>2. \A x, y \in some : <<x, y>> \in within <=> x.lsn <= y.lsn
      OBVIOUS
    <3> HIDE DEF within
    <3>3. ASSUME NEW x \in some, NEW y \in some, Class(x, m) = Class(y, m)
          PROVE  IF SmartLess(x, y, m) THEN <<x, y>> \in within
                                       ELSE <<y, x>> \in within
      <4>1. ~BetterClass(x, y, m)
        BY <3>3, ClassesOrdered
      <4>2. x.lsn # y.lsn => (SmartLess(x, y, m) <=> x.lsn < y.lsn)
        BY <3>1, <3>3, <4>1 DEF SmartLess, LessLSN
      <4> QED
        BY <3>1, <3>2, <4>2
    <3>4. \A x, y, z \in some :
            <<x, y>> \in within /\ <<y, z>> \in within => <<x, z>> \in within
      BY <3>1, <3>2
    <3>5. c \in some /\ (i = c \/ <<c, i>> \in within)
      BY <2>1, <2>3, <3>3, <3>4, SmartWithin
    <3> QED
      BY <3>1, <3>2, <3>5
  <2> QED
    BY <2>2, <2>3 DEF SmartKeepsPrecedence
<1> QED
  BY <1>1, ReportedInv, PTL

(* Among those of a class and an LSN the priority decides, and the silence *)
(* when it is the same, if all silences are within half a second and       *)
(* nobody is in front of the master (instanceSorter.Less in smart.go).     *)
THEOREM SmartPrefersPriorityHolds == Spec => []SmartPrefersPriority
<1>1. Reported => SmartPrefersPriority
  <2> SUFFICES ASSUME Reported, SmartChoose(set) # None,
                      \A i, j \in Eligible(set) :
                        i.lsn >= 0 /\ InDelta(Idle(i), Idle(j)),
                      NEW i \in Eligible(set),
                      Class(i, MasterOf(set)) =
                        Class(InstanceOf(SmartChoose(set)), MasterOf(set)),
                      i.lsn = InstanceOf(SmartChoose(set)).lsn
               PROVE  LET c == InstanceOf(SmartChoose(set))
                      IN  \/ i.priority < c.priority
                          \/ i.priority = c.priority /\ Idle(c) <= Idle(i)
    BY DEF SmartPrefersPriority
  <2> DEFINE some == Eligible(set)
             m == MasterOf(set)
             c == InstanceOf(SmartChoose(set))
             tie(x, y) == \/ x.priority > y.priority
                          \/ x.priority = y.priority /\ Idle(x) <= Idle(y)
             within == {p \in some \X some :
                          \/ p[1].lsn < p[2].lsn
                          \/ p[1].lsn = p[2].lsn /\ tie(p[1], p[2])}
  <2>1. some # {} /\ HasMaster(set)
    BY ElectedAmong
  <2>2. \A x \in some : /\ x.lsn \in Int /\ x.lsn >= 0
                        /\ x.priority \in Int /\ Idle(x) \in Nat
    BY EligibleKind, Numbers
  <2>3. \A x, y \in some : <<x, y>> \in within <=>
          x.lsn < y.lsn \/ (x.lsn = y.lsn /\ tie(x, y))
    OBVIOUS
  <2>4. \A x, y \in some : IF LessTie(x, y) THEN tie(x, y) ELSE tie(y, x)
    BY <2>2 DEF LessTie
  <2>5. \A x, y, z \in some : tie(x, y) /\ tie(y, z) => tie(x, z)
    BY <2>2
  <2> HIDE DEF within, tie
  <2>6. ASSUME NEW x \in some, NEW y \in some, Class(x, m) = Class(y, m)
        PROVE  IF SmartLess(x, y, m) THEN <<x, y>> \in within
                                     ELSE <<y, x>> \in within
    <3>1. ~BetterClass(x, y, m)
      BY <2>6, ClassesOrdered
    <3>2. CASE x.lsn # y.lsn
      <4>1. SmartLess(x, y, m) <=> x.lsn < y.lsn
        BY <2>2, <2>6, <3>1, <3>2 DEF SmartLess, LessLSN
      <4> QED
        BY <2>2, <2>3, <3>2, <4>1
    <3>3. CASE x.lsn = y.lsn
      <4>1. SmartLess(x, y, m) <=> LessTie(x, y)
        BY <2>6, <3>1, <3>3 DEF SmartLess
      <4> QED
        BY <2>3, <2>4, <3>3, <4>1
    <3> QED
      BY <3>2, <3>3
  <2>7. ASSUME NEW x \in some, NEW y \in some, NEW z \in some,
               <<x, y>> \in within, <<y, z>> \in within
        PROVE  <<x, z>> \in within
    <3>1. CASE x.lsn = y.lsn /\ y.lsn = z.lsn
      <4>1. tie(x, y) /\ tie(y, z)
        BY <2>2, <2>3, <2>7, <3>1
      <4> QED
        BY <2>3, <2>5, <3>1, <4>1
    <3>2. CASE x.lsn < y.lsn \/ y.lsn < z.lsn
      <4>1. x.lsn <= y.lsn /\ y.lsn <= z.lsn
        BY <2>2, <2>3, <2>7
      <4>2. x.lsn < z.lsn
        BY <2>2, <3>2, <4>1
      <4> QED
        BY <2>3, <4>2
    <3> QED
      BY <2>2, <2>3, <2>7, <3>1, <3>2
  <2>8. c \in some /\ (i = c \/ <<c, i>> \in within)
    BY <2>1, <2>6, <2>7, SmartWithin
  <2>9. i = c \/ tie(c, i)
    BY <2>2, <2>3, <2>8
  <2> QED
    BY <2>2, <2>8, <2>9 DEF tie
<1> QED
  BY <1>1, ReportedInv, PTL

(* A recovery tells those that were polled before those that were not,     *)
(* under the two conditions of PolledFirst (instance_utils.go).            *)
THEOREM PolledFirstHolds == Spec => []PolledFirst
<1>1. Reported => PolledFirst
  <2> DEFINE s == set.instances
             all == ToSet(s)
             t == FailoverOrder(set)
             less == {p \in all \X all : FailoverLess(p[1], p[2])}
             before == {p \in all \X all : p[1].valid \/ ~p[2].valid}
  <2> SUFFICES ASSUME Reported, \A i \in all : ~i.unreachable,
                      \A i, j \in all : i.valid /\ ~j.valid => Idle(i) <= Idle(j),
                      NEW j \in DOMAIN s, NEW k \in DOMAIN s, j < k
               PROVE  t[j].valid \/ ~t[k].valid
    BY DEF PolledFirst
  <2>1. s \in Seq(Instance) /\ \A i \in all : i \in Instance
    BY LenProperties, ElementOfSeq DEF Reported, ToSet
  <2>2. \A i \in all : Idle(i) \in Nat
    BY <2>1, Numbers
  <2>3. \A x, y \in all : <<x, y>> \in less <=> FailoverLess(x, y)
    OBVIOUS
  <2>4. \A x, y \in all : <<x, y>> \in before <=> x.valid \/ ~y.valid
    OBVIOUS
  <2>5. /\ t = InsertionSort(s, all, less)
        /\ ToSet(s) \cap all = all /\ ToSet(s) \subseteq all
    BY DEF FailoverOrder
  <2> HIDE DEF less, before, all, t
  <2>6. \A x, y \in all : IF FailoverLess(x, y) THEN x.valid \/ ~y.valid
                                                ELSE y.valid \/ ~x.valid
    BY <2>2 DEF FailoverLess
  <2>7. Keeps(less, before, all)
    BY <2>3, <2>4, <2>6 DEF Keeps
  <2>8. t \in Seq(all) /\ Ordered(t, before) /\ Len(t) = Len(s)
    <3>1. Keeps(less, before, ToSet(s) \cap all)
      BY <2>5, <2>7
    <3> QED
      BY <2>1, <2>5, <3>1, Sorted
  <2>9. DOMAIN t = DOMAIN s /\ t[j] \in all /\ t[k] \in all
    BY <2>1, <2>8, LenProperties, ElementOfSeq
  <2> QED
    BY <2>4, <2>8, <2>9 DEF Ordered
<1> QED
  BY <1>1, ReportedInv, PTL
=============================================================================
