--------------------------- MODULE SequenceLemmas ---------------------------
(***************************************************************************)
(* What the operators on sequences that the models use return: the least   *)
(* element of a set of numbers (and induction, which follows from it),     *)
(* insertion and removal at a position, the rest of a sequence, sequences  *)
(* behind one another.                                                     *)
(***************************************************************************)
EXTENDS SequencesExt, FiniteSetTheorems, SequenceTheorems, TLAPS

\* Every set of natural numbers that is not empty has a least element.
LEMMA MinProperties ==
  ASSUME NEW S \in SUBSET Nat, S # {}
  PROVE  Min(S) \in S /\ \A x \in S : Min(S) <= x
<1>1. PICK x \in S : \A y \in S : ~ (<<y, x>> \in OpToRel(<, Nat))
  BY NatLessThanWellFounded, WFMin
<1>2. \A y \in S : ~ (y < x)
  BY <1>1, Zenon DEF OpToRel
<1>3. \A y \in S : x <= y
  BY <1>2
<1> QED
  BY <1>3 DEF Min

\* A set with 0, and with the successor of each number in it, has all numbers.
LEMMA EveryNumber ==
  ASSUME NEW S, 0 \in S, \A n \in Nat : n \in S => n + 1 \in S
  PROVE  \A n \in Nat : n \in S
<1> DEFINE rest == Nat \ S
<1>1. ASSUME rest # {} PROVE FALSE
  <2>1. /\ Min(rest) \in rest
        /\ \A x \in rest : Min(rest) <= x
    BY <1>1, MinProperties
  <2>2. PICK m \in rest : \A x \in rest : m <= x
    BY <2>1
  <2>3. m # 0 /\ m - 1 \in Nat /\ m - 1 + 1 = m
    BY <2>2
  <2>4. m - 1 \in S
    BY <2>2, <2>3
  <2> QED
    BY <2>2, <2>3, <2>4
<1> QED
  BY <1>1

\* Two functions that go on alike are equal everywhere.
LEMMA SameEverywhere ==
  ASSUME NEW f, NEW g, f[0] = g[0],
         \A n \in Nat : f[n] = g[n] => f[n + 1] = g[n + 1]
  PROVE  \A n \in Nat : f[n] = g[n]
<1> DEFINE S == {n \in Nat : f[n] = g[n]}
<1>1. 0 \in S /\ \A n \in Nat : n \in S => n + 1 \in S
  OBVIOUS
<1>2. \A n \in S : f[n] = g[n]
  OBVIOUS
<1> HIDE DEF S
<1> QED
  BY <1>1, <1>2, EveryNumber

\* InsertAt puts e at position k and moves what follows by one.
LEMMA InsertAtProperties ==
  ASSUME NEW T, NEW s \in Seq(T), NEW k \in 1 .. Len(s) + 1, NEW e \in T
  PROVE  /\ InsertAt(s, k, e) \in Seq(T)
         /\ Len(InsertAt(s, k, e)) = Len(s) + 1
         /\ \A j \in 1 .. Len(s) + 1 :
              InsertAt(s, k, e)[j] = IF j < k THEN s[j]
                                     ELSE IF j = k THEN e ELSE s[j - 1]
<1> DEFINE a == SubSeq(s, 1, k - 1)
           b == SubSeq(s, k, Len(s))
<1>0. Len(s) \in Nat /\ \A j \in 1 .. Len(s) : s[j] \in T
  BY ElementOfSeq, LenProperties
<1>1. /\ a \in Seq(T) /\ Len(a) = k - 1
      /\ \A j \in 1 .. k - 1 : a[j] = s[j]
  BY <1>0, SubSeqProperties
<1>2. /\ b \in Seq(T) /\ Len(b) = Len(s) - k + 1
      /\ \A j \in 1 .. Len(s) - k + 1 : b[j] = s[k + j - 1]
  BY <1>0, SubSeqProperties
<1>3. <<e>> \in Seq(T) /\ Len(<<e>>) = 1 /\ <<e>>[1] = e
  OBVIOUS
<1>4. /\ a \o <<e>> \in Seq(T) /\ Len(a \o <<e>>) = k
      /\ \A j \in 1 .. k : (a \o <<e>>)[j] = IF j < k THEN s[j] ELSE e
  <2> HIDE DEF a
  <2>1. /\ a \o <<e>> \in Seq(T) /\ Len(a \o <<e>>) = Len(a) + Len(<<e>>)
        /\ \A j \in 1 .. Len(a) + Len(<<e>>) :
             (a \o <<e>>)[j] = IF j <= Len(a) THEN a[j] ELSE <<e>>[j - Len(a)]
    BY <1>1, <1>3, ConcatProperties
  <2> QED
    BY <2>1, <1>1, <1>3
<1> DEFINE c == a \o <<e>>
<1>5. InsertAt(s, k, e) = c \o b
  BY DEF InsertAt
<1> HIDE DEF a, b, c
<1>6. c \in Seq(T) /\ Len(c) = k /\ \A j \in 1 .. k : c[j] = IF j < k THEN s[j] ELSE e
  BY <1>4 DEF c
<1>7. /\ c \o b \in Seq(T) /\ Len(c \o b) = Len(c) + Len(b)
      /\ \A j \in 1 .. Len(c) + Len(b) :
           (c \o b)[j] = IF j <= Len(c) THEN c[j] ELSE b[j - Len(c)]
  BY <1>2, <1>6, ConcatProperties
<1>8. \A j \in 1 .. Len(s) + 1 :
        (c \o b)[j] = IF j < k THEN s[j] ELSE IF j = k THEN e ELSE s[j - 1]
  <2> TAKE j \in 1 .. Len(s) + 1
  <2>1. CASE j <= k
    BY <1>0, <1>2, <1>6, <1>7, <2>1
  <2>2. CASE j > k
    <3>1. (c \o b)[j] = b[j - k] /\ j - k \in 1 .. Len(s) - k + 1
      BY <1>0, <1>2, <1>6, <1>7, <2>2
    <3> QED
      BY <1>0, <1>2, <2>2, <3>1
  <2>3. j <= k \/ j > k
    BY <1>0
  <2> QED
    BY <2>1, <2>2, <2>3
<1> QED
  BY <1>0, <1>2, <1>5, <1>6, <1>7, <1>8

\* RemoveAt takes position k out and moves what follows by one.
LEMMA RemoveAtProperties ==
  ASSUME NEW T, NEW s \in Seq(T), NEW k \in 1 .. Len(s)
  PROVE  /\ RemoveAt(s, k) \in Seq(T)
         /\ Len(RemoveAt(s, k)) = Len(s) - 1
         /\ \A j \in 1 .. Len(s) - 1 :
              RemoveAt(s, k)[j] = IF j < k THEN s[j] ELSE s[j + 1]
<1> DEFINE a == SubSeq(s, 1, k - 1)
           b == SubSeq(s, k + 1, Len(s))
<1>0. Len(s) \in Nat /\ \A j \in 1 .. Len(s) : s[j] \in T
  BY ElementOfSeq, LenProperties
<1>1. /\ a \in Seq(T) /\ Len(a) = k - 1
      /\ \A j \in 1 .. k - 1 : a[j] = s[j]
  BY <1>0, SubSeqProperties
<1>2. /\ b \in Seq(T) /\ Len(b) = Len(s) - k
      /\ \A j \in 1 .. Len(s) - k : b[j] = s[k + j]
  BY <1>0, SubSeqProperties
<1>3. RemoveAt(s, k) = a \o b
  BY DEF RemoveAt
<1> HIDE DEF a, b
<1>4. /\ a \o b \in Seq(T) /\ Len(a \o b) = Len(a) + Len(b)
      /\ \A j \in 1 .. Len(a) + Len(b) :
           (a \o b)[j] = IF j <= Len(a) THEN a[j] ELSE b[j - Len(a)]
  BY <1>1, <1>2, ConcatProperties
<1>5. \A j \in 1 .. Len(s) - 1 : (a \o b)[j] = IF j < k THEN s[j] ELSE s[j + 1]
  <2> TAKE j \in 1 .. Len(s) - 1
  <2>1. CASE j < k
    BY <1>0, <1>1, <1>2, <1>4, <2>1
  <2>2. CASE j >= k
    <3>1. (a \o b)[j] = b[j - k + 1] /\ j - k + 1 \in 1 .. Len(s) - k
      BY <1>0, <1>1, <1>2, <1>4, <2>2
    <3> QED
      BY <1>0, <1>2, <2>2, <3>1
  <2>3. j < k \/ j >= k
    BY <1>0
  <2> QED
    BY <2>1, <2>2, <2>3
<1> QED
  BY <1>0, <1>1, <1>2, <1>3, <1>4, <1>5

\* What a sequence with another element contains.
LEMMA InsertAtRange ==
  ASSUME NEW T, NEW s \in Seq(T), NEW k \in 1 .. Len(s) + 1, NEW e \in T
  PROVE  Range(InsertAt(s, k, e)) = Range(s) \cup {e}
<1> DEFINE r == InsertAt(s, k, e)
<1>0. e \in T /\ s \in Seq(T) /\ k \in 1 .. Len(s) + 1
  OBVIOUS
<1>1. /\ r \in Seq(T) /\ Len(r) = Len(s) + 1
      /\ \A j \in 1 .. Len(s) + 1 :
           r[j] = IF j < k THEN s[j] ELSE IF j = k THEN e ELSE s[j - 1]
  <2>1. r \in Seq(T) /\ Len(r) = Len(s) + 1
    BY <1>0, InsertAtProperties
  <2>2. ASSUME NEW j \in 1 .. Len(s) + 1
        PROVE  r[j] = IF j < k THEN s[j] ELSE IF j = k THEN e ELSE s[j - 1]
    BY <1>0, InsertAtProperties
  <2> QED
    BY <2>1, <2>2
<1> HIDE DEF r
<1>2. /\ Len(s) \in Nat /\ DOMAIN s = 1 .. Len(s) /\ DOMAIN r = 1 .. Len(s) + 1
  BY <1>1, LenProperties
<1>3. \A j \in DOMAIN r : r[j] \in Range(s) \cup {e}
  <2> TAKE j \in DOMAIN r
  <2>1. CASE j < k
    BY <1>1, <1>2, <2>1 DEF Range
  <2>2. CASE j > k
    <3>1. j - 1 \in DOMAIN s /\ r[j] = s[j - 1]
      BY <1>1, <1>2, <2>2
    <3> QED
      BY <3>1 DEF Range
  <2>3. CASE j = k
    BY <1>1, <1>2, <2>3
  <2> QED
    BY <1>2, <2>1, <2>2, <2>3
<1>4. \A j \in DOMAIN s : s[j] \in Range(r)
  <2> TAKE j \in DOMAIN s
  <2>1. CASE j < k
    BY <1>1, <1>2, <2>1 DEF Range
  <2>2. CASE j >= k
    <3>1. j + 1 \in DOMAIN r /\ r[j + 1] = s[j]
      BY <1>1, <1>2, <2>2
    <3> QED
      BY <3>1 DEF Range
  <2> QED
    BY <1>2, <2>1, <2>2
<1>5. e \in Range(r)
  <2>1. k \in DOMAIN r /\ r[k] = e
    BY <1>1, <1>2
  <2> QED
    BY <2>1 DEF Range
<1>6. Range(r) = Range(s) \cup {e}
  BY <1>3, <1>4, <1>5 DEF Range
<1> QED
  BY <1>6 DEF r

\* InsertAt keeps a sequence sorted by R when e fits at position k.
LEMMA InsertAtSorted ==
  ASSUME NEW T, NEW s \in Seq(T), NEW k \in 1 .. Len(s) + 1, NEW e \in T, NEW R,
         \A i, j \in 1 .. Len(s) : i < j => <<s[i], s[j]>> \in R,
         \A j \in 1 .. Len(s) : j < k => <<s[j], e>> \in R,
         \A j \in 1 .. Len(s) : j >= k => <<e, s[j]>> \in R
  PROVE  \A i, j \in DOMAIN InsertAt(s, k, e) :
           i < j => <<InsertAt(s, k, e)[i], InsertAt(s, k, e)[j]>> \in R
<1> DEFINE r == InsertAt(s, k, e)
<1>0. e \in T /\ s \in Seq(T) /\ k \in 1 .. Len(s) + 1
  OBVIOUS
<1>1. /\ r \in Seq(T) /\ Len(r) = Len(s) + 1
      /\ \A j \in 1 .. Len(s) + 1 :
           r[j] = IF j < k THEN s[j] ELSE IF j = k THEN e ELSE s[j - 1]
  BY InsertAtProperties
<1> HIDE DEF r
<1>2. Len(s) \in Nat /\ DOMAIN r = 1 .. Len(s) + 1
  BY <1>1, LenProperties
<1>3. ASSUME NEW i \in DOMAIN r, NEW j \in DOMAIN r, i < j
      PROVE  <<r[i], r[j]>> \in R
  <2>1. CASE j < k
    BY <1>1, <1>2, <1>3, <2>1
  <2>2. CASE j = k
    BY <1>1, <1>2, <1>3, <2>2
  <2>3. CASE j > k /\ i < k
    <3>1. r[j] = s[j - 1] /\ r[i] = s[i] /\ i \in 1 .. Len(s) /\ j - 1 \in 1 .. Len(s)
      BY <1>1, <1>2, <1>3, <2>3
    <3> QED
      BY <1>2, <2>3, <3>1
  <2>4. CASE j > k /\ i = k
    <3>1. r[j] = s[j - 1] /\ r[i] = e /\ j - 1 \in 1 .. Len(s) /\ j - 1 >= k
      BY <1>1, <1>2, <1>3, <2>4
    <3> QED
      BY <3>1
  <2>5. CASE j > k /\ i > k
    <3>1. /\ r[j] = s[j - 1] /\ r[i] = s[i - 1]
          /\ i - 1 \in 1 .. Len(s) /\ j - 1 \in 1 .. Len(s) /\ i - 1 < j - 1
      BY <1>1, <1>2, <1>3, <2>5
    <3> QED
      BY <3>1
  <2> QED
    BY <1>2, <2>1, <2>2, <2>3, <2>4, <2>5
<1> QED
  BY <1>3 DEF r

\* What a sequence without repetitions contains when one element is removed.
LEMMA RemoveAtRange ==
  ASSUME NEW T, NEW s \in Seq(T), NEW k \in 1 .. Len(s),
         \A i, j \in 1 .. Len(s) : s[i] = s[j] => i = j
  PROVE  Range(RemoveAt(s, k)) = Range(s) \ {s[k]}
<1> DEFINE r == RemoveAt(s, k)
<1>1. /\ r \in Seq(T) /\ Len(r) = Len(s) - 1
      /\ \A j \in 1 .. Len(s) - 1 : r[j] = IF j < k THEN s[j] ELSE s[j + 1]
  BY RemoveAtProperties
<1> HIDE DEF r
<1>2. Len(s) \in Nat /\ DOMAIN s = 1 .. Len(s) /\ DOMAIN r = 1 .. Len(s) - 1
  BY <1>1, LenProperties
<1>3. ASSUME NEW j \in DOMAIN r PROVE r[j] \in Range(s) \ {s[k]}
  <2>1. CASE j < k
    <3>1. j \in DOMAIN s /\ r[j] = s[j] /\ j # k
      BY <1>1, <1>2, <2>1
    <3> QED
      BY <1>2, <3>1 DEF Range
  <2>2. CASE j >= k
    <3>1. j + 1 \in DOMAIN s /\ r[j] = s[j + 1] /\ j + 1 # k
      BY <1>1, <1>2, <2>2
    <3> QED
      BY <1>2, <3>1 DEF Range
  <2> QED
    BY <1>2, <2>1, <2>2
<1>4. ASSUME NEW j \in DOMAIN s, j # k PROVE s[j] \in Range(r)
  <2>1. CASE j < k
    <3>1. j \in DOMAIN r /\ r[j] = s[j]
      BY <1>1, <1>2, <2>1
    <3> QED
      BY <3>1 DEF Range
  <2>2. CASE j > k
    <3>1. j - 1 \in DOMAIN r /\ r[j - 1] = s[j]
      BY <1>1, <1>2, <2>2
    <3> QED
      BY <3>1 DEF Range
  <2> QED
    BY <1>2, <1>4, <2>1, <2>2
<1>5. Range(r) = Range(s) \ {s[k]}
  BY <1>2, <1>3, <1>4 DEF Range
<1> QED
  BY <1>5 DEF r

\* RemoveAt keeps a sequence sorted by R.
LEMMA RemoveAtSorted ==
  ASSUME NEW T, NEW s \in Seq(T), NEW k \in 1 .. Len(s), NEW R,
         \A i, j \in 1 .. Len(s) : i < j => <<s[i], s[j]>> \in R
  PROVE  \A i, j \in DOMAIN RemoveAt(s, k) :
           i < j => <<RemoveAt(s, k)[i], RemoveAt(s, k)[j]>> \in R
<1> DEFINE r == RemoveAt(s, k)
<1>1. /\ r \in Seq(T) /\ Len(r) = Len(s) - 1
      /\ \A j \in 1 .. Len(s) - 1 : r[j] = IF j < k THEN s[j] ELSE s[j + 1]
  BY RemoveAtProperties
<1> HIDE DEF r
<1>2. Len(s) \in Nat /\ DOMAIN r = 1 .. Len(s) - 1
  BY <1>1, LenProperties
<1>3. ASSUME NEW i \in DOMAIN r, NEW j \in DOMAIN r, i < j
      PROVE  <<r[i], r[j]>> \in R
  <2>1. PICK a \in {i, i + 1}, b \in {j, j + 1} :
          /\ r[i] = s[a] /\ r[j] = s[b] /\ a < b
          /\ a \in 1 .. Len(s) /\ b \in 1 .. Len(s)
    BY <1>1, <1>2, <1>3
  <2> QED
    BY <2>1
<1> QED
  BY <1>3 DEF r

\* RemoveFirst takes the first element that is like s[k] out, and so position k
\* if there is none before it, as when no element comes twice.
LEMMA RemoveFirstFound ==
  ASSUME NEW T, NEW s \in Seq(T), NEW k \in 1 .. Len(s),
         \A i \in 1 .. Len(s) : s[i] = s[k] => k <= i
  PROVE  RemoveFirst(s, s[k]) = RemoveAt(s, k)
<1> DEFINE I == {i \in 1 .. Len(s) : s[i] = s[k]}
<1>1. k \in I /\ \A i \in I : k <= i
  OBVIOUS
<1>2. I \in SUBSET Nat
  BY LenProperties
<1>3. Min(I) = k
  <2>1. Min(I) \in I /\ Min(I) <= k
    BY <1>1, <1>2, MinProperties
  <2>2. Min(I) \in Nat /\ k \in Nat /\ k <= Min(I)
    BY <1>1, <1>2, <2>1
  <2> QED
    BY <2>1, <2>2
<1>4. SelectInSeq(s, LAMBDA v : v = s[k]) = IF I # {} THEN Min(I) ELSE 0
  BY DEF SelectInSeq
<1>5. SelectInSeq(s, LAMBDA v : v = s[k]) = k
  BY <1>1, <1>3, <1>4
<1> QED
  BY <1>5 DEF RemoveFirst

\* Where no value occurs twice RemoveFirst removes the one position.
LEMMA RemoveFirstProperties ==
  ASSUME NEW T, NEW s \in Seq(T), NEW k \in 1 .. Len(s),
         \A i, j \in 1 .. Len(s) : s[i] = s[j] => i = j
  PROVE  RemoveFirst(s, s[k]) = RemoveAt(s, k)
<1>1. \A i \in 1 .. Len(s) : s[i] = s[k] => k <= i
  <2>1. Len(s) \in Nat
    BY LenProperties
  <2> QED
    BY <2>1
<1> QED
  BY <1>1, RemoveFirstFound

\* A sequence from position k on.
LEMMA SuffixProperties ==
  ASSUME NEW T, NEW s \in Seq(T), NEW n, n = Len(s)
  PROVE  /\ SubSeq(s, 1, n) = s
         /\ SubSeq(s, n + 1, n) = << >>
         /\ \A k \in 1 .. n : <<s[k]>> \o SubSeq(s, k + 1, n) = SubSeq(s, k, n)
<1>1. n \in Nat /\ \A k \in 1 .. n : s[k] \in T
  BY LenProperties, ElementOfSeq
<1>2. ASSUME NEW k \in 1 .. n + 1
      PROVE  /\ SubSeq(s, k, n) \in Seq(T)
             /\ Len(SubSeq(s, k, n)) = n - k + 1
             /\ \A j \in 1 .. n - k + 1 : SubSeq(s, k, n)[j] = s[k + j - 1]
  BY <1>1, SubSeqProperties
<1>3. SubSeq(s, 1, n) = s
  <2>1. 1 \in 1 .. n + 1 /\ n - 1 + 1 = n /\ \A j \in 1 .. n : 1 + j - 1 = j
    BY <1>1
  <2> QED
    BY <1>2, <2>1, SeqEqual
<1>4. SubSeq(s, n + 1, n) = << >>
  <2>1. n + 1 \in 1 .. n + 1 /\ n - (n + 1) + 1 = 0
    BY <1>1
  <2> QED
    BY <1>2, <2>1, EmptySeq
<1>5. ASSUME NEW k \in 1 .. n PROVE <<s[k]>> \o SubSeq(s, k + 1, n) = SubSeq(s, k, n)
  <2>1. k + 1 \in 1 .. n + 1 /\ k \in 1 .. n + 1 /\ n - (k + 1) + 1 = n - k
    BY <1>1
  <2> DEFINE rest == SubSeq(s, k + 1, n)
             all == SubSeq(s, k, n)
  <2>2. rest \in Seq(T) /\ Len(rest) = n - k /\ \A j \in 1 .. n - k : rest[j] = s[k + 1 + j - 1]
    BY <1>2, <2>1
  <2>3. all \in Seq(T) /\ Len(all) = n - k + 1 /\ \A j \in 1 .. n - k + 1 : all[j] = s[k + j - 1]
    BY <1>2, <2>1
  <2> HIDE DEF rest, all
  <2>4. <<s[k]>> \in Seq(T) /\ Len(<<s[k]>>) = 1 /\ <<s[k]>>[1] = s[k]
    BY <1>1
  <2>5. /\ <<s[k]>> \o rest \in Seq(T) /\ Len(<<s[k]>> \o rest) = 1 + (n - k)
        /\ \A j \in 1 .. 1 + (n - k) :
             (<<s[k]>> \o rest)[j] = IF j <= 1 THEN <<s[k]>>[j] ELSE rest[j - 1]
    <3>1. PICK one : one = <<s[k]>>
      OBVIOUS
    <3>2. one \in Seq(T) /\ Len(one) = 1
      BY <2>4, <3>1
    <3>3. /\ one \o rest \in Seq(T) /\ Len(one \o rest) = Len(one) + Len(rest)
          /\ \A j \in 1 .. Len(one) + Len(rest) :
               (one \o rest)[j] = IF j <= Len(one) THEN one[j] ELSE rest[j - Len(one)]
      BY <2>2, <3>2, ConcatProperties, Zenon
    <3> QED
      BY <2>2, <3>1, <3>2, <3>3
  <2>6. \A j \in 1 .. n - k + 1 : (<<s[k]>> \o rest)[j] = all[j]
    <3> SUFFICES ASSUME NEW j \in 1 .. n - k + 1 PROVE (<<s[k]>> \o rest)[j] = all[j]
      OBVIOUS
    <3>1. j \in 1 .. 1 + (n - k)
      BY <1>1
    <3>2. CASE j = 1
      <4>1. k + 1 - 1 = k
        BY <1>1
      <4> QED
        BY <2>3, <2>4, <2>5, <3>1, <3>2, <4>1
    <3>3. CASE j # 1
      <4>1. j - 1 \in 1 .. n - k /\ ~(j <= 1) /\ k + 1 + (j - 1) - 1 = k + j - 1
        BY <1>1, <3>3
      <4> QED
        BY <2>2, <2>3, <2>5, <3>1, <4>1
    <3> QED
      BY <3>2, <3>3
  <2>7. <<s[k]>> \o rest = all
    <3>1. 1 + (n - k) = n - k + 1
      BY <1>1
    <3> QED
      BY <2>3, <2>5, <2>6, <3>1, SeqEqual
  <2> QED
    BY <2>7 DEF rest, all
<1> QED
  BY <1>3, <1>4, <1>5

\* A function over the first numbers is a sequence.
LEMMA FunctionAsSequence ==
  ASSUME NEW T, NEW m \in Nat, NEW f \in [1 .. m -> T]
  PROVE  f \in Seq(T) /\ Len(f) = m
OBVIOUS

\* FlattenSeq concatenates one sequence after the other.
LEMMA FlattenSteps ==
  ASSUME NEW T, NEW ss \in Seq(Seq(T))
  PROVE  \E flat : /\ FlattenSeq(ss) = flat[Len(ss)]
                   /\ flat[0] = << >>
                   /\ \A k \in 1 .. Len(ss) : flat[k] = flat[k - 1] \o ss[k]
<1>1. PICK n \in Nat : n = Len(ss)
  BY LenProperties
<1>2. \A k \in 1 .. n : ss[k] \in Seq(T)
  BY <1>1, ElementOfSeq
<1> DEFINE Step(g) == [k \in 1 .. n |-> IF k = 1 THEN ss[k] ELSE g[k - 1] \o ss[k]]
           good == {d \in Nat : \E g : \A k \in 1 .. n : k <= d => g[k] = Step(g)[k]}
<1>3. 0 \in good
  OBVIOUS
<1>4. ASSUME NEW d \in Nat, d \in good PROVE d + 1 \in good
  <2>1. PICK g : \A k \in 1 .. n : k <= d => g[k] = Step(g)[k]
    BY <1>4
  <2>2. ASSUME NEW k \in 1 .. n, k <= d + 1 PROVE Step(g)[k] = Step(Step(g))[k]
    <3>1. CASE k = 1
      BY <3>1
    <3>2. CASE k # 1
      <4>1. k - 1 \in 1 .. n /\ k - 1 <= d
        BY <2>2, <3>2
      <4>2. g[k - 1] = Step(g)[k - 1]
        BY <2>1, <4>1
      <4>3. /\ Step(g)[k] = g[k - 1] \o ss[k]
            /\ Step(Step(g))[k] = Step(g)[k - 1] \o ss[k]
        BY <3>2
      <4> QED
        BY <4>2, <4>3
    <3> QED
      BY <3>1, <3>2
  <2> HIDE DEF Step
  <2>3. \E h : \A k \in 1 .. n : k <= d + 1 => h[k] = Step(h)[k]
    BY <2>2
  <2>4. d + 1 \in Nat
    OBVIOUS
  <2> QED
    BY <2>3, <2>4, Zenon
<1> HIDE DEF good
<1>5. n \in good
  BY <1>3, <1>4, EveryNumber
<1>6. PICK g : \A k \in 1 .. n : g[k] = Step(g)[k]
  BY <1>5 DEF good
<1> DEFINE f == [k \in 1 .. n |-> g[k]]
<1>7. f = Step(f)
  BY <1>6
<1>8. CASE n = 0
  <2>1. ss = << >>
    BY <1>1, <1>8, EmptySeq
  <2> DEFINE flat == [k \in 0 .. 0 |-> << >>]
  <2>2. FlattenSeq(ss) = flat[0]
    BY <1>1, <1>8, <2>1 DEF FlattenSeq
  <2>3. flat[0] = << >>
    OBVIOUS
  <2> HIDE DEF flat
  <2> QED
    BY <1>1, <1>8, <2>2, <2>3
<1>9. CASE n # 0
  <2> DEFINE flatten == CHOOSE h : h = Step(h)
  <2>1. FlattenSeq(ss) = flatten[n]
    BY <1>1, <1>9 DEF FlattenSeq
  <2> HIDE DEF Step, f
  <2>2. flatten = Step(flatten)
    BY <1>7
  <2> HIDE DEF flatten
  <2>3. PICK h : h = Step(h) /\ h = flatten
    BY <2>2
  <2> DEFINE flat == [k \in 0 .. n |-> IF k = 0 THEN << >> ELSE h[k]]
  <2>4. ASSUME NEW k \in 1 .. n PROVE flat[k] = flat[k - 1] \o ss[k]
    <3>1. CASE k = 1
      <4>1. h[1] = ss[1]
        BY <1>9, <2>3 DEF Step
      <4>2. << >> \o ss[1] = ss[1]
        BY <1>2, <3>1, ConcatEmptySeq
      <4>3. flat[k] = h[1] /\ flat[k - 1] = << >>
        <5>1. k \in 0 .. n /\ k - 1 \in 0 .. n /\ k - 1 = 0
          BY <3>1
        <5> QED
          BY <3>1, <5>1
      <4> QED
        BY <3>1, <4>1, <4>2, <4>3
    <3>2. CASE k # 1
      <4>1. h[k] = h[k - 1] \o ss[k]
        BY <2>3, <3>2 DEF Step
      <4>2. flat[k] = h[k] /\ flat[k - 1] = h[k - 1]
        <5>1. k \in 0 .. n /\ k - 1 \in 0 .. n /\ k # 0 /\ k - 1 # 0
          BY <3>2
        <5> QED
          BY <5>1
      <4> QED
        BY <4>1, <4>2
    <3> QED
      BY <3>1, <3>2
  <2>5. flat[n] = FlattenSeq(ss) /\ flat[0] = << >>
    BY <1>9, <2>1, <2>3
  <2> HIDE DEF flat
  <2> QED
    BY <1>1, <2>4, <2>5
<1> QED
  BY <1>8, <1>9

\* Any two items of s, the earlier first, are in the relation R.
SortedBy(s, R) == \A i, j \in DOMAIN s : i < j => <<s[i], s[j]>> \in R

\* Two sorted sequences, one behind the other.
LEMMA ConcatSorted ==
  ASSUME NEW T, NEW s \in Seq(T), NEW u \in Seq(T), NEW R,
         SortedBy(s, R), SortedBy(u, R),
         \A a \in Range(s), b \in Range(u) : <<a, b>> \in R
  PROVE  s \o u \in Seq(T) /\ SortedBy(s \o u, R) /\ Range(s \o u) = Range(s) \cup Range(u)
<1>1. PICK m \in Nat, n \in Nat : m = Len(s) /\ n = Len(u)
  BY LenProperties
<1>2. PICK v : v = s \o u
  OBVIOUS
<1>3. /\ v \in Seq(T) /\ Len(v) = m + n
      /\ \A k \in 1 .. m + n : v[k] = IF k <= m THEN s[k] ELSE u[k - m]
  BY <1>1, <1>2, ConcatProperties
<1>4. DOMAIN s = 1 .. m /\ DOMAIN u = 1 .. n /\ DOMAIN v = 1 .. m + n
  BY <1>1, <1>3, LenProperties
<1>5. ASSUME NEW k \in 1 .. m PROVE s[k] \in Range(s) /\ v[k] = s[k]
  <2>1. s[k] \in Range(s)
    BY <1>4 DEF Range
  <2>2. k \in 1 .. m + n /\ k <= m
    OBVIOUS
  <2> QED
    BY <1>3, <2>1, <2>2
<1>6. ASSUME NEW k \in 1 .. n
      PROVE  u[k] \in Range(u) /\ m + k \in 1 .. m + n /\ v[m + k] = u[k]
  <2>1. u[k] \in Range(u)
    BY <1>4 DEF Range
  <2>2. m + k \in 1 .. m + n /\ ~(m + k <= m) /\ m + k - m = k
    OBVIOUS
  <2> QED
    BY <1>3, <2>1, <2>2
<1>7. \A k \in 1 .. m + n : k <= m \/ k - m \in 1 .. n
  OBVIOUS
<1>8. Range(v) = Range(s) \cup Range(u)
  <2>1. Range(v) \subseteq Range(s) \cup Range(u)
    <3>1. ASSUME NEW k \in 1 .. m + n PROVE v[k] \in Range(s) \cup Range(u)
      <4>1. CASE k <= m
        BY <1>5, <4>1
      <4>2. CASE k - m \in 1 .. n
        <5>1. m + (k - m) = k
          OBVIOUS
        <5> QED
          BY <1>6, <4>2, <5>1
      <4> QED
        BY <1>7, <4>1, <4>2
    <3>2. Range(v) = {v[k] : k \in 1 .. m + n}
      BY <1>4 DEF Range
    <3> QED
      BY <3>1, <3>2
  <2>2. Range(s) \subseteq Range(v)
    BY <1>4, <1>5 DEF Range
  <2>3. Range(u) \subseteq Range(v)
    BY <1>4, <1>6 DEF Range
  <2> QED
    BY <2>1, <2>2, <2>3
<1>9. ASSUME NEW i \in 1 .. m + n, NEW j \in 1 .. m + n, i < j PROVE <<v[i], v[j]>> \in R
  <2>1. CASE j <= m
    <3>1. i \in 1 .. m /\ j \in 1 .. m
      BY <1>9, <2>1
    <3> QED
      BY <1>4, <1>5, <1>9, <3>1 DEF SortedBy
  <2>2. CASE i <= m /\ ~(j <= m)
    <3>1. i \in 1 .. m /\ j - m \in 1 .. n /\ v[j] = u[j - m]
      BY <1>3, <2>2
    <3> QED
      BY <1>5, <1>6, <3>1
  <2>3. CASE ~(i <= m)
    <3>1. /\ i - m \in 1 .. n /\ j - m \in 1 .. n /\ i - m < j - m
          /\ v[i] = u[i - m] /\ v[j] = u[j - m]
      BY <1>3, <1>9, <2>3
    <3> QED
      BY <1>4, <3>1 DEF SortedBy
  <2> QED
    BY <2>1, <2>2, <2>3
<1> QED
  BY <1>2, <1>3, <1>4, <1>8, <1>9 DEF SortedBy

\* Sorted sequences, one behind the other.
LEMMA FlattenSorted ==
  ASSUME NEW T, NEW ss \in Seq(Seq(T)), NEW R,
         \A k \in 1 .. Len(ss) : SortedBy(ss[k], R),
         \A h, k \in 1 .. Len(ss) :
           h < k => \A a \in Range(ss[h]), b \in Range(ss[k]) : <<a, b>> \in R
  PROVE  /\ FlattenSeq(ss) \in Seq(T)
         /\ SortedBy(FlattenSeq(ss), R)
         /\ Range(FlattenSeq(ss)) = UNION {Range(ss[k]) : k \in 1 .. Len(ss)}
<1>1. PICK n \in Nat : n = Len(ss)
  BY LenProperties
<1>2. PICK flat : /\ FlattenSeq(ss) = flat[n]
                  /\ flat[0] = << >>
                  /\ \A k \in 1 .. n : flat[k] = flat[k - 1] \o ss[k]
  BY <1>1, FlattenSteps
<1>3. \A k \in 1 .. n : ss[k] \in Seq(T)
  BY <1>1, ElementOfSeq
<1> DEFINE Items(d) == UNION {Range(ss[k]) : k \in 1 .. d}
           Good(d) == /\ flat[d] \in Seq(T)
                      /\ SortedBy(flat[d], R)
                      /\ Range(flat[d]) = Items(d)
           good == {d \in Nat : d <= n => Good(d)}
<1>4. 0 \in good
  <2>1. DOMAIN << >> = 1 .. 0 /\ << >> \in Seq(T)
    BY EmptySeq
  <2>2. SortedBy(<< >>, R) /\ Range(<< >>) = {}
    BY <2>1 DEF SortedBy, Range
  <2>3. Items(0) = {}
    OBVIOUS
  <2> QED
    BY <1>2, <2>1, <2>2, <2>3
<1>5. ASSUME NEW d \in Nat, d \in good PROVE d + 1 \in good
  <2>1. SUFFICES ASSUME d + 1 <= n PROVE Good(d + 1)
    OBVIOUS
  <2>2. PICK k \in 1 .. n : k = d + 1
    BY <2>1
  <2>3. Good(d) /\ flat[k] = flat[d] \o ss[k] /\ ss[k] \in Seq(T) /\ SortedBy(ss[k], R)
    <3>1. d <= n /\ k - 1 = d
      BY <2>2
    <3> QED
      BY <1>1, <1>2, <1>3, <1>5, <3>1
  <2>4. \A a \in Items(d), b \in Range(ss[k]) : <<a, b>> \in R
    <3>1. \A h \in 1 .. d : h \in 1 .. Len(ss) /\ h < k /\ k \in 1 .. Len(ss)
      BY <1>1, <2>2
    <3> QED
      BY <3>1
  <2>5. Items(k) = Items(d) \cup Range(ss[k])
    <3>1. \A h : h \in 1 .. k <=> h \in 1 .. d \/ h = k
      BY <2>2
    <3> QED
      BY <3>1
  <2> HIDE DEF Items
  <2>6. /\ flat[d] \o ss[k] \in Seq(T)
        /\ SortedBy(flat[d] \o ss[k], R)
        /\ Range(flat[d] \o ss[k]) = Range(flat[d]) \cup Range(ss[k])
    BY <2>3, <2>4, ConcatSorted
  <2> QED
    BY <2>2, <2>3, <2>5, <2>6
<1> HIDE DEF good
<1>6. n \in good
  BY <1>4, <1>5, EveryNumber
<1> QED
  BY <1>1, <1>2, <1>6 DEF good

\* Every place in n rows of m is the place c of a row k.
LEMMA PlaceInRow ==
  ASSUME NEW n \in Nat, NEW m \in Nat, NEW j \in 1 .. n * m
  PROVE  \E k \in 1 .. n, c \in 1 .. m : j = (k - 1) * m + c
<1> DEFINE good == {d \in Nat : \A e \in 1 .. d * m :
                                  \E k \in 1 .. d, c \in 1 .. m : e = (k - 1) * m + c}
<1>1. 0 \in good
  <2>1. 0 * m = 0
    OBVIOUS
  <2> QED
    BY <2>1
<1>2. ASSUME NEW d \in Nat, d \in good PROVE d + 1 \in good
  <2>1. PICK p \in Nat : p = d * m /\ (d + 1) * m = p + m
    OBVIOUS
  <2>2. ASSUME NEW e \in 1 .. p + m
        PROVE  \E k \in 1 .. d + 1, c \in 1 .. m : e = (k - 1) * m + c
    <3>1. CASE e <= p
      <4>1. e \in 1 .. d * m
        BY <2>1, <3>1
      <4>2. PICK k \in 1 .. d, c \in 1 .. m : e = (k - 1) * m + c
        BY <1>2, <4>1
      <4>3. k \in 1 .. d + 1
        OBVIOUS
      <4> QED
        BY <4>2, <4>3
    <3>2. CASE ~(e <= p)
      <4>1. e - p \in 1 .. m /\ d + 1 \in 1 .. d + 1 /\ e = (d + 1 - 1) * m + (e - p)
        BY <2>1, <3>2
      <4> QED
        BY <4>1
    <3> QED
      BY <3>1, <3>2
  <2> QED
    BY <2>1, <2>2
<1> HIDE DEF good
<1>3. n \in good
  BY <1>1, <1>2, EveryNumber
<1> QED
  BY <1>3, Zenon DEF good

\* Sequences of the same length, one behind the other.
LEMMA FlattenEqual ==
  ASSUME NEW T, NEW ss \in Seq(Seq(T)), NEW m \in Nat,
         \A k \in 1 .. Len(ss) : Len(ss[k]) = m
  PROVE  /\ FlattenSeq(ss) \in Seq(T)
         /\ Len(FlattenSeq(ss)) = Len(ss) * m
         /\ \A k \in 1 .. Len(ss), c \in 1 .. m : FlattenSeq(ss)[(k - 1) * m + c] = ss[k][c]
<1>1. PICK n \in Nat : n = Len(ss)
  BY LenProperties
<1>2. PICK flat : /\ FlattenSeq(ss) = flat[n]
                  /\ flat[0] = << >>
                  /\ \A k \in 1 .. n : flat[k] = flat[k - 1] \o ss[k]
  BY <1>1, FlattenSteps
<1>3. \A k \in 1 .. n : ss[k] \in Seq(T) /\ Len(ss[k]) = m
  BY <1>1, ElementOfSeq
<1> DEFINE Good(d) == /\ flat[d] \in Seq(T) /\ Len(flat[d]) = d * m
                      /\ \A k \in 1 .. d, c \in 1 .. m : flat[d][(k - 1) * m + c] = ss[k][c]
           good == {d \in Nat : d <= n => Good(d)}
<1>4. 0 \in good
  <2>1. << >> \in Seq(T) /\ Len(<< >>) = 0 /\ 0 * m = 0
    BY EmptySeq
  <2>2. flat[0] \in Seq(T) /\ Len(flat[0]) = 0 * m
    BY <1>2, <2>1
  <2>3. \A j \in 1 .. 0 * m : FALSE
    BY <2>1
  <2>4. \A k \in 1 .. 0 : FALSE
    OBVIOUS
  <2>5. Good(0)
    BY <2>2, <2>3, <2>4
  <2> QED
    BY <2>5
<1>5. ASSUME NEW d \in Nat, d \in good PROVE d + 1 \in good
  <2>1. SUFFICES ASSUME d + 1 <= n PROVE Good(d + 1)
    OBVIOUS
  <2>2. PICK k \in 1 .. n : k = d + 1 /\ k - 1 = d
    BY <2>1
  <2>3. Good(d) /\ flat[k] = flat[d] \o ss[k] /\ ss[k] \in Seq(T) /\ Len(ss[k]) = m
    <3>1. d <= n
      BY <2>2
    <3> QED
      BY <1>2, <1>3, <1>5, <2>2, <3>1
  <2>4. PICK p \in Nat : p = d * m /\ k * m = p + m
    BY <2>2
  <2>5. /\ flat[k] \in Seq(T) /\ Len(flat[k]) = p + m
        /\ \A j \in 1 .. p + m : flat[k][j] = IF j <= p THEN flat[d][j] ELSE ss[k][j - p]
    <3>1. flat[d] \in Seq(T) /\ Len(flat[d]) = p /\ ss[k] \in Seq(T) /\ Len(ss[k]) = m
      BY <2>3, <2>4
    <3>2. PICK a, b : a = flat[d] /\ b = ss[k] /\ flat[k] = a \o b
      BY <2>3
    <3>3. a \in Seq(T) /\ Len(a) = p /\ b \in Seq(T) /\ Len(b) = m
      BY <3>1, <3>2
    <3> HIDE DEF Good, good
    <3>4. /\ a \o b \in Seq(T) /\ Len(a \o b) = p + m
          /\ \A j \in 1 .. p + m : (a \o b)[j] = IF j <= p THEN a[j] ELSE b[j - p]
      BY <3>3, ConcatProperties
    <3> QED
      BY <3>2, <3>4
  <2>6. ASSUME NEW h \in 1 .. k, NEW c \in 1 .. m PROVE flat[k][(h - 1) * m + c] = ss[h][c]
    <3>1. CASE h = k
      <4>1. (h - 1) * m = p
        BY <2>2, <2>4, <3>1
      <4>2. p + c \in 1 .. p + m /\ ~(p + c <= p) /\ p + c - p = c
        OBVIOUS
      <4>3. flat[k][p + c] = ss[k][c]
        BY <2>5, <4>2
      <4> QED
        BY <3>1, <4>1, <4>3
    <3>2. CASE h # k
      <4>1. h \in 1 .. d
        BY <2>2, <3>2
      <4>2. PICK r \in Nat : r = (h - 1) * m
        BY <4>1
      <4>3. r + m <= p
        <5>1. r + m = h * m
          BY <4>2
        <5>2. h * m + (d - h) * m = p /\ (d - h) * m >= 0
          BY <2>4, <4>1
        <5> QED
          BY <5>1, <5>2
      <4>4. r + c \in 1 .. p + m /\ r + c <= p
        BY <4>3
      <4> QED
        BY <2>3, <2>5, <4>1, <4>2, <4>4
    <3> QED
      BY <3>1, <3>2
  <2> QED
    BY <2>2, <2>4, <2>5, <2>6
<1> HIDE DEF good
<1>6. n \in good
  BY <1>4, <1>5, EveryNumber
<1>7. Good(n)
  BY <1>6 DEF good
<1> HIDE DEF Good
<1> QED
  BY <1>1, <1>2, <1>7 DEF Good
=============================================================================
