--------------------------- MODULE DecodersProofs ---------------------------
(***************************************************************************)
(* Theorems about Decoders, for files of any number of frames, any sample  *)
(* rate and frames of any duration, any tags and any samples: what is      *)
(* leaked, that samples are rounded to the nearest, what resuming a song   *)
(* leaves out, where it leaves the mapped file, and how far the position   *)
(* shown is from the place in the song.                                    *)
(***************************************************************************)
EXTENDS Decoders, WellFoundedInduction, TLAPS

-----------------------------------------------------------------------------
(* Numbers                                                                 *)

\* Division with remainder.
LEMMA DivMod ==
  ASSUME NEW x \in Int, NEW m \in Nat \ {0}
  PROVE  x \div m \in Int /\ x % m \in 0..(m - 1) /\ x = m * (x \div m) + (x % m)
  OBVIOUS

\* A product of natural numbers is one, and so is their quotient.
LEMMA NatProduct ==
  ASSUME NEW a \in Nat, NEW b \in Nat
  PROVE  a * b \in Nat
  OBVIOUS

\* The quotient of natural numbers, between its bounds.
LEMMA NatQuotient ==
  ASSUME NEW a \in Nat, NEW m \in Nat \ {0}
  PROVE  a \div m \in Nat /\ m * (a \div m) <= a /\ a < m * ((a \div m) + 1)
<1> DEFINE q == a \div m
           r == a % m
<1>1. q \in Int /\ r \in 0..(m - 1) /\ a = m * q + r
  BY DivMod
<1> HIDE DEF q, r
<1>2. ASSUME q < 0 PROVE FALSE
  <2>1. PICK d \in Nat : q = -1 - d
    BY <1>1, <1>2
  <2>2. m * q = -m - m * d /\ m * d \in Nat
    BY <2>1
  <2> QED
    BY <1>1, <2>2
<1>3. q \in Nat /\ m * (q + 1) = m * q + m
  BY <1>1, <1>2
<1> QED
  BY <1>1, <1>3 DEF q

\* Factors can be compared instead of products.
LEMMA ProductLess ==
  ASSUME NEW m \in Nat \ {0}, NEW x \in Int, NEW y \in Int, m * x < m * y
  PROVE  x < y
<1> SUFFICES ASSUME y <= x PROVE FALSE
  OBVIOUS
<1>1. PICK d \in Nat : x = y + d
  OBVIOUS
<1>2. m * x = m * y + m * d /\ m * d \in Nat
  BY <1>1
<1> QED
  BY <1>2

\* A factor keeps the order.
LEMMA ProductLeq ==
  ASSUME NEW m \in Nat, NEW x \in Int, NEW y \in Int, x <= y
  PROVE  m * x <= m * y
<1>1. PICK d \in Nat : y = x + d
  OBVIOUS
<1>2. m * y = m * x + m * d /\ m * d \in Nat
  BY <1>1
<1> QED
  BY <1>2

\* The quotient is the only number between its bounds.
LEMMA QuotientIs ==
  ASSUME NEW a \in Nat, NEW m \in Nat \ {0}, NEW q \in Nat, m * q <= a, a < m * (q + 1)
  PROVE  a \div m = q
<1> DEFINE p == a \div m
<1>1. p \in Nat /\ m * p <= a /\ a < m * (p + 1)
  BY NatQuotient
<1> HIDE DEF p
<1>2. {p + 1, q + 1, m * p, m * q, m * (p + 1), m * (q + 1)} \subseteq Int
  BY <1>1
<1>3. p < q + 1 /\ q < p + 1
  BY <1>1, <1>2, ProductLess
<1> QED
  BY <1>1, <1>3 DEF p

\* A set of numbers that is not empty has a smallest one.
LEMMA LeastNumber ==
  ASSUME NEW S \in SUBSET Nat, S # {}
  PROVE  \E m \in S : \A k \in S : m <= k
<1>1. PICK n \in S : \A k \in S : ~(<<k, n>> \in OpToRel(<, Nat))
  BY WFMin, NatLessThanWellFounded, Zenon
<1>2. ASSUME NEW k \in S, k < n PROVE FALSE
  BY <1>1, <1>2 DEF OpToRel
<1>3. ASSUME NEW k \in S PROVE n <= k
  BY <1>2
<1> QED
  BY <1>3

\* Induction over the natural numbers, for a set.
LEMMA NatSetInduction ==
  ASSUME NEW S, 0 \in S, \A n \in Nat : n \in S => n + 1 \in S
  PROVE  Nat \subseteq S
<1> DEFINE T == Nat \ S
<1> SUFFICES ASSUME T # {} PROVE FALSE
  OBVIOUS
<1>1. PICK m \in T : \A k \in T : m <= k
  BY LeastNumber
<1>2. m - 1 \in Nat /\ m - 1 \notin T /\ (m - 1) + 1 = m
  BY <1>1
<1> QED
  BY <1>2

\* The same for the numbers up to N.
LEMMA RangeInduction ==
  ASSUME NEW S, NEW N \in Nat, 0 \in S, \A n \in 0..(N - 1) : n \in S => n + 1 \in S
  PROVE  0..N \subseteq S
<1> DEFINE T == {n \in Nat : n <= N => n \in S}
<1>1. 0 \in T
  OBVIOUS
<1>2. ASSUME NEW n \in Nat, n \in T PROVE n + 1 \in T
  BY <1>2
<1> HIDE DEF T
<1>3. Nat \subseteq T
  BY <1>1, <1>2, NatSetInduction
<1> QED
  BY <1>3 DEF T

-----------------------------------------------------------------------------
(* The recursive functions                                                 *)

\* g is made from c by N turns of F.
Turns(g, V, c, F, N) ==
  /\ g \in [0..N -> V] /\ g[0] = c
  /\ \A n \in 1..N : g[n] = F[n][g[n - 1]]

\* There is such a function.
LEMMA TurnsExist ==
  ASSUME NEW V, NEW c \in V, NEW N \in Nat, NEW F \in [1..N -> [V -> V]]
  PROVE  \E g : Turns(g, V, c, F, N)
<1> DEFINE S == {m \in 0..N : \E g : Turns(g, V, c, F, m)}
<1>1. 0 \in S
  <2>1. Turns([n \in 0..0 |-> c], V, c, F, 0)
    BY DEF Turns
  <2> QED
    BY <2>1
<1>2. ASSUME NEW m \in 0..(N - 1), m \in S PROVE m + 1 \in S
  <2>1. PICK g : Turns(g, V, c, F, m)
    BY <1>2
  <2>2. g \in [0..m -> V] /\ g[0] = c /\ \A n \in 1..m : g[n] = F[n][g[n - 1]]
    BY <2>1 DEF Turns
  <2> DEFINE v == F[m + 1][g[m]]
             h == [n \in 0..(m + 1) |-> IF n <= m THEN g[n] ELSE v]
  <2>3. v \in V
    <3>1. g[m] \in V /\ m + 1 \in 1..N
      BY <2>2
    <3> QED
      BY <3>1
  <2>4. ASSUME NEW n \in 1..(m + 1) PROVE h[n] = F[n][h[n - 1]]
    <3>1. CASE n <= m
      <4>1. n \in 1..m /\ n - 1 \in 0..m /\ n \in 0..(m + 1) /\ n - 1 \in 0..(m + 1)
        BY <3>1
      <4>2. h[n] = g[n] /\ h[n - 1] = g[n - 1]
        BY <3>1, <4>1
      <4> QED
        BY <2>2, <4>1, <4>2
    <3>2. CASE n = m + 1
      <4>1. n - 1 = m /\ n \in 0..(m + 1) /\ m \in 0..(m + 1) /\ ~(n <= m)
        BY <3>2
      <4>2. h[n] = v /\ h[m] = g[m]
        BY <4>1
      <4> QED
        BY <3>2, <4>1, <4>2
    <3> QED
      BY <3>1, <3>2
  <2>5. h \in [0..(m + 1) -> V] /\ h[0] = c
    <3> HIDE DEF v
    <3> QED
      BY <2>2, <2>3
  <2>6. Turns(h, V, c, F, m + 1)
    <3> HIDE DEF h
    <3> QED
      BY <2>4, <2>5 DEF Turns
  <2> QED
    BY <2>6
<1> HIDE DEF S
<1>3. 0..N \subseteq S
  BY <1>1, <1>2, RangeInduction
<1> QED
  BY <1>3 DEF S

\* Powers of two.
LEMMA PowerTurns ==
  /\ PowerOf2 \in [0..MAD_F_FRACBITS -> Nat] /\ PowerOf2[0] = 1
  /\ \A n \in 1..MAD_F_FRACBITS : PowerOf2[n] = 2 * PowerOf2[n - 1]
<1> DEFINE N == MAD_F_FRACBITS
           F == [n \in 1..N |-> [v \in Nat |-> 2 * v]]
           Is(g) == g = [n \in 0..N |-> IF n = 0 THEN 1 ELSE 2 * g[n - 1]]
<1>1. N \in Nat
  BY DecodersAssumption
<1> HIDE DEF N
<1>2. F \in [1..N -> [Nat -> Nat]]
  OBVIOUS
<1>3. \A n \in 1..N, v \in Nat : F[n][v] = 2 * v
  OBVIOUS
<1> HIDE DEF F
<1>4. PICK g : Turns(g, Nat, 1, F, N)
  BY <1>1, <1>2, TurnsExist
<1>5. Is(g)
  <2>1. ASSUME NEW n \in 0..N PROVE g[n] = IF n = 0 THEN 1 ELSE 2 * g[n - 1]
    <3>1. CASE n = 0
      BY <1>4, <3>1 DEF Turns
    <3>2. CASE n # 0
      <4>1. n \in 1..N /\ n - 1 \in 0..N
        BY <1>1, <3>2
      <4>2. g[n] = F[n][g[n - 1]] /\ g[n - 1] \in Nat
        BY <1>4, <4>1 DEF Turns
      <4> QED
        BY <1>3, <3>2, <4>1, <4>2
    <3> QED
      BY <3>1, <3>2
  <2>2. g = [n \in 0..N |-> g[n]]
    BY <1>4 DEF Turns
  <2> QED
    BY <2>1, <2>2
<1>6. PowerOf2 = CHOOSE h : Is(h)
  BY DEF PowerOf2, N
<1>7. Is(PowerOf2)
  <2> HIDE DEF Is
  <2> QED
    BY <1>5, <1>6
<1> DEFINE p == PowerOf2
<1> HIDE DEF p
<1>8. Is(p)
  BY <1>7 DEF p
<1>9. p[0] = 1 /\ DOMAIN p = 0..N /\ p = [n \in 0..N |-> p[n]]
  BY <1>1, <1>8
<1>10. \A n \in 1..N : p[n] = 2 * p[n - 1]
  BY <1>1, <1>8
<1>11. \A n \in 0..N : p[n] \in Nat
  <2> DEFINE S == {n \in 0..N : p[n] \in Nat}
  <2>1. 0 \in S
    BY <1>1, <1>9
  <2>2. ASSUME NEW n \in 0..(N - 1), n \in S PROVE n + 1 \in S
    <3>1. n + 1 \in 1..N /\ n + 1 \in 0..N /\ (n + 1) - 1 = n
      BY <1>1
    <3>2. p[n + 1] = 2 * p[n] /\ p[n] \in Nat
      BY <1>10, <2>2, <3>1
    <3>3. 2 * p[n] \in Nat
      BY <3>2
    <3> QED
      BY <3>1, <3>2, <3>3
  <2> HIDE DEF S
  <2>3. 0..N \subseteq S
    BY <1>1, <2>1, <2>2, RangeInduction
  <2> QED
    BY <2>3 DEF S
<1>12. p \in [0..N -> Nat]
  BY <1>9, <1>11
<1> QED
  BY <1>9, <1>10, <1>12 DEF p, N

\* Where the frames of a file begin.
LEMMA StartTurns ==
  ASSUME file \in Files
  PROVE  /\ Count \in Nat /\ Start \in [1..(Count + 1) -> Nat]
         /\ Start[1] = file.head
         /\ \A k \in 1..Count : Start[k + 1] = Start[k] + file.bytes[k]
<1> DEFINE N == Count
           a == file.head
           w == file.bytes
           F == [n \in 1..N |-> [v \in Nat |-> v + w[n]]]
           Is(g) == g = [k \in 1..(N + 1) |-> IF k = 1 THEN a ELSE g[k - 1] + w[k - 1]]
<1>1. N \in Nat /\ a \in Nat /\ \A n \in 1..N : w[n] \in Nat
  BY DecodersAssumption DEF FileType, Count
<1>2. Start = CHOOSE g : Is(g)
  BY DEF Start
<1> HIDE DEF N, a, w
<1>3. F \in [1..N -> [Nat -> Nat]]
  BY <1>1
<1>4. \A n \in 1..N, v \in Nat : F[n][v] = v + w[n]
  OBVIOUS
<1> HIDE DEF F
<1>5. PICK g : Turns(g, Nat, a, F, N)
  BY <1>1, <1>3, TurnsExist
<1> DEFINE h == [k \in 1..(N + 1) |-> g[k - 1]]
<1>6. ASSUME NEW k \in 1..(N + 1) PROVE h[k] = IF k = 1 THEN a ELSE h[k - 1] + w[k - 1]
  <2>1. CASE k = 1
    <3>1. k - 1 = 0
      BY <2>1
    <3> QED
      BY <1>5, <2>1, <3>1 DEF Turns
  <2>2. CASE k # 1
    <3>1. k - 1 \in 1..N /\ k - 1 \in 1..(N + 1) /\ (k - 1) - 1 \in 0..N
      BY <1>1, <2>2
    <3>2. g[k - 1] = F[k - 1][g[(k - 1) - 1]] /\ g[(k - 1) - 1] \in Nat
      BY <1>5, <3>1 DEF Turns
    <3>3. h[k] = g[k - 1] /\ h[k - 1] = g[(k - 1) - 1]
      BY <3>1
    <3> QED
      BY <1>4, <2>2, <3>1, <3>2, <3>3
  <2> QED
    BY <2>1, <2>2
<1>7. Is(h)
  <2>1. h = [k \in 1..(N + 1) |-> h[k]]
    OBVIOUS
  <2> HIDE DEF h
  <2> QED
    BY <1>6, <2>1
<1>8. Is(Start)
  <2> HIDE DEF Is
  <2> QED
    BY <1>2, <1>7
<1> DEFINE p == Start
<1> HIDE DEF p
<1>9. Is(p)
  BY <1>8 DEF p
<1>10. p[1] = a /\ DOMAIN p = 1..(N + 1) /\ p = [k \in 1..(N + 1) |-> p[k]]
  BY <1>1, <1>9
<1>11. ASSUME NEW k \in 1..N PROVE p[k + 1] = p[k] + w[k]
  <2>1. k + 1 \in 1..(N + 1) /\ k + 1 # 1 /\ (k + 1) - 1 = k
    BY <1>1
  <2> QED
    BY <1>9, <2>1
<1>12. \A n \in 0..N : p[n + 1] \in Nat
  <2> DEFINE S == {n \in 0..N : p[n + 1] \in Nat}
  <2>1. 0 \in S
    BY <1>1, <1>10
  <2>2. ASSUME NEW n \in 0..(N - 1), n \in S PROVE n + 1 \in S
    <3>1. n + 1 \in 1..N /\ n + 1 \in 0..N
      BY <1>1
    <3>2. p[(n + 1) + 1] = p[n + 1] + w[n + 1] /\ p[n + 1] \in Nat /\ w[n + 1] \in Nat
      BY <1>1, <1>11, <2>2, <3>1
    <3> QED
      BY <3>1, <3>2
  <2> HIDE DEF S
  <2>3. 0..N \subseteq S
    BY <1>1, <2>1, <2>2, RangeInduction
  <2> QED
    BY <2>3 DEF S
<1>13. \A k \in 1..(N + 1) : p[k] \in Nat
  <2> SUFFICES ASSUME NEW k \in 1..(N + 1) PROVE p[k] \in Nat
    OBVIOUS
  <2>1. k - 1 \in 0..N /\ (k - 1) + 1 = k
    BY <1>1
  <2> QED
    BY <1>12, <2>1
<1>14. p \in [1..(N + 1) -> Nat]
  BY <1>10, <1>13
<1> QED
  BY <1>1, <1>10, <1>11, <1>14 DEF p, N, a, w

\* The tags that are looked for, among the first n.
TagsUpTo(found, tags, keys) ==
  found = [n \in 0..Len(tags) |->
             IF n = 0 THEN <<>>
             ELSE IF tags[n].key \in keys THEN Append(found[n - 1], tags[n]) ELSE found[n - 1]]

\* TagsOf() is what such a function finds in all tags.
LEMMA TagsTurns ==
  ASSUME NEW tags \in Tags, NEW keys
  PROVE  \E found : /\ TagsOf(tags, keys) = found[Len(tags)]
                    /\ found[0] = <<>>
                    /\ \A n \in 0..Len(tags) : found[n] \in Tags
                    /\ \A n \in 1..Len(tags) :
                         found[n] = IF tags[n].key \in keys THEN Append(found[n - 1], tags[n])
                                                            ELSE found[n - 1]
<1> DEFINE N == Len(tags)
           F == [n \in 1..N |-> [v \in Tags |-> IF tags[n].key \in keys THEN Append(v, tags[n]) ELSE v]]
<1>1. N \in Nat /\ <<>> \in Tags
  BY DEF Tags
<1>2. \A n \in 1..N, v \in Tags : Append(v, tags[n]) \in Tags
  <2> DEFINE R == [key : Keys \cup {NoTag}, value : Int]
  <2>1. Tags = Seq(R)
    BY DEF Tags
  <2> HIDE DEF R
  <2> QED
    BY <2>1
<1>3. F \in [1..N -> [Tags -> Tags]]
  BY <1>2
<1>4. \A n \in 1..N, v \in Tags : F[n][v] = IF tags[n].key \in keys THEN Append(v, tags[n]) ELSE v
  OBVIOUS
<1> HIDE DEF F, N
<1>5. PICK g : Turns(g, Tags, <<>>, F, N)
  BY <1>1, <1>3, TurnsExist
<1>6. TagsUpTo(g, tags, keys)
  <2>1. ASSUME NEW n \in 0..N
        PROVE  g[n] = IF n = 0 THEN <<>>
                      ELSE IF tags[n].key \in keys THEN Append(g[n - 1], tags[n]) ELSE g[n - 1]
    <3>1. CASE n = 0
      BY <1>5, <3>1 DEF Turns
    <3>2. CASE n # 0
      <4>1. n \in 1..N /\ n - 1 \in 0..N
        BY <1>1, <3>2
      <4>2. g[n] = F[n][g[n - 1]] /\ g[n - 1] \in Tags
        BY <1>5, <4>1 DEF Turns
      <4> QED
        BY <1>4, <3>2, <4>1, <4>2
    <3> QED
      BY <3>1, <3>2
  <2>2. g = [n \in 0..N |-> g[n]]
    BY <1>5 DEF Turns
  <2> QED
    BY <2>1, <2>2 DEF TagsUpTo, N
<1> DEFINE p == CHOOSE found : TagsUpTo(found, tags, keys)
<1>7. TagsOf(tags, keys) = p[Len(tags)]
  BY DEF TagsOf, TagsUpTo
<1>8. TagsUpTo(p, tags, keys)
  BY <1>6
<1> HIDE DEF p
<1>9. \A n \in 1..N : p[n] = IF tags[n].key \in keys THEN Append(p[n - 1], tags[n]) ELSE p[n - 1]
  <2> SUFFICES ASSUME NEW n \in 1..N
               PROVE  p[n] = IF tags[n].key \in keys THEN Append(p[n - 1], tags[n]) ELSE p[n - 1]
    OBVIOUS
  <2>1. n \in 0..N /\ n # 0
    BY <1>1
  <2> QED
    BY <1>8, <2>1 DEF TagsUpTo, N
<1>10. p[0] = <<>>
  <2>1. 0 \in 0..N
    BY <1>1
  <2> QED
    BY <1>8, <2>1 DEF TagsUpTo, N
<1>11. \A n \in 0..N : p[n] \in Tags
  <2> DEFINE S == {n \in 0..N : p[n] \in Tags}
  <2>1. 0 \in S
    BY <1>1, <1>10
  <2>2. ASSUME NEW n \in 0..(N - 1), n \in S PROVE n + 1 \in S
    <3>1. n + 1 \in 1..N /\ n + 1 \in 0..N /\ (n + 1) - 1 = n
      BY <1>1
    <3>2. p[n + 1] = IF tags[n + 1].key \in keys THEN Append(p[n], tags[n + 1]) ELSE p[n]
      BY <1>9, <3>1
    <3>3. Append(p[n], tags[n + 1]) \in Tags /\ p[n] \in Tags
      BY <1>2, <2>2, <3>1
    <3> QED
      BY <3>1, <3>2, <3>3
  <2> HIDE DEF S
  <2>3. 0..N \subseteq S
    BY <1>1, <2>1, <2>2, RangeInduction
  <2> QED
    BY <2>3 DEF S
<1> QED
  BY <1>7, <1>9, <1>11, <1>10, Zenon DEF N

-----------------------------------------------------------------------------
(* Tags                                                                    *)

\* The m-th tag is the first that is looked for.
First(tags, keys, m) == tags[m].key \in keys /\ \A j \in 1..(m - 1) : tags[j].key \notin keys

\* What has been found after n tags.
Found(f, tags, keys, n) ==
  /\ \A i \in 1..Len(f) : f[i].key \in keys
  /\ (\A m \in 1..n : tags[m].key \notin keys) => f = <<>>
  /\ \A m \in 1..n : First(tags, keys, m) => f # <<>> /\ f[1] = tags[m]

\* One more tag.
LEMMA FoundNext ==
  ASSUME NEW tags \in Tags, NEW keys, NEW n \in 0..(Len(tags) - 1), NEW f \in Tags,
         Found(f, tags, keys, n)
  PROVE  Found(IF tags[n + 1].key \in keys THEN Append(f, tags[n + 1]) ELSE f, tags, keys, n + 1)
<1> DEFINE e == tags[n + 1]
           R == [key : Keys \cup {NoTag}, value : Int]
<1>0. f \in Seq(R) /\ tags \in Seq(R)
  BY DEF Tags
<1> HIDE DEF R
<1>1. f \in Seq(R) /\ e \in R /\ n + 1 \in 1..(n + 1) /\ 1..n \subseteq 1..(n + 1)
  BY <1>0
<1>2. CASE e.key \in keys
  <2> DEFINE g == Append(f, e)
  <2>1. g # <<>> /\ Len(g) = Len(f) + 1 /\ g[Len(f) + 1] = e /\ \A i \in 1..Len(f) : g[i] = f[i]
    BY <1>1
  <2> HIDE DEF e
  <2>2. \A i \in 1..Len(g) : g[i].key \in keys
    <3> SUFFICES ASSUME NEW i \in 1..Len(g) PROVE g[i].key \in keys
      OBVIOUS
    <3> HIDE DEF g
    <3>1. Len(f) \in Nat
      BY <1>1
    <3>2. CASE i \in 1..Len(f)
      BY <2>1, <3>2 DEF Found
    <3>3. CASE i = Len(f) + 1
      BY <1>2, <2>1, <3>3
    <3> QED
      BY <2>1, <3>1, <3>2, <3>3
  <2>3. ASSUME NEW m \in 1..(n + 1), First(tags, keys, m) PROVE g[1] = tags[m]
    <3>1. CASE m \in 1..n
      <4>1. f # <<>> /\ f[1] = tags[m]
        BY <2>3, <3>1 DEF Found
      <4>2. 1 \in 1..Len(f)
        BY <1>1, <4>1
      <4> HIDE DEF g
      <4> QED
        BY <2>1, <4>1, <4>2
    <3>2. CASE m = n + 1
      <4>1. \A j \in 1..n : tags[j].key \notin keys
        BY <2>3, <3>2 DEF First
      <4>2. f = <<>>
        BY <4>1 DEF Found
      <4>3. Len(f) + 1 = 1
        BY <4>2
      <4>4. g[1] = e
        BY <2>1, <4>3
      <4> QED
        BY <3>2, <4>4 DEF e
    <3> QED
      BY <3>1, <3>2
  <2>4. ~(\A m \in 1..(n + 1) : tags[m].key \notin keys)
    BY <1>1, <1>2 DEF e
  <2> HIDE DEF g
  <2>5. Found(g, tags, keys, n + 1)
    BY <2>1, <2>2, <2>3, <2>4 DEF Found
  <2> QED
    BY <1>2, <2>5 DEF g, e
<1>3. CASE e.key \notin keys
  <2>1. \A m \in 1..(n + 1) : First(tags, keys, m) => m \in 1..n
    BY <1>3 DEF First
  <2>2. Found(f, tags, keys, n + 1)
    <3> HIDE DEF e
    <3> QED
      BY <1>1, <2>1 DEF Found
  <2> QED
    BY <1>3, <2>2
<1> QED
  BY <1>2, <1>3

\* TagsOf keeps only what is looked for, and finds the first if there is one.
LEMMA TagsFound ==
  ASSUME NEW tags \in Tags, NEW keys
  PROVE  TagsOf(tags, keys) \in Tags /\ Found(TagsOf(tags, keys), tags, keys, Len(tags))
<1> DEFINE N == Len(tags)
<1>1. PICK found : /\ TagsOf(tags, keys) = found[N]
                   /\ found[0] = <<>>
                   /\ \A n \in 0..N : found[n] \in Tags
                   /\ \A n \in 1..N : found[n] = IF tags[n].key \in keys
                                                 THEN Append(found[n - 1], tags[n]) ELSE found[n - 1]
  BY TagsTurns
<1>2. N \in Nat
  BY DEF Tags
<1> DEFINE S == {n \in 0..N : Found(found[n], tags, keys, n)}
<1>3. 0 \in S
  <2>1. Found(<<>>, tags, keys, 0)
    BY DEF Found
  <2> QED
    BY <1>1, <1>2, <2>1
<1>4. ASSUME NEW n \in 0..(N - 1), n \in S PROVE n + 1 \in S
  <2>1. n + 1 \in 1..N /\ n + 1 \in 0..N /\ n \in 0..N /\ (n + 1) - 1 = n
    BY <1>2
  <2>2. found[n + 1] = IF tags[n + 1].key \in keys THEN Append(found[n], tags[n + 1]) ELSE found[n]
    BY <1>1, <2>1
  <2>3. found[n] \in Tags /\ Found(found[n], tags, keys, n)
    BY <1>1, <1>4, <2>1
  <2>4. Found(found[n + 1], tags, keys, n + 1)
    BY <2>2, <2>3, FoundNext
  <2> QED
    BY <2>1, <2>4
<1> HIDE DEF S
<1>5. 0..N \subseteq S
  BY <1>2, <1>3, <1>4, RangeInduction
<1>6. N \in 0..N
  BY <1>2
<1> QED
  BY <1>1, <1>5, <1>6 DEF S

NoKeys(tags, keys) == \A i \in 1..Len(tags) : tags[i].key \notin keys
OnlyKeys(tags, keys) == \A i \in 1..Len(tags) : tags[i].key \in keys

Joined(tags, before, part, after) == tags = (before \o part) \o after

\* What is behind tags that are not looked for is found as it was.
LEMMA FoundBehind ==
  ASSUME NEW before \in Tags, NEW part \in Tags, NEW after \in Tags, NEW keys,
         NoKeys(before, keys), OnlyKeys(part, keys), NoKeys(after, keys),
         NEW tags \in Tags, Joined(tags, before, part, after)
  PROVE  /\ part = <<>> => TagsOf(tags, keys) = <<>>
         /\ part # <<>> => TagsOf(tags, keys) # <<>> /\ TagsOf(tags, keys)[1] = part[1]
<1> DEFINE R == [key : Keys \cup {NoTag}, value : Int]
           b == Len(before)
           p == Len(part)
           a == Len(after)
           T == TagsOf(tags, keys)
<1>1. before \in Seq(R) /\ part \in Seq(R) /\ after \in Seq(R)
  BY DEF Tags
<1>2. Found(T, tags, keys, Len(tags))
  BY TagsFound
<1> HIDE DEF R, T
<1>3. b \in Nat /\ p \in Nat /\ a \in Nat
  BY <1>1
<1>4. Len(tags) = (b + p) + a
  BY <1>1 DEF Joined
<1>5. ASSUME NEW i \in 1..b PROVE tags[i] = before[i]
  BY <1>1 DEF Joined
<1>6. ASSUME NEW i \in 1..p PROVE tags[b + i] = part[i]
  BY <1>1 DEF Joined
<1>7. ASSUME NEW i \in 1..a PROVE tags[(b + p) + i] = after[i]
  BY <1>1 DEF Joined
<1>8. CASE part = <<>>
  <2>1. p = 0
    BY <1>8
  <2> HIDE DEF b, p, a
  <2>2. ASSUME NEW m \in 1..Len(tags) PROVE tags[m].key \notin keys
    <3>1. CASE m \in 1..b
      BY <1>5, <3>1 DEF b, NoKeys
    <3>2. CASE m \notin 1..b
      <4>1. PICK i \in 1..a : m = (b + p) + i
        <5>1. m - (b + p) \in 1..a /\ m = (b + p) + (m - (b + p))
          BY <1>3, <1>4, <2>1, <3>2
        <5> QED
          BY <5>1
      <4> QED
        BY <1>7, <4>1 DEF a, NoKeys
    <3> QED
      BY <3>1, <3>2
  <2>3. T = <<>>
    BY <1>2, <2>2 DEF Found
  <2> QED
    BY <1>8, <2>3 DEF T
<1>9. CASE part # <<>>
  <2>1. 1 \in 1..p
    BY <1>1, <1>9
  <2> HIDE DEF b, p, a
  <2>2. b + 1 \in 1..Len(tags) /\ (b + 1) - 1 = b
    BY <1>3, <1>4, <2>1
  <2>3. tags[b + 1] = part[1] /\ part[1].key \in keys
    BY <1>6, <2>1 DEF p, OnlyKeys
  <2>4. First(tags, keys, b + 1)
    BY <1>5, <2>2, <2>3 DEF First, b, NoKeys
  <2>5. T # <<>> /\ T[1] = tags[b + 1]
    BY <1>2, <2>2, <2>4 DEF Found
  <2> QED
    BY <1>9, <2>3, <2>5 DEF T
<1> QED
  BY <1>8, <1>9

\* Two lists of tags give a song the same length.
SameLength(s, t) ==
  /\ LengthTags(s) = <<>> <=> LengthTags(t) = <<>>
  /\ LengthTags(t) # <<>> => LengthTags(s)[1] = LengthTags(t)[1]

\* The .info file that is saved gives a song the length it had without.
LEMMA SavedTags ==
  ASSUME NEW t \in Tags
  PROVE  save_meta_data(t) \in Tags /\ SameLength(save_meta_data(t), t)
<1> DEFINE R == [key : Keys \cup {NoTag}, value : Int]
           A == Values(t, "artist")
           L == Values(t, "length")
           D == Values(t, "duration")
           s == save_meta_data(t)
<1>1. A \in Tags /\ L \in Tags /\ D \in Tags
  BY TagsFound DEF Values
<1>2. (\A i \in 1..Len(A) : A[i].key \in {"artist"}) /\ (\A i \in 1..Len(L) : L[i].key \in {"length"})
        /\ \A i \in 1..Len(D) : D[i].key \in {"duration"}
  BY TagsFound DEF Values, Found
<1>3. s = A \o L \o D
  BY DEF save_meta_data
<1>4. LengthTags(s) = IF Values(s, "duration") # <<>> THEN Values(s, "duration") ELSE Values(s, "length")
  BY DEF LengthTags
<1>5. LengthTags(t) = IF D # <<>> THEN D ELSE L
  BY DEF LengthTags
<1> HIDE DEF A, L, D, s
<1>6. s = (A \o L) \o D /\ A \o L \in Tags /\ s \in Tags /\ <<>> \in Tags /\ s = (s \o <<>>)
  <2>1. A \in Seq(R) /\ L \in Seq(R) /\ D \in Seq(R) /\ Tags = Seq(R)
    BY <1>1 DEF Tags
  <2> HIDE DEF R
  <2> QED
    BY <1>3, <2>1
<1>7. \A i \in 1..Len(A \o L) : (A \o L)[i].key \notin {"duration"}
  <2>1. A \in Seq(R) /\ L \in Seq(R)
    BY <1>1 DEF Tags
  <2> HIDE DEF R
  <2> SUFFICES ASSUME NEW i \in 1..Len(A \o L) PROVE (A \o L)[i].key \notin {"duration"}
    OBVIOUS
  <2>2. CASE i \in 1..Len(A)
    <3>1. (A \o L)[i] = A[i]
      BY <2>1, <2>2
    <3> QED
      BY <1>2, <2>2, <3>1
  <2>3. CASE i \notin 1..Len(A)
    <3>1. (A \o L)[i] = L[i - Len(A)] /\ i - Len(A) \in 1..Len(L)
      BY <2>1, <2>3
    <3> QED
      BY <1>2, <3>1
  <2> QED
    BY <2>2, <2>3
<1>8. /\ D = <<>> => Values(s, "duration") = <<>>
      /\ D # <<>> => Values(s, "duration") # <<>> /\ Values(s, "duration")[1] = D[1]
  <2>1. s = ((A \o L) \o D) \o <<>> /\ \A i \in 1..Len(<<>>) : <<>>[i].key \notin {"duration"}
    BY <1>6
  <2> DEFINE B == A \o L
             E == <<>>
             K == {"duration"}
  <2>2. /\ B \in Tags /\ E \in Tags /\ Joined(s, B, D, E)
        /\ NoKeys(B, K) /\ OnlyKeys(D, K) /\ NoKeys(E, K)
    BY <1>2, <1>6, <1>7, <2>1 DEF NoKeys, OnlyKeys, Joined
  <2>3. Values(s, "duration") = TagsOf(s, K)
    BY DEF Values
  <2> HIDE DEF B, E, K
  <2>4. /\ D = <<>> => TagsOf(s, K) = <<>>
        /\ D # <<>> => TagsOf(s, K) # <<>> /\ TagsOf(s, K)[1] = D[1]
    BY <1>1, <1>6, <2>2, FoundBehind
  <2> QED
    BY <2>3, <2>4
<1>9. /\ L = <<>> => Values(s, "length") = <<>>
      /\ L # <<>> => Values(s, "length") # <<>> /\ Values(s, "length")[1] = L[1]
  <2>1. (\A i \in 1..Len(A) : A[i].key \notin {"length"}) /\ \A i \in 1..Len(D) : D[i].key \notin {"length"}
    BY <1>2
  <2> DEFINE K == {"length"}
  <2>2. NoKeys(A, K) /\ OnlyKeys(L, K) /\ NoKeys(D, K) /\ Joined(s, A, L, D)
    BY <1>2, <1>6, <2>1 DEF NoKeys, OnlyKeys, Joined
  <2>3. Values(s, "length") = TagsOf(s, K)
    BY DEF Values
  <2> HIDE DEF K
  <2>4. /\ L = <<>> => TagsOf(s, K) = <<>>
        /\ L # <<>> => TagsOf(s, K) # <<>> /\ TagsOf(s, K)[1] = L[1]
    BY <1>1, <1>6, <2>2, FoundBehind
  <2> QED
    BY <2>3, <2>4
<1>10. SameLength(s, t)
  BY <1>4, <1>5, <1>8, <1>9 DEF SameLength
<1> QED
  BY <1>6, <1>10 DEF s

-----------------------------------------------------------------------------
(* Time                                                                    *)

Streams == [at : Nat, timer : Nat]

\* What the proofs use of the assumption on the constants.
LEMMA Constants ==
  /\ Milli \in Nat \ {0} /\ Rate \in Nat \ {0} /\ FrameSamples \in Nat \ {0}
  /\ NoData \notin Streams
<1>1. Milli \in Nat \ {0} /\ Rate \in Nat \ {0} /\ FrameSamples \in Nat \ {0}
  BY DecodersAssumption
<1>2. Streams \subseteq [at : Int, timer : Int]
  BY DEF Streams
<1> QED
  BY <1>1, <1>2, DecodersAssumption

\* The time of a frame, on the clock of the mp3 decoder and in units of time rounded down.
Ticks == FrameSamples * Milli
LEMMA FrameClock ==
  /\ Ticks \in Nat \ {0}
  /\ FrameTime \in Nat /\ Rate * FrameTime <= Ticks /\ Ticks < Rate * (FrameTime + 1)
<1>1. FrameSamples \in Nat \ {0} /\ Milli \in Nat \ {0} /\ Rate \in Nat \ {0}
  BY Constants
<1>2. Ticks \in Nat /\ Ticks # 0
  BY <1>1 DEF Ticks
<1>3. FrameTime = Ticks \div Rate
  BY DEF FrameTime, Ticks
<1> QED
  BY <1>1, <1>2, <1>3, NatQuotient

\* The time of a sample: rounded down to a unit.
LEMMA SampleTime ==
  ASSUME NEW n \in Nat
  PROVE  TimeOf(n) \in Nat /\ Rate * TimeOf(n) <= n * Milli /\ n * Milli < Rate * (TimeOf(n) + 1)
<1>1. n * Milli \in Nat
  BY Constants
<1> QED
  BY <1>1, Constants, NatQuotient DEF TimeOf

\* An earlier sample has no later time.
LEMMA TimeOrder ==
  ASSUME NEW m \in Nat, NEW n \in Nat, m <= n
  PROVE  TimeOf(m) <= TimeOf(n)
<1> DEFINE s == TimeOf(m)
           t == TimeOf(n)
<1>1. s \in Nat /\ Rate * s <= m * Milli
  BY SampleTime
<1>2. t \in Nat /\ n * Milli < Rate * (t + 1)
  BY SampleTime
<1> HIDE DEF s, t
<1>3. Rate \in Nat \ {0} /\ Milli \in Nat
  BY Constants
<1>4. m * Milli <= n * Milli
  <2>1. Milli * m <= Milli * n
    BY <1>3, ProductLeq
  <2> QED
    BY <1>3, <2>1
<1>5. Rate * s < Rate * (t + 1)
  <2>1. {Rate * s, m * Milli, n * Milli, Rate * (t + 1)} \subseteq Int
    BY <1>1, <1>2, <1>3
  <2> QED
    BY <1>1, <1>2, <1>4, <2>1
<1>6. s < t + 1
  <2>1. s \in Int /\ t + 1 \in Int
    BY <1>1, <1>2
  <2> QED
    BY <1>3, <1>5, <2>1, ProductLess
<1> QED
  BY <1>1, <1>2, <1>6 DEF s, t

-----------------------------------------------------------------------------
(* Seeking and decoding                                                    *)

\* Whether frame k of a song of type t begins at or reaches behind the place of the stream.
Ahead(t, k, at) == IF t = "mp3" THEN Start[k] >= at ELSE k * FrameSamples > at

\* The library goes on with the first frame that is ahead.
LEMMA NextIsFirst ==
  ASSUME file \in Files
  PROVE  /\ NextFrame \in 1..(Count + 1)
         /\ \A k \in 1..Count : Ahead(song_type, k, data.at) => NextFrame <= k
         /\ NextFrame <= Count => Ahead(song_type, NextFrame, data.at)
<1> DEFINE A == {k \in 1..Count : Ahead(song_type, k, data.at)}
           m == CHOOSE k \in A : \A j \in A : k <= j
<1>1. Count \in Nat
  BY StartTurns
<1>2. NextFrame = IF A = {} THEN Count + 1 ELSE m
  BY DEF NextFrame, Ahead
<1>3. CASE A = {}
  BY <1>1, <1>2, <1>3
<1>4. CASE A # {}
  <2>1. A \in SUBSET Nat
    BY <1>1
  <2>2. \E k \in A : \A j \in A : k <= j
    <3> HIDE DEF A
    <3> QED
      BY <1>4, <2>1, LeastNumber
  <2>3. m \in A /\ \A j \in A : m <= j
    <3> HIDE DEF A
    <3> QED
      BY <2>2
  <2> HIDE DEF m
  <2> QED
    BY <1>1, <1>2, <1>4, <2>3
<1> QED
  BY <1>3, <1>4

\* The size of a file and its length in samples are numbers.
LEMMA FileNumbers ==
  ASSUME file \in Files
  PROVE  Count \in Nat /\ Size \in Nat /\ Total \in Nat /\ Length \in Nat
<1>1. Count \in Nat /\ Start \in [1..(Count + 1) -> Nat] /\ Count + 1 \in 1..(Count + 1)
  BY StartTurns
<1>2. FrameSamples \in Nat
  BY Constants
<1>3. \A x, y \in Nat : x * y \in Nat
  OBVIOUS
<1>4. Size \in Nat
  BY <1>1 DEF Size
<1>5. Total \in Nat
  BY <1>1, <1>2, <1>3 DEF Total
<1>6. Length \in Nat
  BY <1>5, SampleTime DEF Length
<1> QED
  BY <1>1, <1>4, <1>5, <1>6

\* A seek leaves a stream somewhere.
LEMMA SeekType ==
  ASSUME file \in Files, song_type \in Known, play_length \in Int, NEW d \in Streams, NEW t \in Nat
  PROVE  seek(d, t) \in Streams
<1>1. Size \in Nat /\ Total \in Nat
  BY FileNumbers
<1>2. ASSUME NEW n \in Nat, NEW u \in Nat PROVE [at |-> n, timer |-> u] \in Streams
  BY DEF Streams
<1>3. CASE song_type = "mp3"
  <2>1. seek(d, t) = mp3_seek(d, t, play_length)
    BY <1>3 DEF seek
  <2>2. CASE t = 0
    <3>1. t * Rate \in Nat
      BY Constants, NatProduct
    <3> QED
      BY <1>2, <2>1, <2>2, <3>1 DEF mp3_seek
  <2>3. CASE t # 0 /\ play_length <= 0
    BY <2>1, <2>3 DEF mp3_seek
  <2>4. CASE t # 0 /\ ~(play_length <= 0)
    <3>1. (Size * t) \div play_length \in Nat
      <4>1. Size * t \in Nat /\ play_length \in Nat \ {0}
        BY <1>1, <2>4, NatProduct
      <4> QED
        BY <4>1, NatQuotient
    <3>2. t * Rate \in Nat
      BY Constants, NatProduct
    <3> QED
      BY <1>2, <2>1, <2>4, <3>1, <3>2 DEF mp3_seek
  <2> QED
    BY <2>2, <2>3, <2>4
<1>4. CASE song_type = "ogg"
  <2>1. seek(d, t) = ogg_seek(d, t)
    BY <1>4 DEF seek
  <2>2. (t * Rate) \div Milli \in Nat
    <3>1. t * Rate \in Nat /\ Milli \in Nat \ {0}
      BY Constants, NatProduct
    <3> QED
      BY <3>1, NatQuotient
  <2> QED
    BY <1>2, <2>1, <2>2 DEF ogg_seek
<1>5. CASE song_type = "flac"
  <2>1. seek(d, t) = flac_seek(d, t)
    BY <1>5 DEF seek
  <2>2. t * (Rate \div Milli) \in Nat
    <3>1. Rate \div Milli \in Nat
      BY Constants, NatQuotient
    <3> QED
      BY <3>1, NatProduct
  <2> QED
    BY <1>2, <2>1, <2>2 DEF flac_seek
<1> QED
  BY <1>3, <1>4, <1>5 DEF Known

\* What decoding frame k returns.
Results == [at : Nat, timer : Nat, pcm_size : {-3, -1, 2}, position : Nat]

\* Decoding a frame has such a result.
LEMMA DecodedType ==
  ASSUME file \in Files, song_type \in Known, data \in Streams, NEW k \in 1..Count
  PROVE  decoded(k) \in Results
<1>1. Count \in Nat /\ Start \in [1..(Count + 1) -> Nat] /\ k \in Nat /\ k + 1 \in 1..(Count + 1)
  BY StartTurns
<1>2. data.at \in Nat /\ data.timer \in Nat
  BY DEF Streams
<1>3. k * FrameSamples \in Nat
  BY <1>1, Constants, NatProduct
<1>4. TimeOf(k * FrameSamples) \in Nat /\ TimeOf(data.at) \in Nat
  BY <1>2, <1>3, SampleTime
<1>5. CASE song_type = "mp3"
  <2> DEFINE clock == IF k \notin file.bad THEN data.timer + Ticks ELSE data.timer
  <2>1. clock \in Nat
    BY <1>2, FrameClock
  <2>2. decoded(k) = [at |-> Start[k + 1], timer |-> clock,
                      pcm_size |-> IF k \notin file.bad THEN 2 ELSE -1, position |-> clock \div Rate]
    BY <1>5 DEF decoded, mp3_decode_frame, Ticks
  <2> HIDE DEF clock
  <2>3. clock \div Rate \in Nat
    BY <2>1, Constants, NatQuotient
  <2> QED
    BY <1>1, <2>1, <2>2, <2>3 DEF Results
<1>6. CASE song_type = "ogg"
  BY <1>3, <1>4, <1>6 DEF decoded, ogg_decode_frame, Results
<1>7. CASE song_type = "flac"
  BY <1>3, <1>4, <1>7 DEF decoded, flac_decode_frame, Results
<1> QED
  BY <1>5, <1>6, <1>7 DEF Known

-----------------------------------------------------------------------------
(* Types and resources                                                     *)

\* The tags of a song, and the length they give.
LEMMA TagsType ==
  ASSUME file \in Files, info \in Tags \cup {NoTag}
  PROVE  /\ get_song_type \in Types
         /\ \A type \in Types : load_meta_data(type) \in Tags
         /\ \A tags \in Tags : LengthTags(tags) \in Tags
         /\ \A tags \in Tags : LengthTags(tags) # <<>> => LengthTags(tags)[1].value \in Int
<1>1. file.tags \in Tags /\ file.ext \in Types /\ file.content \in Types
  BY DecodersAssumption DEF FileType
<1>2. <<>> \in Tags
  BY DEF Tags
<1>3. \A keys : TagsOf(file.tags, keys) \in Tags
  BY <1>1, TagsFound
<1>4. get_song_type \in Types
  BY <1>1 DEF get_song_type
<1>5. ASSUME NEW type \in Types PROVE load_meta_data(type) \in Tags
  BY <1>2, <1>3 DEF load_meta_data, mp3_load_meta, ogg_load_meta, flac_load_meta,
                    flac_metadata_callback_load_meta, Types, Known
<1>6. ASSUME NEW tags \in Tags PROVE LengthTags(tags) \in Tags
  BY TagsFound DEF LengthTags, Values
<1>7. ASSUME NEW tags \in Tags, tags # <<>> PROVE tags[1].value \in Int
  <2> DEFINE R == [key : Keys \cup {NoTag}, value : Int]
  <2>1. tags \in Seq(R)
    BY DEF Tags
  <2>2. \A r \in R : r.value \in Int
    OBVIOUS
  <2> HIDE DEF R
  <2>3. tags[1] \in R
    BY <1>7, <2>1
  <2> QED
    BY <2>2, <2>3
<1> QED
  BY <1>4, <1>5, <1>6, <1>7

\* What a song is, once it is loaded; and only an open one has a frame.
LoadInv ==
  /\ song_type \in {NotLoaded, get_song_type}
  /\ data # NoData => song_type \in Known
  /\ data = NoData => frame = NoFrame

\* What an open decoder may hold, and that one that is not open holds nothing but a lost comment.
MayHold(type) == opened(type) \cup (IF type = "ogg" THEN {} ELSE {"pcm"})
Lost(type) == IF type = "flac" THEN LostComment ELSE {}
HeldInv ==
  /\ data = NoData => held \subseteq Lost(song_type)
  /\ data # NoData => held \subseteq MayHold(song_type) \cup Lost(song_type)

BaseInv == TypeOK /\ LoadInv /\ HeldInv

\* It holds at the beginning.
LEMMA InitBase == Init => BaseInv
<1> SUFFICES ASSUME Init PROVE BaseInv
  OBVIOUS
<1>1. TypeOK
  <2>1. frame.pcm_size = 0 /\ frame.position = 0
    BY DEF Init, NoFrame
  <2>2. info \in Tags \cup {NoTag}
    BY DecodersAssumption DEF Init
  <2>3. skipped \subseteq Nat
    BY DEF Init
  <2>4. file \in Files /\ song_type \in Types \cup {NotLoaded} /\ play_length \in Int
    BY DEF Init, NoLength
  <2>5. data \in [at : Nat, timer : Nat] \cup {NoData} /\ held = {} /\ status = "running"
    BY DEF Init
  <2>6. frame.pcm_size \in {-3, -2, -1, 0, 2} /\ {frame.position, current_position, heard} \subseteq Nat
    BY <2>1 DEF Init
  <2> QED
    BY <2>2, <2>3, <2>4, <2>5, <2>6 DEF TypeOK
<1>2. LoadInv /\ HeldInv
  BY DEF Init, LoadInv, HeldInv
<1> QED
  BY <1>1, <1>2 DEF BaseInv

\* Closing gives back all an open decoder may hold, and leaves only what more there is.
LEMMA ClosedAll ==
  ASSUME NEW type \in Known, NEW more, NEW resources \in SUBSET (MayHold(type) \cup more)
  PROVE  closed(type, resources) \subseteq more
  BY DEF Known, MayHold, opened, closed, mp3_open, ogg_open, flac_open, mp3_close, ogg_close, flac_close

\* What is lost is a comment, and does not change with the file's state.
LEMMA LostType == \A type : Lost(type) \subseteq {"comment"} /\ (file' = file => Lost(type)' = Lost(type))
  BY DEF Lost, LostComment

\* All that a decoder may hold is something.
LEMMA MayHoldType ==
  ASSUME NEW type \in Known
  PROVE  MayHold(type) \subseteq {"struct", "file", "mapping", "mad", "vorbis", "flac", "pcm"}
  BY DEF Known, MayHold, opened, mp3_open, ogg_open, flac_open

\* Loading a song keeps it: a song opened for its length only is closed again.
LEMMA LoadBase ==
  ASSUME BaseInv, ensure_song_fully_loaded
  PROVE  BaseInv'
<1> USE DEF ensure_song_fully_loaded, BaseInv
<1> DEFINE type == get_song_type
           tags == load_meta_data(type)
<1>1. file \in Files /\ info \in Tags \cup {NoTag}
  BY DEF TypeOK
<1>2. type \in Types /\ tags \in Tags /\ LengthTags(tags) \in Tags
        /\ (LengthTags(tags) # <<>> => LengthTags(tags)[1].value \in Int)
  BY <1>1, TagsType
<1>3. song_type' = type
  OBVIOUS
<1>4. data = NoData /\ held = {} /\ frame = NoFrame
  <2>1. song_type \notin Known /\ Lost(song_type) = {}
    BY DEF NotLoaded, Known, Lost
  <2> QED
    BY <2>1 DEF LoadInv, HeldInv
<1>5. info' \in Tags \cup {NoTag}
  BY <1>1, <1>2, <1>3, SavedTags
<1> DEFINE lost == IF info = NoTag /\ type = "flac" /\ file.content = "flac" THEN LostComment ELSE {}
<1>0. lost \subseteq Lost(type)
  BY DEF Lost
<1>6. ASSUME type \in Known
      PROVE  calc_duration(type) \in Int /\ closed(type, (held \cup lost) \cup opened(type)) \subseteq lost
  <2>1. Total \in Nat /\ Length \in Nat
    BY <1>1, FileNumbers
  <2>2. TimeOf(Total) \in Nat
    BY <2>1, SampleTime
  <2>3. calc_duration(type) \in Int
    BY <1>6, <2>1, <2>2 DEF calc_duration, mp3_calc_duration, ogg_calc_duration, flac_calc_duration,
                            Length, TimeOf, Known
  <2>4. (held \cup lost) \cup opened(type) \in SUBSET (MayHold(type) \cup lost)
    BY <1>4 DEF MayHold
  <2> QED
    BY <1>6, <2>3, <2>4, ClosedAll
<1>7. /\ play_length' \in Int /\ held' \subseteq Lost(type) /\ status' \in {"running", "error", "crashed"}
  <2>0. \/ /\ LengthTags(load_meta_data(song_type')) # <<>>
           /\ play_length' = LengthTags(load_meta_data(song_type'))[1].value
           /\ held' = held \cup lost /\ UNCHANGED status
        \/ UNCHANGED <<play_length, held, status>>
        \/ /\ song_type' \in Known /\ play_length' = calc_duration(song_type')
           /\ held' = closed(song_type', (held \cup lost) \cup opened(song_type')) /\ UNCHANGED status
        \/ status' = "error" /\ UNCHANGED <<play_length, held>>
    BY <1>3
  <2>1. play_length \in Int /\ status \in {"running", "error", "crashed"}
    BY DEF TypeOK
  <2>2. type = get_song_type /\ tags = load_meta_data(type)
    OBVIOUS
  <2> HIDE DEF type, tags, lost, ensure_song_fully_loaded
  <2> QED
    BY <1>0, <1>2, <1>3, <1>4, <1>6, <2>0, <2>1, <2>2
<1>8. TypeOK'
  BY <1>2, <1>3, <1>5, <1>7, LostType DEF TypeOK
<1>9. LoadInv' /\ HeldInv'
  <2>1. data' = NoData /\ frame' = NoFrame /\ file' = file
    BY <1>4
  <2>2. Lost(song_type)' = Lost(type)
    BY <1>3, <2>1 DEF Lost, LostComment
  <2> QED
    BY <1>3, <1>7, <2>1, <2>2 DEF LoadInv, HeldInv, get_song_type
<1> QED
  BY <1>8, <1>9

\* Opening keeps it, whether it works or not.
LEMMA OpenBase ==
  ASSUME BaseInv, open
  PROVE  BaseInv'
<1> USE DEF open, BaseInv
<1>1. [at |-> 0, timer |-> 0] \in Streams
  BY DEF Streams
<1>2. data' \in Streams \/ (data' = NoData /\ held' = held)
  BY <1>1, SeekType DEF TypeOK
<1>3. song_type \in Known /\ held \subseteq Lost(song_type) /\ held' \subseteq opened(song_type) \cup Lost(song_type)
  BY DEF HeldInv
<1>4. TypeOK'
  <2>1. skipped' \subseteq Nat
    <3>1. Count \in Nat /\ skipped \subseteq Nat
      BY StartTurns DEF TypeOK
    <3>2. LeftOut(data'.at) \subseteq 1..Count
      BY DEF LeftOut
    <3>3. skipped' = LeftOut(data'.at) \/ skipped' = skipped
      OBVIOUS
    <3> HIDE DEF open
    <3>4. 1..Count \subseteq Nat
      BY <3>1
    <3> QED
      BY <3>1, <3>2, <3>3, <3>4, Zenon
  <2>2. held' \subseteq {"struct", "file", "mapping", "mad", "vorbis", "flac", "pcm", "comment"}
    BY <1>3, MayHoldType, LostType DEF MayHold
  <2>3. data' \in [at : Nat, timer : Nat] \cup {NoData}
    BY <1>2 DEF Streams
  <2>4. status' \in {"running", "error", "crashed"}
    BY DEF TypeOK
  <2>5. UNCHANGED <<file, info, song_type, play_length, frame, current_position, heard>>
    OBVIOUS
  <2> HIDE DEF open
  <2> QED
    BY <2>1, <2>2, <2>3, <2>4, <2>5 DEF TypeOK
<1>5. LoadInv'
  <2>1. frame' = NoFrame
    BY DEF LoadInv
  <2> QED
    BY <1>3, <2>1 DEF LoadInv, get_song_type
<1>6. HeldInv'
  <2>1. data' = NoData => held' \subseteq Lost(song_type)
    BY <1>2, <1>3, Constants
  <2>2. held' \subseteq MayHold(song_type) \cup Lost(song_type)
    BY <1>3 DEF MayHold
  <2>3. MayHold(song_type)' = MayHold(song_type) /\ Lost(song_type)' = Lost(song_type)
    BY DEF MayHold, opened, mp3_open, ogg_open, flac_open, Lost, LostComment
  <2> HIDE DEF open
  <2> QED
    BY <2>1, <2>2, <2>3 DEF HeldInv
<1> QED
  BY <1>4, <1>5, <1>6

\* Decoding keeps it: the buffer for the samples is all it adds.
LEMMA DecodeBase ==
  ASSUME BaseInv, NEW s, decode_frame(s)
  PROVE  BaseInv'
<1> USE DEF BaseInv
<1> DEFINE k == NextFrame
           r == decoded(k)
<1>1. file \in Files /\ data \in Streams /\ song_type \in Known
  BY DEF TypeOK, LoadInv, decode_frame, Playing, Opened, Streams
<1>2. k \in 1..Count
  <2>1. k \in 1..(Count + 1) /\ k <= Count /\ Count \in Nat
    BY <1>1, NextIsFirst, StartTurns DEF decode_frame
  <2> QED
    BY <2>1
<1>3. r \in Results
  BY <1>1, <1>2, DecodedType
<1>4. /\ data' = [at |-> r.at, timer |-> r.timer]
      /\ frame'.pcm_size = r.pcm_size /\ frame'.position = r.position
      /\ held' = IF r.pcm_size > 0 /\ song_type # "ogg" THEN held \cup {"pcm"} ELSE held
      /\ current_position' = IF r.pcm_size > 0 THEN r.position ELSE current_position
      /\ heard' = r.at
  BY DEF decode_frame
<1>5. skipped' \subseteq Nat
  BY DEF decode_frame, TypeOK
<1>6. /\ UNCHANGED <<file, info, song_type, play_length, status>>
  BY DEF decode_frame
<1> HIDE DEF k, r
<1>7. data' \in Streams /\ data' # NoData
  <2>1. data' \in Streams
    BY <1>3, <1>4 DEF Results, Streams
  <2> QED
    BY <2>1, Constants
<1>8. held' \subseteq MayHold(song_type) \cup Lost(song_type)
  <2>1. held \subseteq MayHold(song_type) \cup Lost(song_type)
    BY <1>1, Constants DEF HeldInv
  <2> QED
    BY <1>4, <2>1 DEF MayHold
<1>9. TypeOK'
  <2>1. held' \subseteq {"struct", "file", "mapping", "mad", "vorbis", "flac", "pcm", "comment"}
    BY <1>1, <1>8, MayHoldType, LostType
  <2>2. /\ frame'.pcm_size \in {-3, -2, -1, 0, 2}
        /\ {frame'.position, current_position', heard'} \subseteq Nat
    BY <1>3, <1>4 DEF Results, TypeOK
  <2> QED
    BY <1>5, <1>6, <1>7, <2>1, <2>2 DEF TypeOK, Streams
<1>10. LoadInv' /\ HeldInv'
  <2>1. MayHold(song_type)' = MayHold(song_type) /\ Lost(song_type)' = Lost(song_type)
    BY <1>6 DEF MayHold, opened, mp3_open, ogg_open, flac_open, Lost, LostComment
  <2> QED
    BY <1>1, <1>6, <1>7, <1>8, <2>1 DEF LoadInv, HeldInv, get_song_type
<1> QED
  BY <1>9, <1>10

\* So does CMD_STOP.
LEMMA StopBase ==
  ASSUME BaseInv, Stop
  PROVE  BaseInv'
<1> USE DEF BaseInv
<1>1. file \in Files /\ data \in Streams /\ song_type \in Known /\ play_length \in Int
  BY DEF TypeOK, LoadInv, Stop, Playing, Opened, Streams
<1>2. data' \in Streams /\ data' # NoData
  BY <1>1, SeekType, Constants DEF Stop
<1>3. TypeOK'
  BY <1>2 DEF TypeOK, Stop, Streams, NoFrame
<1>4. data # NoData
  BY DEF Stop, Playing, Opened
<1>5. LoadInv' /\ HeldInv'
  <2>1. MayHold(song_type)' = MayHold(song_type) /\ Lost(song_type)' = Lost(song_type)
    BY DEF Stop, MayHold, opened, mp3_open, ogg_open, flac_open, Lost, LostComment
  <2> QED
    BY <1>1, <1>2, <1>4, <2>1 DEF LoadInv, HeldInv, Stop, get_song_type
<1> QED
  BY <1>3, <1>5

\* Every step keeps the types and gives back what was taken.
LEMMA BaseStep == BaseInv /\ [Next]_vars => BaseInv'
<1> SUFFICES ASSUME BaseInv, [Next]_vars PROVE BaseInv'
  OBVIOUS
<1>1. CASE ensure_song_fully_loaded
  BY <1>1, LoadBase
<1>2. CASE open
  BY <1>2, OpenBase
<1>3. CASE \E s \in SampleRange : decode_frame(s)
  BY <1>3, DecodeBase
<1>4. CASE FatalError \/ ReadOutside
  <2>1. TypeOK'
    BY <1>4 DEF FatalError, ReadOutside, BaseInv, TypeOK, NoFrame
  <2>2. data # NoData
    BY <1>4 DEF FatalError, ReadOutside, Playing, Opened
  <2>3. LoadInv' /\ HeldInv'
    <3>1. MayHold(song_type)' = MayHold(song_type) /\ Lost(song_type)' = Lost(song_type)
      BY <1>4 DEF FatalError, ReadOutside, MayHold, opened, mp3_open, ogg_open, flac_open, Lost, LostComment
    <3> QED
      BY <1>4, <2>2, <3>1 DEF FatalError, ReadOutside, BaseInv, LoadInv, HeldInv, get_song_type
  <2> QED
    BY <2>1, <2>3 DEF BaseInv
<1>5. CASE close
  <2>1. data # NoData /\ song_type \in Known /\ held \subseteq MayHold(song_type) \cup Lost(song_type)
    BY <1>5 DEF close, Opened, BaseInv, LoadInv, HeldInv
  <2>2. held' \subseteq Lost(song_type) /\ data' = NoData /\ frame' = NoFrame
    BY <1>5, <2>1, ClosedAll DEF close
  <2>3. TypeOK'
    BY <1>5, <2>2, LostType DEF close, BaseInv, TypeOK, NoFrame
  <2>4. LoadInv' /\ HeldInv'
    <3>1. Lost(song_type)' = Lost(song_type)
      BY <1>5 DEF close, Lost, LostComment
    <3> QED
      BY <1>5, <2>2, <3>1 DEF close, BaseInv, LoadInv, HeldInv, get_song_type
  <2> QED
    BY <2>3, <2>4 DEF BaseInv
<1>6. CASE Stop
  BY <1>6, StopBase
<1>7. CASE Quit
  <2>1. TypeOK'
    BY <1>7 DEF Quit, BaseInv, TypeOK, NoFrame, NoLength
  <2>2. LoadInv' /\ HeldInv'
    BY <1>7 DEF Quit, LoadInv, HeldInv, get_song_type
  <2> QED
    BY <2>1, <2>2 DEF BaseInv
<1>8. CASE UNCHANGED vars
  <2>1. TypeOK' /\ LoadInv'
    BY <1>8 DEF vars, BaseInv, TypeOK, LoadInv, get_song_type
  <2>2. MayHold(song_type)' = MayHold(song_type) /\ Lost(song_type)' = Lost(song_type)
    BY <1>8 DEF vars, MayHold, opened, mp3_open, ogg_open, flac_open, Lost, LostComment
  <2>3. HeldInv'
    BY <1>8, <2>2 DEF vars, BaseInv, HeldInv
  <2> QED
    BY <2>1, <2>3 DEF BaseInv
<1> QED
  BY <1>1, <1>2, <1>3, <1>4, <1>5, <1>6, <1>7, <1>8 DEF Next

\* The types and the resources are right in every state.
LEMMA AlwaysBase == Spec => []BaseInv
<1> QED
  BY InitBase, BaseStep, PTL DEF Spec

\* Every variable always has its type.
THEOREM DecodersTypeCorrect == Spec => []TypeOK
<1>1. BaseInv => TypeOK
  BY DEF BaseInv
<1> QED
  BY <1>1, AlwaysBase, PTL

\* No decoder leaks: what opening and decoding a song take, closing it gives back, on every
\* path through open, decode_frame, calc_duration and close; only flac_load_meta() loses a comment.
THEOREM DecodersGiveBack == Spec => []NothingLeaks
<1>1. BaseInv => NothingLeaks
  BY DEF BaseInv, HeldInv, NothingLeaks, Lost
<1> QED
  BY <1>1, AlwaysBase, PTL

-----------------------------------------------------------------------------
(* Samples                                                                 *)

\* Powers of two are positive.
LEMMA PowerPositive ==
  ASSUME NEW n \in 0..MAD_F_FRACBITS
  PROVE  PowerOf2[n] \in Nat \ {0}
<1> DEFINE N == MAD_F_FRACBITS
           S == {m \in 0..N : PowerOf2[m] # 0}
<1>1. N \in Nat
  BY DecodersAssumption
<1>2. 0 \in S
  BY <1>1, PowerTurns
<1>3. ASSUME NEW m \in 0..(N - 1), m \in S PROVE m + 1 \in S
  <2>1. m + 1 \in 1..N /\ m + 1 \in 0..N /\ (m + 1) - 1 = m
    BY <1>1
  <2>2. PowerOf2[m + 1] = 2 * PowerOf2[m] /\ PowerOf2[m] \in Nat \ {0}
    BY <1>1, <1>3, <2>1, PowerTurns
  <2>3. 2 * PowerOf2[m] # 0
    BY <2>2
  <2> QED
    BY <2>1, <2>2, <2>3
<1> HIDE DEF S
<1>4. 0..N \subseteq S
  BY <1>1, <1>2, <1>3, RangeInduction
<1> QED
  BY <1>4, PowerTurns DEF S

\* One in libmad's numbers, the step between two 16-bit samples and half of it.
LEMMA Steps ==
  \E half \in Nat \ {0} : /\ PowerOf2[MAD_F_FRACBITS - 16] = half
                          /\ PowerOf2[MAD_F_FRACBITS - 15] = 2 * half
                          /\ ONE = 65536 * half
<1> DEFINE F == MAD_F_FRACBITS
           p == PowerOf2
<1>1. F \in Nat /\ F > 16
  BY DecodersAssumption
<1>2. p \in [0..F -> Nat] /\ \A n \in 1..F : p[n] = 2 * p[n - 1]
  BY PowerTurns
<1>3. p[F - 16] \in Nat \ {0}
  BY <1>1, PowerPositive
<1>4. ONE = p[F]
  BY DEF ONE
<1> HIDE DEF F, p
<1>5. ASSUME NEW i \in 0..15 PROVE p[F - i] = 2 * p[F - (i + 1)] /\ p[F - (i + 1)] \in Nat
  <2>1. F - i \in 1..F /\ F - (i + 1) \in 0..F /\ (F - i) - 1 = F - (i + 1)
    BY <1>1
  <2> QED
    BY <1>2, <2>1
<1>6. p[F - 12] = 16 * p[F - 16]
  <2>1. p[F - 12] = 2 * p[F - 13] /\ p[F - 13] = 2 * p[F - 14] /\ p[F - 14] = 2 * p[F - 15]
          /\ p[F - 15] = 2 * p[F - 16]
    BY <1>5
  <2> QED
    BY <1>3, <2>1
<1>7. p[F - 8] = 16 * p[F - 12]
  <2>1. p[F - 8] = 2 * p[F - 9] /\ p[F - 9] = 2 * p[F - 10] /\ p[F - 10] = 2 * p[F - 11]
          /\ p[F - 11] = 2 * p[F - 12] /\ p[F - 12] \in Nat
    BY <1>5
  <2> QED
    BY <2>1
<1>8. p[F - 4] = 16 * p[F - 8]
  <2>1. p[F - 4] = 2 * p[F - 5] /\ p[F - 5] = 2 * p[F - 6] /\ p[F - 6] = 2 * p[F - 7]
          /\ p[F - 7] = 2 * p[F - 8] /\ p[F - 8] \in Nat
    BY <1>5
  <2> QED
    BY <2>1
<1>9. p[F] = 16 * p[F - 4]
  <2>1. p[F - 0] = 2 * p[F - 1] /\ p[F - 1] = 2 * p[F - 2] /\ p[F - 2] = 2 * p[F - 3]
          /\ p[F - 3] = 2 * p[F - 4] /\ p[F - 4] \in Nat
    BY <1>5
  <2>2. F - 0 = F
    BY <1>1
  <2> QED
    BY <2>1, <2>2
<1>10. p[F] = 65536 * p[F - 16] /\ p[F - 15] = 2 * p[F - 16]
  BY <1>3, <1>5, <1>6, <1>7, <1>8, <1>9
<1> QED
  BY <1>3, <1>4, <1>10 DEF F, p

\* A number that 16 bits can hold.
Is16Bit(v) == -32768 <= v /\ v <= 32767

\* Two bytes are read back as what was written.
LEMMA BytesBack ==
  ASSUME NEW v \in Int, Is16Bit(v)
  PROVE  Signed(LittleEndian(v)) = v
<1> DEFINE h == v \div 256
           l == v % 256
<1>1. h \in Int /\ l \in 0..255 /\ v = 256 * h + l
  BY DivMod
<1> HIDE DEF h, l
<1>2. h \in (-128)..127
  BY <1>1 DEF Is16Bit
<1>3. h % 256 = IF h < 0 THEN h + 256 ELSE h
  BY <1>2
<1> DEFINE u == l + 256 * (h % 256)
<1>4. u = IF h < 0 THEN v + 65536 ELSE v
  BY <1>1, <1>2, <1>3
<1>5. Signed(LittleEndian(v)) = IF u < 32768 THEN u ELSE u - 65536
  BY DEF Signed, LittleEndian, h, l
<1> HIDE DEF u
<1>6. h < 0 <=> v < 0
  BY <1>1
<1> QED
  BY <1>4, <1>5, <1>6 DEF Is16Bit

\* The flac decoder's bytes have the high byte of the sample.
LEMMA FlacBytes ==
  ASSUME NEW s \in Int, Is16Bit(s)
  PROVE  Signed(flac_write_callback(s)) - s \in -255..255
<1> DEFINE h == s \div 256
           l == s % 256
           c == IF s = 0 THEN 0 ELSE 1
<1>1. h \in Int /\ l \in 0..255 /\ s = 256 * h + l
  BY DivMod
<1> HIDE DEF h, l
<1>2. h \in (-128)..127
  BY <1>1 DEF Is16Bit
<1>3. h % 256 = IF h < 0 THEN h + 256 ELSE h
  BY <1>2
<1> DEFINE u == c + 256 * (h % 256)
<1>4. u = IF h < 0 THEN (256 * h + c) + 65536 ELSE 256 * h + c
  BY <1>1, <1>2, <1>3
<1>5. Signed(flac_write_callback(s)) = IF u < 32768 THEN u ELSE u - 65536
  BY DEF Signed, flac_write_callback, h, l
<1>6. c \in 0..1 /\ (s = 0 => c = 0)
  OBVIOUS
<1> HIDE DEF u, c
<1>7. Signed(flac_write_callback(s)) = 256 * h + c
  BY <1>1, <1>2, <1>4, <1>5, <1>6
<1> QED
  BY <1>1, <1>6, <1>7

\* The sample nearest to what libmad computed, or the last there is.
MadNearest(v, f, step) ==
  \/ 2 * Abs(v * step - f) <= step
  \/ f >= ONE - step /\ v = 32767
  \/ f < -ONE /\ v = -32768

\* mad_to_16bit() rounds to the nearest and clips.
LEMMA MadRounds ==
  ASSUME NEW f \in Int
  PROVE  /\ mad_to_16bit(f) \in Int /\ Is16Bit(mad_to_16bit(f))
         /\ MadNearest(mad_to_16bit(f), f, PowerOf2[MAD_F_FRACBITS - 15])
<1>1. PICK half \in Nat \ {0} : /\ PowerOf2[MAD_F_FRACBITS - 16] = half
                                /\ PowerOf2[MAD_F_FRACBITS - 15] = 2 * half
                                /\ ONE = 65536 * half
  BY Steps
<1> DEFINE step == 2 * half
           q == Clip(f + half)
           v == q \div step
           r == q % step
<1>2. step \in Nat \ {0} /\ q \in Int
  BY <1>1 DEF Clip
<1>3. mad_to_16bit(f) = v
  BY <1>1 DEF mad_to_16bit
<1>4. q = IF f + half >= ONE THEN ONE - 1 ELSE IF f + half < -ONE THEN -ONE ELSE f + half
  BY DEF Clip
<1>5. ONE = 32768 * step /\ -ONE <= q /\ q < ONE
  BY <1>1, <1>4
<1> HIDE DEF q
<1>6. v \in Int /\ r \in 0..(step - 1) /\ q = step * v + r
  BY <1>2, DivMod
<1> HIDE DEF v, r, step
<1>7. Is16Bit(v)
  <2>1. step * v \in Int /\ step * 32768 = ONE /\ step * (-32769) = -ONE - step
    BY <1>2, <1>5, <1>6
  <2>2. step * v < step * 32768 /\ step * (-32769) < step * v
    BY <1>2, <1>5, <1>6, <2>1
  <2>3. v < 32768 /\ -32769 < v
    BY <1>2, <1>6, <2>2, ProductLess
  <2> QED
    BY <1>6, <2>3 DEF Is16Bit
<1>8. v * step = step * v /\ step * v \in Int /\ step = 2 * half
  BY <1>2, <1>6 DEF step
<1>9. CASE f + half >= ONE
  <2>1. q = ONE - 1 /\ f >= ONE - step
    BY <1>1, <1>4, <1>8, <1>9
  <2>2. v = 32767
    <3>1. step * 32767 = ONE - step
      BY <1>2, <1>5
    <3>2. step * 32767 < step * (v + 1)
      <4>1. step * (v + 1) = step * v + step
        BY <1>2, <1>6
      <4> QED
        BY <1>1, <1>2, <1>6, <1>8, <2>1, <3>1, <4>1
    <3>3. 32767 < v + 1
      <4>1. v + 1 \in Int
        BY <1>6
      <4> QED
        BY <1>2, <3>2, <4>1, ProductLess
    <3> QED
      BY <1>6, <1>7, <3>3 DEF Is16Bit
  <2> QED
    BY <1>1, <1>3, <1>6, <1>7, <1>8, <2>1, <2>2 DEF MadNearest
<1>10. CASE ~(f + half >= ONE) /\ f + half < -ONE
  <2>1. q = -ONE /\ f < -ONE
    BY <1>1, <1>4, <1>10
  <2>2. v = -32768
    <3>1. step * (-32767) = step - ONE
      BY <1>2, <1>5
    <3>2. step * v < step * (-32767)
      BY <1>1, <1>2, <1>6, <1>8, <2>1, <3>1
    <3>3. v < -32767
      BY <1>2, <1>6, <3>2, ProductLess
    <3> QED
      BY <1>6, <1>7, <3>3 DEF Is16Bit
  <2> QED
    BY <1>3, <1>6, <1>7, <2>1, <2>2 DEF MadNearest
<1>11. CASE ~(f + half >= ONE) /\ ~(f + half < -ONE)
  <2>1. q = f + half
    BY <1>4, <1>11
  <2>2. v * step - f = half - r
    BY <1>1, <1>6, <1>8, <2>1
  <2>3. 2 * Abs(half - r) <= step
    BY <1>1, <1>6, <1>8 DEF Abs
  <2> QED
    BY <1>1, <1>3, <1>6, <1>7, <1>8, <2>2, <2>3 DEF MadNearest
<1> QED
  BY <1>9, <1>10, <1>11

\* What is tried as a sample fits the decoder.
LEMMA SampleTried ==
  ASSUME NEW s \in SampleRange
  PROVE  s \in Int /\ (song_type # "mp3" => Is16Bit(s))
<1>1. s \in Samples /\ (song_type # "mp3" => -32768 <= s /\ s <= 32767)
  BY DEF SampleRange
<1>2. s \in Int
  BY <1>1, DecodersAssumption
<1> QED
  BY <1>1, <1>2 DEF Is16Bit

\* The bytes of a sample in a frame.
LEMMA SampleBytes ==
  ASSUME song_type \in Known, NEW s \in SampleRange
  PROVE  LET v == Signed(Pcm(s)) IN
         CASE song_type = "mp3"  -> MadNearest(v, s, PowerOf2[MAD_F_FRACBITS - 15])
           [] song_type = "ogg"  -> v = s
           [] song_type = "flac" -> Abs(v - s) < 256
<1>1. s \in Int /\ (song_type # "mp3" => Is16Bit(s))
  BY SampleTried
<1>2. CASE song_type = "mp3"
  <2> DEFINE m == mad_to_16bit(s)
  <2>1. m \in Int /\ Is16Bit(m) /\ MadNearest(m, s, PowerOf2[MAD_F_FRACBITS - 15])
    BY <1>1, MadRounds
  <2>2. Pcm(s) = LittleEndian(m)
    BY <1>2 DEF Pcm
  <2> HIDE DEF m
  <2>3. Signed(Pcm(s)) = m
    BY <2>1, <2>2, BytesBack
  <2> QED
    BY <1>2, <2>1, <2>3
<1>3. CASE song_type = "ogg"
  <2>1. Pcm(s) = LittleEndian(s)
    BY <1>3 DEF Pcm
  <2>2. Signed(Pcm(s)) = s
    BY <1>1, <1>3, <2>1, BytesBack
  <2> QED
    BY <1>3, <2>2
<1>4. CASE song_type = "flac"
  <2>1. Pcm(s) = flac_write_callback(s)
    BY <1>4 DEF Pcm
  <2> DEFINE v == Signed(Pcm(s))
  <2>2. v - s \in -255..255
    BY <1>1, <1>4, <2>1, FlacBytes
  <2> DEFINE d == v - s
  <2> HIDE DEF d
  <2>3. Abs(d) < 256
    <3>1. d \in -255..255
      BY <2>2 DEF d
    <3> QED
      BY <3>1 DEF Abs
  <2> QED
    BY <1>4, <2>3 DEF d
<1> QED
  BY <1>2, <1>3, <1>4 DEF Known

\* A frame of a song of some type has samples as they should be.
NearSamples(fr, type) ==
  fr.sample # <<>> =>
    LET v == Signed(fr.sample[2])
    IN  CASE type = "mp3"  -> MadNearest(v, fr.sample[1], PowerOf2[MAD_F_FRACBITS - 15])
          [] type = "ogg"  -> v = fr.sample[1]
          [] type = "flac" -> Abs(v - fr.sample[1]) < 256

\* Every step keeps the samples right.
LEMMA SampleStep == BaseInv /\ SampleNearest /\ [Next]_vars => SampleNearest'
<1> SUFFICES ASSUME BaseInv, SampleNearest, [Next]_vars PROVE SampleNearest'
  OBVIOUS
<1>1. SampleNearest <=> NearSamples(frame, song_type)
  BY DEF SampleNearest, NearSamples, MadNearest
<1>2. SampleNearest' <=> NearSamples(frame', song_type')
  BY DEF SampleNearest, NearSamples, MadNearest
<1>3. NoFrame.sample = <<>> /\ [NoFrame EXCEPT !.pcm_size = -2].sample = <<>>
  BY DEF NoFrame
<1>4. CASE frame'.sample = <<>>
  BY <1>4 DEF SampleNearest
<1>5. CASE UNCHANGED <<frame, song_type>>
  BY <1>1, <1>5, <1>2
<1>6. CASE ensure_song_fully_loaded
  <2>1. frame' = NoFrame
    BY <1>6 DEF BaseInv, LoadInv, ensure_song_fully_loaded, NotLoaded, Known
  <2> QED
    BY <1>3, <1>4, <2>1
<1>7. ASSUME NEW s \in SampleRange, decode_frame(s) PROVE SampleNearest'
  <2>1. song_type \in Known /\ song_type' = song_type
    BY <1>7 DEF BaseInv, LoadInv, decode_frame, Playing, Opened
  <2>2. frame'.sample = <<>> \/ frame'.sample = <<s, Pcm(s)>>
    BY <1>7 DEF decode_frame
  <2>3. CASE frame'.sample = <<s, Pcm(s)>>
    <3>1. frame'.sample[1] = s /\ frame'.sample[2] = Pcm(s)
      BY <2>3
    <3> DEFINE b == Pcm(s)
    <3>2. LET v == Signed(b) IN
          CASE song_type = "mp3"  -> MadNearest(v, s, PowerOf2[MAD_F_FRACBITS - 15])
            [] song_type = "ogg"  -> v = s
            [] song_type = "flac" -> Abs(v - s) < 256
      BY <2>1, SampleBytes
    <3> HIDE DEF b
    <3>3. frame'.sample[2] = b
      BY <3>1 DEF b
    <3> QED
      BY <1>2, <2>1, <3>1, <3>2, <3>3 DEF NearSamples
  <2> QED
    BY <1>4, <2>2, <2>3
<1>8. CASE open \/ FatalError \/ ReadOutside \/ close \/ Stop \/ Quit
  <2>1. frame' = NoFrame \/ frame' = [NoFrame EXCEPT !.pcm_size = -2] \/ UNCHANGED <<frame, song_type>>
    BY <1>8 DEF open, FatalError, ReadOutside, close, Stop, Quit
  <2> QED
    BY <1>3, <1>4, <1>5, <2>1
<1>9. CASE UNCHANGED vars
  BY <1>5, <1>9 DEF vars
<1> QED
  BY <1>6, <1>7, <1>8, <1>9 DEF Next

\* Every sample that reaches the sound device is the 16-bit number nearest to the decoded one, for
\* every sample libmad can compute (mad_to_16bit, the byte order of mp3 and ogg, and what
\* is left of it in flac_write_callback()).
THEOREM SamplesAreNearest == Spec => []SampleNearest
<1>1. Init => SampleNearest
  BY DEF Init, NoFrame, SampleNearest
<1> QED
  BY <1>1, AlwaysBase, SampleStep, PTL DEF Spec

-----------------------------------------------------------------------------
(* The length of a song                                                    *)

\* Nothing that is derived from the file changes.
LEMMA SameFile ==
  ASSUME file' = file
  PROVE  /\ get_song_type' = get_song_type /\ Count' = Count /\ Start' = Start /\ Size' = Size
         /\ Total' = Total /\ Length' = Length /\ Even' = Even /\ FrameBytes' = FrameBytes
<1>1. get_song_type' = get_song_type /\ Count' = Count
  BY DEF get_song_type, Count
<1>2. Start' = Start
  BY <1>1 DEF Start
<1>3. Size' = Size /\ Total' = Total /\ Length' = Length
  BY <1>1, <1>2 DEF Size, Total, Length, TimeOf
<1>4. Even' = Even /\ FrameBytes' = FrameBytes
  BY <1>1 DEF Even, FrameBytes
<1> QED
  BY <1>1, <1>2, <1>3, <1>4

\* No step changes the file, or the length that the tags give.
LEMMA SameDuration ==
  ASSUME BaseInv, [Next]_vars
  PROVE  file' = file /\ Duration' = Duration
<1>1. file' = file
  BY DEF Next, vars, ensure_song_fully_loaded, open, decode_frame, FatalError, ReadOutside, close, Stop, Quit
<1>2. get_song_type' = get_song_type /\ Length' = Length
  BY <1>1, SameFile
<1> DEFINE type == get_song_type
           new == load_meta_data(type)'
           old == load_meta_data(type)
<1>3. ASSUME SameLength(new, old) PROVE Duration' = Duration
  <2>1. Duration = IF LengthTags(old) # <<>> THEN LengthTags(old)[1].value ELSE Length
    BY DEF Duration
  <2>2. Duration' = IF LengthTags(new) # <<>> THEN LengthTags(new)[1].value ELSE Length
    BY <1>2 DEF Duration
  <2> QED
    BY <1>3, <2>1, <2>2 DEF SameLength
<1>4. ASSUME info' = info PROVE new = old
  BY <1>1, <1>2, <1>4 DEF load_meta_data, mp3_load_meta, ogg_load_meta, flac_load_meta,
                          flac_metadata_callback_load_meta
<1>5. SameLength(old, old)
  BY DEF SameLength
<1>6. CASE info' = info
  BY <1>1, <1>3, <1>4, <1>5, <1>6
<1>7. CASE info' # info
  <2>1. ensure_song_fully_loaded
    BY <1>7 DEF Next, vars, open, decode_frame, FatalError, ReadOutside, close, Stop, Quit
  <2>2. info' = save_meta_data(old) /\ info = NoTag
    BY <1>7, <2>1 DEF ensure_song_fully_loaded
  <2>3. old \in Tags
    BY TagsType DEF BaseInv, TypeOK
  <2>4. SameLength(save_meta_data(old), old)
    BY <2>3, SavedTags
  <2>5. new = info'
    BY <1>7, <2>2 DEF load_meta_data
  <2> QED
    BY <1>1, <1>3, <2>2, <2>4, <2>5
<1> QED
  BY <1>1, <1>6, <1>7

-----------------------------------------------------------------------------
(* Resuming an ogg or a flac                                               *)

\* The sample of a time is not behind the one the time was taken from ...
LEMMA OggSample ==
  ASSUME NEW t \in Nat, NEW h \in Nat, Rate * t <= h * Milli
  PROVE  /\ (t * Rate) \div Milli \in Nat /\ (t * Rate) \div Milli <= h
         /\ Rate * t < ((t * Rate) \div Milli + 1) * Milli
<1> DEFINE n == (t * Rate) \div Milli
           x == t * Rate
<1>1. Milli \in Nat \ {0} /\ Rate \in Nat \ {0}
  BY Constants
<1>2. x \in Nat /\ x = Rate * t
  BY <1>1
<1>3. n \in Nat /\ Milli * n <= x /\ x < Milli * (n + 1)
  <2> HIDE DEF x
  <2>1. n = x \div Milli
    BY DEF x
  <2> QED
    BY <1>1, <1>2, <2>1, NatQuotient
<1> HIDE DEF n, x
<1>4. h * Milli < Milli * (h + 1) /\ Milli * (n + 1) = (n + 1) * Milli
  <2>1. Milli * (h + 1) = h * Milli + Milli /\ h * Milli \in Nat
    BY <1>1
  <2> QED
    BY <1>1, <1>3, <2>1
<1>5. n < h + 1
  <2>1. Milli * n < Milli * (h + 1)
    <3>1. {Milli * n, x, h * Milli, Milli * (h + 1)} \subseteq Int
      BY <1>1, <1>2, <1>3
    <3> QED
      BY <1>2, <1>3, <1>4, <3>1
  <2>2. n \in Int /\ h + 1 \in Int
    BY <1>3
  <2> QED
    BY <1>1, <2>1, <2>2, ProductLess
<1> QED
  BY <1>2, <1>3, <1>4, <1>5 DEF n

\* ... and dividing the rate first makes it earlier still.
LEMMA FlacSample ==
  ASSUME NEW t \in Nat, NEW h \in Nat, Rate * t <= h * Milli
  PROVE  t * (Rate \div Milli) \in Nat /\ t * (Rate \div Milli) <= h
<1> DEFINE q == Rate \div Milli
           n == t * q
<1>1. Milli \in Nat \ {0} /\ Rate \in Nat \ {0}
  BY Constants
<1>2. q \in Nat /\ Milli * q <= Rate
  BY <1>1, NatQuotient
<1> HIDE DEF q
<1>3. n \in Nat /\ Milli * n = t * (Milli * q) /\ Rate * t = t * Rate
  BY <1>1, <1>2
<1>4. t * (Milli * q) <= t * Rate
  <2>1. Milli * q \in Int /\ Rate \in Int
    BY <1>1, <1>2
  <2> QED
    BY <1>2, <2>1, ProductLeq
<1> HIDE DEF n
<1>5. h * Milli < Milli * (h + 1)
  <2>1. Milli * (h + 1) = h * Milli + Milli /\ h * Milli \in Nat
    BY <1>1
  <2> QED
    BY <1>1, <2>1
<1>6. n < h + 1
  <2>1. Milli * n < Milli * (h + 1)
    <3>1. {Milli * n, t * (Milli * q), t * Rate, Rate * t, h * Milli, Milli * (h + 1)} \subseteq Int
      BY <1>1, <1>2, <1>3
    <3> QED
      BY <1>3, <1>4, <1>5, <3>1
  <2>2. n \in Int /\ h + 1 \in Int
    BY <1>3
  <2> QED
    BY <1>1, <2>1, <2>2, ProductLess
<1> QED
  BY <1>3, <1>6 DEF n, q

\* The saved position is not behind what was heard, and neither is the stream; in an ogg the
\* position is not behind the stream either, so that a damaged frame, which
\* leaves the position alone, does not get in front of it.
SampleInv ==
  /\ heard <= Total
  /\ Rate * current_position <= heard * Milli
  /\ data # NoData => data.at <= heard
  /\ data # NoData /\ song_type = "ogg" => Rate * current_position < (data.at + 1) * Milli
  /\ skipped = {}

\* Zero is no problem for any of them.
LEMMA ZeroPlace == Rate * 0 <= 0 * Milli /\ Rate * 0 < (0 + 1) * Milli /\ (0 * Rate) \div Milli = 0
<1>1. Milli \in Nat \ {0} /\ Rate \in Nat
  BY Constants
<1>2. Rate * 0 = 0 /\ 0 * Milli = 0 /\ 0 * Rate = 0 /\ (0 + 1) * Milli = Milli
  BY <1>1
<1>3. 0 \div Milli = 0
  BY <1>1
<1> QED
  BY <1>1, <1>2, <1>3

\* A place that is not behind what was heard leaves nothing out.
LEMMA NothingLeftOut ==
  ASSUME file \in Files, heard \in Nat, NEW at \in Nat, at <= heard
  PROVE  LeftOut(at) = {}
<1> SUFFICES ASSUME NEW k \in LeftOut(at) PROVE FALSE
  OBVIOUS
<1> DEFINE begin == IF song_type = "mp3" THEN Start[k] ELSE (k - 1) * FrameSamples
<1>1. k \in 1..Count /\ heard <= begin /\ begin < at
  BY DEF LeftOut
<1>2. begin \in Int
  <2>1. Count \in Nat /\ Start \in [1..(Count + 1) -> Nat]
    BY StartTurns
  <2>2. Start[k] \in Int
    BY <1>1, <2>1
  <2>3. (k - 1) * FrameSamples \in Int
    <3>1. k - 1 \in Nat /\ FrameSamples \in Nat
      BY <1>1, <2>1, Constants
    <3> QED
      BY <3>1, NatProduct
  <2> QED
    BY <2>2, <2>3
<1> HIDE DEF begin
<1> QED
  BY <1>1, <1>2

\* Resuming goes no further than what was heard.
LEMMA OpenPlace ==
  ASSUME BaseInv, SampleInv, song_type \in {"ogg", "flac"}, open
  PROVE  SampleInv'
<1> DEFINE cp == current_position
           d0 == [at |-> 0, timer |-> 0]
<1>1. file \in Files /\ cp \in Nat /\ heard \in Nat /\ Total \in Nat
  BY FileNumbers DEF BaseInv, TypeOK
<1>2. UNCHANGED <<file, song_type, current_position, heard>> /\ data = NoData /\ skipped = {}
  BY DEF open, SampleInv
<1>3. Total' = Total
  BY <1>2, SameFile
<1>4. Rate * cp <= heard * Milli /\ heard <= Total
  BY DEF SampleInv
<1>5. \/ data' = NoData /\ skipped' = {}
      \/ data' = seek(d0, cp) /\ skipped' = LeftOut(data'.at)
  BY <1>2 DEF open
<1>6. CASE data' = NoData /\ skipped' = {}
  BY <1>2, <1>3, <1>6 DEF SampleInv
<1>9. \A at \in Nat : at <= heard => LeftOut(at) = {}
  BY <1>1, NothingLeftOut
<1>10. d0 \in Streams /\ seek(d0, cp) \in Streams
  <2>1. d0 \in Streams
    BY DEF Streams
  <2> QED
    BY <1>1, <2>1, SeekType DEF BaseInv, TypeOK, Known
<1>11. seek(d0, cp).at \in Nat
  BY <1>10 DEF Streams
<1>7. CASE data' = seek(d0, cp) /\ skipped' = LeftOut(data'.at) /\ song_type = "ogg"
  <2>1. cp <= TimeOf(Total)
    <3> DEFINE t == TimeOf(Total)
    <3>1. t \in Nat /\ Total * Milli < Rate * (t + 1)
      BY <1>1, SampleTime
    <3> HIDE DEF t
    <3>2. Milli \in Nat \ {0} /\ Rate \in Nat \ {0}
      BY Constants
    <3>3. Milli * heard <= Milli * Total
      BY <1>1, <1>4, <3>2, ProductLeq
    <3>4. {Rate * cp, heard * Milli, Total * Milli, Rate * (t + 1)} \subseteq Int
      BY <1>1, <3>1, <3>2
    <3>5. heard * Milli = Milli * heard /\ Total * Milli = Milli * Total
      BY <1>1, <3>2
    <3>6. Rate * cp < Rate * (t + 1)
      BY <1>4, <3>1, <3>3, <3>4, <3>5
    <3>7. cp < t + 1
      <4>1. cp \in Int /\ t + 1 \in Int
        BY <1>1, <3>1
      <4> QED
        BY <3>2, <3>6, <4>1, ProductLess
    <3> QED
      BY <1>1, <3>1, <3>7 DEF t
  <2> DEFINE n == (cp * Rate) \div Milli
  <2>2. seek(d0, cp) = [at |-> n, timer |-> 0]
    <3>1. TimeOf(Total) \in Nat
      BY <1>1, SampleTime
    <3> QED
      BY <1>1, <1>7, <2>1, <3>1 DEF seek, ogg_seek
  <2>3. n <= heard /\ Rate * cp < (n + 1) * Milli
    BY <1>1, <1>4, OggSample
  <2> HIDE DEF n
  <2>4. data'.at = n
    BY <1>7, <2>2
  <2>5. skipped' = {}
    BY <1>7, <1>9, <1>11, <2>3, <2>4
  <2> QED
    BY <1>2, <1>3, <2>3, <2>4, <2>5 DEF SampleInv
<1>8. CASE data' = seek(d0, cp) /\ skipped' = LeftOut(data'.at) /\ song_type = "flac"
  <2> DEFINE n == cp * (Rate \div Milli)
  <2>1. n \in Nat /\ n <= heard
    BY <1>1, <1>4, FlacSample
  <2>2. seek(d0, cp) = IF n > Total THEN d0 ELSE [at |-> n, timer |-> 0]
    BY <1>8 DEF seek, flac_seek
  <2> HIDE DEF n
  <2>3. data'.at <= heard
    BY <1>1, <1>8, <2>1, <2>2
  <2>4. skipped' = {}
    BY <1>8, <1>9, <1>11, <2>3
  <2> QED
    BY <1>2, <1>3, <1>8, <2>3, <2>4 DEF SampleInv
<1> QED
  BY <1>5, <1>6, <1>7, <1>8

\* Decoding moves all of them on, a damaged frame what was heard and the stream only.
LEMMA DecodePlace ==
  ASSUME BaseInv, SampleInv, song_type \in {"ogg", "flac"}, NEW s, decode_frame(s)
  PROVE  SampleInv'
<1> DEFINE k == NextFrame
           n == k * FrameSamples
           r == decoded(k)
           cp == current_position
<1>1. file \in Files /\ data \in Streams /\ heard \in Nat /\ cp \in Nat /\ data # NoData
  BY DEF BaseInv, TypeOK, decode_frame, Playing, Opened, Streams
<1>2. k \in 1..Count /\ Count \in Nat /\ n > data.at
  <2>1. k \in 1..(Count + 1) /\ k <= Count /\ Count \in Nat
    BY <1>1, NextIsFirst, StartTurns DEF decode_frame
  <2>2. Ahead(song_type, k, data.at)
    BY <1>1, <2>1, NextIsFirst
  <2> QED
    BY <2>1, <2>2 DEF Ahead
<1>3. /\ data' = [at |-> r.at, timer |-> r.timer] /\ heard' = r.at
      /\ cp' = IF r.pcm_size > 0 THEN r.position ELSE cp
      /\ skipped' = skipped
  BY DEF decode_frame
<1>4. UNCHANGED <<file, song_type>>
  BY DEF decode_frame
<1>5. Total' = Total
  BY <1>4, SameFile
<1>6. skipped = {}
  BY DEF SampleInv
<1>7. r.at = n
  BY DEF decoded, ogg_decode_frame, flac_decode_frame
<1>8. /\ song_type = "ogg" /\ r.pcm_size > 0 => r.position = TimeOf(n)
      /\ song_type = "flac" => r.pcm_size > 0 /\ r.position = TimeOf(data.at)
  BY DEF decoded, ogg_decode_frame, flac_decode_frame
<1>9. Milli \in Nat \ {0} /\ Rate \in Nat \ {0} /\ FrameSamples \in Nat \ {0}
  BY Constants
<1>10. n \in Nat /\ n <= Total /\ data.at \in Nat
  <2>1. FrameSamples * k <= FrameSamples * Count /\ k \in Nat
    <3>1. k \in Int /\ Count \in Int /\ k <= Count /\ FrameSamples \in Nat
      BY <1>2, <1>9
    <3> HIDE DEF k
    <3> QED
      BY <1>2, <3>1, ProductLeq
  <2> HIDE DEF k
  <2>2. n \in Nat /\ n = FrameSamples * k /\ Total = FrameSamples * Count
    BY <1>2, <1>9, <2>1 DEF Total
  <2> QED
    BY <1>1, <2>1, <2>2 DEF Streams
<1> HIDE DEF n, r, k
<1>11. heard' = n /\ data'.at = n
  BY <1>3, <1>7
<1>12. /\ n * Milli \in Nat /\ n * Milli < (n + 1) * Milli
       /\ (data.at + 1) * Milli <= n * Milli /\ data.at * Milli <= n * Milli
       /\ (data.at + 1) * Milli \in Nat /\ data.at * Milli \in Nat
  <2>1. PICK e \in Nat : n = (data.at + 1) + e
    <3>1. n - (data.at + 1) \in Nat /\ n = (data.at + 1) + (n - (data.at + 1))
      BY <1>2, <1>10
    <3> QED
      BY <3>1
  <2>2. n * Milli = (data.at + 1) * Milli + e * Milli /\ e * Milli \in Nat
    BY <1>9, <1>10, <2>1
  <2>3. (data.at + 1) * Milli = data.at * Milli + Milli /\ data.at * Milli \in Nat
    BY <1>9, <1>10
  <2>4. (n + 1) * Milli = n * Milli + Milli
    BY <1>9, <1>10
  <2> QED
    BY <1>9, <2>2, <2>3, <2>4
<1>13. Rate * cp' <= n * Milli /\ Rate * cp' \in Int
  <2>1. CASE song_type = "ogg" /\ r.pcm_size > 0
    BY <1>3, <1>8, <1>9, <1>10, <2>1, SampleTime
  <2>2. CASE song_type = "ogg" /\ ~(r.pcm_size > 0)
    <3>1. Rate * cp < (data.at + 1) * Milli /\ cp' = cp
      BY <1>1, <1>3, <2>2 DEF SampleInv
    <3>2. Rate * cp \in Int
      BY <1>1, <1>9
    <3> QED
      BY <1>12, <3>1, <3>2
  <2>3. CASE song_type = "flac"
    <3>1. cp' = TimeOf(data.at)
      BY <1>3, <1>8, <2>3
    <3>2. Rate * TimeOf(data.at) <= data.at * Milli /\ TimeOf(data.at) \in Nat
      BY <1>10, SampleTime
    <3>3. Rate * TimeOf(data.at) \in Int
      BY <1>9, <3>2
    <3> QED
      BY <1>12, <3>1, <3>2, <3>3
  <2> QED
    BY <2>1, <2>2, <2>3
<1>14. skipped' = {}
  BY <1>3, <1>6
<1>15. Rate * cp' < (n + 1) * Milli
  <2>1. (n + 1) * Milli \in Int
    BY <1>9, <1>10
  <2> QED
    BY <1>12, <1>13, <2>1
<1>16. n <= n
  BY <1>10
<1> QED
  BY <1>4, <1>5, <1>10, <1>11, <1>13, <1>14, <1>15, <1>16 DEF SampleInv

IsSampled == get_song_type \in {"ogg", "flac"}

\* Every step of an ogg or a flac keeps it.
LEMMA PlaceStep ==
  ASSUME BaseInv, SampleInv, IsSampled, [Next]_vars
  PROVE  SampleInv'
<1>1. file \in Files /\ heard \in Nat /\ current_position \in Nat /\ Total \in Nat
  BY FileNumbers DEF BaseInv, TypeOK
<1>2. Total' = Total
  BY SameDuration, SameFile
<1>3. ASSUME song_type \in Known PROVE song_type \in {"ogg", "flac"}
  BY <1>3 DEF BaseInv, LoadInv, IsSampled, NotLoaded, Known
<1>4. CASE ensure_song_fully_loaded
  <2>1. UNCHANGED <<data, current_position, heard, skipped>> /\ song_type = NotLoaded
    BY <1>4 DEF ensure_song_fully_loaded
  <2>2. data = NoData
    BY <2>1 DEF BaseInv, LoadInv, NotLoaded, Known
  <2> QED
    BY <1>2, <2>1, <2>2 DEF SampleInv
<1>5. CASE open
  BY <1>3, <1>5, OpenPlace DEF open
<1>6. ASSUME NEW s \in SampleRange, decode_frame(s) PROVE SampleInv'
  <2>1. song_type \in Known
    BY <1>6 DEF decode_frame, Playing, Opened, BaseInv, LoadInv
  <2> QED
    BY <1>3, <1>6, <2>1, DecodePlace
<1>7. CASE FatalError \/ ReadOutside
  BY <1>2, <1>7 DEF FatalError, ReadOutside, SampleInv
<1>8. CASE close
  <2>1. data' = NoData /\ current_position' = 0 /\ heard' = 0 /\ UNCHANGED skipped
    BY <1>8 DEF close
  <2> QED
    BY <1>1, <1>2, <2>1, ZeroPlace DEF SampleInv
<1>9. CASE Stop
  <2>1. data' = seek(data, 0) /\ current_position' = 0 /\ heard' = 0 /\ UNCHANGED <<skipped, song_type>>
    BY <1>9 DEF Stop
  <2>2. song_type \in {"ogg", "flac"}
    BY <1>3, <1>9 DEF Stop, Playing, Opened, BaseInv, LoadInv
  <2>3. data'.at = 0
    <3>1. TimeOf(Total) \in Nat
      BY <1>1, SampleTime
    <3>2. 0 * (Rate \div Milli) = 0
      <4>1. Rate \div Milli \in Nat
        BY Constants, NatQuotient
      <4> QED
        BY <4>1
    <3>3. CASE song_type = "ogg"
      <4>1. seek(data, 0) = ogg_seek(data, 0)
        BY <3>3 DEF seek
      <4>2. ~(0 > TimeOf(Total))
        BY <3>1
      <4>3. seek(data, 0) = [at |-> (0 * Rate) \div Milli, timer |-> 0]
        BY <4>1, <4>2 DEF ogg_seek
      <4> QED
        BY <2>1, <4>3, ZeroPlace
    <3>4. CASE song_type = "flac"
      <4>1. seek(data, 0) = flac_seek(data, 0)
        BY <3>4 DEF seek
      <4>2. ~(0 > Total)
        BY <1>1
      <4>3. seek(data, 0) = [at |-> 0, timer |-> 0]
        BY <3>2, <4>1, <4>2 DEF flac_seek
      <4> QED
        BY <2>1, <4>3
    <3> QED
      BY <2>2, <3>3, <3>4
  <2> QED
    BY <1>1, <1>2, <2>1, <2>3, ZeroPlace DEF SampleInv
<1>10. CASE Quit
  <2>1. data' = NoData /\ UNCHANGED <<current_position, heard, skipped>>
    BY <1>10 DEF Quit
  <2> QED
    BY <1>2, <2>1 DEF SampleInv
<1>11. CASE UNCHANGED vars
  BY <1>2, <1>11 DEF vars, SampleInv
<1> QED
  BY <1>4, <1>5, <1>6, <1>7, <1>8, <1>9, <1>10, <1>11 DEF Next

\* It holds at the beginning.
LEMMA InitPlace == Init => SampleInv
<1> SUFFICES ASSUME Init PROVE SampleInv
  OBVIOUS
<1>1. Total \in Nat
  BY FileNumbers DEF Init
<1> QED
  BY <1>1, ZeroPlace DEF Init, SampleInv

-----------------------------------------------------------------------------
(* Resuming an mp3                                                         *)

\* In an even file frame k begins k - 1 frames behind the beginning.
LEMMA EvenStart ==
  ASSUME file \in Files, Even
  PROVE  \E b \in Nat \ {0} : \A k \in 1..(Count + 1) : Start[k] = (k - 1) * b
<1> DEFINE b == IF Count = 0 THEN 1 ELSE file.bytes[1]
<1>1. /\ Count \in Nat /\ Start \in [1..(Count + 1) -> Nat]
      /\ Start[1] = 0
      /\ \A k \in 1..Count : Start[k + 1] = Start[k] + file.bytes[k]
  BY StartTurns DEF Even
<1>2. \A k \in 1..Count : file.bytes[k] \in Nat \ {0}
  BY DecodersAssumption DEF FileType, Count
<1>3. b \in Nat \ {0} /\ \A k \in 1..Count : file.bytes[k] = b
  BY <1>1, <1>2 DEF Even
<1> HIDE DEF b
<1> DEFINE S == {n \in 0..Count : Start[n + 1] = n * b}
<1>4. 0 \in S
  BY <1>1, <1>3
<1>5. ASSUME NEW n \in 0..(Count - 1), n \in S PROVE n + 1 \in S
  <2>1. n + 1 \in 1..Count /\ n + 1 \in 0..Count
    BY <1>1
  <2>2. Start[(n + 1) + 1] = Start[n + 1] + b /\ Start[n + 1] = n * b
    BY <1>1, <1>3, <1>5, <2>1
  <2>3. n * b + b = (n + 1) * b
    BY <1>3
  <2> QED
    BY <2>1, <2>2, <2>3
<1> HIDE DEF S
<1>6. 0..Count \subseteq S
  BY <1>1, <1>4, <1>5, RangeInduction
<1>7. ASSUME NEW k \in 1..(Count + 1) PROVE Start[k] = (k - 1) * b
  <2>1. k - 1 \in 0..Count /\ (k - 1) + 1 = k
    BY <1>1
  <2> QED
    BY <1>6, <2>1 DEF S
<1> QED
  BY <1>3, <1>7

\* An mp3 that is loaded has its length, and one that is open has a frame.
LengthInv ==
  /\ song_type # NotLoaded /\ status = "running" => play_length = Duration
  /\ data # NoData => play_length = Duration /\ Count > 0

\* Every step keeps the length.
LEMMA LengthStep ==
  ASSUME BaseInv, LengthInv, IsMp3, [Next]_vars
  PROVE  LengthInv'
<1>1. Duration' = Duration /\ Count' = Count
  BY SameDuration, SameFile
<1>2. CASE ensure_song_fully_loaded
  <2>1. data' = NoData
    BY <1>2 DEF ensure_song_fully_loaded, BaseInv, LoadInv, NotLoaded, Known
  <2>2. song_type' = "mp3" /\ "mp3" # "unknown"
    BY <1>2 DEF ensure_song_fully_loaded, IsMp3
  <2> DEFINE tags == LengthTags(load_meta_data(get_song_type))
  <2>3. Duration = IF tags # <<>> THEN tags[1].value ELSE Length
    BY DEF Duration
  <2>4. song_type' = get_song_type
    BY <1>2 DEF ensure_song_fully_loaded
  <2>5. \/ tags # <<>> /\ play_length' = tags[1].value
        \/ tags = <<>> /\ song_type' = "unknown"
        \/ tags = <<>> /\ play_length' = calc_duration(song_type')
        \/ status' = "error"
    BY <1>2, <2>4 DEF ensure_song_fully_loaded
  <2>6. calc_duration("mp3") = Length
    BY DEF calc_duration, mp3_calc_duration, Length, TimeOf
  <2> HIDE DEF tags
  <2>7. status' = "running" => play_length' = Duration
    BY <2>2, <2>3, <2>5, <2>6
  <2> QED
    BY <1>1, <2>1, <2>7 DEF LengthInv
<1>3. CASE open
  <2>1. song_type = "mp3" /\ UNCHANGED <<play_length, song_type>>
    BY <1>3 DEF open, IsMp3, BaseInv, LoadInv, NotLoaded, Known
  <2>2. data' # NoData => Count > 0
    BY <1>3, <2>1 DEF open, CanOpen
  <2>3. play_length = Duration /\ song_type # NotLoaded /\ status = "running"
    BY <1>3, <2>1 DEF open, LengthInv, NotLoaded
  <2> QED
    BY <1>1, <2>1, <2>2, <2>3 DEF LengthInv
<1>4. ASSUME NEW s \in SampleRange, decode_frame(s) PROVE LengthInv'
  <2>1. data # NoData /\ UNCHANGED <<play_length, song_type, status>>
    BY <1>4 DEF decode_frame, Playing, Opened
  <2> QED
    BY <1>1, <2>1 DEF LengthInv
<1>5. CASE FatalError \/ ReadOutside \/ close \/ Stop
  <2>1. data # NoData /\ UNCHANGED <<play_length, song_type>>
    BY <1>5 DEF FatalError, ReadOutside, close, Stop, Playing, Opened
  <2> QED
    BY <1>1, <2>1 DEF LengthInv
<1>6. CASE Quit
  BY <1>6 DEF Quit, LengthInv
<1>7. CASE UNCHANGED vars
  BY <1>1, <1>7 DEF vars, LengthInv
<1> QED
  BY <1>2, <1>3, <1>4, <1>5, <1>6, <1>7 DEF Next

\* The byte of a time is not behind the one the time belongs to.
LEMMA SeekByte ==
  ASSUME NEW S \in Nat, NEW t \in Nat, NEW D \in Nat \ {0}
  PROVE  /\ (S * t) \div D \in Nat /\ D * ((S * t) \div D) <= S * t
         /\ S * t < ((S * t) \div D + 1) * D
         /\ \A h \in Nat : S * t < (h + 1) * D => (S * t) \div D <= h
<1> DEFINE x == S * t
           n == x \div D
<1>1. x \in Nat
  BY NatProduct
<1> HIDE DEF x
<1>2. n \in Nat /\ D * n <= x /\ x < D * (n + 1)
  BY <1>1, NatQuotient
<1> HIDE DEF n
<1>3. D * (n + 1) = (n + 1) * D
  BY <1>2
<1>4. ASSUME NEW h \in Nat, x < (h + 1) * D PROVE n <= h
  <2>1. D * n < D * (h + 1)
    <3>1. {D * n, D * (h + 1)} \subseteq Int /\ (h + 1) * D = D * (h + 1)
      BY <1>2
    <3> QED
      BY <1>1, <1>2, <1>4, <3>1
  <2>2. n < h + 1
    <3>1. n \in Int /\ h + 1 \in Int
      BY <1>2
    <3> QED
      BY <2>1, <3>1, ProductLess
  <2> QED
    BY <1>2, <2>2
<1> QED
  BY <1>2, <1>3, <1>4 DEF x, n

\* A frame of b bytes adds no more time than its bytes stand for.
LEMMA FrameAdds ==
  ASSUME NEW n \in Nat, NEW b \in Nat, NEW f \in Nat, NEW D \in Nat, n * f <= D,
         NEW S \in Nat, S = n * b, NEW t \in Nat, NEW p \in Nat, S * t < (p + 1) * D
  PROVE  S * t < ((p + b) + 1) * D /\ S * (t + f) < ((p + b) + 1) * D
<1>1. b * (n * f) <= b * D
  <2>1. n * f \in Int /\ D \in Int
    OBVIOUS
  <2> QED
    BY <2>1, ProductLeq
<1>2. S * f = b * (n * f)
  OBVIOUS
<1>3. S * (t + f) = S * t + S * f
  OBVIOUS
<1>4. ((p + b) + 1) * D = (p + 1) * D + b * D
  OBVIOUS
<1>5. {S * t, S * f, b * D, b * (n * f), (p + 1) * D} \subseteq Nat
  OBVIOUS
<1> QED
  BY <1>1, <1>2, <1>3, <1>4, <1>5

\* Time t, in units of 1 / r of the clock's, is not behind the clock.
LEMMA UnitsBehind ==
  ASSUME NEW S \in Nat, NEW t \in Nat, NEW r \in Nat \ {0}, NEW c \in Nat, t * r <= c,
         NEW p \in Nat, NEW D \in Nat, S * c < (p + 1) * (D * r)
  PROVE  S * t < (p + 1) * D
<1>1. S * (t * r) <= S * c
  <2>1. t * r \in Int /\ c \in Int
    OBVIOUS
  <2> QED
    BY <2>1, ProductLeq
<1>2. r * (S * t) = S * (t * r) /\ r * ((p + 1) * D) = (p + 1) * (D * r)
  OBVIOUS
<1>3. {S * t, (p + 1) * D, S * c, r * (S * t), r * ((p + 1) * D)} \subseteq Int
  OBVIOUS
<1>4. r * (S * t) < r * ((p + 1) * D)
  BY <1>1, <1>2, <1>3
<1> QED
  BY <1>3, <1>4, ProductLess

\* A frame more, in bytes and on the clock.
LEMMA FrameMore ==
  ASSUME NEW b \in Nat \ {0}, NEW f \in Nat, NEW t \in Nat, NEW a \in Nat, NEW p \in Nat, a <= p,
         b * t < (a + 1) * f
  PROVE  b * t < ((p + b) + 1) * f /\ b * (t + f) < ((p + b) + 1) * f
<1>1. PICK d \in Nat : p = a + d
  <2>1. p - a \in Nat /\ p = a + (p - a)
    OBVIOUS
  <2> QED
    BY <2>1
<1>2. ((p + b) + 1) * f = ((a + 1) * f + d * f) + b * f
  BY <1>1
<1>3. b * (t + f) = b * t + b * f
  OBVIOUS
<1>4. {b * t, (a + 1) * f, d * f, b * f} \subseteq Nat
  BY <1>1
<1> QED
  BY <1>2, <1>3, <1>4

\* The byte q of time t: if D units are not longer than n frames, it has the time it should.
LEMMA SeekUpper ==
  ASSUME NEW n \in Nat \ {0}, NEW b \in Nat, NEW f \in Nat, NEW r \in Nat \ {0}, NEW D \in Nat,
         D * r <= n * f, NEW t \in Nat, NEW q \in Nat, (n * b) * t < (q + 1) * D
  PROVE  b * (t * r) < (q + 1) * f
<1> DEFINE x == (n * b) * t
           y == (q + 1) * D
<1>1. x \in Nat /\ y \in Nat /\ x + 1 <= y
  OBVIOUS
<1>2. r * (x + 1) <= r * y
  <2> HIDE DEF x, y
  <2>1. x + 1 \in Int /\ y \in Int
    BY <1>1
  <2> QED
    BY <1>1, <2>1, ProductLeq
<1>3. (q + 1) * (D * r) <= (q + 1) * (n * f)
  <2>1. D * r \in Int /\ n * f \in Int /\ q + 1 \in Nat
    OBVIOUS
  <2> QED
    BY <2>1, ProductLeq
<1>4. r * (x + 1) = r * x + r
  <2> HIDE DEF x
  <2> QED
    BY <1>1
<1>5. r * y = (q + 1) * (D * r)
  OBVIOUS
<1>6. r * x = n * (b * (t * r))
  OBVIOUS
<1>7. (q + 1) * (n * f) = n * ((q + 1) * f)
  OBVIOUS
<1> DEFINE u == b * (t * r)
           v == (q + 1) * f
           w == r * y
<1>8. u \in Nat /\ v \in Nat
  OBVIOUS
<1>9. w \in Nat
  BY <1>1
<1> HIDE DEF u, v, x, y, w
<1>10. n * u < n * v
  <2>1. r * (x + 1) <= w /\ r * (x + 1) = n * u + r /\ w <= n * v
    BY <1>2, <1>3, <1>4, <1>5, <1>6, <1>7 DEF u, v, w
  <2>2. n * u \in Nat /\ n * v \in Nat
    BY <1>8
  <2> QED
    BY <1>9, <2>1, <2>2
<1>11. u < v
  BY <1>8, <1>10, ProductLess
<1> QED
  BY <1>11 DEF u, v

\* It is behind the byte h that time t was taken from by a frame at most, if D units are shorter
\* than n frames by less than a unit.
LEMMA SeekNear ==
  ASSUME NEW n \in Nat \ {0}, NEW b \in Nat \ {0}, NEW f \in Nat, NEW r \in Nat \ {0}, NEW D \in Nat,
         n + 1 <= D, n * f < (D + 1) * r,
         NEW t \in Nat, NEW h \in Nat, h <= n * b, b * (t * r) < (h + 1) * f,
         NEW q \in Nat, D * q <= (n * b) * t
  PROVE  q <= h + b
<1> DEFINE x == (n * b) * t
           y == (h + 1) * (D + 1)
<1>1. x \in Nat /\ y \in Nat
  OBVIOUS
<1>2. x < y
  <2>1. n * (b * (t * r)) <= n * ((h + 1) * f)
    <3>1. b * (t * r) \in Int /\ (h + 1) * f \in Int
      OBVIOUS
    <3> QED
      BY <3>1, ProductLeq
  <2>2. (h + 1) * (n * f + 1) <= (h + 1) * ((D + 1) * r)
    <3>1. n * f + 1 \in Int /\ (D + 1) * r \in Int /\ h + 1 \in Nat
      OBVIOUS
    <3> QED
      BY <3>1, ProductLeq
  <2>3. n * (b * (t * r)) = r * x
    OBVIOUS
  <2>4. n * ((h + 1) * f) = (h + 1) * (n * f)
    OBVIOUS
  <2>5. (h + 1) * ((D + 1) * r) = r * y
    OBVIOUS
  <2>6. (h + 1) * (n * f + 1) = (h + 1) * (n * f) + (h + 1)
    <3> DEFINE z == n * f
    <3>1. z \in Nat
      OBVIOUS
    <3> HIDE DEF z
    <3>2. (h + 1) * (z + 1) = (h + 1) * z + (h + 1)
      BY <3>1
    <3> QED
      BY <3>2 DEF z
  <2> DEFINE z == (h + 1) * (n * f)
  <2>7. z \in Nat
    OBVIOUS
  <2> HIDE DEF x, y, z
  <2>8. r * x \in Int /\ r * y \in Int
    BY <1>1
  <2>9. r * x <= z /\ z + (h + 1) <= r * y
    BY <2>1, <2>2, <2>3, <2>4, <2>5, <2>6 DEF z
  <2>10. r * x < r * y
    BY <2>7, <2>8, <2>9
  <2> QED
    BY <1>1, <2>10, ProductLess
<1>3. SUFFICES ASSUME h + b + 1 <= q PROVE FALSE
  OBVIOUS
<1>4. D * (h + b + 1) <= D * q
  <2>1. h + b + 1 \in Int /\ q \in Int
    OBVIOUS
  <2> QED
    BY <1>3, <2>1, ProductLeq
<1>5. D * (h + b + 1) = D * h + D * b + D /\ y = D * h + D + h + 1
  OBVIOUS
<1>6. b * (n + 1) <= b * D
  <2>1. n + 1 \in Int /\ D \in Int
    OBVIOUS
  <2> QED
    BY <2>1, ProductLeq
<1>7. b * (n + 1) = n * b + b /\ b * D = D * b
  OBVIOUS
<1>8. {D * h, D * b, D * q, n * b} \subseteq Nat
  OBVIOUS
<1>9. D * q <= x
  OBVIOUS
<1> HIDE DEF x, y
<1> QED
  BY <1>1, <1>2, <1>4, <1>5, <1>6, <1>7, <1>8, <1>9

\* It is before the byte of time t by less than a unit, if t is inside the song.
LEMMA SeekLower ==
  ASSUME NEW n \in Nat \ {0}, NEW b \in Nat \ {0}, NEW f \in Nat, NEW r \in Nat \ {0}, NEW D \in Nat \ {0},
         n * f < (D + 1) * r, NEW t \in Nat, t <= D, NEW q \in Nat, D * q <= (n * b) * t
  PROVE  q * f < b * (t * r + r)
<1> DEFINE S == n * b
<1>1. S \in Nat \ {0}
  BY SMT
<1>2. q <= S
  <2> HIDE DEF S
  <2>1. S * t <= S * D /\ D * q <= S * t
    BY <1>1, ProductLeq DEF S
  <2>2. S * D = D * S /\ {S * t, D * S, D * q} \subseteq Int
    BY <1>1
  <2>3. D * q < D * (S + 1)
    <3>1. D * (S + 1) = D * S + D
      BY <1>1
    <3> QED
      BY <2>1, <2>2, <3>1
  <2>4. q < S + 1
    <3>1. q \in Int /\ S + 1 \in Int
      BY <1>1
    <3> QED
      BY <2>3, <3>1, ProductLess
  <2> QED
    BY <1>1, <2>4
<1>3. CASE q = 0
  <2>1. q * f = 0 /\ b * (t * r + r) = b * (t * r) + b * r
    BY <1>3
  <2>2. b * r \in Nat /\ b * r # 0 /\ b * (t * r) \in Nat
    OBVIOUS
  <2> QED
    BY <2>1, <2>2
<1>4. CASE q # 0
  <2>1. q * (n * f + 1) <= q * ((D + 1) * r)
    <3>1. n * f + 1 \in Int /\ (D + 1) * r \in Int
      OBVIOUS
    <3> QED
      BY <3>1, ProductLeq
  <2>2. q * (n * f + 1) = n * (q * f) + q
    <3> DEFINE z == n * f
    <3>1. z \in Nat
      OBVIOUS
    <3> HIDE DEF z
    <3>2. q * (z + 1) = q * z + q
      BY <3>1
    <3>3. q * (n * f) = n * (q * f)
      OBVIOUS
    <3> QED
      BY <3>2, <3>3 DEF z
  <2>3. q * ((D + 1) * r) = r * (D * q) + r * q
    OBVIOUS
  <2> HIDE DEF S
  <2>4. r * (D * q) <= r * (S * t)
    <3>1. D * q \in Int /\ S * t \in Int /\ D * q <= S * t
      BY <1>1 DEF S
    <3> QED
      BY <3>1, ProductLeq
  <2>5. r * q <= r * S
    BY <1>1, <1>2, ProductLeq
  <2>6. r * (S * t) + r * S = n * (b * (t * r + r))
    <3>1. r * (S * t) = n * (b * (t * r)) /\ r * S = n * (b * r)
      BY DEF S
    <3>2. n * (b * (t * r + r)) = n * (b * (t * r)) + n * (b * r)
      <4> DEFINE u == t * r
      <4>1. u \in Nat
        OBVIOUS
      <4> HIDE DEF u
      <4>2. n * (b * (u + r)) = n * (b * u) + n * (b * r)
        BY <4>1
      <4> QED
        BY <4>2 DEF u
    <3> QED
      BY <3>1, <3>2
  <2> DEFINE u == q * f
             v == b * (t * r + r)
  <2>7. u \in Nat /\ v \in Nat
    OBVIOUS
  <2>8. {r * (D * q), r * (S * t), r * q, r * S} \subseteq Int
    BY <1>1
  <2> HIDE DEF u, v
  <2>9. n * u < n * v
    <3>1. n * u + q <= r * (D * q) + r * q
      BY <2>1, <2>2, <2>3 DEF u
    <3>2. r * (S * t) + r * S = n * v
      BY <2>6 DEF v
    <3>3. n * u \in Int /\ n * v \in Int
      BY <2>7
    <3> QED
      BY <1>4, <2>4, <2>5, <2>8, <3>1, <3>2, <3>3
  <2>10. u < v
    BY <2>7, <2>9, ProductLess
  <2> QED
    BY <2>10 DEF u, v
<1> QED
  BY <1>3, <1>4

\* A time behind the end gives a byte behind the end.
LEMMA SeekBehind ==
  ASSUME NEW S \in Nat, NEW D \in Nat \ {0}, NEW t \in Nat, D < t, NEW q \in Nat, S * t < (q + 1) * D
  PROVE  S <= q
<1>1. S * D <= S * t
  BY ProductLeq
<1>2. S * D = D * S /\ (q + 1) * D = D * (q + 1) /\ {S * t, D * S, D * (q + 1)} \subseteq Int
  OBVIOUS
<1>3. D * S < D * (q + 1)
  BY <1>1, <1>2
<1>4. S < q + 1
  <2>1. S \in Int /\ q + 1 \in Int
    OBVIOUS
  <2> QED
    BY <1>3, <2>1, ProductLess
<1> QED
  BY <1>4

\* The first frame after a seek begins less than a frame behind it ...
LEMMA FirstFrame ==
  ASSUME NEW b \in Nat \ {0}, NEW f \in Nat \ {0}, NEW r \in Nat, NEW t \in Nat, NEW a \in Nat, NEW p \in Nat,
         p < a + b, a * f < b * (t + r)
  PROVE  (p + b) * f < b * (((t + f) + r) + f)
<1>1. PICK d \in Nat : a + b = (p + 1) + d
  <2>1. (a + b) - (p + 1) \in Nat /\ a + b = (p + 1) + ((a + b) - (p + 1))
    OBVIOUS
  <2> QED
    BY <2>1
<1>2. (a + b) * f = a * f + b * f /\ ((p + 1) + d) * f = (p * f + f) + d * f /\ (p + b) * f = p * f + b * f
  BY <1>1
<1>3. b * (((t + f) + r) + f) = b * (t + r) + (b * f + b * f)
  OBVIOUS
<1>4. {a * f, b * f, p * f, d * f, b * (t + r)} \subseteq Nat
  BY <1>1
<1> QED
  BY <1>1, <1>2, <1>3, <1>4

\* ... and the next ones follow at once.
LEMMA NextFrames ==
  ASSUME NEW b \in Nat, NEW f \in Nat, NEW r \in Nat, NEW t \in Nat, NEW a \in Nat,
         a * f < b * ((t + r) + f)
  PROVE  (a + b) * f < b * (((t + f) + r) + f)
<1>1. (a + b) * f = a * f + b * f /\ b * (((t + f) + r) + f) = b * ((t + r) + f) + b * f
  OBVIOUS
<1>2. {a * f, b * f, b * ((t + r) + f)} \subseteq Nat
  OBVIOUS
<1> QED
  BY <1>1, <1>2

\* What the proofs use of an even mp3 with frames of b bytes.
EvenSong(b) ==
  /\ b \in Nat \ {0} /\ \A k \in 1..(Count + 1) : Start[k] = (k - 1) * b
  /\ Count \in Nat /\ Size = Count * b /\ Size \in Nat /\ (Count > 0 => FrameBytes = b)
  /\ Total * Milli = Count * Ticks /\ Count * Ticks \in Nat
  /\ Length \in Nat /\ Rate * Length <= Count * Ticks /\ Count * Ticks < Rate * (Length + 1)
  /\ Duration \in Int

\* All even mp3 are.
LEMMA EvenSongs ==
  ASSUME BaseInv, Even
  PROVE  \E b : EvenSong(b)
<1>1. file \in Files /\ info \in Tags \cup {NoTag}
  BY DEF BaseInv, TypeOK
<1>2. PICK b \in Nat \ {0} : \A k \in 1..(Count + 1) : Start[k] = (k - 1) * b
  BY <1>1, EvenStart
<1>3. Count \in Nat /\ Size \in Nat /\ Length \in Nat /\ Total \in Nat
  BY <1>1, FileNumbers
<1>4. Size = Count * b
  <2>1. Count + 1 \in 1..(Count + 1) /\ (Count + 1) - 1 = Count
    BY <1>3
  <2> QED
    BY <1>2, <2>1 DEF Size
<1>5. Duration \in Int
  BY <1>1, <1>3, TagsType DEF Duration
<1>6. ASSUME Count > 0 PROVE FrameBytes = b
  <2>1. 1 \in 1..Count /\ 2 \in 1..(Count + 1) /\ 1 \in 1..(Count + 1)
    BY <1>3, <1>6
  <2>2. Start[1 + 1] = Start[1] + file.bytes[1]
    BY <1>1, <2>1, StartTurns
  <2>3. Start[1] = 0 /\ Start[2] = b
    BY <1>2, <2>1
  <2>4. FrameBytes = file.bytes[1]
    BY <1>3, <1>6 DEF FrameBytes
  <2>5. file.bytes[1] \in Nat
    BY <1>1, <2>1, DecodersAssumption DEF FileType, Count
  <2> QED
    BY <2>2, <2>3, <2>4, <2>5
<1>7. Total * Milli = Count * Ticks /\ Count * Ticks \in Nat
  BY <1>3, Constants DEF Total, Ticks
<1>8. Rate * Length <= Count * Ticks /\ Count * Ticks < Rate * (Length + 1)
  <2>1. Rate * TimeOf(Total) <= Total * Milli /\ Total * Milli < Rate * (TimeOf(Total) + 1)
    BY <1>3, SampleTime
  <2> QED
    BY <1>7, <2>1 DEF Length
<1> QED
  BY <1>2, <1>3, <1>4, <1>5, <1>6, <1>7, <1>8 DEF EvenSong

\* What was heard lies in the file.
LEMMA HeardInside ==
  ASSUME NEW b, EvenSong(b), NEW n \in 0..Count
  PROVE  Start[n + 1] = n * b /\ n * b \in Nat /\ n * b <= Size
<1>1. n + 1 \in 1..(Count + 1) /\ (n + 1) - 1 = n /\ b \in Nat /\ Count \in Nat
  BY DEF EvenSong
<1>2. Start[n + 1] = n * b
  BY <1>1 DEF EvenSong
<1>3. b * n <= b * Count
  BY <1>1, ProductLeq
<1>4. n * b = b * n /\ Count * b = b * Count /\ n * b \in Nat
  BY <1>1
<1> QED
  BY <1>2, <1>3, <1>4 DEF EvenSong

\* The next frame begins behind the stream by less than a frame.
LEMMA NextFrameIs ==
  ASSUME NEW b, EvenSong(b), song_type = "mp3", file \in Files, data \in Streams, NextFrame <= Count
  PROVE  /\ NextFrame \in 1..Count /\ NextFrame \in 0..Count
         /\ Start[NextFrame] = (NextFrame - 1) * b /\ Start[NextFrame] \in Nat
         /\ Start[NextFrame + 1] = Start[NextFrame] + b /\ Start[NextFrame + 1] <= Size
         /\ data.at <= Start[NextFrame] /\ Start[NextFrame] < data.at + b
         /\ \A n \in 0..Count : data.at <= Start[n + 1] => Start[NextFrame] <= Start[n + 1]
<1> DEFINE k == NextFrame
<1>1. /\ k \in 1..(Count + 1) /\ Count \in Nat /\ data.at \in Nat /\ b \in Nat \ {0}
      /\ \A j \in 1..Count : Start[j] >= data.at => k <= j
      /\ Start[k] >= data.at
  BY NextIsFirst DEF Ahead, EvenSong, Streams
<1>2. k \in 1..Count /\ k \in 0..Count
  BY <1>1
<1> HIDE DEF k
<1> DEFINE m == k - 1
<1>3. m \in 0..Count /\ m \in Nat /\ k = m + 1 /\ m + 1 \in 0..Count
  BY <1>1, <1>2
<1> HIDE DEF m
<1>4. Start[k] = m * b /\ m * b \in Nat
  BY <1>3, HeardInside
<1>5. Start[k + 1] = (m + 1) * b /\ (m + 1) * b <= Size
  BY <1>3, HeardInside
<1>6. (m + 1) * b = m * b + b
  BY <1>1, <1>3
<1>7. m * b < data.at + b
  <2>1. CASE m = 0
    BY <1>1, <2>1
  <2>2. CASE m # 0
    <3>1. m \in 1..Count /\ ~(k <= m)
      BY <1>1, <1>2, <1>3, <2>2
    <3>2. ~(Start[m] >= data.at)
      BY <1>1, <3>1
    <3>3. Start[m] = (m - 1) * b /\ (m - 1) * b = m * b - b
      <4>1. m \in 1..(Count + 1)
        BY <1>1, <3>1
      <4>2. Start[m] = (m - 1) * b
        BY <4>1 DEF EvenSong
      <4>3. (m - 1) * b = m * b - b
        BY <1>1, <1>3
      <4> QED
        BY <4>2, <4>3
    <3> QED
      BY <1>1, <1>4, <3>2, <3>3
  <2> QED
    BY <2>1, <2>2
<1>8. ASSUME NEW n \in 0..Count, data.at <= Start[n + 1] PROVE Start[k] <= Start[n + 1]
  <2>0. n \in Nat
    BY <1>1
  <2>1. Start[n + 1] = n * b /\ n * b \in Nat /\ n \in Nat
    BY <2>0, HeardInside
  <2>2. m <= n
    <3>1. CASE n + 1 <= Count
      <4>1. n + 1 \in 1..Count /\ Start[n + 1] >= data.at
        BY <1>1, <1>8, <2>1, <3>1
      <4> QED
        BY <1>1, <1>3, <2>1, <4>1
    <3>2. CASE ~(n + 1 <= Count)
      BY <1>1, <1>2, <1>3, <2>1, <3>2
    <3> QED
      BY <3>1, <3>2
  <2>3. b * m <= b * n
    BY <1>1, <1>3, <2>1, <2>2, ProductLeq
  <2>4. b * m = m * b /\ b * n = n * b
    BY <1>1, <1>3, <2>1
  <2> QED
    BY <1>4, <2>1, <2>3, <2>4
<1>9. Start[k] = (k - 1) * b
  BY <1>4 DEF m
<1> QED
  BY <1>1, <1>2, <1>4, <1>5, <1>6, <1>7, <1>8, <1>9 DEF k

\* Where an mp3 is after a seek.
LEMMA Mp3Sought ==
  ASSUME song_type = "mp3", play_length = Duration, NEW d, NEW t \in Nat
  PROVE  /\ t = 0 => seek(d, t) = [at |-> 0, timer |-> 0]
         /\ t # 0 /\ Duration <= 0 => seek(d, t) = d
         /\ t # 0 /\ ~(Duration <= 0) =>
              seek(d, t) = [at |-> (Size * t) \div Duration, timer |-> t * Rate]
<1>1. 0 * Rate = 0
  BY Constants
<1> QED
  BY <1>1 DEF seek, mp3_seek

\* What opening an mp3 does: it fails, begins at the beginning, or seeks.
LEMMA Mp3Opened ==
  ASSUME BaseInv, LengthInv, NEW b, EvenSong(b), song_type = "mp3", open
  PROVE  /\ UNCHANGED <<file, song_type, current_position, heard>> /\ frame' = NoFrame
         /\ status = "running" /\ status' # "crashed"
         /\ \/ data' = NoData /\ skipped' = skipped
            \/ /\ data' = [at |-> 0, timer |-> 0] /\ skipped' = LeftOut(0)
               /\ current_position = 0 \/ ~(Duration > 0)
            \/ /\ data' = [at |-> (Size * current_position) \div Duration, timer |-> current_position * Rate]
               /\ skipped' = LeftOut((Size * current_position) \div Duration)
               /\ Duration \in Nat \ {0}
<1>1. current_position \in Nat /\ Duration \in Int /\ play_length = Duration
  BY DEF BaseInv, TypeOK, EvenSong, open, LengthInv, NotLoaded
<1>2. /\ UNCHANGED <<file, song_type, current_position, heard>> /\ frame' = NoFrame
      /\ status = "running" /\ status' # "crashed"
  BY DEF open, BaseInv, LoadInv
<1> DEFINE d0 == [at |-> 0, timer |-> 0]
<1>3. \/ data' = NoData /\ skipped' = skipped
      \/ data' = seek(d0, current_position) /\ skipped' = LeftOut(data'.at)
  BY DEF open
<1>4. CASE data' = seek(d0, current_position) /\ skipped' = LeftOut(data'.at)
  <2>1. CASE current_position = 0 \/ Duration <= 0
    <3>1. seek(d0, current_position) = d0
      BY <1>1, <2>1, Mp3Sought
    <3> QED
      BY <1>1, <1>2, <1>4, <2>1, <3>1
  <2>2. CASE current_position # 0 /\ ~(Duration <= 0)
    <3>1. seek(d0, current_position)
            = [at |-> (Size * current_position) \div Duration, timer |-> current_position * Rate]
      BY <1>1, <2>2, Mp3Sought
    <3>2. Duration \in Nat \ {0}
      BY <1>1, <2>2
    <3> QED
      BY <1>2, <1>4, <3>1, <3>2
  <2> QED
    BY <2>1, <2>2
<1> QED
  BY <1>2, <1>3, <1>4

\* What decoding a frame of an mp3 does.
LEMMA Mp3Decoded ==
  ASSUME BaseInv, song_type = "mp3", NEW s, decode_frame(s)
  PROVE  /\ UNCHANGED <<file, song_type, skipped, status>> /\ status = "running" /\ NextFrame <= Count
         /\ file \in Files /\ data \in Streams /\ data # NoData
         /\ data'.at = Start[NextFrame + 1] /\ heard' = data'.at /\ data'.at \in Nat /\ data'.timer \in Nat
         /\ \/ /\ NextFrame \in file.bad
               /\ data'.timer = data.timer /\ current_position' = current_position
               /\ ~(frame'.pcm_size > 0)
            \/ /\ data'.timer = data.timer + Ticks /\ current_position' = data'.timer \div Rate
               /\ frame'.position = data'.timer \div Rate
<1> DEFINE k == NextFrame
           r == decoded(k)
<1>1. file \in Files /\ data \in Streams /\ data # NoData /\ status = "running"
  BY DEF BaseInv, TypeOK, decode_frame, Playing, Opened, Streams
<1>2. k <= Count /\ UNCHANGED <<file, song_type, skipped, status>>
  BY DEF decode_frame
<1>3. /\ data' = [at |-> r.at, timer |-> r.timer] /\ heard' = r.at
      /\ current_position' = IF r.pcm_size > 0 THEN r.position ELSE current_position
      /\ frame'.pcm_size = r.pcm_size /\ frame'.position = r.position
  BY DEF decode_frame
<1>4. k \in 1..Count
  <2>1. k \in 1..(Count + 1) /\ Count \in Nat
    BY <1>1, NextIsFirst, StartTurns
  <2> QED
    BY <1>2, <2>1
<1>5. r \in Results
  BY <1>1, <1>4, DecodedType DEF Known
<1>6. /\ r.at = Start[k + 1]
      /\ k \notin file.bad => r.pcm_size > 0 /\ r.timer = data.timer + Ticks /\ r.position = r.timer \div Rate
      /\ k \in file.bad => ~(r.pcm_size > 0) /\ r.timer = data.timer
  BY DEF decoded, mp3_decode_frame, Ticks
<1> HIDE DEF r, k
<1>7. data'.at = r.at /\ data'.timer = r.timer /\ r.at \in Nat /\ r.timer \in Nat
  BY <1>3, <1>5 DEF Results
<1>8. CASE k \in file.bad
  BY <1>1, <1>2, <1>3, <1>6, <1>7, <1>8 DEF k
<1>9. CASE k \notin file.bad
  BY <1>1, <1>2, <1>3, <1>6, <1>7, <1>9 DEF k
<1> QED
  BY <1>8, <1>9

\* What was heard ends with a frame.
FrameInv == \E n \in 0..Count : heard = Start[n + 1]

\* Every step of an even mp3 keeps that.
LEMMA FrameStep ==
  ASSUME BaseInv, IsMp3, Even, FrameInv, [Next]_vars
  PROVE  FrameInv'
<1>1. PICK b : EvenSong(b)
  BY EvenSongs
<1>2. Count' = Count /\ Start' = Start
  BY SameDuration, SameFile
<1>3. 0 \in 0..Count /\ Start[0 + 1] = 0
  <2>1. 0 \in 0..Count /\ b \in Nat
    BY <1>1 DEF EvenSong
  <2>2. Start[0 + 1] = 0 * b
    BY <1>1, <2>1, HeardInside
  <2> QED
    BY <2>1, <2>2
<1>4. ASSUME NEW s \in SampleRange, decode_frame(s) PROVE FrameInv'
  <2>1. song_type = "mp3"
    BY <1>4 DEF decode_frame, Playing, Opened, BaseInv, LoadInv, IsMp3, NotLoaded, Known
  <2>2. heard' = Start[NextFrame + 1] /\ NextFrame <= Count /\ file \in Files /\ data \in Streams
    BY <1>4, <2>1, Mp3Decoded
  <2>3. NextFrame \in 0..Count
    BY <1>1, <2>1, <2>2, NextFrameIs
  <2> QED
    BY <1>2, <2>2, <2>3 DEF FrameInv
<1>5. CASE heard' = 0
  BY <1>2, <1>3, <1>5 DEF FrameInv
<1>6. CASE heard' = heard
  BY <1>2, <1>6 DEF FrameInv
<1>7. ASSUME ~\E s \in SampleRange : decode_frame(s) PROVE heard' = 0 \/ heard' = heard
  BY <1>7 DEF Next, vars, ensure_song_fully_loaded, open, FatalError, ReadOutside, close, Stop, Quit
<1> QED
  BY <1>4, <1>5, <1>6, <1>7

\* If the known length is not shorter than the song, the stream and the byte that the saved time
\* stands for are not behind what was heard.
LongInv ==
  /\ data # NoData => data.at <= heard
  /\ Duration > 0 => Size * current_position < (heard + 1) * Duration
  /\ Duration > 0 /\ data # NoData =>
       current_position * Rate <= data.timer /\ Size * data.timer < (data.at + 1) * (Duration * Rate)
  /\ skipped = {} /\ status # "crashed"

\* At the beginning of the song.
LEMMA LongZero ==
  ASSUME NEW b, EvenSong(b)
  PROVE  Duration > 0 => /\ Size * 0 < (0 + 1) * Duration /\ 0 * Rate <= 0
                         /\ Size * 0 < (0 + 1) * (Duration * Rate)
<1> SUFFICES ASSUME Duration > 0
             PROVE  /\ Size * 0 < (0 + 1) * Duration /\ 0 * Rate <= 0
                    /\ Size * 0 < (0 + 1) * (Duration * Rate)
  OBVIOUS
<1>1. Duration \in Nat \ {0} /\ Rate \in Nat \ {0} /\ Size \in Nat
  BY Constants DEF EvenSong
<1>2. Duration * Rate \in Nat /\ Duration * Rate # 0
  BY <1>1
<1> QED
  BY <1>1, <1>2

\* Opening such a song goes no further than what was heard.
LEMMA OpenLong ==
  ASSUME BaseInv, LengthInv, NEW b, EvenSong(b), song_type = "mp3", LongInv, open
  PROVE  /\ data' # NoData => data'.at <= heard
         /\ Duration > 0 /\ data' # NoData =>
              /\ current_position * Rate <= data'.timer
              /\ Size * data'.timer < (data'.at + 1) * (Duration * Rate)
         /\ skipped' = {}
<1> DEFINE cp == current_position
           q == (Size * cp) \div Duration
<1>1. cp \in Nat /\ heard \in Nat /\ file \in Files /\ Size \in Nat /\ Rate \in Nat \ {0}
  BY Constants DEF BaseInv, TypeOK, EvenSong
<1>2. \/ data' = NoData /\ skipped' = skipped
      \/ /\ data' = [at |-> 0, timer |-> 0] /\ skipped' = LeftOut(0)
         /\ cp = 0 \/ ~(Duration > 0)
      \/ /\ data' = [at |-> q, timer |-> cp * Rate] /\ skipped' = LeftOut(q)
         /\ Duration \in Nat \ {0}
  BY Mp3Opened
<1>3. CASE data' = NoData /\ skipped' = skipped
  BY <1>3 DEF LongInv
<1>4. CASE data' = [at |-> 0, timer |-> 0] /\ skipped' = LeftOut(0) /\ (cp = 0 \/ ~(Duration > 0))
  <2>1. LeftOut(0) = {} /\ 0 <= heard
    BY <1>1, NothingLeftOut
  <2>2. Duration > 0 => cp * Rate <= 0 /\ Size * 0 < (0 + 1) * (Duration * Rate)
    BY <1>4, LongZero
  <2> QED
    BY <1>4, <2>1, <2>2
<1>5. CASE data' = [at |-> q, timer |-> cp * Rate] /\ skipped' = LeftOut(q) /\ Duration \in Nat \ {0}
  <2>1. Size * cp < (heard + 1) * Duration
    BY <1>5 DEF LongInv
  <2>2. q \in Nat /\ q <= heard /\ Size * cp < (q + 1) * Duration
    BY <1>1, <1>5, <2>1, SeekByte
  <2>3. LeftOut(q) = {}
    <3> HIDE DEF q
    <3> QED
      BY <1>1, <2>2, NothingLeftOut
  <2>4. Size * (cp * Rate) < (q + 1) * (Duration * Rate)
    <3> DEFINE x == Size * cp
               y == (q + 1) * Duration
               D == Duration
    <3> HIDE DEF q, D
    <3>1. x \in Nat /\ y \in Nat /\ x + 1 <= y
      BY <1>1, <1>5, <2>2 DEF D
    <3>2. Size * (cp * Rate) = Rate * x /\ (q + 1) * (D * Rate) = Rate * y
      BY <1>1, <1>5, <2>2 DEF D
    <3> HIDE DEF x, y
    <3>3. Rate * (x + 1) <= Rate * y
      <4>1. x + 1 \in Int /\ y \in Int
        BY <3>1
      <4> QED
        BY <1>1, <3>1, <4>1, ProductLeq
    <3>4. Rate * (x + 1) = Rate * x + Rate /\ Rate * x \in Int /\ Rate * y \in Int
      BY <1>1, <3>1
    <3> QED
      BY <1>1, <3>2, <3>3, <3>4 DEF D
  <2>5. cp * Rate <= cp * Rate
    <3>1. cp * Rate \in Nat
      BY <1>1, NatProduct
    <3> QED
      BY <3>1
  <2> HIDE DEF q
  <2> QED
    BY <1>5, <2>2, <2>3, <2>4, <2>5
<1> QED
  BY <1>2, <1>3, <1>4, <1>5

\* Decoding adds no more to the clock than the bytes stand for.
LEMMA DecodeLong ==
  ASSUME BaseInv, FrameInv, NEW b, EvenSong(b), song_type = "mp3", LongEnough, LongInv,
         NEW s, decode_frame(s)
  PROVE  /\ data'.at = heard' /\ heard' \in Nat
         /\ Duration > 0 => /\ Size * current_position' < (heard' + 1) * Duration
                            /\ current_position' * Rate <= data'.timer
                            /\ Size * data'.timer < (heard' + 1) * (Duration * Rate)
<1> DEFINE p == Start[NextFrame]
           cp == current_position
           t == data.timer
<1>1. /\ file \in Files /\ data \in Streams /\ data # NoData /\ NextFrame <= Count
      /\ data'.at = Start[NextFrame + 1] /\ heard' = data'.at /\ data'.at \in Nat /\ data'.timer \in Nat
      /\ \/ data'.timer = t /\ cp' = cp
         \/ data'.timer = t + Ticks /\ cp' = data'.timer \div Rate
  BY Mp3Decoded
<1>2. p \in Nat /\ Start[NextFrame + 1] = p + b /\ data.at <= p
  BY <1>1, NextFrameIs
<1>3. ASSUME Duration > 0
      PROVE  /\ Size * cp' < (heard' + 1) * Duration /\ cp' * Rate <= data'.timer
             /\ Size * data'.timer < (heard' + 1) * (Duration * Rate)
  <2> DEFINE D == Duration
             E == Duration * Rate
             f == Ticks
             c == Count
             S == Size
             a == data.at
             u == data'.timer
             h == heard'
             w == cp'
  <2>1. Rate \in Nat \ {0} /\ D \in Nat /\ f \in Nat /\ c \in Nat /\ S \in Nat /\ S = c * b /\ b \in Nat /\ cp \in Nat
    BY <1>3, Constants, FrameClock DEF EvenSong, BaseInv, TypeOK
  <2>2. c * f <= E /\ E \in Nat
    BY <1>3, <2>1 DEF LongEnough, EvenSong
  <2>3. t \in Nat /\ a \in Nat /\ u \in Nat /\ h = p + b
    BY <1>1, <1>2 DEF Streams
  <2>4. cp * Rate <= t /\ S * t < (a + 1) * E
    BY <1>1, <1>3 DEF LongInv
  <2>5. (u = t /\ w = cp) \/ (u = t + f /\ w = u \div Rate)
    BY <1>1
  <2>6. a <= p /\ p \in Nat
    BY <1>2
  <2> HIDE DEF D, E, f, c, S, a, u, h, w, p, t, cp
  <2>7. S * t < (p + 1) * E
    <3>1. E * (a + 1) <= E * (p + 1)
      <4>1. a + 1 \in Int /\ p + 1 \in Int /\ a + 1 <= p + 1
        BY <2>3, <2>6
      <4> QED
        BY <2>2, <4>1, ProductLeq
    <3>2. E * (a + 1) = (a + 1) * E /\ E * (p + 1) = (p + 1) * E
      BY <2>2, <2>3, <2>6
    <3>3. {S * t, (a + 1) * E, (p + 1) * E} \subseteq Int
      BY <2>1, <2>2, <2>3, <2>6
    <3> QED
      BY <2>4, <3>1, <3>2, <3>3
  <2>8. S * t < ((p + b) + 1) * E /\ S * (t + f) < ((p + b) + 1) * E
    BY <2>1, <2>2, <2>3, <2>6, <2>7, FrameAdds
  <2>9. S * u < (h + 1) * E
    BY <2>3, <2>5, <2>8
  <2>10. w * Rate <= u /\ w \in Nat
    <3>1. CASE u = t /\ w = cp
      BY <2>1, <2>4, <3>1
    <3>2. CASE w = u \div Rate
      <4>1. u \div Rate \in Nat /\ Rate * (u \div Rate) <= u
        BY <2>1, <2>3, NatQuotient
      <4>2. Rate * w = w * Rate
        BY <2>1, <3>2, <4>1
      <4> QED
        BY <3>2, <4>1, <4>2
    <3> QED
      BY <2>5, <3>1, <3>2
  <2>11. S * w < (h + 1) * D
    <3>1. S * u < (h + 1) * (D * Rate)
      BY <2>9 DEF E, D
    <3>2. h \in Nat
      BY <2>1, <2>3, <2>6
    <3> QED
      BY <2>1, <2>3, <2>10, <3>1, <3>2, UnitsBehind
  <2> QED
    BY <2>9, <2>10, <2>11 DEF S, u, h, E, w, D, cp
<1> QED
  BY <1>1, <1>3

\* Every step of such a song keeps the stream behind what was heard.
LEMMA LongStep ==
  ASSUME BaseInv, LengthInv, FrameInv, IsMp3, Even, LongEnough, LongInv, [Next]_vars
  PROVE  LongInv'
<1>1. PICK b : EvenSong(b)
  BY EvenSongs
<1>2. Count' = Count /\ Start' = Start /\ Size' = Size /\ Duration' = Duration
  BY SameDuration, SameFile
<1>3. heard \in Nat /\ data \in Streams \cup {NoData} /\ Size \in Nat
  BY <1>1 DEF BaseInv, TypeOK, Streams, EvenSong
<1>4. Duration > 0 => /\ Size * 0 < (0 + 1) * Duration /\ 0 * Rate <= 0
                      /\ Size * 0 < (0 + 1) * (Duration * Rate)
  BY <1>1, LongZero
<1>5. song_type \in Known => song_type = "mp3"
  BY DEF BaseInv, LoadInv, IsMp3, NotLoaded, Known
<1>6. CASE ensure_song_fully_loaded
  <2>1. data' = NoData /\ UNCHANGED <<current_position, heard, skipped>> /\ status' # "crashed"
    BY <1>6 DEF ensure_song_fully_loaded, BaseInv, LoadInv, NotLoaded, Known
  <2> QED
    BY <1>2, <2>1 DEF LongInv
<1>7. CASE open
  <2>1. song_type = "mp3" /\ UNCHANGED <<current_position, heard>> /\ status' # "crashed"
    BY <1>5, <1>7 DEF open
  <2>2. /\ data' # NoData => data'.at <= heard
        /\ Duration > 0 /\ data' # NoData =>
             /\ current_position * Rate <= data'.timer
             /\ Size * data'.timer < (data'.at + 1) * (Duration * Rate)
        /\ skipped' = {}
    BY <1>1, <1>7, <2>1, OpenLong
  <2> QED
    BY <1>2, <2>1, <2>2 DEF LongInv
<1>8. ASSUME NEW s \in SampleRange, decode_frame(s) PROVE LongInv'
  <2>1. song_type = "mp3" /\ status' # "crashed" /\ skipped' = skipped
    BY <1>5, <1>8 DEF decode_frame, Playing, Opened, BaseInv, LoadInv
  <2>2. /\ data'.at = heard' /\ heard' \in Nat
        /\ Duration > 0 => /\ Size * current_position' < (heard' + 1) * Duration
                           /\ current_position' * Rate <= data'.timer
                           /\ Size * data'.timer < (heard' + 1) * (Duration * Rate)
    BY <1>1, <1>8, <2>1, DecodeLong
  <2>3. data'.at <= heard'
    BY <2>2
  <2> QED
    BY <1>2, <2>1, <2>2, <2>3 DEF LongInv
<1>9. CASE FatalError
  <2>1. UNCHANGED <<data, current_position, heard, skipped>> /\ status' # "crashed"
    BY <1>9, <1>5 DEF FatalError, Playing, Opened
  <2> QED
    BY <1>2, <2>1 DEF LongInv
<1>10. ASSUME ReadOutside PROVE FALSE
  <2>1. data \in Streams /\ data.at > Size /\ data.at <= heard
    BY <1>3, <1>10 DEF ReadOutside, Playing, Opened, Outside, LongInv
  <2>2. PICK n \in 0..Count : heard = Start[n + 1]
    BY DEF FrameInv
  <2>3. heard <= Size
    BY <1>1, <2>2, HeardInside
  <2>4. data.at \in Nat
    BY <2>1 DEF Streams
  <2> QED
    BY <1>3, <2>1, <2>3, <2>4
<1>11. CASE close
  <2>1. data' = NoData /\ current_position' = 0 /\ heard' = 0 /\ UNCHANGED <<skipped, status>>
    BY <1>11 DEF close
  <2> QED
    BY <1>2, <1>4, <2>1 DEF LongInv
<1>12. CASE Stop
  <2>1. /\ data' = seek(data, 0) /\ current_position' = 0 /\ heard' = 0 /\ UNCHANGED <<skipped, status>>
        /\ data # NoData /\ song_type = "mp3"
    BY <1>5, <1>12 DEF Stop, Playing, Opened, BaseInv, LoadInv
  <2>2. play_length = Duration
    BY <2>1 DEF LengthInv
  <2>3. data'.at = 0 /\ data'.timer = 0
    BY <2>1, <2>2, Mp3Sought
  <2> QED
    BY <1>2, <1>4, <2>1, <2>3 DEF LongInv
<1>13. CASE Quit
  <2>1. data' = NoData /\ UNCHANGED <<current_position, heard, skipped, status>>
    BY <1>13 DEF Quit
  <2> QED
    BY <1>2, <2>1 DEF LongInv
<1>14. CASE UNCHANGED vars
  BY <1>2, <1>14 DEF vars, LongInv
<1> QED
  BY <1>6, <1>7, <1>8, <1>9, <1>10, <1>11, <1>12, <1>13, <1>14 DEF Next

\* The length that is found, or none.
Measured == Duration <= 0 \/ Duration = Length

\* Two units of time in a frame make that length longer than the number of frames.
LEMMA LongFrames ==
  ASSUME BaseInv, IsMp3, NEW b, EvenSong(b), Count > 0
  PROVE  Count + 1 <= Length
<1>1. 2 * Rate <= Ticks
  <2>1. file \in Files /\ "mp3" \in {file.ext, file.content}
    BY DEF BaseInv, TypeOK, IsMp3, get_song_type
  <2>2. Ticks >= 2 * Rate
    BY <2>1, DecodersAssumption DEF Ticks
  <2>3. Ticks \in Int /\ 2 * Rate \in Int
    BY FrameClock, Constants
  <2> QED
    BY <2>2, <2>3
<1> DEFINE c == Count
           f == Ticks
           L == Length
<1>2. /\ c \in Nat /\ c >= 1 /\ f \in Nat /\ L \in Nat /\ Rate \in Nat \ {0}
      /\ c * f < Rate * (L + 1)
  BY FrameClock, Constants DEF EvenSong
<1>3. 2 * Rate <= f
  BY <1>1
<1> HIDE DEF c, f, L
<1>4. c * (2 * Rate) <= c * f
  <2>1. 2 * Rate \in Int /\ f \in Int
    BY <1>2
  <2> QED
    BY <1>2, <1>3, <2>1, ProductLeq
<1>5. c * (2 * Rate) = Rate * (2 * c)
  BY <1>2
<1>6. {c * f, Rate * (2 * c), Rate * (L + 1)} \subseteq Int
  BY <1>2
<1>7. Rate * (2 * c) < Rate * (L + 1)
  BY <1>2, <1>4, <1>5, <1>6
<1>8. 2 * c < L + 1
  <2>1. 2 * c \in Int /\ L + 1 \in Int
    BY <1>2
  <2> QED
    BY <1>2, <1>7, <2>1, ProductLess
<1>9. c + 1 <= L
  BY <1>2, <1>8
<1> QED
  BY <1>9 DEF c, L

\* With that length the clock is ahead of the byte by less than the time of one byte, the stream
\* outside by a frame at most, and one frame left out at most.
ClockInv(b) ==
  /\ Duration > 0 => b * (current_position * Rate) < (heard + 1) * Ticks
  /\ data # NoData =>
       /\ data.at <= Size + b /\ b * data.timer < (data.at + 1) * Ticks
       /\ Duration > 0 => current_position * Rate <= data.timer
       /\ frame.pcm_size > 0 => frame.position * Rate <= data.timer /\ data.timer < (frame.position + 1) * Rate
  /\ \A i, j \in skipped : i = j

\* If no frame is damaged, the clock is behind the byte by less than a frame and a unit of time.
Slow(b, at, timer) ==
  \/ at * Ticks < b * (timer + Rate)
  \/ (\E j \in 0..Count : at = Start[j + 1]) /\ at * Ticks < b * ((timer + Rate) + Ticks)
SlowInv(b) ==
  data # NoData => \/ data.at >= Size /\ ~(frame.pcm_size > 0)
                   \/ Slow(b, data.at, data.timer)

\* At the beginning of the song.
LEMMA ClockZero ==
  ASSUME NEW b \in Nat \ {0}
  PROVE  /\ b * 0 < (0 + 1) * Ticks /\ b * (0 * Rate) < (0 + 1) * Ticks /\ 0 * Rate <= 0
         /\ Slow(b, 0, 0)
<1>1. Ticks \in Nat \ {0} /\ Rate \in Nat \ {0}
  BY FrameClock, Constants
<1>2. 0 * Rate = 0 /\ b * 0 = 0 /\ (0 + 1) * Ticks = Ticks /\ 0 * Ticks = 0 /\ b * (0 + Rate) = b * Rate
  BY <1>1
<1>3. b * Rate \in Nat /\ b * Rate # 0
  BY <1>1
<1>4. 0 * Ticks < b * (0 + Rate)
  BY <1>2, <1>3
<1> QED
  BY <1>1, <1>2, <1>4 DEF Slow

\* A place that is not more than a frame behind what was heard leaves one frame out.
LEMMA OneLeftOut ==
  ASSUME NEW b, EvenSong(b), song_type = "mp3", heard \in Nat, FrameInv, NEW at \in Nat, at <= heard + b
  PROVE  \A i, j \in LeftOut(at) : i = j
<1>1. b \in Nat \ {0} /\ Count \in Nat
  BY DEF EvenSong
<1>2. PICK n \in 0..Count : heard = Start[n + 1]
  BY DEF FrameInv
<1>3. heard = n * b /\ n \in Nat
  <2>1. n \in Nat
    BY <1>1
  <2>2. Start[n + 1] = n * b
    BY HeardInside
  <2> QED
    BY <1>2, <2>1, <2>2
<1>4. ASSUME NEW i \in LeftOut(at) PROVE i = n + 1
  <2>1. i \in 1..Count /\ heard <= Start[i] /\ Start[i] < at
    BY DEF LeftOut
  <2> DEFINE m == i - 1
  <2>2. m \in Nat /\ i = m + 1 /\ m \in 0..Count
    BY <1>1, <2>1
  <2> HIDE DEF m
  <2>3. Start[i] = m * b /\ m * b \in Nat
    BY <2>2, HeardInside
  <2>4. b * n < b * (m + 1) /\ b * m < b * (n + 1)
    <3>1. b * (m + 1) = m * b + b /\ b * m = m * b /\ b * n = n * b /\ b * (n + 1) = n * b + b
      BY <1>1, <1>3, <2>2
    <3>2. n * b <= m * b /\ m * b < n * b + b /\ n * b \in Nat
      BY <1>1, <1>3, <2>1, <2>3
    <3> QED
      BY <1>1, <2>3, <3>1, <3>2
  <2>5. n < m + 1 /\ m < n + 1
    <3>1. n \in Int /\ m \in Int /\ n + 1 \in Int /\ m + 1 \in Int
      BY <1>3, <2>2
    <3> QED
      BY <1>1, <2>4, <3>1, ProductLess
  <2> QED
    BY <1>3, <2>2, <2>5
<1> QED
  BY <1>4

\* Opening a song with that length.
LEMMA OpenClock ==
  ASSUME BaseInv, LengthInv, FrameInv, IsMp3, NEW b, EvenSong(b), Count > 0, Measured,
         song_type = "mp3", ClockInv(b), open
  PROVE  /\ data' # NoData =>
              /\ data'.at <= Size + b /\ b * data'.timer < (data'.at + 1) * Ticks
              /\ Duration > 0 => current_position * Rate <= data'.timer
              /\ data'.at >= Size \/ Slow(b, data'.at, data'.timer)
         /\ \A i, j \in skipped' : i = j
<1> DEFINE cp == current_position
           q == (Size * cp) \div Duration
<1>1. /\ cp \in Nat /\ heard \in Nat /\ file \in Files /\ Size \in Nat /\ Rate \in Nat \ {0}
      /\ b \in Nat \ {0} /\ Count \in Nat \ {0} /\ Size = Count * b
  BY Constants DEF BaseInv, TypeOK, EvenSong
<1>2. \/ data' = NoData /\ skipped' = skipped
      \/ /\ data' = [at |-> 0, timer |-> 0] /\ skipped' = LeftOut(0)
         /\ cp = 0 \/ ~(Duration > 0)
      \/ /\ data' = [at |-> q, timer |-> cp * Rate] /\ skipped' = LeftOut(q)
         /\ Duration \in Nat \ {0}
  BY Mp3Opened
<1>3. CASE data' = NoData /\ skipped' = skipped
  BY <1>3 DEF ClockInv
<1>4. CASE data' = [at |-> 0, timer |-> 0] /\ skipped' = LeftOut(0) /\ (cp = 0 \/ ~(Duration > 0))
  <2>1. LeftOut(0) = {} /\ 0 <= Size + b
    BY <1>1, NothingLeftOut
  <2>2. b * 0 < (0 + 1) * Ticks /\ Slow(b, 0, 0) /\ (Duration > 0 => cp * Rate <= 0)
    BY <1>1, <1>4, ClockZero
  <2> QED
    BY <1>4, <2>1, <2>2
<1>5. CASE data' = [at |-> q, timer |-> cp * Rate] /\ skipped' = LeftOut(q) /\ Duration \in Nat \ {0}
  <2> DEFINE n == Count
             f == Ticks
             D == Duration
             h == heard
  <2>1. /\ n \in Nat \ {0} /\ f \in Nat /\ D \in Nat \ {0} /\ D * Rate <= n * f /\ n * f < (D + 1) * Rate
        /\ n + 1 <= D
    <3>1. D = Length /\ D \in Nat \ {0}
      BY <1>5 DEF Measured
    <3>2. Rate * D <= n * f /\ n * f < Rate * (D + 1)
      BY <3>1 DEF EvenSong
    <3>3. Rate * D = D * Rate /\ Rate * (D + 1) = (D + 1) * Rate
      BY <1>1, <3>1
    <3>4. n + 1 <= D
      BY <3>1, LongFrames
    <3>5. f \in Nat
      BY FrameClock
    <3> QED
      BY <1>1, <3>1, <3>2, <3>3, <3>4, <3>5
  <2>2. q \in Nat /\ D * q <= Size * cp /\ Size * cp < (q + 1) * D
    BY <1>1, <1>5, SeekByte
  <2>3. h <= n * b /\ h \in Nat
    <3>1. PICK m \in 0..Count : heard = Start[m + 1]
      BY DEF FrameInv
    <3>2. heard <= Size
      BY <3>1, HeardInside
    <3> QED
      BY <1>1, <3>2
  <2>4. b * (cp * Rate) < (h + 1) * f
    BY <1>5 DEF ClockInv
  <2>5. (n * b) * cp = Size * cp
    BY <1>1
  <2> HIDE DEF n, f, D, h, q, cp
  <2>6. q <= h + b
    BY <1>1, <2>1, <2>2, <2>3, <2>4, <2>5, SeekNear
  <2>7. b * (cp * Rate) < (q + 1) * f
    BY <1>1, <2>1, <2>2, <2>5, SeekUpper
  <2>8. q >= Size \/ q * f < b * (cp * Rate + Rate)
    <3>1. CASE cp <= D
      BY <1>1, <2>1, <2>2, <2>5, <3>1, SeekLower
    <3>2. CASE D < cp
      <4>1. Size <= q
        BY <1>1, <2>1, <2>2, <3>2, SeekBehind
      <4> QED
        BY <1>1, <2>2, <4>1
    <3> QED
      BY <1>1, <2>1, <3>1, <3>2
  <2>9. q <= Size + b
    <3>1. h <= Size
      BY <1>1, <2>3 DEF n
    <3> QED
      BY <1>1, <2>2, <2>3, <2>6, <3>1
  <2>10. \A i, j \in LeftOut(q) : i = j
    BY <1>1, <2>2, <2>6, OneLeftOut DEF h
  <2>11. cp * Rate <= cp * Rate
    <3>1. cp * Rate \in Nat
      BY <1>1, NatProduct
    <3> QED
      BY <3>1
  <2>12. data'.at = q /\ data'.timer = cp * Rate /\ skipped' = LeftOut(q)
    BY <1>5 DEF q, cp
  <2>13. q >= Size \/ Slow(b, q, cp * Rate)
    BY <2>8 DEF Slow, f
  <2> QED
    BY <2>7, <2>9, <2>10, <2>11, <2>12, <2>13 DEF f, cp
<1> QED
  BY <1>2, <1>3, <1>4, <1>5

\* Decoding keeps the clock from getting ahead of the byte ...
LEMMA DecodeClock ==
  ASSUME BaseInv, NEW b, EvenSong(b), song_type = "mp3", ClockInv(b), NEW s, decode_frame(s)
  PROVE  /\ Duration > 0 => b * (current_position' * Rate) < (heard' + 1) * Ticks
         /\ data'.at <= Size + b /\ b * data'.timer < (data'.at + 1) * Ticks
         /\ Duration > 0 => current_position' * Rate <= data'.timer
         /\ frame'.pcm_size > 0 => /\ frame'.position * Rate <= data'.timer
                                   /\ data'.timer < (frame'.position + 1) * Rate
<1> DEFINE p == Start[NextFrame]
           a == data.at
           t == data.timer
           u == data'.timer
           f == Ticks
           h == heard'
           w == current_position'
           c == current_position
<1>1. /\ file \in Files /\ data \in Streams /\ data # NoData /\ NextFrame <= Count
      /\ data'.at = Start[NextFrame + 1] /\ h = data'.at /\ data'.at \in Nat /\ u \in Nat
      /\ \/ u = t /\ w = c /\ ~(frame'.pcm_size > 0)
         \/ u = t + f /\ w = u \div Rate /\ frame'.position = u \div Rate
  BY Mp3Decoded
<1>2. p \in Nat /\ Start[NextFrame + 1] = p + b /\ a <= p /\ p + b <= Size
  BY <1>1, NextFrameIs
<1>3. b \in Nat \ {0} /\ f \in Nat /\ Rate \in Nat \ {0} /\ Size \in Nat /\ c \in Nat /\ a \in Nat /\ t \in Nat
  BY <1>1, FrameClock, Constants DEF EvenSong, BaseInv, TypeOK, Streams
<1>4. b * t < (a + 1) * f /\ (Duration > 0 => c * Rate <= t)
  BY <1>1 DEF ClockInv
<1>5. h = p + b /\ data'.at = p + b
  BY <1>1, <1>2
<1> HIDE DEF p, a, t, u, f, h, w, c
<1>6. b * t < ((p + b) + 1) * f /\ b * (t + f) < ((p + b) + 1) * f
  BY <1>2, <1>3, <1>4, FrameMore
<1>7. b * u < (h + 1) * f
  BY <1>1, <1>5, <1>6
<1>8. ASSUME w = u \div Rate PROVE w \in Nat /\ w * Rate <= u /\ u < (w + 1) * Rate
  <2>1. w \in Nat /\ Rate * w <= u /\ u < Rate * (w + 1)
    BY <1>1, <1>3, <1>8, NatQuotient
  <2>2. Rate * w = w * Rate /\ Rate * (w + 1) = (w + 1) * Rate
    BY <1>3, <2>1
  <2> QED
    BY <2>1, <2>2
<1>9. Duration > 0 => w * Rate <= u /\ w \in Nat
  BY <1>1, <1>3, <1>4, <1>8
<1>10. ASSUME Duration > 0 PROVE b * (w * Rate) < (h + 1) * f
  <2>1. b * (w * Rate) <= b * u
    <3>1. w * Rate \in Int /\ u \in Int /\ w * Rate <= u
      BY <1>1, <1>3, <1>9, <1>10
    <3> QED
      BY <1>3, <3>1, ProductLeq
  <2>2. {b * (w * Rate), b * u, (h + 1) * f} \subseteq Int
    <3>1. w \in Nat /\ h \in Nat
      BY <1>2, <1>3, <1>5, <1>9, <1>10
    <3> QED
      BY <1>1, <1>3, <3>1
  <2> QED
    BY <1>7, <2>1, <2>2
<1>11. data'.at <= Size + b
  BY <1>2, <1>3, <1>5
<1>12. frame'.pcm_size > 0 => frame'.position * Rate <= u /\ u < (frame'.position + 1) * Rate
  BY <1>1, <1>8
<1> QED
  BY <1>5, <1>7, <1>9, <1>10, <1>11, <1>12 DEF u, f, h, w

\* ... and, if no frame is damaged, from falling behind.
LEMMA DecodeSlow ==
  ASSUME BaseInv, NEW b, EvenSong(b), song_type = "mp3", file.bad = {}, SlowInv(b),
         NEW s, decode_frame(s)
  PROVE  Slow(b, data'.at, data'.timer)
<1> DEFINE p == Start[NextFrame]
           a == data.at
           t == data.timer
           f == Ticks
<1>1. /\ file \in Files /\ data \in Streams /\ data # NoData /\ NextFrame <= Count
      /\ data'.at = Start[NextFrame + 1] /\ data'.timer = t + f
  BY Mp3Decoded
<1>2. /\ p \in Nat /\ Start[NextFrame + 1] = p + b /\ a <= p /\ p < a + b /\ p + b <= Size
      /\ NextFrame \in 0..Count
      /\ \A n \in 0..Count : a <= Start[n + 1] => p <= Start[n + 1]
  BY <1>1, NextFrameIs
<1>3. b \in Nat \ {0} /\ f \in Nat \ {0} /\ Rate \in Nat \ {0} /\ Size \in Nat /\ a \in Nat /\ t \in Nat
  BY <1>1, FrameClock, Constants DEF EvenSong, Streams
<1>4. ~(a >= Size)
  BY <1>2, <1>3
<1>5. Slow(b, a, t)
  BY <1>1, <1>4 DEF SlowInv
<1>6. (p + b) * f < b * (((t + f) + Rate) + f)
  <2>1. CASE a * f < b * (t + Rate)
    <3> HIDE DEF a, t, f, p
    <3> QED
      BY <1>2, <1>3, <2>1, FirstFrame
  <2>2. CASE (\E j \in 0..Count : a = Start[j + 1]) /\ a * f < b * ((t + Rate) + f)
    <3>1. p = a
      <4>1. PICK j \in 0..Count : a = Start[j + 1]
        BY <2>2
      <4>2. p <= Start[j + 1]
        <5> HIDE DEF p
        <5>1. a <= Start[j + 1]
          BY <1>3, <4>1
        <5> QED
          BY <1>2, <5>1
      <4> HIDE DEF p, a
      <4> QED
        BY <1>2, <1>3, <4>1, <4>2
    <3> HIDE DEF a, t, f, p
    <3>2. (a + b) * f < b * (((t + f) + Rate) + f)
      BY <1>3, <2>2, NextFrames
    <3> QED
      BY <3>1, <3>2
  <2> QED
    BY <1>5, <2>1, <2>2 DEF Slow
<1>7. data'.at = p + b /\ data'.timer = t + f /\ \E j \in 0..Count : data'.at = Start[j + 1]
  BY <1>1, <1>2
<1> HIDE DEF p, a, t
<1> QED
  BY <1>6, <1>7 DEF Slow, f

\* Every step of such a song keeps clock and stream together.
LEMMA ClockStep ==
  ASSUME BaseInv, LengthInv, FrameInv, IsMp3, NEW b, EvenSong(b), Count > 0, Measured,
         ClockInv(b), file.bad = {} => SlowInv(b), [Next]_vars
  PROVE  ClockInv(b)' /\ (file.bad = {} => SlowInv(b)')
<1>1. Count' = Count /\ Start' = Start /\ Size' = Size /\ Duration' = Duration
  BY SameDuration, SameFile
<1>2. b \in Nat \ {0} /\ Size \in Nat
  BY DEF EvenSong
<1>3. Ticks' = Ticks
  BY DEF Ticks
<1>4. song_type \in Known => song_type = "mp3"
  BY DEF BaseInv, LoadInv, IsMp3, NotLoaded, Known
<1>5. ~(NoFrame.pcm_size > 0) /\ ~([NoFrame EXCEPT !.pcm_size = -2].pcm_size > 0)
  BY DEF NoFrame
<1>6. \A at, timer : Slow(b, at, timer) =>
        \/ at * Ticks < b * (timer + Rate)
        \/ (\E j \in 0..Count : at = Start[j + 1]) /\ at * Ticks < b * ((timer + Rate) + Ticks)
  BY DEF Slow
<1>7. Slow(b, data'.at, data'.timer) => Slow(b, data.at, data.timer)'
  BY <1>1, <1>3 DEF Slow
<1>8. b * 0 < (0 + 1) * Ticks /\ b * (0 * Rate) < (0 + 1) * Ticks /\ 0 * Rate <= 0 /\ Slow(b, 0, 0)
  BY <1>2, ClockZero
<1>9. ASSUME data' = NoData, UNCHANGED <<current_position, heard, skipped>>
      PROVE  ClockInv(b)' /\ SlowInv(b)'
  BY <1>1, <1>3, <1>9 DEF ClockInv, SlowInv
<1>10. CASE ensure_song_fully_loaded \/ Quit
  <2>1. data' = NoData /\ UNCHANGED <<current_position, heard, skipped>>
    BY <1>10 DEF ensure_song_fully_loaded, Quit, BaseInv, LoadInv, NotLoaded, Known
  <2> QED
    BY <1>9, <2>1
<1>11. CASE open
  <2>1. song_type = "mp3"
    BY <1>4, <1>11 DEF open
  <2>2. UNCHANGED <<current_position, heard>> /\ frame' = NoFrame
    BY <1>11, <2>1, Mp3Opened
  <2>3. /\ data' # NoData =>
             /\ data'.at <= Size + b /\ b * data'.timer < (data'.at + 1) * Ticks
             /\ Duration > 0 => current_position * Rate <= data'.timer
             /\ data'.at >= Size \/ Slow(b, data'.at, data'.timer)
        /\ \A i, j \in skipped' : i = j
    BY <1>11, <2>1, OpenClock
  <2>4. ClockInv(b)'
    BY <1>1, <1>3, <1>5, <2>2, <2>3 DEF ClockInv
  <2>5. SlowInv(b)'
    BY <1>1, <1>5, <1>7, <2>2, <2>3 DEF SlowInv
  <2> QED
    BY <2>4, <2>5
<1>12. ASSUME NEW s \in SampleRange, decode_frame(s) PROVE ClockInv(b)' /\ (file.bad = {} => SlowInv(b)')
  <2>1. song_type = "mp3" /\ skipped' = skipped
    BY <1>4, <1>12 DEF decode_frame, Playing, Opened, BaseInv, LoadInv
  <2>2. /\ Duration > 0 => b * (current_position' * Rate) < (heard' + 1) * Ticks
        /\ data'.at <= Size + b /\ b * data'.timer < (data'.at + 1) * Ticks
        /\ Duration > 0 => current_position' * Rate <= data'.timer
        /\ frame'.pcm_size > 0 => /\ frame'.position * Rate <= data'.timer
                                  /\ data'.timer < (frame'.position + 1) * Rate
    BY <1>12, <2>1, DecodeClock
  <2>3. ClockInv(b)'
    BY <1>1, <1>3, <2>1, <2>2 DEF ClockInv
  <2>4. file.bad = {} => SlowInv(b)'
    BY <1>7, <1>12, <2>1, DecodeSlow DEF SlowInv
  <2> QED
    BY <2>3, <2>4
<1>13. CASE FatalError \/ ReadOutside
  <2>1. /\ UNCHANGED <<data, current_position, heard, skipped>>
        /\ frame' = frame \/ frame' = [NoFrame EXCEPT !.pcm_size = -2]
    BY <1>13 DEF FatalError, ReadOutside
  <2>2. ClockInv(b)'
    BY <1>1, <1>3, <1>5, <2>1 DEF ClockInv
  <2>3. SlowInv(b) => SlowInv(b)'
    BY <1>1, <1>5, <1>7, <2>1 DEF SlowInv
  <2> QED
    BY <2>2, <2>3
<1>14. CASE close
  <2>1. data' = NoData /\ current_position' = 0 /\ heard' = 0 /\ UNCHANGED skipped
    BY <1>14 DEF close
  <2> QED
    BY <1>1, <1>3, <1>8, <2>1 DEF ClockInv, SlowInv
<1>15. CASE Stop
  <2>1. /\ data' = seek(data, 0) /\ current_position' = 0 /\ heard' = 0 /\ frame' = NoFrame
        /\ UNCHANGED skipped /\ data # NoData /\ song_type = "mp3"
    BY <1>4, <1>15 DEF Stop, Playing, Opened, BaseInv, LoadInv
  <2>2. play_length = Duration
    BY <2>1 DEF LengthInv
  <2>3. data'.at = 0 /\ data'.timer = 0
    BY <2>1, <2>2, Mp3Sought
  <2>4. 0 <= Size + b
    BY <1>2
  <2>5. ClockInv(b)'
    BY <1>1, <1>3, <1>5, <1>8, <2>1, <2>3, <2>4 DEF ClockInv
  <2>6. SlowInv(b)'
    BY <1>7, <1>8, <2>3 DEF SlowInv
  <2> QED
    BY <2>5, <2>6
<1>16. CASE UNCHANGED vars
  <2>1. UNCHANGED <<data, frame, current_position, heard, skipped>>
    BY <1>16 DEF vars
  <2>2. ClockInv(b)'
    BY <1>1, <1>3, <2>1 DEF ClockInv
  <2>3. SlowInv(b) => SlowInv(b)'
    BY <1>1, <1>7, <2>1 DEF SlowInv
  <2> QED
    BY <2>2, <2>3
<1> QED
  BY <1>10, <1>11, <1>12, <1>13, <1>14, <1>15, <1>16 DEF Next

-----------------------------------------------------------------------------
(* What resuming leaves out, and seeks outside of the file                 *)

\* What is known of the file does not change.
LEMMA SameKnowledge ==
  ASSUME BaseInv, [Next]_vars
  PROVE  /\ file' = file /\ get_song_type' = get_song_type /\ Duration' = Duration /\ Length' = Length
         /\ Even' = Even /\ Count' = Count /\ FrameBytes' = FrameBytes
         /\ LongEnough' = LongEnough /\ Measured' = Measured
<1>1. file' = file /\ Duration' = Duration
  BY SameDuration
<1>2. /\ get_song_type' = get_song_type /\ Length' = Length /\ Even' = Even /\ Count' = Count
      /\ FrameBytes' = FrameBytes /\ Total' = Total
  BY <1>1, SameFile
<1> QED
  BY <1>1, <1>2 DEF LongEnough, Measured

ResumeInv ==
  /\ BaseInv
  /\ IsSampled => SampleInv
  /\ IsMp3 => LengthInv
  /\ IsMp3 /\ Even => FrameInv
  /\ IsMp3 /\ Even /\ LongEnough => LongInv
  /\ IsMp3 /\ Even /\ Measured /\ Count > 0 =>
       ClockInv(FrameBytes) /\ (file.bad = {} => SlowInv(FrameBytes))
  /\ get_song_type = "unknown" => skipped = {}

\* All of it holds at the beginning ...
LEMMA InitResume == Init => ResumeInv
<1> SUFFICES ASSUME Init PROVE ResumeInv
  OBVIOUS
<1>1. BaseInv /\ SampleInv
  BY InitBase, InitPlace
<1>2. LengthInv
  BY DEF Init, LengthInv
<1>3. data = NoData /\ heard = 0 /\ current_position = 0 /\ skipped = {} /\ status # "crashed"
  BY DEF Init
<1>4. ASSUME Even PROVE FrameInv /\ LongInv /\ (Count > 0 => ClockInv(FrameBytes) /\ SlowInv(FrameBytes))
  <2>1. PICK b : EvenSong(b)
    BY <1>1, <1>4, EvenSongs
  <2>2. FrameInv
    <3>1. 0 \in 0..Count /\ b \in Nat
      BY <2>1 DEF EvenSong
    <3>2. Start[0 + 1] = 0 * b
      BY <2>1, <3>1, HeardInside
    <3>3. Start[0 + 1] = 0
      BY <3>1, <3>2
    <3> QED
      BY <1>3, <3>1, <3>3 DEF FrameInv
  <2>3. LongInv
    BY <1>3, <2>1, LongZero DEF LongInv
  <2>4. ASSUME Count > 0 PROVE ClockInv(FrameBytes) /\ SlowInv(FrameBytes)
    <3>1. FrameBytes = b /\ b \in Nat \ {0}
      BY <2>1, <2>4 DEF EvenSong
    <3>2. ClockInv(b) /\ SlowInv(b)
      BY <1>3, <3>1, ClockZero DEF ClockInv, SlowInv
    <3> QED
      BY <3>1, <3>2
  <2> QED
    BY <2>2, <2>3, <2>4
<1> QED
  BY <1>1, <1>2, <1>3, <1>4 DEF ResumeInv

\* ... and every step keeps it ...
LEMMA ResumeStep == ResumeInv /\ [Next]_vars => ResumeInv'
<1> SUFFICES ASSUME ResumeInv, [Next]_vars PROVE ResumeInv'
  OBVIOUS
<1>1. BaseInv /\ BaseInv'
  BY BaseStep DEF ResumeInv
<1>2. /\ file' = file /\ get_song_type' = get_song_type /\ Even' = Even /\ Count' = Count
      /\ FrameBytes' = FrameBytes /\ LongEnough' = LongEnough /\ Measured' = Measured
  BY <1>1, SameKnowledge
<1>3. IsSampled' => SampleInv'
  BY <1>1, <1>2, PlaceStep DEF ResumeInv, IsSampled
<1>4. IsMp3' => LengthInv'
  BY <1>1, <1>2, LengthStep DEF ResumeInv, IsMp3
<1>5. IsMp3' /\ Even' => FrameInv'
  BY <1>1, <1>2, FrameStep DEF ResumeInv, IsMp3
<1>6. IsMp3' /\ Even' /\ LongEnough' => LongInv'
  BY <1>1, <1>2, LongStep DEF ResumeInv, IsMp3
<1>7. ASSUME IsMp3', Even', Measured', Count' > 0
      PROVE  ClockInv(FrameBytes)' /\ (file'.bad = {} => SlowInv(FrameBytes)')
  <2>1. IsMp3 /\ Even /\ Measured /\ Count > 0 /\ LengthInv /\ FrameInv
    BY <1>2, <1>7 DEF IsMp3, ResumeInv
  <2>2. PICK b : EvenSong(b)
    BY <1>1, <2>1, EvenSongs
  <2>3. FrameBytes = b /\ FrameBytes' = b
    BY <1>2, <2>1, <2>2 DEF EvenSong
  <2>4. ClockInv(FrameBytes) /\ (file.bad = {} => SlowInv(FrameBytes))
    BY <2>1 DEF ResumeInv
  <2>5. ClockInv(b) /\ (file.bad = {} => SlowInv(b))
    BY <2>3, <2>4
  <2>6. ClockInv(b)' /\ (file.bad = {} => SlowInv(b)')
    BY <1>1, <2>1, <2>2, <2>5, ClockStep
  <2>7. (ClockInv(b)' => ClockInv(FrameBytes)') /\ (SlowInv(b)' => SlowInv(FrameBytes)')
    BY <2>3 DEF ClockInv, SlowInv, Slow
  <2> QED
    BY <1>2, <2>6, <2>7
<1>8. ASSUME get_song_type = "unknown" PROVE skipped' = {}
  <2>1. song_type \notin Known /\ data = NoData /\ skipped = {}
    BY <1>1, <1>8 DEF ResumeInv, BaseInv, LoadInv, NotLoaded, Known
  <2>2. skipped' = skipped
    BY <2>1 DEF Next, vars, ensure_song_fully_loaded, open, decode_frame, FatalError, ReadOutside,
                close, Stop, Quit, Playing, Opened
  <2> QED
    BY <2>1, <2>2
<1> QED
  BY <1>1, <1>2, <1>3, <1>4, <1>5, <1>6, <1>7, <1>8 DEF ResumeInv

\* ... so that it always holds.
LEMMA AlwaysResume == Spec => []ResumeInv
<1> QED
  BY InitResume, ResumeStep, PTL DEF Spec

\* With a length that is cut off the same is true of an empty file.
LEMMA EmptyIsLong ==
  ASSUME BaseInv, Even, Duration = Length, ~(Count > 0)
  PROVE  LongEnough
<1>1. PICK b : EvenSong(b)
  BY EvenSongs
<1>2. Count = 0 /\ Rate \in Nat \ {0} /\ Length \in Nat /\ Rate * Length <= Count * Ticks /\ Ticks \in Nat
  BY <1>1, Constants, FrameClock DEF EvenSong
<1>3. Rate * Length <= Rate * 0
  BY <1>2
<1>4. Length = 0
  <2>1. Rate * Length < Rate * 1
    <3>1. Rate * 1 = Rate /\ Rate * 0 = 0 /\ Rate * Length \in Int
      BY <1>2
    <3> QED
      BY <1>2, <1>3, <3>1
  <2>2. Length < 1
    BY <1>2, <2>1, ProductLess
  <2> QED
    BY <1>2, <2>2
<1> QED
  BY <1>4 DEF LongEnough

\* However often a song is quit, stopped and resumed, no part of it is left out by ogg_seek() and
\* flac_seek(), nor by mp3_seek() in a file with frames of one size whose known length is not
\* shorter than the song; with the length mp3_calc_duration() cuts off, whatever part of a unit
\* the frames take, a resume leaves out one frame at most.
THEOREM ResumingKeepsPlace == Spec => []ResumeKeepsPlace
<1>1. ResumeInv => ResumeKeepsPlace
  <2> SUFFICES ASSUME ResumeInv PROVE ResumeKeepsPlace
    OBVIOUS
  <2>1. get_song_type \in Types
    BY TagsType DEF ResumeInv, BaseInv, TypeOK
  <2>2. ASSUME IsMp3 => Even /\ LongEnough PROVE skipped = {}
    <3>1. CASE IsMp3
      BY <2>2, <3>1 DEF ResumeInv, LongInv
    <3>2. CASE IsSampled
      BY <3>2 DEF ResumeInv, SampleInv
    <3>3. CASE get_song_type = "unknown"
      BY <3>3 DEF ResumeInv
    <3> QED
      BY <2>1, <3>1, <3>2, <3>3 DEF Types, Known, IsMp3, IsSampled
  <2>3. ASSUME IsMp3, Even, Duration = Length PROVE \A i, j \in skipped : i = j
    <3>1. CASE Count > 0
      BY <2>3, <3>1 DEF ResumeInv, Measured, ClockInv
    <3>2. CASE ~(Count > 0)
      <4>1. LongEnough
        BY <2>3, <3>2, EmptyIsLong DEF ResumeInv
      <4> QED
        BY <2>3, <4>1 DEF ResumeInv, LongInv
    <3> QED
      BY <3>1, <3>2
  <2> QED
    BY <2>2, <2>3 DEF ResumeKeepsPlace
<1> QED
  BY <1>1, AlwaysResume, PTL

\* No seek in such an mp3 leaves the mapped file, although mp3_seek() does not check, so
\* decoding never reads outside it; with the length that is cut off, by a frame at most.
THEOREM SeeksStayInside == Spec => []SeekInside
<1>1. ResumeInv => SeekInside
  <2> SUFFICES ASSUME ResumeInv, IsMp3, Even
               PROVE  /\ LongEnough => (data # NoData => data.at <= Size) /\ status # "crashed"
                      /\ Duration = Length /\ data # NoData => data.at <= Size + FrameBytes
    BY DEF SeekInside
  <2>1. BaseInv /\ LengthInv /\ FrameInv
    BY DEF ResumeInv
  <2>2. PICK b : EvenSong(b)
    BY <2>1, EvenSongs
  <2>3. PICK n \in 0..Count : heard = Start[n + 1]
    BY <2>1 DEF FrameInv
  <2>4. heard <= Size /\ heard \in Nat /\ Size \in Nat
    BY <2>1, <2>2, <2>3, HeardInside DEF EvenSong, BaseInv, TypeOK
  <2>5. ASSUME LongEnough PROVE (data # NoData => data.at <= Size) /\ status # "crashed"
    <3>1. LongInv
      BY <2>5 DEF ResumeInv
    <3>2. ASSUME data # NoData PROVE data.at <= Size
      <4>1. data.at \in Nat /\ data.at <= heard
        BY <2>1, <3>1, <3>2 DEF BaseInv, TypeOK, LongInv
      <4> QED
        BY <2>4, <4>1
    <3> QED
      BY <3>1, <3>2 DEF LongInv
  <2>6. ASSUME Duration = Length, data # NoData PROVE data.at <= Size + FrameBytes
    <3>1. Count > 0
      BY <2>1, <2>6 DEF LengthInv
    <3> QED
      BY <2>6, <3>1 DEF ResumeInv, Measured, ClockInv
  <2> QED
    BY <2>5, <2>6
<1> QED
  BY <1>1, AlwaysResume, PTL

-----------------------------------------------------------------------------
(* The position on the display                                             *)

\* The position of a frame of an ogg is where it ends, that of a flac where the stream was, at most
\* a frame before its end.
ShownInv ==
  data # NoData /\ frame.pcm_size > 0 =>
    /\ song_type = "ogg" => frame.position = TimeOf(data.at)
    /\ song_type = "flac" => /\ frame.position <= TimeOf(data.at)
                             /\ frame.position + FrameTime + 1 >= TimeOf(data.at)

\* A sample inside frame k is a frame before its end at most, and a unit for what is rounded down.
LEMMA InsideFrame ==
  ASSUME NEW k \in Nat \ {0}, NEW n \in Nat, n < k * FrameSamples, (k - 1) * FrameSamples <= n
  PROVE  /\ TimeOf(n) <= TimeOf(k * FrameSamples)
         /\ TimeOf(n) + FrameTime + 1 >= TimeOf(k * FrameSamples)
<1> DEFINE f == FrameTime
           s == FrameSamples
           end == k * s
           t == TimeOf(n)
           e == TimeOf(end)
<1>1. f \in Nat /\ s \in Nat \ {0} /\ s * Milli < Rate * (f + 1) /\ Rate \in Nat \ {0} /\ Milli \in Nat \ {0}
  BY FrameClock, Constants DEF Ticks
<1>2. end \in Nat /\ n < end
  BY <1>1
<1>3. t \in Nat /\ n * Milli < Rate * (t + 1)
  BY SampleTime
<1>4. e \in Nat /\ Rate * e <= end * Milli
  BY <1>2, SampleTime
<1>5. t <= e
  BY <1>2, TimeOrder
<1>6. end <= n + s
  <2>1. (k - 1) * s = end - s
    BY <1>1
  <2> QED
    BY <1>1, <1>2, <2>1
<1> HIDE DEF f, s, end, t, e
<1>7. end * Milli <= n * Milli + s * Milli
  <2>1. PICK d \in Nat : n + s = end + d
    <3>1. (n + s) - end \in Nat /\ n + s = end + ((n + s) - end)
      BY <1>1, <1>2, <1>6
    <3> QED
      BY <3>1
  <2>2. (n + s) * Milli = n * Milli + s * Milli /\ (end + d) * Milli = end * Milli + d * Milli
    BY <1>1, <1>2
  <2>3. d * Milli \in Nat /\ end * Milli \in Nat
    BY <1>1, <1>2
  <2> QED
    BY <2>1, <2>2, <2>3
<1>8. Rate * e < Rate * ((t + f) + 2)
  <2>1. Rate * ((t + f) + 2) = Rate * (t + 1) + Rate * (f + 1)
    BY <1>1, <1>3
  <2>2. {Rate * e, end * Milli, n * Milli, s * Milli, Rate * (t + 1), Rate * (f + 1)} \subseteq Int
    BY <1>1, <1>2, <1>3, <1>4
  <2> QED
    BY <1>1, <1>3, <1>4, <1>7, <2>1, <2>2
<1>9. e < (t + f) + 2
  BY <1>1, <1>3, <1>4, <1>8, ProductLess
<1> QED
  BY <1>1, <1>3, <1>4, <1>5, <1>9 DEF f, s, end, t, e

\* A new frame has the position it should have.
LEMMA DecodeShown ==
  ASSUME BaseInv, NEW s, decode_frame(s)
  PROVE  ShownInv'
<1> DEFINE k == NextFrame
           n == k * FrameSamples
           r == decoded(k)
<1>1. file \in Files /\ data \in Streams /\ data.at \in Nat
  BY DEF BaseInv, TypeOK, decode_frame, Playing, Opened, Streams
<1>2. k \in 1..Count /\ Count \in Nat
  <2>1. k \in 1..(Count + 1) /\ k <= Count /\ Count \in Nat
    BY <1>1, NextIsFirst, StartTurns DEF decode_frame
  <2> QED
    BY <2>1
<1>3. /\ data'.at = r.at /\ song_type' = song_type
      /\ frame'.pcm_size = r.pcm_size /\ frame'.position = r.position
  BY DEF decode_frame
<1>4. CASE song_type = "ogg"
  <2>1. r.at = n /\ r.position = TimeOf(n)
    BY <1>4 DEF decoded, ogg_decode_frame
  <2> HIDE DEF r, n
  <2> QED
    BY <1>3, <1>4, <2>1 DEF ShownInv
<1>5. CASE song_type = "flac"
  <2>1. r.at = n /\ r.position = TimeOf(data.at)
    BY <1>5 DEF decoded, flac_decode_frame
  <2>2. Ahead(song_type, k, data.at) /\ \A j \in 1..Count : Ahead(song_type, j, data.at) => k <= j
    BY <1>1, <1>2, NextIsFirst
  <2>3. data.at < n /\ \A j \in 1..Count : j * FrameSamples > data.at => k <= j
    BY <1>1, <1>5, <2>2 DEF Ahead
  <2> HIDE DEF k
  <2>4. (k - 1) * FrameSamples <= data.at
    <3>1. FrameSamples \in Nat \ {0}
      BY Constants
    <3>2. CASE k = 1
      <4>1. (k - 1) * FrameSamples = 0
        BY <3>1, <3>2
      <4> QED
        BY <1>1, <4>1
    <3>3. CASE k # 1
      <4>1. k - 1 \in 1..Count /\ ~(k <= k - 1)
        BY <1>2, <3>3
      <4>2. ~((k - 1) * FrameSamples > data.at)
        BY <2>3, <4>1
      <4>3. (k - 1) * FrameSamples \in Int
        BY <3>1, <4>1
      <4> QED
        BY <1>1, <4>2, <4>3
    <3> QED
      BY <3>2, <3>3
  <2>5. TimeOf(data.at) <= TimeOf(n) /\ TimeOf(data.at) + FrameTime + 1 >= TimeOf(n)
    <3>1. k \in Nat \ {0}
      BY <1>2
    <3> QED
      BY <1>1, <2>3, <2>4, <3>1, InsideFrame
  <2> HIDE DEF r, n
  <2> QED
    BY <1>3, <1>5, <2>1, <2>5 DEF ShownInv
<1>6. CASE song_type \notin {"ogg", "flac"}
  BY <1>3, <1>6 DEF ShownInv
<1> QED
  BY <1>4, <1>5, <1>6

\* Steps that show no new frame.
LEMMA SameShown ==
  ASSUME BaseInv, [Next]_vars, ~\E s \in SampleRange : decode_frame(s)
  PROVE  data' = NoData \/ ~(frame'.pcm_size > 0) \/ UNCHANGED <<data, frame, song_type>>
<1>1. ~(NoFrame.pcm_size > 0) /\ ~([NoFrame EXCEPT !.pcm_size = -2].pcm_size > 0)
  BY DEF NoFrame
<1>2. CASE ensure_song_fully_loaded \/ close \/ Quit
  <2>1. data' = NoData
    BY <1>2 DEF ensure_song_fully_loaded, close, Quit, BaseInv, LoadInv, NotLoaded, Known
  <2> QED
    BY <2>1
<1>3. CASE open \/ Stop
  <2>1. frame' = NoFrame
    BY <1>3 DEF open, Stop, BaseInv, LoadInv
  <2> QED
    BY <1>1, <2>1
<1>4. CASE FatalError \/ ReadOutside
  <2>1. UNCHANGED <<data, frame, song_type>> \/ frame' = [NoFrame EXCEPT !.pcm_size = -2]
    BY <1>4 DEF FatalError, ReadOutside
  <2> QED
    BY <1>1, <2>1
<1>5. CASE UNCHANGED vars
  BY <1>5 DEF vars
<1> QED
  BY <1>2, <1>3, <1>4, <1>5 DEF Next

\* Every step keeps the position of the frame.
LEMMA ShownStep == BaseInv /\ ShownInv /\ [Next]_vars => ShownInv'
<1> SUFFICES ASSUME BaseInv, ShownInv, [Next]_vars PROVE ShownInv'
  OBVIOUS
<1>1. CASE \E s \in SampleRange : decode_frame(s)
  BY <1>1, DecodeShown
<1>2. CASE ~\E s \in SampleRange : decode_frame(s)
  <2>1. data' = NoData \/ ~(frame'.pcm_size > 0) \/ UNCHANGED <<data, frame, song_type>>
    BY <1>2, SameShown
  <2>2. CASE UNCHANGED <<data, frame, song_type>>
    <3>1. TimeOf(data.at)' = TimeOf(data.at)
      BY <2>2 DEF TimeOf
    <3> QED
      BY <2>2, <3>1 DEF ShownInv
  <2> QED
    BY <2>1, <2>2 DEF ShownInv
<1> QED
  BY <1>1, <1>2

PositionInv == ResumeInv /\ ShownInv

\* Everything about positions holds at the beginning ...
LEMMA InitPosition == Init => PositionInv
<1>1. Init => ShownInv
  BY DEF Init, ShownInv
<1> QED
  BY <1>1, InitResume DEF PositionInv

\* ... and every step keeps it.
LEMMA PositionStep == PositionInv /\ [Next]_vars => PositionInv'
<1> QED
  BY ResumeStep, ShownStep DEF PositionInv, ResumeInv

\* A clock that is ahead of the byte and behind it by no more than ClockInv and SlowInv say shows a
\* position that is.
LEMMA ShownClock ==
  ASSUME NEW b \in Nat \ {0}, NEW at \in Nat, NEW timer \in Nat, NEW p \in Nat,
         b * timer < (at + 1) * Ticks, Slow(b, at, timer),
         p * Rate <= timer, timer < (p + 1) * Rate
  PROVE  /\ b * (p * Rate) < (at + 1) * Ticks
         /\ at * Ticks < b * ((p + 2) * Rate + Ticks)
<1> DEFINE t == Ticks
           low == p * Rate
           high == (p + 2) * Rate
<1>1. t \in Nat \ {0} /\ Rate \in Nat \ {0}
  BY FrameClock, Constants
<1>2. low \in Nat /\ high \in Nat /\ low <= timer /\ timer + Rate < high
  <2>1. high = (p + 1) * Rate + Rate /\ (p + 1) * Rate \in Nat /\ low \in Nat
    BY <1>1
  <2> QED
    BY <1>1, <2>1
<1>3. \/ at * t < b * (timer + Rate)
      \/ at * t < b * ((timer + Rate) + t)
  BY DEF Slow
<1>4. b * timer < (at + 1) * t
  OBVIOUS
<1> HIDE DEF t, low, high
<1>5. b * low <= b * timer
  BY <1>2, ProductLeq
<1>6. b * (timer + Rate) <= b * (high + t) /\ b * ((timer + Rate) + t) <= b * (high + t)
  BY <1>1, <1>2, ProductLeq
<1>7. {b * low, b * timer, (at + 1) * t, at * t, b * (timer + Rate), b * ((timer + Rate) + t), b * (high + t)}
        \subseteq Int
  BY <1>1, <1>2
<1>8. b * low < (at + 1) * t /\ at * t < b * (high + t)
  BY <1>3, <1>4, <1>5, <1>6, <1>7
<1> QED
  BY <1>8 DEF t, low, high

\* The position that is shown and saved is the place in the song after any number of seeks, stops
\* and restarts: exact for an ogg, a frame and a unit early at most for a flac; in an undamaged mp3
\* with frames of one size, whatever part of a unit they take, and the length mp3_calc_duration()
\* finds or none, less than a byte ahead and less than a frame and two units behind.
THEOREM PositionsAreTrue == Spec => []PositionTrue
<1>1. PositionInv => PositionTrue
  <2> SUFFICES ASSUME PositionInv, data # NoData, frame.pcm_size > 0
               PROVE  CASE song_type = "mp3"  ->
                             Even /\ file.bad = {} /\ (Duration <= 0 \/ Duration = Length) =>
                               /\ FrameBytes * (frame.position * Rate) < (data.at + 1) * (FrameSamples * Milli)
                               /\ data.at * (FrameSamples * Milli)
                                    < FrameBytes * ((frame.position + 2) * Rate + FrameSamples * Milli)
                        [] song_type = "ogg"  -> frame.position = TimeOf(data.at)
                        [] song_type = "flac" -> /\ frame.position <= TimeOf(data.at)
                                                 /\ frame.position + FrameTime + 1 >= TimeOf(data.at)
    BY DEF PositionTrue
  <2>1. song_type \in Known /\ song_type = get_song_type /\ BaseInv
    BY DEF PositionInv, ResumeInv, BaseInv, LoadInv, NotLoaded, Known
  <2>2. ASSUME song_type = "mp3", Even, file.bad = {}, Duration <= 0 \/ Duration = Length
        PROVE  /\ FrameBytes * (frame.position * Rate) < (data.at + 1) * Ticks
               /\ data.at * Ticks < FrameBytes * ((frame.position + 2) * Rate + Ticks)
    <3>1. IsMp3 /\ Count > 0
      BY <2>1, <2>2 DEF IsMp3, PositionInv, ResumeInv, LengthInv
    <3>2. ClockInv(FrameBytes) /\ SlowInv(FrameBytes)
      BY <2>2, <3>1 DEF PositionInv, ResumeInv, Measured
    <3>3. FrameBytes \in Nat \ {0}
      BY <2>1, <2>2, <3>1, EvenSongs DEF EvenSong
    <3>4. data.at \in Nat /\ data.timer \in Nat /\ frame.position \in Nat
      BY <2>1 DEF BaseInv, TypeOK
    <3>5. /\ FrameBytes * data.timer < (data.at + 1) * Ticks /\ Slow(FrameBytes, data.at, data.timer)
          /\ frame.position * Rate <= data.timer /\ data.timer < (frame.position + 1) * Rate
      BY <3>2 DEF ClockInv, SlowInv
    <3> QED
      BY <3>3, <3>4, <3>5, ShownClock
  <2>3. /\ song_type = "ogg" => frame.position = TimeOf(data.at)
        /\ song_type = "flac" => /\ frame.position <= TimeOf(data.at)
                                 /\ frame.position + FrameTime + 1 >= TimeOf(data.at)
    BY DEF PositionInv, ShownInv
  <2> QED
    BY <2>1, <2>2, <2>3 DEF Known, Ticks
<1> QED
  BY <1>1, InitPosition, PositionStep, PTL DEF Spec

=============================================================================
