---------------------------- MODULE SongListsProofs ----------------------------
(***************************************************************************)
(* Theorems about SongLists, for every set of addresses and songs, every   *)
(* limit of the past list, and both builds.                                *)
(***************************************************************************)
EXTENDS SongLists, WellFoundedInduction, SequenceTheorems, TLAPS

(* Entry number n of a list of the given size whose entries are s, counted *)
(* from 0 as the loops of the code count; NULL behind the last.            *)
At(s, size, n) == IF n < size THEN s[n + 1] ELSE None

(* The list l consists of the entries s, in this order.                    *)
Linked(cells, l, s) ==
  /\ l.size \in Nat
  /\ s \in [1..l.size -> DOMAIN cells]
  /\ \A i \in 1..l.size : cells[s[i]].next = At(s, l.size, i)
  /\ \A i, j \in 1..l.size : s[i] = s[j] => i = j
  /\ l.head = At(s, l.size, 0)
  /\ l.tail = IF l.size = 0 THEN None ELSE s[l.size]

-----------------------------------------------------------------------------
(* Induction over the natural numbers, for a set.                          *)
LEMMA NatSetInduction ==
  ASSUME NEW S, 0 \in S, \A n \in Nat : n \in S => n + 1 \in S
  PROVE  Nat \subseteq S
<1> DEFINE T == Nat \ S
<1> SUFFICES ASSUME T # {} PROVE FALSE
  OBVIOUS
<1>1. PICK m \in T : \A k \in T : ~ (<<k, m>> \in OpToRel(<, Nat))
  BY WFMin, NatLessThanWellFounded, Zenon
<1>2. \A k \in T : ~ (k < m)
  <2> SUFFICES ASSUME NEW k \in T, k < m PROVE FALSE
    OBVIOUS
  <2> QED
    BY <1>1 DEF OpToRel
<1>3. m - 1 \in Nat /\ m - 1 \notin T /\ (m - 1) + 1 = m
  BY <1>2
<1> QED
  BY <1>3

(* Following next from entry k of a list n times leads to entry k + n, and *)
(* behind the end nowhere: the recursive function of After computes it.    *)
LEMMA Walk ==
  ASSUME NEW cells, NEW l, NEW s, Linked(cells, l, s), None \notin DOMAIN cells,
         NEW k \in Nat, NEW n \in Nat
  PROVE  (CHOOSE f : f = [i \in 0..n |->
                            IF i = 0 THEN At(s, l.size, k)
                            ELSE IF f[i - 1] = None THEN None ELSE cells[f[i - 1]].next])[n]
         = At(s, l.size, k + n)
<1> DEFINE c == At(s, l.size, k)
           Step(x) == IF x = None THEN None ELSE cells[x].next
           Walks(f) == f = [i \in 0..n |-> IF i = 0 THEN c ELSE Step(f[i - 1])]
           path == [i \in 0..n |-> At(s, l.size, k + i)]
<1>1. \A m \in Nat : Step(At(s, l.size, m)) = At(s, l.size, m + 1)
  <2> SUFFICES ASSUME NEW m \in Nat PROVE Step(At(s, l.size, m)) = At(s, l.size, m + 1)
    OBVIOUS
  <2>1. CASE m < l.size
    BY <2>1 DEF At, Linked
  <2>2. CASE ~(m < l.size)
    BY <2>2 DEF At, Linked
  <2> QED
    BY <2>1, <2>2
<1> HIDE DEF Step
<1>2. Walks(path)
  <2>1. ASSUME NEW i \in 0..n
        PROVE path[i] = IF i = 0 THEN c ELSE Step(path[i - 1])
    <3>1. CASE i = 0
      BY <3>1
    <3>2. CASE i # 0
      <4>1. i - 1 \in 0..n /\ k + (i - 1) \in Nat /\ (k + (i - 1)) + 1 = k + i
        BY <3>2
      <4>2. path[i - 1] = At(s, l.size, k + (i - 1)) /\ path[i] = At(s, l.size, k + i)
        BY <4>1
      <4> QED
        BY <1>1, <3>2, <4>1, <4>2
    <3> QED
      BY <3>1, <3>2
  <2> QED
    BY <2>1
<1> DEFINE f == CHOOSE g : Walks(g)
<1>3. Walks(f)
  BY <1>2
<1> HIDE DEF f
<1> DEFINE S == {i \in Nat : i <= n => f[i] = At(s, l.size, k + i)}
<1>4. 0 \in S
  BY <1>3
<1>5. ASSUME NEW i \in Nat, i \in S PROVE i + 1 \in S
  <2> SUFFICES ASSUME i + 1 <= n PROVE f[i + 1] = At(s, l.size, k + (i + 1))
    OBVIOUS
  <2>1. f[i] = At(s, l.size, k + i)
    BY <1>5
  <2>2. f[i + 1] = Step(f[i])
    <3>1. i + 1 \in 0..n /\ i + 1 # 0 /\ (i + 1) - 1 = i
      OBVIOUS
    <3> QED
      BY <1>3, <3>1
  <2> QED
    BY <1>1, <2>1, <2>2
<1>6. n \in S
  BY <1>4, <1>5, NatSetInduction
<1>7. f[n] = At(s, l.size, k + n)
  BY <1>6
<1>8. f = CHOOSE g : g = [i \in 0..n |-> IF i = 0 THEN At(s, l.size, k)
                            ELSE IF g[i - 1] = None THEN None ELSE cells[g[i - 1]].next]
  BY DEF f, Step
<1> QED
  BY <1>7, <1>8

(* Following next in the program's lists.                                  *)
LEMMA Follow ==
  ASSUME NEW s, NEW l, Linked(cell, l, s), None \notin DOMAIN cell, NEW k \in Nat, NEW n \in Nat
  PROVE  After(At(s, l.size, k), n) = At(s, l.size, k + n)
<1> USE Walk
<1> QED
  BY DEF After, NextOf

-----------------------------------------------------------------------------
(* What the functions do to the links, as sequences of entries.            *)
AddLast(s, n, c) == [i \in 1..n + 1 |-> IF i = n + 1 THEN c ELSE s[i]]
AddFirst(s, m, c) == [i \in 1..m |-> IF i = 1 THEN c ELSE s[i - 1]]
DropAt(s, n, k) == [i \in 1..n - 1 |-> IF i <= k THEN s[i] ELSE s[i + 1]]

(* A list whose entries are not touched stays as it is.                    *)
LEMMA Untouched ==
  ASSUME NEW cells, NEW cells2, NEW l, NEW l2, NEW s, Linked(cells, l, s),
         l2.size = l.size, l2.head = l.head, l2.tail = l.tail,
         \A i \in 1..l.size : s[i] \in DOMAIN cells2 /\ cells2[s[i]].next = cells[s[i]].next
  PROVE  Linked(cells2, l2, s)
  BY DEF Linked

(* A new entry c behind the tail.                                          *)
LEMMA AddedLast ==
  ASSUME NEW cells, NEW cells2, NEW l, NEW l2, NEW s, Linked(cells, l, s), None \notin DOMAIN cells,
         NEW c \in DOMAIN cells2, c \notin DOMAIN cells, cells2[c].next = None,
         \A x \in DOMAIN cells : x \in DOMAIN cells2
                                 /\ cells2[x].next = IF x = l.tail THEN c ELSE cells[x].next,
         l2.size = l.size + 1, l2.head = IF l.head = None THEN c ELSE l.head, l2.tail = c
  PROVE  Linked(cells2, l2, AddLast(s, l.size, c))
<1> DEFINE n == l.size
           t == AddLast(s, n, c)
<1>1. n \in Nat /\ s \in [1..n -> DOMAIN cells]
  BY DEF Linked
<1>2. t \in [1..n + 1 -> DOMAIN cells2]
  BY <1>1 DEF AddLast
<1>3. ASSUME NEW i \in 1..n + 1 PROVE cells2[t[i]].next = At(t, n + 1, i)
  <2>1. CASE i = n + 1
    BY <1>1, <2>1 DEF AddLast, At
  <2>2. CASE i = n
    BY <1>1, <2>2 DEF AddLast, At, Linked
  <2>3. CASE i < n
    <3>1. t[i] = s[i] /\ t[i + 1] = s[i + 1] /\ s[i] \in DOMAIN cells /\ s[i] # s[n]
      BY <1>1, <2>3 DEF AddLast, Linked
    <3>2. cells[s[i]].next = s[i + 1] /\ l.tail = s[n]
      BY <1>1, <2>3 DEF At, Linked
    <3> QED
      BY <1>1, <2>3, <3>1, <3>2 DEF At
  <2> QED
    BY <1>1, <2>1, <2>2, <2>3
<1>4. ASSUME NEW i \in 1..n + 1, NEW j \in 1..n + 1, t[i] = t[j] PROVE i = j
  <2>1. \A x \in 1..n : t[x] = s[x] /\ s[x] # c
    BY <1>1 DEF AddLast
  <2>2. t[n + 1] = c
    BY <1>1 DEF AddLast
  <2>3. \A x, y \in 1..n : s[x] = s[y] => x = y
    BY DEF Linked
  <2>4. i \in 1..n /\ j \in 1..n => i = j
    BY <1>4, <2>1, <2>3
  <2> HIDE DEF t
  <2> QED
    BY <1>1, <1>4, <2>1, <2>2, <2>4
<1>5. l2.head = At(t, n + 1, 0) /\ l2.tail = t[n + 1]
  BY <1>1 DEF AddLast, Linked, At
<1> QED
  BY <1>1, <1>2, <1>3, <1>4, <1>5 DEF Linked

(* Entry number k is taken out: the one before it is linked to the one     *)
(* behind it.                                                              *)
LEMMA TakenOut ==
  ASSUME NEW cells, NEW cells2, NEW l, NEW l2, NEW s, Linked(cells, l, s), None \notin DOMAIN cells,
         NEW k \in 0..l.size - 1,
         \A x \in DOMAIN cells \ {s[k + 1]} :
           x \in DOMAIN cells2
           /\ cells2[x].next = IF k > 0 /\ x = s[k] THEN cells[s[k + 1]].next ELSE cells[x].next,
         l2.size = l.size - 1,
         l2.head = IF k = 0 THEN At(s, l.size, 1) ELSE l.head,
         l2.tail = IF k = l.size - 1 THEN (IF k = 0 THEN None ELSE s[k]) ELSE l.tail
  PROVE  Linked(cells2, l2, DropAt(s, l.size, k))
<1> DEFINE n == l.size
           t == DropAt(s, n, k)
<1>1. n \in Nat /\ s \in [1..n -> DOMAIN cells]
  BY DEF Linked
<1>2. \A i \in 1..n - 1 : t[i] \in DOMAIN cells \ {s[k + 1]}
  BY <1>1 DEF DropAt, Linked
<1>3. t \in [1..n - 1 -> DOMAIN cells2]
  BY <1>2 DEF DropAt
<1>4. ASSUME NEW i \in 1..n - 1 PROVE cells2[t[i]].next = At(t, n - 1, i)
  <2>1. CASE i < k
    <3>1. t[i] = s[i] /\ t[i + 1] = s[i + 1] /\ s[i] # s[k]
      BY <1>1, <2>1 DEF DropAt, Linked
    <3>2. cells[s[i]].next = s[i + 1]
      BY <1>1, <2>1 DEF Linked, At
    <3> QED
      BY <1>1, <1>2, <2>1, <3>1, <3>2 DEF At
  <2>2. CASE i = k
    <3>1. t[i] = s[k] /\ k > 0
      BY <1>1, <2>2 DEF DropAt
    <3>2. cells2[t[i]].next = cells[s[k + 1]].next
      BY <1>2, <3>1
    <3>3. cells[s[k + 1]].next = At(s, n, k + 1)
      BY <1>1 DEF Linked
    <3>4. At(s, n, k + 1) = At(t, n - 1, k)
      BY <1>1, <2>2 DEF At, DropAt
    <3> QED
      BY <2>2, <3>2, <3>3, <3>4
  <2>3. CASE i > k
    <3>1. t[i] = s[i + 1] /\ (k > 0 => s[i + 1] # s[k])
      BY <1>1, <2>3 DEF DropAt, Linked
    <3>2. cells[s[i + 1]].next = At(s, n, i + 1)
      BY <1>1 DEF Linked
    <3>3. At(s, n, i + 1) = At(t, n - 1, i)
      BY <1>1, <2>3 DEF At, DropAt
    <3> QED
      BY <1>1, <1>2, <3>1, <3>2, <3>3
  <2> QED
    BY <1>1, <2>1, <2>2, <2>3
<1>5. \A i, j \in 1..n - 1 : t[i] = t[j] => i = j
  BY <1>1 DEF DropAt, Linked
<1>6. l2.head = At(t, n - 1, 0)
  BY <1>1 DEF At, DropAt, Linked
<1>7. l2.tail = IF n - 1 = 0 THEN None ELSE t[n - 1]
  BY <1>1 DEF DropAt, Linked
<1> QED
  BY <1>1, <1>3, <1>4, <1>5, <1>6, <1>7 DEF Linked

(* A new entry c before the head of a list, of which m entries, the new    *)
(* one among them, are left.                                               *)
LEMMA AddedFirst ==
  ASSUME NEW cells, NEW cells2, NEW l, NEW l2, NEW s, Linked(cells, l, s), None \notin DOMAIN cells,
         NEW m \in 1..l.size + 1,
         NEW c \in DOMAIN cells2, c \notin DOMAIN cells,
         cells2[c].next = IF m = 1 THEN None ELSE l.head,
         \A i \in 1..m - 1 : s[i] \in DOMAIN cells2
                             /\ cells2[s[i]].next = IF i = m - 1 THEN None ELSE cells[s[i]].next,
         l2.size = m, l2.head = c, l2.tail = IF m = 1 THEN c ELSE s[m - 1]
  PROVE  Linked(cells2, l2, AddFirst(s, m, c))
<1> DEFINE n == l.size
           t == AddFirst(s, m, c)
<1>1. n \in Nat /\ s \in [1..n -> DOMAIN cells]
  BY DEF Linked
<1>2. t \in [1..m -> DOMAIN cells2]
  BY <1>1 DEF AddFirst
<1>3. ASSUME NEW i \in 1..m PROVE cells2[t[i]].next = At(t, m, i)
  <2>1. CASE i = 1
    BY <1>1, <2>1 DEF AddFirst, At, Linked
  <2>2. CASE i > 1
    <3>1. t[i] = s[i - 1] /\ i - 1 \in 1..m - 1 /\ i - 1 \in 1..n
      BY <1>1, <2>2 DEF AddFirst
    <3>2. i < m => cells[s[i - 1]].next = s[i] /\ t[i + 1] = s[i]
      BY <1>1, <2>2, <3>1 DEF AddFirst, At, Linked
    <3> QED
      BY <1>1, <2>2, <3>1, <3>2 DEF At
  <2> QED
    BY <2>1, <2>2
<1>4. \A i, j \in 1..m : t[i] = t[j] => i = j
  BY <1>1 DEF AddFirst, Linked
<1>5. l2.head = At(t, m, 0) /\ l2.tail = t[m]
  BY <1>1 DEF AddFirst, At
<1> QED
  BY <1>1, <1>2, <1>3, <1>4, <1>5 DEF Linked

-----------------------------------------------------------------------------
(* The entries p make the playlist and q the list of past songs; there are *)
(* no others, and none is in both.                                         *)
Both(cells, playlist, past, p, q) ==
  /\ Linked(cells, playlist, p) /\ Linked(cells, past, q)
  /\ \A i \in 1..playlist.size, j \in 1..past.size : p[i] # q[j]
  /\ \A c \in DOMAIN cells : (\E i \in 1..playlist.size : p[i] = c)
                             \/ (\E j \in 1..past.size : q[j] = c)

LinkInv == \E p, q : Both(cell, list["playlist"], list["past"], p, q)
SizeInv == list["playlist"].size <= MaxList /\ list["past"].size <= PastLimit
KnobInv == empeg => list["playlist"].selected >= 0
IInv == TypeOK /\ SizeInv /\ KnobInv /\ CrashOnlyOnEmptyList /\ LinkInv

(* The new entries keep the song they had, those that are left.            *)
SongsKept(cells, cells2) ==
  \A c \in DOMAIN cells \cap DOMAIN cells2 : cells2[c].song = cells[c].song

(* The two lists and what they hold have types.                            *)
LEMMA ListTypes ==
  ASSUME TypeOK
  PROVE  /\ None \notin DOMAIN cell
         /\ \A l \in Lists : list[l] \in [head: Cells \cup {None}, tail: Cells \cup {None}, size: Nat, selected: Int]
         /\ DOMAIN list = Lists
  BY SongListsAssumption DEF TypeOK

(* malloc() returns an address that is not in use.                         *)
LEMMA FreshIsFresh ==
  ASSUME CanAllocate
  PROVE  Fresh \in Cells /\ Fresh \notin DOMAIN cell
  BY DEF Fresh, CanAllocate

(* A song is added behind the playlist.                                    *)
LEMMA QueueLinks ==
  ASSUME TypeOK, NEW p, NEW q, Both(cell, list["playlist"], list["past"], p, q),
         NEW s \in Song, playlist_queue_song(s)
  PROVE  /\ Both(cell', list'["playlist"], list'["past"], AddLast(p, list["playlist"].size, Fresh), q)
         /\ SongsKept(cell, cell')
         /\ Fresh \notin DOMAIN cell /\ cell'[Fresh] = [song |-> s, next |-> None]
<1> DEFINE c == Fresh
           tail == list["playlist"].tail
           pl == list["playlist"]
           pa == list["past"]
<1>1. c \in Cells /\ c \notin DOMAIN cell /\ c # None /\ None \notin DOMAIN cell
  BY FreshIsFresh, SongListsAssumption, ListTypes DEF playlist_queue_song
<1>2. cell' = LinkTo(With(c, s, None), tail, c)
  BY DEF playlist_queue_song
<1>3. tail # None => tail \in DOMAIN cell
  BY DEF Both, Linked
<1> HIDE DEF c
<1>4. DOMAIN cell' = DOMAIN cell \cup {c}
  BY <1>2 DEF LinkTo, With
<1>5. cell'[c] = [song |-> s, next |-> None]
  BY <1>1, <1>2, <1>3 DEF LinkTo, With
<1>6. \A x \in DOMAIN cell : cell'[x] = IF x = tail THEN [cell[x] EXCEPT !.next = c] ELSE cell[x]
  BY <1>1, <1>2, <1>3 DEF LinkTo, With
<1>7. \A x \in DOMAIN cell : cell[x] \in [song: Song, next: Cells \cup {None}]
  BY DEF TypeOK
<1>8. \A x \in DOMAIN cell : cell'[x].next = (IF x = tail THEN c ELSE cell[x].next)
                             /\ cell'[x].song = cell[x].song
  BY <1>6, <1>7
<1>9. list'["playlist"].size = pl.size + 1 /\ list'["playlist"].tail = c
      /\ list'["playlist"].head = (IF pl.head = None THEN c ELSE pl.head) /\ list'["past"] = pa
  BY ListTypes DEF playlist_queue_song, Lists, c
<1>10. Linked(cell', list'["playlist"], AddLast(p, pl.size, c))
  <2>1. Linked(cell, pl, p) /\ cell'[c].next = None /\ c \in DOMAIN cell'
    BY <1>4, <1>5 DEF Both
  <2>2. \A x \in DOMAIN cell : x \in DOMAIN cell' /\ cell'[x].next = IF x = tail THEN c ELSE cell[x].next
    BY <1>4, <1>8
  <2>3. list'["playlist"].size = pl.size + 1 /\ list'["playlist"].tail = c
        /\ list'["playlist"].head = (IF pl.head = None THEN c ELSE pl.head)
    BY <1>9
  <2> QED
    BY <1>1, <2>1, <2>2, <2>3, AddedLast
<1>11. Linked(cell', list'["past"], q)
  <2>1. \A i \in 1..pa.size : q[i] \in DOMAIN cell /\ q[i] # tail
    BY ListTypes DEF Both, Linked, Lists
  <2> QED
    BY <1>4, <1>8, <1>9, <2>1, Untouched DEF Both
<1>12. \A i \in 1..pl.size + 1, j \in 1..pa.size : AddLast(p, pl.size, c)[i] # q[j]
  BY <1>1, ListTypes DEF Both, Linked, AddLast, Lists
<1>13. ASSUME NEW x \in DOMAIN cell'
       PROVE  (\E i \in 1..pl.size + 1 : AddLast(p, pl.size, c)[i] = x) \/ (\E j \in 1..pa.size : q[j] = x)
  <2>0. pl.size \in Nat
    BY DEF Both, Linked
  <2>1. CASE x = c
    <3>1. AddLast(p, pl.size, c)[pl.size + 1] = x /\ pl.size + 1 \in 1..pl.size + 1
      BY <2>0, <2>1 DEF AddLast
    <3> QED
      BY <3>1
  <2>2. CASE x \in DOMAIN cell
    <3>1. ASSUME NEW i \in 1..pl.size, p[i] = x
          PROVE  i \in 1..pl.size + 1 /\ AddLast(p, pl.size, c)[i] = x
      BY <2>0, <3>1 DEF AddLast
    <3> QED
      BY <2>2, <3>1 DEF Both
  <2> QED
    BY <1>4, <2>1, <2>2
<1> QED
  <2>1. Both(cell', list'["playlist"], list'["past"], AddLast(p, pl.size, c), q)
    BY <1>9, <1>10, <1>11, <1>12, <1>13 DEF Both
  <2> QED
    BY <1>1, <1>4, <1>5, <1>8, <2>1 DEF SongsKept, c

(* Entry number k of the playlist is unlinked and freed.                   *)
LEMMA DropLinks ==
  ASSUME TypeOK, NEW p, NEW q, Both(cell, list["playlist"], list["past"], p, q),
         NEW k \in 0..list["playlist"].size - 1,
         cell' = Without(LinkTo(cell, IF k = 0 THEN None ELSE p[k], NextOf(p[k + 1])), {p[k + 1]}),
         list'["past"] = list["past"],
         list'["playlist"].size = list["playlist"].size - 1,
         list'["playlist"].head = IF k = 0 THEN At(p, list["playlist"].size, 1) ELSE list["playlist"].head,
         list'["playlist"].tail = IF k = list["playlist"].size - 1
                                  THEN (IF k = 0 THEN None ELSE p[k]) ELSE list["playlist"].tail
  PROVE  /\ Both(cell', list'["playlist"], list'["past"], DropAt(p, list["playlist"].size, k), q)
         /\ SongsKept(cell, cell')
         /\ DOMAIN cell' \subseteq DOMAIN cell
<1> DEFINE pl == list["playlist"]
           pa == list["past"]
           c == p[k + 1]
           before == IF k = 0 THEN None ELSE p[k]
<1>1. /\ pl.size \in Nat /\ pa.size \in Nat /\ k \in Nat /\ k + 1 \in 1..pl.size
      /\ \A i \in 1..pl.size : p[i] \in DOMAIN cell
      /\ \A i, j \in 1..pl.size : p[i] = p[j] => i = j
  BY DEF Both, Linked
<1>2. c \in DOMAIN cell /\ c # None /\ None \notin DOMAIN cell
  BY <1>1, ListTypes
<1>3. before # None => before \in DOMAIN cell
  BY <1>1
<1>4. NextOf(c) = cell[c].next
  BY <1>2 DEF NextOf
<1> HIDE DEF before
<1>5. DOMAIN cell' = DOMAIN cell \ {c}
  BY DEF Without, LinkTo, before
<1>6. \A x \in DOMAIN cell \ {c} :
        cell'[x] = IF x = before THEN [cell[x] EXCEPT !.next = cell[c].next] ELSE cell[x]
  BY <1>2, <1>3, <1>4 DEF Without, LinkTo, before
<1>7. \A x \in DOMAIN cell : cell[x] \in [song: Song, next: Cells \cup {None}]
  BY DEF TypeOK
<1>8. \A x \in DOMAIN cell \ {c} : cell'[x].next = (IF x = before THEN cell[c].next ELSE cell[x].next)
                                   /\ cell'[x].song = cell[x].song
  BY <1>6, <1>7
<1>9. \A x \in DOMAIN cell \ {c} : x = before <=> k > 0 /\ x = p[k]
  BY <1>1, <1>2 DEF before
<1>10. Linked(cell', list'["playlist"], DropAt(p, pl.size, k))
  <2>1. Linked(cell, pl, p)
    BY DEF Both
  <2>2. \A x \in DOMAIN cell \ {p[k + 1]} :
           x \in DOMAIN cell'
           /\ cell'[x].next = IF k > 0 /\ x = p[k] THEN cell[p[k + 1]].next ELSE cell[x].next
    BY <1>5, <1>8, <1>9
  <2> QED
    BY <1>2, <2>1, <2>2, TakenOut
<1>11. Linked(cell', list'["past"], q)
  <2>1. \A i \in 1..pa.size : q[i] \in DOMAIN cell \ {c} /\ q[i] # before
    <3> SUFFICES ASSUME NEW i \in 1..pa.size PROVE q[i] \in DOMAIN cell \ {c} /\ q[i] # before
      OBVIOUS
    <3>1. q[i] \in DOMAIN cell
      BY DEF Both, Linked
    <3>2. \A j \in 1..pl.size : q[i] # p[j]
      BY DEF Both
    <3>3. before # None => before = p[k] /\ k \in 1..pl.size
      BY <1>1 DEF before
    <3> QED
      BY <1>1, <1>2, <3>1, <3>2, <3>3
  <2>2. Linked(cell, pa, q) /\ list'["past"] = pa
    BY DEF Both
  <2>3. \A i \in 1..pa.size : q[i] \in DOMAIN cell' /\ cell'[q[i]].next = cell[q[i]].next
    BY <1>5, <1>8, <2>1
  <2> QED
    BY <2>2, <2>3, Untouched
<1>12. \A i \in 1..pl.size - 1 : DropAt(p, pl.size, k)[i] = (IF i <= k THEN p[i] ELSE p[i + 1])
                                /\ i \in 1..pl.size /\ i + 1 \in 1..pl.size
  BY <1>1 DEF DropAt
<1>13. \A i \in 1..pl.size - 1, j \in 1..pa.size : DropAt(p, pl.size, k)[i] # q[j]
  BY <1>12 DEF Both
<1>14. ASSUME NEW x \in DOMAIN cell'
       PROVE  (\E i \in 1..pl.size - 1 : DropAt(p, pl.size, k)[i] = x) \/ (\E j \in 1..pa.size : q[j] = x)
  <2>1. ASSUME NEW i \in 1..pl.size, p[i] = x PROVE \E j \in 1..pl.size - 1 : DropAt(p, pl.size, k)[j] = x
    <3>1. i # k + 1
      BY <1>5, <2>1
    <3>2. CASE i <= k
      <4>1. i \in 1..pl.size - 1
        BY <1>1, <3>2
      <4> QED
        BY <1>12, <2>1, <3>2, <4>1
    <3>3. CASE i > k + 1
      <4>1. i - 1 \in 1..pl.size - 1 /\ ~(i - 1 <= k) /\ (i - 1) + 1 = i
        BY <1>1, <3>3
      <4> QED
        BY <1>12, <2>1, <4>1
    <3> QED
      BY <1>1, <3>1, <3>2, <3>3
  <2>2. (\E i \in 1..pl.size : p[i] = x) \/ (\E j \in 1..pa.size : q[j] = x)
    BY <1>5 DEF Both
  <2> QED
    BY <2>1, <2>2
<1> QED
  <2>1. Both(cell', list'["playlist"], list'["past"], DropAt(p, pl.size, k), q)
    BY <1>10, <1>11, <1>13, <1>14 DEF Both
  <2> QED
    BY <1>5, <1>8, <2>1 DEF SongsKept

(* The player takes the first entry.                                       *)
LEMMA TakeLinks ==
  ASSUME TypeOK, NEW p, NEW q, Both(cell, list["playlist"], list["past"], p, q), get_next_song_info
  PROVE  /\ Both(cell', list'["playlist"], list'["past"], DropAt(p, list["playlist"].size, 0), q)
         /\ SongsKept(cell, cell') /\ DOMAIN cell' \subseteq DOMAIN cell
         /\ now' = cell[p[1]].song
<1> DEFINE pl == list["playlist"]
<1>1. Linked(cell, pl, p) /\ pl.size \in Nat /\ pl.size > 0 /\ 0 \in 0..pl.size - 1 /\ None \notin DOMAIN cell
  BY ListTypes DEF get_next_song_info, Both, Linked
<1>2. pl.head = p[1] /\ pl.tail = p[pl.size] /\ p[1] \in DOMAIN cell /\ p[1] # None
  BY <1>1 DEF Linked, At
<1>3. pl.head = pl.tail <=> pl.size - 1 = 0
  BY <1>1, <1>2 DEF Linked
<1>4. cell' = Without(LinkTo(cell, IF 0 = 0 THEN None ELSE p[0], NextOf(p[0 + 1])), {p[0 + 1]})
  BY <1>2 DEF get_next_song_info, LinkTo
<1>5. NextOf(pl.head) = At(p, pl.size, 1)
  BY <1>1, <1>2 DEF NextOf, Linked
<1>6. pl.size - 1 = 0 => At(p, pl.size, 1) = None
  BY <1>1 DEF At
<1>7. /\ list'["past"] = list["past"]
      /\ list'["playlist"].size = pl.size - 1
      /\ list'["playlist"].head = IF pl.head = pl.tail THEN None ELSE NextOf(pl.head)
      /\ list'["playlist"].tail = IF pl.head = pl.tail THEN None ELSE pl.tail
  BY ListTypes DEF get_next_song_info, TailAfterTake, Lists
<1>8. list'["playlist"].head = At(p, pl.size, 1)
      /\ list'["playlist"].tail = IF 0 = pl.size - 1 THEN (IF 0 = 0 THEN None ELSE p[0]) ELSE pl.tail
  BY <1>3, <1>5, <1>6, <1>7
<1>9. now' = cell[p[1]].song
  BY <1>2 DEF get_next_song_info
<1>10. list'["playlist"].head = IF 0 = 0 THEN At(p, pl.size, 1) ELSE pl.head
  BY <1>8
<1>11. list'["past"] = list["past"] /\ list'["playlist"].size = pl.size - 1
  BY <1>7
<1>12. 0 \in 0..pl.size - 1
  BY <1>1
<1> HIDE DEF pl
<1>13. /\ Both(cell', list'["playlist"], list'["past"], DropAt(p, pl.size, 0), q)
       /\ SongsKept(cell, cell') /\ DOMAIN cell' \subseteq DOMAIN cell
  BY <1>4, <1>8, <1>10, <1>11, <1>12, DropLinks, Zenon DEF pl
<1> QED
  BY <1>9, <1>13 DEF pl

(* The user takes out the selected entry.                                  *)
LEMMA RemoveLinks ==
  ASSUME TypeOK, NEW p, NEW q, Both(cell, list["playlist"], list["past"], p, q),
         NEW n \in 0..list["playlist"].size - 1, Removed(n)
  PROVE  /\ Both(cell', list'["playlist"], list'["past"], DropAt(p, list["playlist"].size, n), q)
         /\ SongsKept(cell, cell') /\ DOMAIN cell' \subseteq DOMAIN cell
<1> DEFINE pl == list["playlist"]
<1>1. Linked(cell, pl, p) /\ pl.size \in Nat /\ n \in Nat /\ None \notin DOMAIN cell
      /\ n + 1 \in 1..pl.size
  BY ListTypes DEF Both, Linked
<1>2. \A m \in Nat : Entry("playlist", m) = At(p, pl.size, m)
  <2> SUFFICES ASSUME NEW m \in Nat PROVE Entry("playlist", m) = At(p, pl.size, m)
    OBVIOUS
  <2>1. pl.head = At(p, pl.size, 0)
    BY <1>1 DEF Linked
  <2> HIDE DEF pl
  <2>2. After(At(p, pl.size, 0), m) = At(p, pl.size, 0 + m)
    BY <1>1, Follow
  <2> QED
    BY <2>1, <2>2 DEF Entry, pl
<1>3. Entry("playlist", n) = p[n + 1]
  BY <1>1, <1>2 DEF At
<1>4. (IF n = 0 THEN None ELSE Entry("playlist", n - 1)) = IF n = 0 THEN None ELSE p[n]
  <2>1. CASE n = 0
    BY <2>1
  <2>2. CASE n # 0
    <3>1. n - 1 \in Nat /\ n - 1 < pl.size /\ (n - 1) + 1 = n
      BY <1>1, <2>2
    <3> QED
      BY <1>2, <2>2, <3>1 DEF At
  <2> QED
    BY <2>1, <2>2
<1>5. cell' = Without(LinkTo(cell, IF n = 0 THEN None ELSE p[n], NextOf(p[n + 1])), {p[n + 1]})
  BY <1>3, <1>4 DEF Removed
<1>6. p[n + 1] = pl.head <=> n = 0
  BY <1>1 DEF Linked, At
<1>7. p[n + 1] = pl.tail <=> n = pl.size - 1
  BY <1>1 DEF Linked
<1>8. n = 0 => NextOf(p[n + 1]) = At(p, pl.size, 1)
  BY <1>1 DEF Linked, NextOf
<1>9. /\ list'["past"] = list["past"]
      /\ list'["playlist"].size = pl.size - 1
      /\ list'["playlist"].head = IF p[n + 1] = pl.head THEN NextOf(p[n + 1]) ELSE pl.head
      /\ list'["playlist"].tail = IF p[n + 1] = pl.tail
                                  THEN (IF n = 0 THEN None ELSE p[n]) ELSE pl.tail
  BY <1>3, <1>4, ListTypes DEF Removed, Lists
<1>10. list'["playlist"].head = (IF n = 0 THEN At(p, pl.size, 1) ELSE pl.head)
       /\ list'["playlist"].tail = IF n = pl.size - 1 THEN (IF n = 0 THEN None ELSE p[n]) ELSE pl.tail
  BY <1>6, <1>7, <1>8, <1>9
<1> QED
  BY <1>5, <1>9, <1>10, DropLinks

(* The song that is over comes first in the list of past songs, which      *)
(* keeps its limit.                                                        *)
PastSize == IF list["past"].size < PastLimit THEN list["past"].size + 1 ELSE PastLimit
(* The song goes to the head; the entry behind the limit, if there is one, *)
(* is the only one freed.                                                  *)
LEMMA DoneLinks ==
  ASSUME TypeOK, SizeInv, NEW p, NEW q, Both(cell, list["playlist"], list["past"], p, q),
         done_with_song_info
  PROVE  /\ Both(cell', list'["playlist"], list'["past"], p, AddFirst(q, PastSize, Fresh))
         /\ SongsKept(cell, cell')
         /\ Fresh \notin DOMAIN cell /\ cell'[Fresh].song = now /\ now \in Song
<1> DEFINE c == Fresh
           pl == list["playlist"]
           pa == list["past"]
           n == pa.size
           m == PastSize
<1>1. c \in Cells /\ c \notin DOMAIN cell /\ c # None /\ None \notin DOMAIN cell /\ now \in Song
  BY FreshIsFresh, SongListsAssumption, ListTypes DEF done_with_song_info, TypeOK
<1>2. n \in Nat /\ n <= PastLimit /\ PastLimit \in Nat /\ PastLimit >= 1
  BY SongListsAssumption DEF Both, Linked, SizeInv
<1>3. m \in 1..n + 1 /\ (m # n => m = n + 1)
  BY <1>2 DEF PastSize
<1>4. /\ \A i \in 1..pl.size : p[i] \in DOMAIN cell
      /\ \A i \in 1..n : q[i] \in DOMAIN cell
      /\ \A i, j \in 1..n : q[i] = q[j] => i = j
      /\ \A i \in 1..pl.size, j \in 1..n : p[i] # q[j]
      /\ Linked(cell, pl, p) /\ Linked(cell, pa, q)
  BY DEF Both, Linked
<1>5. pa.head = At(q, n, 0)
  BY <1>4 DEF Linked
<1>6. \A j \in Nat : After(pa.head, j) = At(q, n, j)
  <2> SUFFICES ASSUME NEW j \in Nat PROVE After(pa.head, j) = At(q, n, j)
    OBVIOUS
  <2>1. Linked(cell, pa, q)
    BY <1>4
  <2> HIDE DEF pa
  <2>2. After(At(q, pa.size, 0), j) = At(q, pa.size, 0 + j)
    BY <1>1, <2>1, Follow
  <2> QED
    BY <1>5, <2>2
<1>7. \A x \in DOMAIN cell : cell[x] \in [song: Song, next: Cells \cup {None}]
  BY DEF TypeOK
<1>8. /\ DOMAIN With(c, now, pa.head) = DOMAIN cell \cup {c}
      /\ With(c, now, pa.head)[c] = [song |-> now, next |-> pa.head]
      /\ \A x \in DOMAIN cell : With(c, now, pa.head)[x] = cell[x]
  BY <1>1 DEF With
<1> DEFINE Kept == {c} \cup {p[i] : i \in 1..pl.size} \cup {q[i] : i \in 1..m - 1}
           End(x) == m = n /\ x = (IF m = 1 THEN c ELSE q[m - 1])
<1>9. /\ DOMAIN cell' = Kept
      /\ cell'[c].song = now /\ cell'[c].next = (IF m = 1 THEN None ELSE pa.head)
      /\ \A x \in Kept \ {c} : /\ x \in DOMAIN cell /\ cell'[x].song = cell[x].song
                               /\ cell'[x].next = IF End(x) THEN None ELSE cell[x].next
  <2>1. CASE n < PastLimit
    <3>1. cell' = With(c, now, pa.head) /\ m = n + 1
      BY <1>2, <2>1 DEF done_with_song_info, PastSize
    <3>2. Kept = DOMAIN cell \cup {c}
      <4>1. \A x \in DOMAIN cell : (\E i \in 1..pl.size : p[i] = x) \/ (\E j \in 1..n : q[j] = x)
        BY DEF Both
      <4>2. m - 1 = n
        BY <1>2, <3>1
      <4> QED
        BY <1>4, <4>1, <4>2
    <3>3. m = 1 => pa.head = None
      BY <1>2, <1>5, <3>1 DEF At
    <3>4. m # n
      BY <1>2, <3>1
    <3>5. DOMAIN cell' = Kept
      BY <1>8, <3>1, <3>2
    <3>6. cell'[c].song = now /\ cell'[c].next = IF m = 1 THEN None ELSE pa.head
      BY <1>8, <3>1, <3>3
    <3>7. \A x \in Kept \ {c} : x \in DOMAIN cell /\ cell'[x] = cell[x]
      BY <1>8, <3>1, <3>2
    <3> QED
      BY <3>4, <3>5, <3>6, <3>7
  <2>2. CASE n = PastLimit
    <3> DEFINE last == IF PastLimit = 1 THEN c ELSE q[PastLimit - 1]
               rest == q[PastLimit]
    <3>1. m = n /\ m = PastLimit
      BY <1>2, <2>2 DEF PastSize
    <3>2. After(pa.head, PastLimit - 1) = rest
      BY <1>2, <1>6, <2>2 DEF At
    <3>3. PastLimit # 1 => After(pa.head, PastLimit - 2) = q[PastLimit - 1]
      <4> SUFFICES ASSUME PastLimit # 1 PROVE After(pa.head, PastLimit - 2) = q[PastLimit - 1]
        OBVIOUS
      <4>1. PastLimit - 2 \in Nat /\ PastLimit - 2 < n /\ (PastLimit - 2) + 1 = PastLimit - 1
        BY <1>2, <2>2
      <4> QED
        BY <1>6, <4>1 DEF At
    <3>4. FreedFrom(rest) = {rest}
      <4>1. rest \in DOMAIN cell /\ rest # None
        BY <1>1, <1>2, <1>4, <2>2
      <4>2. rest = At(q, n, PastLimit - 1)
        BY <1>2, <2>2 DEF At
      <4>3. ASSUME NEW j \in 0..PastLimit PROVE After(rest, j) = IF j = 0 THEN rest ELSE None
        <5>1. Linked(cell, pa, q) /\ PastLimit - 1 \in Nat /\ j \in Nat
          BY <1>2, <1>4
        <5>2. After(At(q, pa.size, PastLimit - 1), j) = At(q, pa.size, PastLimit - 1 + j)
          <6> HIDE DEF pa
          <6> QED
            BY <1>1, <5>1, Follow
        <5> QED
          BY <1>2, <2>2, <4>2, <5>1, <5>2 DEF At
      <4>4. 0 \in 0..PastLimit
        BY <1>2
      <4> QED
        BY <4>1, <4>3, <4>4 DEF FreedFrom
    <3>5. cell' = Without([With(c, now, pa.head) EXCEPT ![last].next = None], {rest})
      <4>1. n + 1 > PastLimit
        BY <1>2, <2>2
      <4>2. cell' = IF n + 1 > PastLimit
                    THEN Without([With(c, now, pa.head) EXCEPT
                                    ![IF PastLimit = 1 THEN c ELSE After(pa.head, PastLimit - 2)].next = None],
                                 FreedFrom(After(pa.head, PastLimit - 1)))
                    ELSE With(c, now, pa.head)
        BY DEF done_with_song_info
      <4>3. (IF PastLimit = 1 THEN c ELSE After(pa.head, PastLimit - 2)) = last
        BY <3>3
      <4> HIDE DEF last, rest, c, pa, n
      <4> QED
        BY <3>2, <3>4, <4>1, <4>2, <4>3
    <3>6. last \in DOMAIN cell \cup {c} /\ (last = c => PastLimit = 1) /\ last # rest /\ rest \in DOMAIN cell
      BY <1>1, <1>2, <1>4, <2>2
    <3> HIDE DEF last, rest
    <3>7. DOMAIN cell' = (DOMAIN cell \cup {c}) \ {rest}
      BY <1>8, <3>5 DEF Without
    <3>8. /\ cell'[c].song = now /\ cell'[c].next = IF c = last THEN None ELSE pa.head
      BY <1>1, <1>8, <3>5, <3>6 DEF Without
    <3>9. \A x \in DOMAIN cell \ {rest} :
            cell'[x] = IF x = last THEN [cell[x] EXCEPT !.next = None] ELSE cell[x]
      BY <1>1, <1>8, <3>5, <3>6 DEF Without
    <3>10. \A x \in DOMAIN cell \ {rest} :
             cell'[x].song = cell[x].song /\ cell'[x].next = IF x = last THEN None ELSE cell[x].next
      BY <1>7, <3>9
    <3>11. Kept = (DOMAIN cell \cup {c}) \ {rest}
      <4>1. \A x \in DOMAIN cell : (\E i \in 1..pl.size : p[i] = x) \/ (\E j \in 1..n : q[j] = x)
        BY DEF Both
      <4>2. n \in 1..n /\ \A j \in 1..n : j \in 1..m - 1 \/ j = n
        BY <1>2, <2>2, <3>1
      <4>3. rest = q[n] /\ rest # c
        BY <1>1, <2>2, <3>6 DEF rest
      <4>4. \A j \in 1..m - 1 : j \in 1..n /\ j # n
        BY <1>2, <3>1
      <4> QED
        BY <1>4, <4>1, <4>2, <4>3, <4>4
    <3>12. last = IF m = 1 THEN c ELSE q[m - 1]
      BY <3>1 DEF last
    <3>13. c = last <=> m = 1
      BY <1>1, <1>3, <1>4, <3>1, <3>12
    <3> QED
      BY <1>1, <3>1, <3>7, <3>8, <3>10, <3>11, <3>12, <3>13
  <2> QED
    BY <1>2, <2>1, <2>2
<1>10. list'["playlist"] = pl /\ list'["past"].head = c /\ list'["past"].size = m
       /\ list'["past"].tail = IF m = 1 THEN c ELSE q[m - 1]
  <2>1. list'["playlist"] = pl /\ list'["past"].head = c
    BY ListTypes DEF done_with_song_info, Lists
  <2>2. list'["past"].size = IF n + 1 > PastLimit THEN PastLimit ELSE n + 1
    BY ListTypes DEF done_with_song_info, Lists
  <2>3. list'["past"].tail = IF n + 1 > PastLimit
                             THEN (IF PastLimit = 1 THEN c ELSE After(pa.head, PastLimit - 2))
                             ELSE IF pa.tail = None THEN c ELSE pa.tail
    BY ListTypes DEF done_with_song_info, Lists
  <2>4. CASE n < PastLimit
    <3>1. m = n + 1
      BY <2>4 DEF PastSize
    <3>2. pa.tail = (IF n = 0 THEN None ELSE q[n]) /\ (n > 0 => q[n] # None)
      BY <1>1, <1>2, <1>4 DEF Linked
    <3> QED
      BY <1>2, <2>1, <2>2, <2>3, <2>4, <3>1, <3>2
  <2>5. CASE n = PastLimit
    <3>1. m = n
      BY <1>2, <2>5 DEF PastSize
    <3>2. PastLimit # 1 => After(pa.head, PastLimit - 2) = q[PastLimit - 1]
      <4> SUFFICES ASSUME PastLimit # 1 PROVE After(pa.head, PastLimit - 2) = q[PastLimit - 1]
        OBVIOUS
      <4>1. PastLimit - 2 \in Nat /\ PastLimit - 2 < n /\ (PastLimit - 2) + 1 = PastLimit - 1
        BY <1>2, <2>5
      <4> QED
        BY <1>6, <4>1 DEF At
    <3> QED
      BY <1>2, <2>1, <2>2, <2>3, <2>5, <3>1, <3>2
  <2> QED
    BY <1>2, <2>4, <2>5
<1> HIDE DEF m, c
<1>11. Linked(cell', list'["playlist"], p)
  <2>1. \A i \in 1..pl.size : p[i] \in Kept \ {c} /\ ~End(p[i])
    BY <1>1, <1>3, <1>4
  <2>2. \A i \in 1..pl.size : p[i] \in DOMAIN cell' /\ cell'[p[i]].next = cell[p[i]].next
    BY <1>9, <2>1
  <2>3. Linked(cell, pl, p) /\ list'["playlist"] = pl
    BY <1>4, <1>10
  <2> HIDE DEF pl
  <2> QED
    BY <2>2, <2>3, Untouched
<1>12. Linked(cell', list'["past"], AddFirst(q, m, c))
  <2>1. ASSUME NEW i \in 1..m - 1
        PROVE  q[i] \in DOMAIN cell' /\ cell'[q[i]].next = IF i = m - 1 THEN None ELSE cell[q[i]].next
    <3>1. i \in 1..n /\ m - 1 \in 1..n
      BY <1>2, <1>3
    <3>2. q[i] \in Kept \ {c}
      BY <1>1, <1>4, <3>1
    <3>3. End(q[i]) <=> m = n /\ i = m - 1
      BY <1>1, <1>4, <3>1
    <3>5. cell[q[i]].next = At(q, n, i)
      BY <1>4, <3>1 DEF Linked
    <3>6. m = n + 1 /\ i = m - 1 => cell[q[i]].next = None
      BY <1>2, <3>5 DEF At
    <3> QED
      BY <1>3, <1>9, <3>2, <3>3, <3>6
  <2>2. Linked(cell, pa, q) /\ None \notin DOMAIN cell /\ m \in 1..n + 1
        /\ c \in DOMAIN cell' /\ c \notin DOMAIN cell
    BY <1>1, <1>3, <1>4, <1>9
  <2>3. cell'[c].next = IF m = 1 THEN None ELSE pa.head
    BY <1>9
  <2>4. list'["past"].size = m /\ list'["past"].head = c
        /\ list'["past"].tail = IF m = 1 THEN c ELSE q[m - 1]
    BY <1>10
  <2> HIDE DEF pa
  <2> QED
    BY <2>1, <2>2, <2>3, <2>4, AddedFirst
<1>13. /\ \A i \in 1..pl.size, j \in 1..m : p[i] # AddFirst(q, m, c)[j]
       /\ \A x \in DOMAIN cell' : (\E i \in 1..pl.size : p[i] = x)
                                  \/ (\E j \in 1..m : AddFirst(q, m, c)[j] = x)
  <2>1. \A j \in 1..m : AddFirst(q, m, c)[j] = (IF j = 1 THEN c ELSE q[j - 1])
                        /\ (j # 1 => j - 1 \in 1..m - 1 /\ j - 1 \in 1..n)
    BY <1>2, <1>3 DEF AddFirst
  <2>2. \A j \in 1..m - 1 : j + 1 \in 1..m /\ j + 1 # 1 /\ (j + 1) - 1 = j
    BY <1>3
  <2>3. 1 \in 1..m
    BY <1>3
  <2>4. \A i \in 1..pl.size, j \in 1..m : p[i] # AddFirst(q, m, c)[j]
    BY <1>1, <1>4, <2>1
  <2>5. ASSUME NEW x \in DOMAIN cell', ~ \E i \in 1..pl.size : p[i] = x
        PROVE  \E j \in 1..m : AddFirst(q, m, c)[j] = x
    <3>1. x = c \/ \E j \in 1..m - 1 : q[j] = x
      BY <1>9, <2>5
    <3> QED
      BY <2>1, <2>2, <2>3, <3>1
  <2> QED
    BY <2>4, <2>5
<1>14. SongsKept(cell, cell')
  BY <1>1, <1>9 DEF SongsKept
<1>15. Both(cell', list'["playlist"], list'["past"], p, AddFirst(q, m, c))
  BY <1>10, <1>11, <1>12, <1>13 DEF Both
<1> QED
  BY <1>1, <1>9, <1>14, <1>15 DEF m, c

-----------------------------------------------------------------------------
(* What malloc() has returned stays a song and a link to an entry.         *)
Address == Cells \cup {None}
CellsOK(cells) ==
  /\ DOMAIN cells \subseteq Cells
  /\ \A c \in DOMAIN cells : cells[c] \in [song: Song, next: Address]
ListRecord == [head: Address, tail: Address, size: Nat, selected: Int]

(* Linking and freeing entries keeps them entries.                         *)
LEMMA SurgeryTypes ==
  ASSUME NEW cells, CellsOK(cells)
  PROVE  /\ \A from, to : to \in Address => CellsOK(LinkTo(cells, from, to))
         /\ \A gone : CellsOK(Without(cells, gone))
         /\ \A from : CellsOK([cells EXCEPT ![from].next = None])
<1>1. ASSUME NEW from, NEW to \in Address PROVE CellsOK(LinkTo(cells, from, to))
  BY <1>1 DEF CellsOK, LinkTo
<1>2. ASSUME NEW gone PROVE CellsOK(Without(cells, gone))
  BY DEF CellsOK, Without
<1>3. ASSUME NEW from PROVE CellsOK([cells EXCEPT ![from].next = None])
  BY DEF CellsOK, Address
<1> QED
  BY <1>1, <1>2, <1>3

(* What the type invariant says of entries and lists.                      *)
LEMMA LinkTypes ==
  ASSUME TypeOK
  PROVE  /\ CellsOK(cell) /\ list \in [Lists -> ListRecord]
         /\ \A c \in Address : NextOf(c) \in Address \/ c \notin DOMAIN cell
         /\ \A c \in Cells, s \in Song, next \in Address : CellsOK(With(c, s, next))
<1>1. CellsOK(cell) /\ list \in [Lists -> ListRecord]
  BY DEF TypeOK, CellsOK, ListRecord, Address
<1>2. \A c \in Address : NextOf(c) \in Address \/ c \notin DOMAIN cell
  BY <1>1 DEF CellsOK, NextOf, Address
<1>3. ASSUME NEW c \in Cells, NEW s \in Song, NEW next \in Address PROVE CellsOK(With(c, s, next))
  BY <1>1 DEF CellsOK, With
<1> QED
  BY <1>1, <1>2, <1>3

(* The types of the lists, whatever a function adds to ...                *)
LEMMA QueueTypes ==
  ASSUME IInv, NEW s \in Song, playlist_queue_song(s)
  PROVE  CellsOK(cell') /\ list' \in [Lists -> ListRecord]
<1>1. CellsOK(cell) /\ list \in [Lists -> ListRecord] /\ None \in Address
  BY LinkTypes DEF IInv, Address
<1>2. Fresh \in Cells /\ Fresh \in Address
  BY FreshIsFresh DEF playlist_queue_song, Address
<1>3. CellsOK(With(Fresh, s, None))
  BY <1>1, <1>2, LinkTypes DEF IInv
<1>4. CellsOK(cell')
  BY <1>2, <1>3, SurgeryTypes DEF playlist_queue_song
<1>5. list' \in [Lists -> ListRecord]
  BY <1>1, <1>2 DEF playlist_queue_song, Lists, ListRecord
<1> QED
  BY <1>4, <1>5

(* ... taken from ...                                                      *)
LEMMA TakeTypes ==
  ASSUME IInv, get_next_song_info
  PROVE  CellsOK(cell') /\ list' \in [Lists -> ListRecord] /\ now' \in Song
<1> DEFINE pl == list["playlist"]
<1>1. CellsOK(cell) /\ list \in [Lists -> ListRecord] /\ None \in Address
  BY LinkTypes DEF IInv, Address
<1>2. CellsOK(cell')
  BY <1>1, SurgeryTypes DEF get_next_song_info
<1>3. pl.head \in DOMAIN cell /\ pl.head \in Address /\ pl.size - 1 \in Nat
  BY <1>1 DEF get_next_song_info, IInv, LinkInv, Both, Linked, At, ListRecord, Lists
<1>4. NextOf(pl.head) \in Address /\ now' \in Song
  BY <1>1, <1>3, LinkTypes DEF IInv, get_next_song_info, CellsOK
<1>5. list' \in [Lists -> ListRecord]
  BY <1>1, <1>3, <1>4 DEF get_next_song_info, TailAfterTake, Lists, ListRecord
<1> QED
  BY <1>2, <1>4, <1>5

(* ... or deletes from them, ...                                           *)
LEMMA RemoveTypes ==
  ASSUME IInv, NEW n \in 0..list["playlist"].size - 1, Removed(n)
  PROVE  CellsOK(cell') /\ list' \in [Lists -> ListRecord]
<1> DEFINE pl == list["playlist"]
           entry == Entry("playlist", n)
           before == IF n = 0 THEN None ELSE Entry("playlist", n - 1)
<1>1. CellsOK(cell) /\ list \in [Lists -> ListRecord] /\ None \in Address
  BY LinkTypes DEF IInv, Address
<1>2. PICK p, q : Both(cell, list["playlist"], list["past"], p, q)
  BY DEF IInv, LinkInv
<1>3. Linked(cell, pl, p) /\ pl.size \in Nat /\ n \in Nat /\ None \notin DOMAIN cell /\ pl.head = At(p, pl.size, 0)
  BY <1>2, ListTypes DEF Both, Linked, IInv
<1>4. \A m \in Nat : After(pl.head, m) = At(p, pl.size, m)
  <2> SUFFICES ASSUME NEW m \in Nat PROVE After(pl.head, m) = At(p, pl.size, m)
    OBVIOUS
  <2> HIDE DEF pl
  <2>1. After(At(p, pl.size, 0), m) = At(p, pl.size, 0 + m)
    BY <1>3, Follow
  <2> QED
    BY <1>3, <2>1
<1>5. entry \in DOMAIN cell /\ entry \in Address
  <2>1. n < pl.size /\ n + 1 \in 1..pl.size
    BY <1>3
  <2>2. entry = p[n + 1]
    BY <1>3, <1>4, <2>1 DEF Entry, At
  <2>3. p[n + 1] \in DOMAIN cell
    BY <1>3, <2>1 DEF Linked
  <2> QED
    BY <1>1, <2>2, <2>3 DEF CellsOK, Address
<1>6. before \in Address
  <2>1. CASE n = 0
    BY <1>1, <2>1
  <2>2. CASE n # 0
    <3>1. n - 1 \in Nat /\ n - 1 < pl.size /\ (n - 1) + 1 \in 1..pl.size
      BY <1>3, <2>2
    <3> QED
      BY <1>1, <1>3, <1>4, <2>2, <3>1 DEF Entry, At, Linked, CellsOK, Address
  <2> QED
    BY <2>1, <2>2
<1>7. NextOf(entry) \in Address
  BY <1>5, LinkTypes DEF IInv
<1> HIDE DEF entry, before
<1>8. CellsOK(cell')
  <2>1. cell' = Without(LinkTo(cell, before, NextOf(entry)), {entry})
    BY DEF Removed, entry, before
  <2> QED
    BY <1>1, <1>7, <2>1, SurgeryTypes
<1>9. list' \in [Lists -> ListRecord]
  <2>1. list' = [list EXCEPT !["playlist"] =
                    [@ EXCEPT !.head = IF entry = pl.head THEN NextOf(entry) ELSE pl.head,
                              !.tail = IF entry = pl.tail THEN before ELSE pl.tail,
                              !.size = pl.size - 1]]
    BY DEF Removed, entry, before
  <2>2. pl.size - 1 \in Nat
    BY <1>3
  <2> QED
    BY <1>1, <1>6, <1>7, <2>1, <2>2 DEF Lists, ListRecord
<1> QED
  BY <1>8, <1>9

(* ... or puts in front and cuts off.                                      *)
LEMMA DoneTypes ==
  ASSUME IInv, done_with_song_info
  PROVE  CellsOK(cell') /\ list' \in [Lists -> ListRecord]
<1> DEFINE c == Fresh
           pa == list["past"]
           last == IF PastLimit = 1 THEN c ELSE After(pa.head, PastLimit - 2)
           linked == With(c, now, pa.head)
<1>1. CellsOK(cell) /\ list \in [Lists -> ListRecord] /\ None \in Address
  BY LinkTypes DEF IInv, Address
<1>2. PICK p, q : Both(cell, list["playlist"], list["past"], p, q)
  BY DEF IInv, LinkInv
<1>3. c \in Cells /\ c \in Address /\ now \in Song /\ pa.head \in Address
  BY <1>1, FreshIsFresh DEF done_with_song_info, Address, IInv, TypeOK, Lists, ListRecord
<1>4. CellsOK(linked)
  BY <1>3, LinkTypes DEF IInv
<1>5. CellsOK(cell')
  <2> HIDE DEF c, linked, last
  <2>1. CellsOK([linked EXCEPT ![last].next = None])
    BY <1>4, SurgeryTypes
  <2>2. cell' = linked \/ \E gone : cell' = Without([linked EXCEPT ![last].next = None], gone)
    BY DEF done_with_song_info, c, linked, last
  <2> QED
    BY <1>4, <2>1, <2>2, SurgeryTypes
<1>6. list'["past"].tail \in Address
  <2>1. Linked(cell', list'["past"], AddFirst(q, PastSize, Fresh))
    BY <1>2, DoneLinks DEF IInv, Both
  <2> HIDE DEF c
  <2>2. list'["past"].tail \in DOMAIN cell' \cup {None}
    BY <2>1 DEF Linked
  <2> QED
    BY <1>5, <2>2 DEF CellsOK, Address
<1>7. list' \in [Lists -> ListRecord]
  <2> DEFINE tail == IF pa.size + 1 > PastLimit THEN last ELSE IF pa.tail = None THEN c ELSE pa.tail
             size == IF pa.size + 1 > PastLimit THEN PastLimit ELSE pa.size + 1
  <2>1. list' = [list EXCEPT !["past"] = [@ EXCEPT !.head = c, !.tail = tail, !.size = size]]
    BY DEF done_with_song_info
  <2>2. size \in Nat
    BY <1>1, SongListsAssumption DEF Lists, ListRecord
  <2> HIDE DEF tail, size, c
  <2>3. list'["past"].tail = tail
    BY <1>1, <2>1 DEF Lists, ListRecord
  <2> QED
    BY <1>1, <1>3, <1>6, <2>1, <2>2, <2>3 DEF Lists, ListRecord
<1> QED
  BY <1>5, <1>7

-----------------------------------------------------------------------------
(* What an action that touches no link leaves as it is.                    *)
LinksUnchanged ==
  /\ UNCHANGED cell
  /\ \A l \in Lists : list'[l].size = list[l].size /\ list'[l].head = list[l].head
                      /\ list'[l].tail = list[l].tail

(* Where an arrow key leads.                                               *)
LEMMA ArrowTarget ==
  ASSUME IInv, NEW l \in Lists, NEW i \in Targets(l)
  PROVE  /\ i \in Int
         /\ MaxSize(l) \in Nat /\ MaxSize(l) <= MaxList + WantedSize + PastLimit
         /\ Inside(l, i) \in -1..MaxSize(l) - 1 \/ Inside(l, i) = 0
<1>1. list[l].size \in Nat /\ list[l].selected \in Int /\ wanted_size \in {0, WantedSize}
  BY ListTypes DEF IInv, TypeOK
<1>2. list[l].size <= MaxList \/ list[l].size <= PastLimit
  BY DEF IInv, SizeInv, Lists
<1>3. MaxList \in Nat /\ WantedSize \in Nat /\ PastLimit \in Nat /\ PageHeight \in Nat
  BY SongListsAssumption
<1>4. MaxSize(l) \in Nat /\ MaxSize(l) <= MaxList + WantedSize + PastLimit
  BY <1>1, <1>2, <1>3 DEF MaxSize
<1>5. i \in Int
  <2>1. PageHeight \div 2 \in Int
    BY <1>3
  <2> QED
    BY <1>1, <1>4, <2>1 DEF Targets
<1> QED
  BY <1>4, <1>5 DEF Inside

(* Every step keeps the links and the types.                               *)
LEMMA LinksPreserved ==
  ASSUME IInv, [Next]_vars
  PROVE  LinkInv' /\ CellsOK(cell') /\ list' \in [Lists -> ListRecord] /\ now' \in Song \cup {None}
<1>1. CellsOK(cell) /\ list \in [Lists -> ListRecord] /\ now \in Song \cup {None}
  BY LinkTypes DEF IInv, TypeOK
<1>2. PICK p, q : Both(cell, list["playlist"], list["past"], p, q)
  BY DEF IInv, LinkInv
<1>3. TypeOK /\ SizeInv
  BY DEF IInv
<1>4. ASSUME LinksUnchanged, list' \in [Lists -> ListRecord], now' \in Song \cup {None}
      PROVE  LinkInv' /\ CellsOK(cell') /\ list' \in [Lists -> ListRecord] /\ now' \in Song \cup {None}
  <2>1. Both(cell', list'["playlist"], list'["past"], p, q)
    BY <1>2, <1>4 DEF Both, Linked, LinksUnchanged, Lists
  <2> QED
    BY <1>1, <1>4, <2>1 DEF LinkInv, LinksUnchanged
<1>5. CASE \E s \in Song : playlist_queue_song(s)
  <2>1. PICK s \in Song : playlist_queue_song(s)
    BY <1>5
  <2>2. Both(cell', list'["playlist"], list'["past"], AddLast(p, list["playlist"].size, Fresh), q)
    BY <1>2, <1>3, <2>1, QueueLinks
  <2>3. now' = now
    BY <2>1 DEF playlist_queue_song
  <2> QED
    BY <1>1, <2>1, <2>2, <2>3, QueueTypes DEF LinkInv
<1>6. CASE get_next_song_info
  <2>1. Both(cell', list'["playlist"], list'["past"], DropAt(p, list["playlist"].size, 0), q)
    BY <1>2, <1>3, <1>6, TakeLinks
  <2> QED
    BY <1>6, <2>1, TakeTypes DEF LinkInv
<1>7. CASE done_with_song_info
  <2>1. Both(cell', list'["playlist"], list'["past"], p, AddFirst(q, PastSize, Fresh))
    BY <1>2, <1>3, <1>7, DoneLinks
  <2>2. now' = None
    BY <1>7 DEF done_with_song_info
  <2> QED
    BY <1>7, <2>1, <2>2, DoneTypes DEF LinkInv
<1>8. ASSUME NEW n \in 0..list["playlist"].size - 1, Removed(n), now' = now
      PROVE  LinkInv' /\ CellsOK(cell') /\ list' \in [Lists -> ListRecord] /\ now' \in Song \cup {None}
  <2>1. Both(cell', list'["playlist"], list'["past"], DropAt(p, list["playlist"].size, n), q)
    BY <1>2, <1>3, <1>8, RemoveLinks
  <2> QED
    BY <1>1, <1>8, <2>1, RemoveTypes DEF LinkInv
<1>9. list["playlist"].size \in Nat /\ list["playlist"].selected \in Int
  BY <1>1 DEF Lists, ListRecord
<1>10. CASE do_delete
  <2>1. list["playlist"].selected \in 0..list["playlist"].size - 1
    BY <1>9, <1>10 DEF do_delete
  <2> QED
    BY <1>8, <1>10, <2>1 DEF do_delete
<1>11. CASE do_remove_playlist_entry
  <2>1. list["playlist"].selected \in 0..list["playlist"].size - 1
    BY <1>9, <1>11 DEF do_remove_playlist_entry, IInv, KnobInv
  <2> QED
    BY <1>8, <1>11, <2>1 DEF do_remove_playlist_entry
<1>12. CASE \E l \in Lists : do_arrow(l)
  <2>0. PICK l \in Lists : do_arrow(l)
    BY <1>12
  <2>1. PICK i \in Targets(l) : list' = [list EXCEPT ![l].selected = Inside(l, i)]
    BY <2>0 DEF do_arrow
  <2>2. UNCHANGED <<cell, now>>
    BY <1>12 DEF do_arrow
  <2>3. Inside(l, i) \in Int
    BY <2>1, ArrowTarget
  <2>4. list' \in [Lists -> ListRecord]
    BY <1>1, <2>1, <2>3 DEF ListRecord
  <2>5. LinksUnchanged
    BY <1>1, <2>1, <2>2 DEF LinksUnchanged, ListRecord
  <2> QED
    BY <1>1, <1>4, <2>2, <2>4, <2>5
<1>13. CASE KnobLeft \/ KnobRight
  <2>1. PICK i \in Int : list' = [list EXCEPT !["playlist"].selected = i]
    BY <1>9, <1>13 DEF KnobLeft, KnobRight
  <2>2. UNCHANGED <<cell, now>>
    BY <1>13 DEF KnobLeft, KnobRight
  <2>3. list' \in [Lists -> ListRecord]
    BY <1>1, <2>1 DEF ListRecord, Lists
  <2>4. LinksUnchanged
    BY <1>1, <2>1, <2>2 DEF LinksUnchanged, ListRecord, Lists
  <2> QED
    BY <1>1, <1>4, <2>2, <2>3, <2>4
<1>14. CASE UNCHANGED <<cell, list, now>>
  BY <1>1, <1>4, <1>14 DEF LinksUnchanged
<1>15. CASE SetWantedSize \/ (\E l \in Lists : ChooseSelected(l)) \/ ChooseNow \/ do_tab \/ UNCHANGED vars
  BY <1>14, <1>15 DEF SetWantedSize, ChooseSelected, ChooseNow, do_tab, vars
<1> QED
  BY <1>5, <1>6, <1>7, <1>10, <1>11, <1>12, <1>13, <1>15 DEF Next

(* The loop that looks up the selected entry ends at an entry of the list, *)
(* the first one if the selection is -1, unless the list is empty.         *)
LEMMA LookupEntry ==
  ASSUME TypeOK, NEW l \in Lists, NEW s, Linked(cell, list[l], s),
         list[l].selected < list[l].size, list[l].selected >= -1
  PROVE  IF list[l].size = 0
         THEN Lookup(l) = None /\ list[l].selected = -1
         ELSE LET n == IF list[l].selected < 0 THEN 0 ELSE list[l].selected IN
              n + 1 \in 1..list[l].size /\ Lookup(l) = s[n + 1] /\ Lookup(l) \in DOMAIN cell
<1> DEFINE n == IF list[l].selected < 0 THEN 0 ELSE list[l].selected
           r == list[l]
<1>1. r.size \in Nat /\ r.selected \in Int /\ None \notin DOMAIN cell /\ Linked(cell, r, s)
  BY ListTypes
<1>2. n \in Nat /\ (r.size = 0 => r.selected = -1) /\ (r.size # 0 => n < r.size)
  BY <1>1
<1>3. Lookup(l) = At(s, r.size, n)
  <2>1. r.head = At(s, r.size, 0)
    BY <1>1 DEF Linked
  <2>2. Lookup(l) = After(r.head, n)
    BY DEF Lookup, Entry
  <2> HIDE DEF r, n
  <2>3. After(At(s, r.size, 0), n) = At(s, r.size, 0 + n)
    BY <1>1, <1>2, Follow
  <2> QED
    BY <1>2, <2>1, <2>2, <2>3
<1>4. CASE r.size = 0
  BY <1>2, <1>3, <1>4 DEF At
<1>5. CASE r.size # 0
  <2>1. n + 1 \in 1..r.size /\ n < r.size
    BY <1>1, <1>2, <1>5
  <2>2. s[n + 1] \in DOMAIN cell
    BY <1>1, <2>1 DEF Linked
  <2> QED
    BY <1>3, <1>5, <2>1, <2>2 DEF At
<1> QED
  BY <1>4, <1>5

(* A selection is not used before it is looked up, and -1 is the least.    *)
LEMMA SelectionTypes ==
  ASSUME TypeOK, NEW l \in Lists
  PROVE  list[l].selected \in Int /\ list[l].selected >= -1 /\ list[l].size \in Nat
         /\ list[l].selected <= MaxList + WantedSize + PastLimit
  BY SongListsAssumption DEF TypeOK

(* What the user has selected, in the terms of the invariant.              *)
SelectedInRange(r) == r.selected \in -1..MaxList + WantedSize + PastLimit
SelectInv == (\A l \in Lists : SelectedInRange(list[l])) /\ KnobInv

(* No step moves a selection out of its range or lets a list grow beyond   *)
(* its limit.                                                              *)
LEMMA SelectionPreserved ==
  ASSUME IInv, [Next]_vars
  PROVE  SelectInv' /\ SizeInv' /\ wanted_size' \in {0, WantedSize}
         /\ empeg' \in BOOLEAN /\ focus' \in {"now_playing", "playlist", "past"}
<1>1. list \in [Lists -> ListRecord] /\ TypeOK /\ SizeInv /\ SelectInv
  BY LinkTypes DEF IInv, SelectInv, SelectedInRange, TypeOK
<1>2. wanted_size \in {0, WantedSize} /\ empeg \in BOOLEAN /\ focus \in {"now_playing", "playlist", "past"}
  BY DEF IInv, TypeOK
<1>3. MaxList \in Nat /\ WantedSize \in Nat /\ PastLimit \in Nat
  BY SongListsAssumption
<1>4. ASSUME \A l \in Lists : list'[l].selected = list[l].selected /\ list'[l].size <= list[l].size,
             empeg' = empeg, \A l \in Lists : list'[l].size \in Int
      PROVE  SelectInv' /\ SizeInv'
  <2>1. SelectInv'
    BY <1>1, <1>4 DEF SelectInv, SelectedInRange, KnobInv, Lists
  <2>2. list["playlist"].size \in Int /\ list["past"].size \in Int
    BY <1>1 DEF Lists, ListRecord
  <2>3. list'["playlist"].size \in Int /\ list'["past"].size \in Int
    BY <1>4 DEF Lists
  <2>4. list'["playlist"].size <= list["playlist"].size /\ list'["past"].size <= list["past"].size
    BY <1>4 DEF Lists
  <2> QED
    BY <1>1, <1>3, <2>1, <2>2, <2>3, <2>4 DEF SizeInv
<1>5. ASSUME \A l \in Lists : list'[l] = list[l], empeg' = empeg PROVE SelectInv' /\ SizeInv'
  BY <1>1, <1>5 DEF SelectInv, SelectedInRange, KnobInv, SizeInv, Lists
<1>6. CASE \E s \in Song : playlist_queue_song(s)
  <2>1. PICK s \in Song : playlist_queue_song(s)
    BY <1>6
  <2>2. UNCHANGED <<wanted_size, focus, empeg>>
    BY <2>1 DEF playlist_queue_song
  <2>3. list'["past"] = list["past"] /\ list'["playlist"].selected = list["playlist"].selected
        /\ list'["playlist"].size = list["playlist"].size + 1 /\ list["playlist"].size < MaxList
    BY <1>1, <2>1 DEF playlist_queue_song, Lists, ListRecord
  <2>4. list["playlist"].size \in Nat
    BY <1>1 DEF Lists, ListRecord
  <2>5. SizeInv'
    BY <1>1, <1>3, <2>3, <2>4 DEF SizeInv
  <2>6. SelectInv'
    BY <1>1, <2>2, <2>3 DEF SelectInv, SelectedInRange, KnobInv, Lists
  <2> QED
    BY <1>2, <2>2, <2>5, <2>6
<1>7. CASE get_next_song_info
  <2>1. UNCHANGED <<wanted_size, focus, empeg>>
    BY <1>7 DEF get_next_song_info
  <2>2. \A l \in Lists : list'[l].selected = list[l].selected
    BY <1>1, <1>7 DEF get_next_song_info, Lists, ListRecord
  <2>3. \A l \in Lists : list'[l].size = list[l].size \/ list'[l].size = list[l].size - 1
    BY <1>1, <1>7 DEF get_next_song_info, Lists, ListRecord
  <2>4. \A l \in Lists : list[l].size \in Int
    BY <1>1 DEF ListRecord
  <2>5. \A l \in Lists : list'[l].size \in Int /\ list'[l].size <= list[l].size
    BY <2>3, <2>4
  <2> QED
    BY <1>2, <1>4, <2>1, <2>2, <2>5
<1>8. CASE done_with_song_info
  <2>1. UNCHANGED <<wanted_size, focus, empeg>>
    BY <1>8 DEF done_with_song_info
  <2>2. list'["playlist"] = list["playlist"] /\ list'["past"].selected = list["past"].selected
    BY <1>1, <1>8 DEF done_with_song_info, Lists, ListRecord
  <2>3. list'["past"].size = IF list["past"].size + 1 > PastLimit THEN PastLimit ELSE list["past"].size + 1
    BY <1>1, <1>8 DEF done_with_song_info, Lists, ListRecord
  <2>4. list["past"].size \in Nat
    BY <1>1 DEF Lists, ListRecord
  <2>5. SizeInv'
    BY <1>1, <1>3, <2>2, <2>3, <2>4 DEF SizeInv
  <2>6. SelectInv'
    BY <1>1, <2>1, <2>2 DEF SelectInv, SelectedInRange, KnobInv, Lists
  <2> QED
    BY <1>2, <2>1, <2>5, <2>6
<1>9. CASE do_delete \/ do_remove_playlist_entry
  <2>1. UNCHANGED <<wanted_size, focus, empeg>> /\ Removed(list["playlist"].selected)
    BY <1>9 DEF do_delete, do_remove_playlist_entry
  <2>2. \A l \in Lists : list'[l].selected = list[l].selected
    BY <1>1, <2>1 DEF Removed, Lists, ListRecord
  <2>3. \A l \in Lists : list'[l].size = list[l].size \/ list'[l].size = list[l].size - 1
    BY <1>1, <2>1 DEF Removed, Lists, ListRecord
  <2>4. \A l \in Lists : list[l].size \in Int
    BY <1>1 DEF ListRecord
  <2>5. \A l \in Lists : list'[l].size \in Int /\ list'[l].size <= list[l].size
    BY <2>3, <2>4
  <2> QED
    BY <1>2, <1>4, <2>1, <2>2, <2>5
<1>10. CASE \E l \in Lists : do_arrow(l)
  <2>0. PICK l \in Lists : do_arrow(l)
    BY <1>10
  <2>1. PICK i \in Targets(l) : list' = [list EXCEPT ![l].selected = Inside(l, i)]
    BY <2>0 DEF do_arrow
  <2>2. UNCHANGED <<wanted_size, focus, empeg>> /\ ~empeg
    BY <2>0 DEF do_arrow
  <2>3. Inside(l, i) \in -1..MaxList + WantedSize + PastLimit
    BY <1>3, ArrowTarget
  <2>4. \A m \in Lists : list'[m].size = list[m].size
                         /\ list'[m].selected = IF m = l THEN Inside(l, i) ELSE list[m].selected
    BY <1>1, <2>1 DEF ListRecord
  <2>5. SizeInv'
    BY <1>1, <2>4 DEF SizeInv, Lists
  <2>6. SelectInv'
    BY <1>1, <2>2, <2>3, <2>4 DEF SelectInv, SelectedInRange, KnobInv, Lists
  <2> QED
    BY <1>2, <2>2, <2>5, <2>6
<1>11. CASE KnobLeft \/ KnobRight
  <2>0. list["playlist"].size \in Nat /\ list["playlist"].selected \in Int
        /\ list["playlist"].selected >= -1 /\ list["playlist"].selected <= MaxList + WantedSize + PastLimit
        /\ list["playlist"].size <= MaxList /\ list["playlist"].selected >= 0
    BY <1>1, <1>11, SelectionTypes DEF SizeInv, SelectInv, KnobInv, KnobLeft, KnobRight, Lists
  <2>1. PICK i \in 0..MaxList + WantedSize + PastLimit : list' = [list EXCEPT !["playlist"].selected = i]
    <3>1. CASE KnobLeft
      <4>1. list["playlist"].selected - 1 \in 0..MaxList + WantedSize + PastLimit
        BY <1>3, <2>0, <3>1 DEF KnobLeft
      <4> QED
        BY <3>1, <4>1 DEF KnobLeft
    <3>2. CASE KnobRight
      <4>1. list["playlist"].selected + 1 \in 0..MaxList + WantedSize + PastLimit
        BY <1>3, <2>0, <3>2 DEF KnobRight
      <4> QED
        BY <3>2, <4>1 DEF KnobRight
    <3> QED
      BY <1>11, <3>1, <3>2
  <2>2. UNCHANGED <<wanted_size, focus, empeg>>
    BY <1>11 DEF KnobLeft, KnobRight
  <2>3. i \in -1..MaxList + WantedSize + PastLimit /\ i >= 0
    BY <1>3, <2>1
  <2>4. \A m \in Lists : list'[m].size = list[m].size
                         /\ list'[m].selected = IF m = "playlist" THEN i ELSE list[m].selected
    BY <1>1, <2>1 DEF ListRecord, Lists
  <2>5. SizeInv'
    BY <1>1, <2>4 DEF SizeInv, Lists
  <2>6. SelectInv'
    BY <1>1, <2>3, <2>4 DEF SelectInv, SelectedInRange, KnobInv, Lists
  <2> QED
    BY <1>2, <2>2, <2>5, <2>6
<1>12. CASE SetWantedSize \/ (\E l \in Lists : ChooseSelected(l)) \/ ChooseNow \/ UNCHANGED vars
  BY <1>2, <1>5, <1>12 DEF SetWantedSize, ChooseSelected, ChooseNow, vars
<1>13. CASE do_tab
  <2>1. list' = list /\ empeg' = empeg /\ wanted_size' = wanted_size
    BY <1>13 DEF do_tab
  <2>2. focus' \in {"now_playing", "playlist", "past"}
    BY <1>2, <1>13 DEF do_tab
  <2> QED
    BY <1>2, <1>5, <2>1, <2>2
<1> QED
  BY <1>6, <1>7, <1>8, <1>9, <1>10, <1>11, <1>12, <1>13 DEF Next

(* What a choice leads to: a song of the list, or the crash of a program   *)
(* that looks at the entry of an empty list.                               *)
LEMMA ChoicePreserved ==
  ASSUME IInv, [Next]_vars
  PROVE  CrashOnlyOnEmptyList' /\ chosen' \in Song \cup {None} /\ crashed' \in BOOLEAN
<1>1. TypeOK /\ chosen \in Song \cup {None} /\ crashed \in BOOLEAN /\ now \in Song \cup {None}
      /\ list \in [Lists -> ListRecord] /\ CellsOK(cell)
  BY LinkTypes DEF IInv, TypeOK
<1>2. PICK p, q : Both(cell, list["playlist"], list["past"], p, q)
  BY DEF IInv, LinkInv
<1>3. ASSUME ~crashed' PROVE CrashOnlyOnEmptyList'
  BY <1>3 DEF CrashOnlyOnEmptyList
<1>4. CASE \E l \in Lists : ChooseSelected(l)
  <2>1. PICK l \in Lists : ChooseSelected(l)
    BY <1>4
  <2>2. ~crashed /\ focus = l /\ list[l].selected < list[l].size /\ list' = list /\ focus' = focus
    BY <2>1 DEF ChooseSelected
  <2>3. list[l].selected >= -1
    BY <1>1, SelectionTypes
  <2>4. PICK s : Linked(cell, list[l], s)
    BY <1>2 DEF Both, Lists
  <2>5. Lookup(l) # None => Lookup(l) \in DOMAIN cell
    BY <1>1, <2>2, <2>3, <2>4, LookupEntry, SelectionTypes
  <2>6. Lookup(l) = None => list[l].size = 0 /\ list[l].selected = -1
    BY <1>1, <2>2, <2>3, <2>4, LookupEntry, ListTypes
  <2>7. CASE Lookup(l) = None
    <3>1. crashed' = TRUE /\ chosen' = chosen
      BY <2>1, <2>7 DEF ChooseSelected
    <3>2. CrashOnlyOnEmptyList'
      BY <2>2, <2>6, <2>7 DEF CrashOnlyOnEmptyList
    <3> QED
      BY <1>1, <3>1, <3>2
  <2>8. CASE Lookup(l) # None
    <3>1. crashed' = crashed /\ chosen' = cell[Lookup(l)].song
      BY <2>1, <2>8 DEF ChooseSelected
    <3>2. cell[Lookup(l)].song \in Song
      BY <1>1, <2>5, <2>8 DEF CellsOK
    <3> QED
      BY <1>1, <1>3, <2>2, <3>1, <3>2
  <2> QED
    BY <2>7, <2>8
<1>5. CASE UNCHANGED <<list, focus, chosen, crashed>>
  BY <1>1, <1>5 DEF IInv, CrashOnlyOnEmptyList
<1>6. CASE SetWantedSize \/ UNCHANGED vars
  BY <1>5, <1>6 DEF SetWantedSize, vars
<1>7. ASSUME ~crashed, crashed' = crashed, chosen' \in {chosen, now}
      PROVE  CrashOnlyOnEmptyList' /\ chosen' \in Song \cup {None} /\ crashed' \in BOOLEAN
  BY <1>1, <1>3, <1>7
<1>8. CASE (\E s \in Song : playlist_queue_song(s)) \/ get_next_song_info \/ done_with_song_info
  BY <1>7, <1>8 DEF playlist_queue_song, get_next_song_info, done_with_song_info
<1>9. CASE do_delete \/ do_remove_playlist_entry \/ (\E l \in Lists : do_arrow(l))
  BY <1>7, <1>9 DEF do_delete, do_remove_playlist_entry, do_arrow
<1>10. CASE ChooseNow \/ KnobLeft \/ KnobRight \/ do_tab
  BY <1>7, <1>10 DEF ChooseNow, KnobLeft, KnobRight, do_tab
<1> QED
  BY <1>4, <1>6, <1>8, <1>9, <1>10 DEF Next

(* The program starts with two empty lists.                                *)
LEMMA InitIInv == Init => IInv
<1> SUFFICES ASSUME Init PROVE IInv
  OBVIOUS
<1>1. list = [l \in Lists |-> EmptyList] /\ DOMAIN cell = {}
  BY DEF Init
<1>2. TypeOK
  <2>1. list \in [Lists -> [head: Cells \cup {None}, tail: Cells \cup {None}, size: Nat, selected: Int]]
    BY <1>1 DEF EmptyList
  <2>2. \A l \in Lists : list[l].selected \in -1..MaxList + WantedSize + PastLimit
    BY <1>1, SongListsAssumption DEF EmptyList
  <2>3. wanted_size = 0 /\ now = None /\ chosen = None /\ focus = "now_playing" /\ crashed = FALSE
        /\ empeg \in BOOLEAN
    BY DEF Init
  <2> QED
    BY <1>1, <2>1, <2>2, <2>3 DEF TypeOK
<1>3. SizeInv /\ KnobInv
  BY <1>1, SongListsAssumption DEF SizeInv, KnobInv, EmptyList, Lists
<1>4. CrashOnlyOnEmptyList
  BY DEF Init, CrashOnlyOnEmptyList
<1>5. LinkInv
  <2> DEFINE none == [i \in 1..0 |-> None]
  <2>1. \A l \in Lists : Linked(cell, list[l], none)
    BY <1>1 DEF Linked, EmptyList, At
  <2>2. Both(cell, list["playlist"], list["past"], none, none)
    BY <1>1, <2>1 DEF Both, Lists, EmptyList
  <2> QED
    BY <2>2 DEF LinkInv
<1> QED
  BY <1>2, <1>3, <1>4, <1>5 DEF IInv

(* The invariant is inductive.                                             *)
LEMMA NextIInv == IInv /\ [Next]_vars => IInv'
<1> SUFFICES ASSUME IInv, [Next]_vars PROVE IInv'
  OBVIOUS
<1>1. LinkInv' /\ CellsOK(cell') /\ list' \in [Lists -> ListRecord] /\ now' \in Song \cup {None}
  BY LinksPreserved
<1>2. SelectInv' /\ SizeInv' /\ wanted_size' \in {0, WantedSize}
      /\ empeg' \in BOOLEAN /\ focus' \in {"now_playing", "playlist", "past"}
  BY SelectionPreserved
<1>3. CrashOnlyOnEmptyList' /\ chosen' \in Song \cup {None} /\ crashed' \in BOOLEAN
  BY ChoicePreserved
<1>4. TypeOK'
  BY <1>1, <1>2, <1>3 DEF TypeOK, CellsOK, ListRecord, Address, SelectInv, SelectedInRange
<1> QED
  BY <1>1, <1>2, <1>3, <1>4 DEF IInv, SelectInv

(* Every variable of the lists has its type: no selection is ever below -1 *)
(* or beyond what the list holds or should hold (do_arrow and the knob),   *)
(* and every link leads to an address of an entry or to NULL.              *)
THEOREM ListTypeCorrect == Spec => []TypeOK
<1>1. IInv => TypeOK
  BY DEF IInv
<1> QED
  BY InitIInv, NextIInv, <1>1, PTL DEF Spec

(* The loops of the code meet the entries of a list in order, and NULL     *)
(* behind the last.                                                        *)
LEMMA ChainIs ==
  ASSUME NEW l \in Lists, NEW s, Linked(cell, list[l], s), None \notin DOMAIN cell
  PROVE  /\ \A n \in Nat : Entry(l, n) = At(s, list[l].size, n)
         /\ Chain(l) = {s[i] : i \in 1..list[l].size}
<1> DEFINE r == list[l]
<1>1. r.head = At(s, r.size, 0) /\ r.size \in Nat /\ Linked(cell, r, s)
  BY DEF Linked
<1>2. ASSUME NEW n \in Nat PROVE Entry(l, n) = At(s, r.size, n)
  <2> HIDE DEF r
  <2>1. After(At(s, r.size, 0), n) = At(s, r.size, 0 + n)
    BY <1>1, Follow
  <2> QED
    BY <1>1, <2>1 DEF Entry, r
<1>3. \A n \in 0..r.size - 1 : n \in Nat /\ n + 1 \in 1..r.size /\ Entry(l, n) = s[n + 1]
  BY <1>1, <1>2 DEF At
<1>4. \A i \in 1..r.size : i - 1 \in 0..r.size - 1 /\ Entry(l, i - 1) = s[i]
  <2> SUFFICES ASSUME NEW i \in 1..r.size PROVE i - 1 \in 0..r.size - 1 /\ Entry(l, i - 1) = s[i]
    OBVIOUS
  <2>1. i - 1 \in 0..r.size - 1 /\ (i - 1) + 1 = i
    BY <1>1
  <2> QED
    BY <1>3, <2>1
<1> QED
  BY <1>2, <1>3, <1>4 DEF Chain

(* After any sequence of additions, takes, cuts and deletions, for lists   *)
(* and limits of any size: each list has exactly as many entries as its    *)
(* size says, its tail is the last of them, and every entry that was       *)
(* allocated and not freed is in exactly one list (playlist_queue_song,    *)
(* get_next_song_info, done_with_song_info, do_delete and                  *)
(* do_remove_playlist_entry).                                              *)
THEOREM ListsWellLinked == Spec => []WellLinked
<1>1. IInv => WellLinked
  <2> SUFFICES ASSUME IInv PROVE WellLinked
    OBVIOUS
  <2>1. PICK p, q : Both(cell, list["playlist"], list["past"], p, q)
    BY DEF IInv, LinkInv
  <2>2. None \notin DOMAIN cell
    BY ListTypes DEF IInv
  <2>3. Linked(cell, list["playlist"], p) /\ Linked(cell, list["past"], q)
    BY <2>1 DEF Both
  <2>4. \A l \in Lists : \E s : Linked(cell, list[l], s)
    BY <2>3 DEF Lists
  <2>5. ASSUME NEW l \in Lists
        PROVE  /\ Chain(l) \subseteq DOMAIN cell
               /\ Entry(l, list[l].size) = None
               /\ list[l].tail = IF list[l].size = 0 THEN None ELSE Entry(l, list[l].size - 1)
    <3>1. PICK s : Linked(cell, list[l], s)
      BY <2>4
    <3>2. list[l].size \in Nat /\ list[l].tail = IF list[l].size = 0 THEN None ELSE s[list[l].size]
      BY <3>1 DEF Linked
    <3>3. \A n \in Nat : Entry(l, n) = At(s, list[l].size, n)
      BY <2>2, <3>1, ChainIs
    <3>4. Chain(l) = {s[i] : i \in 1..list[l].size}
      BY <2>2, <3>1, ChainIs
    <3>5. Chain(l) \subseteq DOMAIN cell
      BY <3>1, <3>4 DEF Linked
    <3>6. Entry(l, list[l].size) = None
      BY <3>2, <3>3 DEF At
    <3>7. list[l].size # 0 => Entry(l, list[l].size - 1) = s[list[l].size]
      <4> DEFINE n == list[l].size
      <4> SUFFICES ASSUME n # 0 PROVE Entry(l, n - 1) = s[n]
        OBVIOUS
      <4>1. n - 1 \in Nat /\ n - 1 < n /\ (n - 1) + 1 = n
        BY <3>2
      <4>2. Entry(l, n - 1) = At(s, n, n - 1)
        BY <3>3, <4>1
      <4> QED
        BY <4>1, <4>2 DEF At
    <3> QED
      BY <3>2, <3>5, <3>6, <3>7
  <2>6. Chain("playlist") = {p[i] : i \in 1..list["playlist"].size}
    BY <2>2, <2>3, ChainIs DEF Lists
  <2>7. Chain("past") = {q[i] : i \in 1..list["past"].size}
    BY <2>2, <2>3, ChainIs DEF Lists
  <2>8. Chain("playlist") \cap Chain("past") = {}
    BY <2>1, <2>6, <2>7 DEF Both
  <2>9. DOMAIN cell = Chain("playlist") \cup Chain("past")
    <3>1. Chain("playlist") \cup Chain("past") \subseteq DOMAIN cell
      BY <2>5 DEF Lists
    <3> QED
      BY <2>1, <2>6, <2>7, <3>1 DEF Both
  <2> QED
    BY <2>5, <2>8, <2>9 DEF WellLinked
<1> QED
  BY InitIInv, NextIInv, <1>1, PTL DEF Spec

(* Rating or editing looks at a NULL entry in one situation only, which    *)
(* the code does not guard against: an arrow key has moved the selection   *)
(* of an empty list to -1 (do_arrow, do_edit_command).                     *)
THEOREM OnlyEmptyListCrashes == Spec => []CrashOnlyOnEmptyList
<1>1. IInv => CrashOnlyOnEmptyList
  BY DEF IInv
<1> QED
  BY InitIInv, NextIInv, <1>1, PTL DEF Spec

-----------------------------------------------------------------------------
(* Sequences as functions: what the operators of TwoLists make of them.    *)
LEMMA FunctionIsSeq ==
  ASSUME NEW S, NEW n \in Nat, NEW f \in [1..n -> S]
  PROVE  f \in Seq(S) /\ Len(f) = n /\ (f = <<>> <=> n = 0)
<1>1. f \in Seq(S)
  BY SeqDef
<1>2. Len(f) = n
  <2>1. Len(f) \in Nat /\ DOMAIN f = 1..Len(f)
    BY <1>1, LenProperties
  <2> QED
    BY <2>1
<1> QED
  BY <1>1, <1>2

(* A sequence is the function with its length and elements; ...            *)
LEMMA SeqIsFunction ==
  ASSUME NEW S, NEW n \in Nat, NEW f \in [1..n -> S], NEW t \in Seq(S), Len(t) = n,
         \A i \in 1..n : t[i] = f[i]
  PROVE  t = f
  BY FunctionIsSeq, SeqEqual

(* ... with an element at its end, ...                                     *)
LEMMA AppendedSeq ==
  ASSUME NEW S, NEW n \in Nat, NEW f \in [1..n -> S], NEW x \in S
  PROVE  Append(f, x) = [i \in 1..n + 1 |-> IF i = n + 1 THEN x ELSE f[i]]
<1> DEFINE g == [i \in 1..n + 1 |-> IF i = n + 1 THEN x ELSE f[i]]
<1>1. f \in Seq(S) /\ Len(f) = n
  BY FunctionIsSeq
<1>2. Append(f, x) \in Seq(S) /\ Len(Append(f, x)) = n + 1
  BY <1>1, AppendProperties
<1>3. \A i \in 1..n + 1 : Append(f, x)[i] = g[i]
  BY <1>1, AppendProperties
<1>4. g \in [1..n + 1 -> S] /\ n + 1 \in Nat
  OBVIOUS
<1> HIDE DEF g
<1>5. Append(f, x) = g
  BY <1>2, <1>3, <1>4, SeqIsFunction
<1> QED
  BY <1>5 DEF g

(* ... its first one and the rest, ...                                     *)
LEMMA TakenSeq ==
  ASSUME NEW S, NEW n \in Nat, n > 0, NEW f \in [1..n -> S]
  PROVE  f # <<>> /\ Head(f) = f[1] /\ Tail(f) = [i \in 1..n - 1 |-> f[i + 1]]
<1> DEFINE g == [i \in 1..n - 1 |-> f[i + 1]]
<1>1. f \in Seq(S) /\ Len(f) = n /\ f # <<>>
  BY FunctionIsSeq
<1>2. Tail(f) \in Seq(S) /\ Len(Tail(f)) = n - 1
  BY <1>1, HeadTailProperties
<1>3. \A i \in 1..n - 1 : Tail(f)[i] = g[i]
  BY <1>1, <1>2, HeadTailProperties
<1>4. g \in [1..n - 1 -> S] /\ n - 1 \in Nat
  OBVIOUS
<1>5. Tail(f) = g
  <2> HIDE DEF g
  <2> QED
    BY <1>2, <1>3, <1>4, SeqIsFunction
<1> QED
  BY <1>1, <1>5

(* ... without one of its elements, ...                                    *)
LEMMA RemovedSeq ==
  ASSUME NEW S, NEW n \in Nat, NEW f \in [1..n -> S], NEW k \in 1..n
  PROVE  RemoveAt(f, k) = [i \in 1..n - 1 |-> IF i <= k - 1 THEN f[i] ELSE f[i + 1]]
<1> DEFINE g == [i \in 1..n - 1 |-> IF i <= k - 1 THEN f[i] ELSE f[i + 1]]
           front == SubSeq(f, 1, k - 1)
           rest == SubSeq(f, k + 1, n)
<1>1. Len(f) = n
  BY FunctionIsSeq
<1>2. front \in Seq(S) /\ Len(front) = k - 1 /\ \A i \in 1..k - 1 : front[i] = f[i]
  <2>1. \A i \in 1..k - 1 : f[i] \in S
    OBVIOUS
  <2>2. /\ front \in Seq(S)
        /\ Len(front) = IF 1 <= k - 1 THEN k - 1 - 1 + 1 ELSE 0
        /\ \A i \in 1..k - 1 - 1 + 1 : front[i] = f[1 + i - 1]
    BY <2>1, SubSeqProperties
  <2> QED
    BY <2>2
<1>3. rest \in Seq(S) /\ Len(rest) = n - k /\ \A i \in 1..n - k : rest[i] = f[k + i]
  <2>1. \A i \in k + 1..n : f[i] \in S
    OBVIOUS
  <2>2. /\ rest \in Seq(S)
        /\ Len(rest) = IF k + 1 <= n THEN n - (k + 1) + 1 ELSE 0
        /\ \A i \in 1..n - (k + 1) + 1 : rest[i] = f[k + 1 + i - 1]
    BY <2>1, SubSeqProperties
  <2> QED
    BY <2>2
<1>4. RemoveAt(f, k) = front \o rest
  BY <1>1 DEF RemoveAt
<1> HIDE DEF front, rest
<1>5. /\ front \o rest \in Seq(S) /\ Len(front \o rest) = n - 1
      /\ \A i \in 1..n - 1 : (front \o rest)[i] = IF i <= k - 1 THEN front[i] ELSE rest[i - (k - 1)]
  <2>1. /\ front \o rest \in Seq(S) /\ Len(front \o rest) = Len(front) + Len(rest)
        /\ \A i \in 1..Len(front) + Len(rest) :
             (front \o rest)[i] = IF i <= Len(front) THEN front[i] ELSE rest[i - Len(front)]
    BY <1>2, <1>3, ConcatProperties
  <2>2. Len(front) + Len(rest) = n - 1 /\ Len(front) = k - 1
    BY <1>2, <1>3
  <2> QED
    BY <2>1, <2>2
<1>6. ASSUME NEW i \in 1..n - 1 PROVE (front \o rest)[i] = g[i]
  <2>1. CASE i <= k - 1
    BY <1>2, <1>5, <2>1
  <2>2. CASE ~(i <= k - 1)
    <3>1. i - (k - 1) \in 1..n - k /\ k + (i - (k - 1)) = i + 1
      BY <2>2
    <3> QED
      BY <1>3, <1>5, <2>2, <3>1
  <2> QED
    BY <2>1, <2>2
<1>7. g \in [1..n - 1 -> S] /\ n - 1 \in Nat
  OBVIOUS
<1> HIDE DEF g
<1>8. front \o rest = g
  BY <1>5, <1>6, <1>7, SeqIsFunction
<1> QED
  BY <1>4, <1>8 DEF g

(* ... with an element in front and cut to a length.                       *)
LEMMA FinishedSeq ==
  ASSUME NEW S, NEW n \in Nat, NEW f \in [1..n -> S], NEW x \in S, NEW m \in 1..n + 1
  PROVE  SubSeq(<<x>> \o f, 1, m) = [i \in 1..m |-> IF i = 1 THEN x ELSE f[i - 1]]
<1> DEFINE g == [i \in 1..m |-> IF i = 1 THEN x ELSE f[i - 1]]
           all == <<x>> \o f
<1>1. f \in Seq(S) /\ Len(f) = n /\ <<x>> \in Seq(S) /\ 1 = Len(<<x>>) /\ <<x>>[1] = x
  BY FunctionIsSeq
<1>2. \A i \in 1..n + 1 : all[i] = IF i <= 1 THEN <<x>>[i] ELSE f[i - 1]
  BY <1>1, ConcatProperties
<1>3. \A i \in 1..m : all[i] = g[i] /\ all[i] \in S
  BY <1>1, <1>2
<1> HIDE DEF all
<1>4. /\ SubSeq(all, 1, m) \in Seq(S)
      /\ Len(SubSeq(all, 1, m)) = IF 1 <= m THEN m - 1 + 1 ELSE 0
      /\ \A i \in 1..m - 1 + 1 : SubSeq(all, 1, m)[i] = all[1 + i - 1]
  BY <1>3, SubSeqProperties
<1>5. Len(SubSeq(all, 1, m)) = m /\ \A i \in 1..m : SubSeq(all, 1, m)[i] = g[i]
  BY <1>3, <1>4
<1>6. g \in [1..m -> S] /\ m \in Nat
  BY <1>3
<1> HIDE DEF g
<1>7. SubSeq(all, 1, m) = g
  BY <1>4, <1>5, <1>6, SeqIsFunction
<1> QED
  BY <1>7 DEF all, g

-----------------------------------------------------------------------------
(* What a list of entries shows to a user.                                 *)
View(cells, s, n) == [i \in 1..n |-> cells[s[i]].song]

(* It is a sequence of songs.                                              *)
LEMMA ViewType ==
  ASSUME NEW cells, CellsOK(cells), NEW l, NEW s, Linked(cells, l, s)
  PROVE  View(cells, s, l.size) \in [1..l.size -> Song] /\ l.size \in Nat
  BY DEF View, CellsOK, Linked

(* SongsOf follows the links, and so does View: before a step ...          *)
LEMMA SeenNow ==
  ASSUME NEW l \in Lists, NEW s, Linked(cell, list[l], s), None \notin DOMAIN cell
  PROVE  SongsOf(l) = View(cell, s, list[l].size)
<1>1. list[l].size \in Nat
  BY DEF Linked
<1>2. \A n \in Nat : Entry(l, n) = At(s, list[l].size, n)
  BY ChainIs
<1>3. ASSUME NEW i \in 1..list[l].size PROVE Entry(l, i - 1) = s[i]
  <2>1. i - 1 \in Nat /\ i - 1 < list[l].size /\ (i - 1) + 1 = i
    BY <1>1
  <2> QED
    BY <1>2, <2>1 DEF At
<1> QED
  BY <1>3 DEF SongsOf, View

(* ... and after it, over the links as they are then.                      *)
LEMMA SeenNext ==
  ASSUME NEW l \in Lists, NEW s, Linked(cell', list'[l], s), None \notin DOMAIN cell'
  PROVE  SongsOf(l)' = View(cell', s, list'[l].size)
<1> DEFINE r == list'[l]
<1>1. r.size \in Nat /\ r.head = At(s, r.size, 0)
  BY DEF Linked
<1>2. ASSUME NEW i \in 1..r.size PROVE Entry(l, i - 1)' = s[i]
  <2>1. i - 1 \in Nat /\ i - 1 < r.size /\ (i - 1) + 1 = i
    BY <1>1
  <2>2. Entry(l, i - 1)'
        = (CHOOSE f : f = [j \in 0..i - 1 |-> IF j = 0 THEN r.head
                             ELSE IF f[j - 1] = None THEN None ELSE cell'[f[j - 1]].next])[i - 1]
    BY DEF Entry, After, NextOf
  <2> HIDE DEF r
  <2>3. (CHOOSE f : f = [j \in 0..i - 1 |-> IF j = 0 THEN At(s, r.size, 0)
                             ELSE IF f[j - 1] = None THEN None ELSE cell'[f[j - 1]].next])[i - 1]
        = At(s, r.size, 0 + (i - 1))
    <3>1. Linked(cell', r, s) /\ 0 \in Nat
      BY DEF r
    <3> QED
      BY <2>1, <3>1, Walk
  <2>4. 0 + (i - 1) = i - 1
    BY <2>1
  <2>5. Entry(l, i - 1)' = At(s, r.size, i - 1)
    BY <1>1, <2>2, <2>3, <2>4
  <2> QED
    BY <2>1, <2>5 DEF At
<1> QED
  BY <1>2 DEF SongsOf, View

(* The two lists a user sees, before and after a step.                     *)
LEMMA ShownNow ==
  ASSUME TypeOK, NEW p, NEW q, Both(cell, list["playlist"], list["past"], p, q)
  PROVE  /\ SongsOf("playlist") = View(cell, p, list["playlist"].size)
         /\ SongsOf("past") = View(cell, q, list["past"].size)
         /\ View(cell, p, list["playlist"].size) \in [1..list["playlist"].size -> Song]
         /\ View(cell, q, list["past"].size) \in [1..list["past"].size -> Song]
         /\ list["playlist"].size \in Nat /\ list["past"].size \in Nat
<1>1. Linked(cell, list["playlist"], p) /\ Linked(cell, list["past"], q)
  BY DEF Both
<1>2. None \notin DOMAIN cell /\ CellsOK(cell) /\ "playlist" \in Lists /\ "past" \in Lists
  BY ListTypes, LinkTypes DEF Lists
<1>3. SongsOf("playlist") = View(cell, p, list["playlist"].size)
  BY <1>1, <1>2, SeenNow
<1>4. SongsOf("past") = View(cell, q, list["past"].size)
  BY <1>1, <1>2, SeenNow
<1> QED
  BY <1>1, <1>2, <1>3, <1>4, ViewType

(* The same after a step.                                                  *)
LEMMA ShownNext ==
  ASSUME CellsOK(cell'), NEW p, NEW q, Both(cell', list'["playlist"], list'["past"], p, q)
  PROVE  /\ SongsOf("playlist")' = View(cell', p, list'["playlist"].size)
         /\ SongsOf("past")' = View(cell', q, list'["past"].size)
<1>1. Linked(cell', list'["playlist"], p) /\ Linked(cell', list'["past"], q)
  BY DEF Both
<1>2. None \notin DOMAIN cell' /\ "playlist" \in Lists /\ "past" \in Lists
  BY SongListsAssumption DEF CellsOK, Lists
<1>3. SongsOf("playlist")' = View(cell', p, list'["playlist"].size)
  BY <1>1, <1>2, SeenNext
<1>4. SongsOf("past")' = View(cell', q, list'["past"].size)
  BY <1>1, <1>2, SeenNext
<1> QED
  BY <1>3, <1>4

(* A list whose entries and songs are left alone is seen as it was.        *)
LEMMA ViewKept ==
  ASSUME NEW cells, NEW cells2, SongsKept(cells, cells2), NEW l, NEW l2, NEW s,
         Linked(cells, l, s), Linked(cells2, l2, s), l2.size = l.size
  PROVE  View(cells2, s, l2.size) = View(cells, s, l.size)
<1>1. \A i \in 1..l.size : s[i] \in DOMAIN cells \cap DOMAIN cells2
  BY DEF Linked
<1> QED
  BY <1>1 DEF View, SongsKept

(* Where the selections are, counted from 1.                               *)
Place == [l \in Lists |-> list[l].selected + 1]

(* A step that selects nothing else leaves the places alone.               *)
LEMMA PlaceKept ==
  ASSUME \A l \in Lists : list'[l].selected = list[l].selected
  PROVE  Place' = Place
  BY DEF Place

(* A song put behind the tail is appended.                                 *)
LEMMA QueueShown ==
  ASSUME IInv, NEW s \in Song, playlist_queue_song(s)
  PROVE  SeenLists!Append1
<1> DEFINE pl == list["playlist"]
           n == pl.size
<1>1. PICK p, q : Both(cell, list["playlist"], list["past"], p, q)
  BY DEF IInv, LinkInv
<1>2. TypeOK
  BY DEF IInv
<1> DEFINE p2 == AddLast(p, n, Fresh)
<1>3. /\ Both(cell', list'["playlist"], list'["past"], p2, q)
      /\ SongsKept(cell, cell') /\ Fresh \notin DOMAIN cell /\ cell'[Fresh].song = s
  <2>1. /\ Both(cell', list'["playlist"], list'["past"], p2, q)
        /\ SongsKept(cell, cell') /\ Fresh \notin DOMAIN cell
        /\ cell'[Fresh] = [song |-> s, next |-> None]
    BY <1>1, <1>2, QueueLinks
  <2> QED
    BY <2>1
<1>4. list'["past"] = list["past"] /\ list'["playlist"].size = n + 1
      /\ \A l \in Lists : list'[l].selected = list[l].selected
  BY <1>2, ListTypes DEF playlist_queue_song, Lists
<1>5. /\ SongsOf("playlist") = View(cell, p, n) /\ SongsOf("past") = View(cell, q, list["past"].size)
      /\ View(cell, p, n) \in [1..n -> Song] /\ n \in Nat
  BY <1>1, <1>2, ShownNow
<1>6. CellsOK(cell')
  BY QueueTypes
<1> HIDE DEF p2
<1>7. SongsOf("playlist")' = View(cell', p2, n + 1) /\ SongsOf("past")' = View(cell', q, list["past"].size)
  BY <1>3, <1>4, <1>6, ShownNext
<1>8. View(cell', q, list["past"].size) = View(cell, q, list["past"].size)
  BY <1>1, <1>3, <1>4, ViewKept DEF Both
<1>9. View(cell', p2, n + 1) = Append(View(cell, p, n), s)
  <2> DEFINE f == View(cell, p, n)
  <2>1. Append(f, s) = [i \in 1..n + 1 |-> IF i = n + 1 THEN s ELSE f[i]]
    BY <1>5, AppendedSeq
  <2>2. \A i \in 1..n : p[i] \in DOMAIN cell /\ i # n + 1
    BY <1>1, <1>5 DEF Both, Linked
  <2>3. p2[n + 1] = Fresh /\ \A i \in 1..n : p2[i] = p[i]
    BY <1>5 DEF p2, AddLast
  <2>4. \A i \in 1..n + 1 : i \in 1..n \/ i = n + 1
    BY <1>5
  <2>5. \A i \in 1..n : p2[i] \in DOMAIN cell'
    <3>1. p2 \in [1..n + 1 -> DOMAIN cell']
      BY <1>3, <1>4 DEF Both, Linked
    <3> QED
      BY <1>5, <3>1
  <2>6. \A i \in 1..n : cell'[p2[i]].song = f[i]
    BY <2>2, <2>3, <2>5, <1>3 DEF SongsKept, View
  <2>7. \A i \in 1..n + 1 : cell'[p2[i]].song = IF i = n + 1 THEN s ELSE f[i]
    BY <1>3, <2>2, <2>3, <2>4, <2>6
  <2> HIDE DEF f
  <2> QED
    BY <2>1, <2>7 DEF View, f
<1>10. Place' = Place
  BY <1>4, PlaceKept
<1>11. UNCHANGED <<now, chosen>>
  BY DEF playlist_queue_song
<1> QED
  BY <1>5, <1>7, <1>8, <1>9, <1>10, <1>11 DEF SeenLists!Append1, Place

(* Entry number k is taken out of what is seen.                            *)
LEMMA DropShown ==
  ASSUME IInv, NEW p, NEW q, Both(cell, list["playlist"], list["past"], p, q),
         NEW k \in 0..list["playlist"].size - 1,
         Both(cell', list'["playlist"], list'["past"], DropAt(p, list["playlist"].size, k), q),
         SongsKept(cell, cell'), CellsOK(cell'),
         list'["playlist"].size = list["playlist"].size - 1, list'["past"] = list["past"]
  PROVE  /\ SongsOf("playlist") = View(cell, p, list["playlist"].size)
         /\ View(cell, p, list["playlist"].size) \in [1..list["playlist"].size -> Song]
         /\ SongsOf("playlist")' = [i \in 1..list["playlist"].size - 1 |->
               IF i <= k THEN SongsOf("playlist")[i] ELSE SongsOf("playlist")[i + 1]]
         /\ SongsOf("past")' = SongsOf("past")
<1> DEFINE n == list["playlist"].size
           p2 == DropAt(p, n, k)
<1>1. TypeOK
  BY DEF IInv
<1>2. /\ SongsOf("playlist") = View(cell, p, n) /\ SongsOf("past") = View(cell, q, list["past"].size)
      /\ View(cell, p, n) \in [1..n -> Song] /\ n \in Nat
  BY <1>1, ShownNow
<1> HIDE DEF p2
<1>3. Both(cell', list'["playlist"], list'["past"], p2, q)
  BY DEF p2
<1>4. SongsOf("playlist")' = View(cell', p2, n - 1) /\ SongsOf("past")' = View(cell', q, list["past"].size)
  BY <1>3, ShownNext
<1>5. View(cell', q, list["past"].size) = View(cell, q, list["past"].size)
  BY <1>3, ViewKept DEF Both
<1>6. ASSUME NEW i \in 1..n - 1
      PROVE  View(cell', p2, n - 1)[i] = IF i <= k THEN View(cell, p, n)[i] ELSE View(cell, p, n)[i + 1]
  <2>1. i \in 1..n /\ i + 1 \in 1..n
    BY <1>2
  <2>2. p2[i] = (IF i <= k THEN p[i] ELSE p[i + 1])
    BY DEF p2, DropAt
  <2>3. p[i] \in DOMAIN cell /\ p[i + 1] \in DOMAIN cell
    BY <2>1 DEF Both, Linked
  <2>4. p2[i] \in DOMAIN cell'
    <3>1. p2 \in [1..n - 1 -> DOMAIN cell']
      BY <1>3 DEF Both, Linked
    <3> QED
      BY <3>1
  <2>5. cell'[p2[i]].song = cell[p2[i]].song
    BY <2>2, <2>3, <2>4 DEF SongsKept
  <2> QED
    BY <2>1, <2>2, <2>5 DEF View
<1>7. View(cell', p2, n - 1) = [i \in 1..n - 1 |-> IF i <= k THEN View(cell, p, n)[i] ELSE View(cell, p, n)[i + 1]]
  <2> DEFINE f == View(cell, p, n)
             g == View(cell', p2, n - 1)
  <2>1. g = [i \in 1..n - 1 |-> g[i]]
    BY DEF View
  <2>2. \A i \in 1..n - 1 : g[i] = IF i <= k THEN f[i] ELSE f[i + 1]
    BY <1>6
  <2> HIDE DEF f, g
  <2>3. g = [i \in 1..n - 1 |-> IF i <= k THEN f[i] ELSE f[i + 1]]
    BY <2>1, <2>2
  <2> QED
    BY <2>3 DEF f, g
<1> QED
  BY <1>2, <1>4, <1>5, <1>7

(* The player takes the first song; ...                                    *)
LEMMA TakeShown ==
  ASSUME IInv, get_next_song_info
  PROVE  SeenLists!Take
<1> DEFINE n == list["playlist"].size
           f == SongsOf("playlist")
<1>1. PICK p, q : Both(cell, list["playlist"], list["past"], p, q)
  BY DEF IInv, LinkInv
<1>2. TypeOK
  BY DEF IInv
<1>3. /\ Both(cell', list'["playlist"], list'["past"], DropAt(p, n, 0), q)
      /\ SongsKept(cell, cell') /\ now' = cell[p[1]].song
  BY <1>1, <1>2, TakeLinks
<1>4. CellsOK(cell') /\ list["playlist"].size \in Nat /\ n > 0
  BY TakeTypes, <1>2, ListTypes DEF get_next_song_info, Lists
<1>5. list'["playlist"].size = n - 1 /\ list'["past"] = list["past"]
      /\ \A l \in Lists : list'[l].selected = list[l].selected
  BY <1>2, ListTypes DEF get_next_song_info, Lists
<1>6. 0 \in 0..n - 1
  BY <1>4
<1>7. /\ f = View(cell, p, n) /\ View(cell, p, n) \in [1..n -> Song]
      /\ SongsOf("playlist")' = [i \in 1..n - 1 |-> IF i <= 0 THEN f[i] ELSE f[i + 1]]
      /\ SongsOf("past")' = SongsOf("past")
  BY <1>1, <1>3, <1>4, <1>5, <1>6, DropShown
<1>8. f[1] = now'
  BY <1>3, <1>4, <1>7 DEF View
<1> HIDE DEF f, n
<1>9. f # <<>> /\ Head(f) = f[1] /\ Tail(f) = [i \in 1..n - 1 |-> f[i + 1]]
  BY <1>4, <1>7, TakenSeq DEF n
<1>10. [i \in 1..n - 1 |-> IF i <= 0 THEN f[i] ELSE f[i + 1]] = [i \in 1..n - 1 |-> f[i + 1]]
  BY <1>4 DEF n
<1>11. Place' = Place
  BY <1>5, PlaceKept
<1>12. now = None /\ UNCHANGED chosen
  BY DEF get_next_song_info
<1> QED
  BY <1>7, <1>8, <1>9, <1>10, <1>11, <1>12 DEF SeenLists!Take, Place, f

(* ... the user deletes the one at the selected place.                     *)
LEMMA RemoveShown ==
  ASSUME IInv, Removed(list["playlist"].selected), list["playlist"].selected >= 0,
         list["playlist"].selected < list["playlist"].size, UNCHANGED <<now, chosen>>
  PROVE  SeenLists!Delete
<1> DEFINE n == list["playlist"].size
           k == list["playlist"].selected
           f == SongsOf("playlist")
<1>1. PICK p, q : Both(cell, list["playlist"], list["past"], p, q)
  BY DEF IInv, LinkInv
<1>2. TypeOK
  BY DEF IInv
<1>3. n \in Nat /\ k \in Int /\ k \in 0..n - 1
  BY <1>2, ListTypes DEF Lists
<1>4. /\ Both(cell', list'["playlist"], list'["past"], DropAt(p, n, k), q)
      /\ SongsKept(cell, cell')
  BY <1>1, <1>2, <1>3, RemoveLinks
<1>5. CellsOK(cell')
  BY <1>3, RemoveTypes
<1>6. list'["playlist"].size = n - 1 /\ list'["past"] = list["past"]
      /\ \A l \in Lists : list'[l].selected = list[l].selected
  BY <1>2, ListTypes DEF Removed, Lists
<1>7. /\ f = View(cell, p, n) /\ View(cell, p, n) \in [1..n -> Song]
      /\ SongsOf("playlist")' = [i \in 1..n - 1 |-> IF i <= k THEN f[i] ELSE f[i + 1]]
      /\ SongsOf("past")' = SongsOf("past")
  BY <1>1, <1>3, <1>4, <1>5, <1>6, DropShown
<1>8. Place' = Place /\ Place["playlist"] = k + 1
  BY <1>6, PlaceKept DEF Place, Lists
<1> HIDE DEF f, n, k
<1>9. f \in [1..n -> Song] /\ n \in Nat
  BY <1>3, <1>7
<1>10. PICK j \in 1..n : j = k + 1 /\ j - 1 = k
  BY <1>3
<1>11. RemoveAt(f, j) = [i \in 1..n - 1 |-> IF i <= j - 1 THEN f[i] ELSE f[i + 1]]
  BY <1>9, RemovedSeq
<1>12. SongsOf("playlist")' = RemoveAt(f, j) /\ DOMAIN f = 1..n
  BY <1>7, <1>9, <1>10, <1>11
<1>13. [l \in Lists |-> list[l].selected + 1]["playlist"] = j
  BY <1>8, <1>10 DEF Place
<1>14. SeenLists!RemoveAt(f, j) = RemoveAt(f, j)
  BY DEF SeenLists!RemoveAt, RemoveAt
<1> QED
  BY <1>7, <1>8, <1>12, <1>13, <1>14 DEF SeenLists!Delete, Place, f

(* The song that is over is put in front of the past ones, of which as     *)
(* many are kept as the limit allows.                                      *)
LEMMA DoneShown ==
  ASSUME IInv, done_with_song_info
  PROVE  SeenLists!Finish
<1> DEFINE n == list["past"].size
           f == SongsOf("past")
           m == PastSize
           c == Fresh
           q2(q) == AddFirst(q, m, c)
<1>1. PICK p, q : Both(cell, list["playlist"], list["past"], p, q)
  BY DEF IInv, LinkInv
<1>2. TypeOK /\ SizeInv
  BY DEF IInv
<1>3. /\ Both(cell', list'["playlist"], list'["past"], p, AddFirst(q, m, c))
      /\ SongsKept(cell, cell') /\ c \notin DOMAIN cell /\ cell'[c].song = now /\ now \in Song
  BY <1>1, <1>2, DoneLinks
<1>4. /\ SongsOf("playlist") = View(cell, p, list["playlist"].size) /\ f = View(cell, q, n)
      /\ View(cell, q, n) \in [1..n -> Song] /\ n \in Nat
  BY <1>1, <1>2, ShownNow
<1>5. CellsOK(cell')
  BY DoneTypes
<1>6. PastLimit \in Nat \ {0} /\ n <= PastLimit
  BY <1>2, SongListsAssumption DEF SizeInv
<1>7. list'["playlist"] = list["playlist"] /\ list'["past"].size = m
      /\ \A l \in Lists : list'[l].selected = list[l].selected
  <2>1. list'["past"].size = IF n + 1 > PastLimit THEN PastLimit ELSE n + 1
    BY <1>2, ListTypes DEF done_with_song_info, Lists
  <2>2. list'["past"].size = m
    BY <1>4, <1>6, <2>1 DEF PastSize
  <2> QED
    BY <1>2, <2>2, ListTypes DEF done_with_song_info, Lists
<1>8. m \in 1..n + 1 /\ m = IF n < PastLimit THEN n + 1 ELSE PastLimit
  BY <1>4, <1>6 DEF PastSize
<1> HIDE DEF c, m
<1>9. SongsOf("playlist")' = View(cell', p, list["playlist"].size)
      /\ SongsOf("past")' = View(cell', AddFirst(q, m, c), m)
  BY <1>3, <1>5, <1>7, ShownNext
<1>10. View(cell', p, list["playlist"].size) = View(cell, p, list["playlist"].size)
  BY <1>1, <1>3, <1>7, ViewKept DEF Both
<1>11. View(cell', AddFirst(q, m, c), m) = SubSeq(<<now>> \o f, 1, m)
  <2> DEFINE t == AddFirst(q, m, c)
  <2>1. f \in [1..n -> Song]
    BY <1>4
  <2>2. \A i \in 1..m : t[i] = IF i = 1 THEN c ELSE q[i - 1]
    BY DEF AddFirst
  <2>3. t \in [1..m -> DOMAIN cell']
    BY <1>3, <1>7 DEF Both, Linked
  <2>4. ASSUME NEW i \in 1..m PROVE cell'[t[i]].song = IF i = 1 THEN now ELSE f[i - 1]
    <3>1. CASE i = 1
      BY <1>3, <2>2, <3>1
    <3>2. CASE i # 1
      <4>1. i - 1 \in 1..n
        BY <1>4, <1>8, <3>2
      <4>2. q[i - 1] \in DOMAIN cell
        BY <1>1, <4>1 DEF Both, Linked
      <4>3. t[i] = q[i - 1] /\ t[i] \in DOMAIN cell'
        BY <2>2, <2>3, <3>2
      <4>4. cell'[t[i]].song = cell[q[i - 1]].song
        BY <1>3, <4>2, <4>3 DEF SongsKept
      <4>5. f[i - 1] = cell[q[i - 1]].song
        BY <1>4, <4>1 DEF View
      <4> QED
        BY <3>2, <4>4, <4>5
    <3> QED
      BY <3>1, <3>2
  <2> HIDE DEF t, f, n
  <2>5. View(cell', t, m) = [i \in 1..m |-> IF i = 1 THEN now ELSE f[i - 1]]
    BY <2>4 DEF View
  <2>6. SubSeq(<<now>> \o f, 1, m) = [i \in 1..m |-> IF i = 1 THEN now ELSE f[i - 1]]
    BY <1>3, <1>4, <1>8, <2>1, FinishedSeq
  <2> QED
    BY <2>5, <2>6 DEF t
<1>12. Len(f) = n
  BY <1>4, FunctionIsSeq
<1>13. Place' = Place
  BY <1>7, PlaceKept
<1>14. now # None /\ now' = None /\ UNCHANGED chosen
  BY DEF done_with_song_info
<1> HIDE DEF n, f
<1>15. SongsOf("past")' = SubSeq(<<now>> \o f, 1, IF Len(f) < PastLimit THEN Len(f) + 1 ELSE PastLimit)
  BY <1>8, <1>9, <1>11, <1>12
<1> QED
  BY <1>4, <1>9, <1>10, <1>13, <1>14, <1>15 DEF SeenLists!Finish, Place, f

(* What the user selects, and where the keys lead.                         *)
LEMMA ChooseShown ==
  ASSUME IInv, NEW l \in Lists, ChooseSelected(l)
  PROVE  SeenLists!Choose1 \/ UNCHANGED SeenLists!vars
<1> DEFINE n == list[l].size
           k == list[l].selected
           f == SongsOf(l)
<1>1. PICK p, q : Both(cell, list["playlist"], list["past"], p, q)
  BY DEF IInv, LinkInv
<1>2. TypeOK
  BY DEF IInv
<1>3. PICK s : Linked(cell, list[l], s)
  BY <1>1 DEF Both, Lists
<1>4. None \notin DOMAIN cell /\ CellsOK(cell) /\ n \in Nat /\ k \in Int /\ k >= -1 /\ k < n
  BY <1>2, ListTypes, LinkTypes, SelectionTypes DEF ChooseSelected
<1>5. UNCHANGED <<cell, list, now>>
  BY DEF ChooseSelected
<1>6. SongsOf("playlist")' = SongsOf("playlist") /\ SongsOf("past")' = SongsOf("past") /\ Place' = Place
  BY <1>5 DEF SongsOf, Entry, After, NextOf, Place
<1>7. CASE Lookup(l) = None
  <2>1. UNCHANGED chosen
    BY <1>7 DEF ChooseSelected
  <2> QED
    BY <1>5, <1>6, <2>1 DEF SeenLists!vars, Place
<1>8. CASE Lookup(l) # None
  <2>1. f = View(cell, s, n) /\ f \in [1..n -> Song]
    <3>1. f = View(cell, s, n)
      BY <1>3, <1>4, SeenNow
    <3> QED
      BY <1>3, <1>4, <3>1, ViewType
  <2>2. chosen' = cell[Lookup(l)].song
    BY <1>8 DEF ChooseSelected
  <2>3. n # 0
    BY <1>2, <1>3, <1>4, <1>8, LookupEntry
  <2>4. LET i == IF k < 0 THEN 0 ELSE k IN i + 1 \in 1..n /\ Lookup(l) = s[i + 1]
    BY <1>2, <1>3, <1>4, <2>3, LookupEntry
  <2>5. chosen' = f[IF k < 0 THEN 1 ELSE k + 1] /\ (k >= 0 => k + 1 \in 1..n)
    <3>1. \A i \in 1..n : f[i] = cell[s[i]].song
      BY <2>1 DEF View
    <3>2. CASE k < 0
      <4>1. 1 \in 1..n /\ Lookup(l) = s[1]
        BY <2>4, <3>2
      <4> QED
        BY <1>4, <2>2, <3>1, <3>2, <4>1
    <3>3. CASE ~(k < 0)
      <4>1. k + 1 \in 1..n /\ Lookup(l) = s[k + 1]
        BY <2>4, <3>3
      <4> HIDE DEF f, n, k
      <4> QED
        BY <2>2, <3>1, <3>3, <4>1
    <3> QED
      BY <3>2, <3>3
  <2>6. Place[l] = k + 1
    BY DEF Place
  <2>7. (IF l = "playlist" THEN SongsOf("playlist") ELSE SongsOf("past")) = f
    BY DEF Lists
  <2> HIDE DEF f, n, k
  <2>8. f # <<>> /\ Head(f) = f[1] /\ DOMAIN f = 1..n
    BY <1>4, <2>1, <2>3, TakenSeq
  <2> DEFINE place == [m \in Lists |-> list[m].selected + 1]
  <2>9. place[l] = k + 1
    BY <2>6 DEF Place
  <2>10. IF place[l] = 0 THEN chosen' = Head(f) ELSE place[l] \in DOMAIN f /\ chosen' = f[place[l]]
    BY <1>4, <2>5, <2>8, <2>9
  <2>11. UNCHANGED <<SongsOf("playlist"), SongsOf("past"), now, place>>
    BY <1>5, <1>6 DEF Place
  <2>12. SeenLists!InList(l) = f /\ l \in SeenLists!Lists
    BY <2>7 DEF SeenLists!InList, SeenLists!Lists, Lists
  <2> HIDE DEF place
  <2> QED
    BY <2>8, <2>10, <2>11, <2>12 DEF SeenLists!Choose1, place
<1> QED
  BY <1>7, <1>8

(* The place selected after an arrow key or the knob, for a list of n      *)
(* songs which had another place before.                                   *)
LEMMA MoveShown ==
  ASSUME IInv, NEW l \in Lists, NEW i \in Int, list' = [list EXCEPT ![l].selected = i],
         UNCHANGED <<cell, now, chosen>>,
         NEW bound \in Nat, bound \in {1, list[l].size, list[l].selected}
                                     \cup (IF l = "playlist" THEN {WantedSize} ELSE {}),
         i + 1 \in 0..bound
  PROVE  SeenLists!Move
<1> DEFINE n == list[l].size
           place == [m \in Lists |-> list[m].selected + 1]
           f == IF l = "playlist" THEN SongsOf("playlist") ELSE SongsOf("past")
<1>1. PICK p, q : Both(cell, list["playlist"], list["past"], p, q)
  BY DEF IInv, LinkInv
<1>2. TypeOK
  BY DEF IInv
<1>3. list \in [Lists -> ListRecord] /\ list[l].selected \in Int /\ n \in Nat
  BY <1>2, LinkTypes, ListTypes
<1>4. \A m \in Lists : list'[m].size = list[m].size
                       /\ list'[m].selected = IF m = l THEN i ELSE list[m].selected
  BY <1>3 DEF ListRecord
<1>5. SongsOf("playlist")' = SongsOf("playlist") /\ SongsOf("past")' = SongsOf("past")
  <2>1. cell' = cell /\ CellsOK(cell')
    BY <1>2, LinkTypes
  <2>2. \A m \in Lists : list'[m].size = list[m].size /\ list'[m].head = list[m].head
                         /\ list'[m].tail = list[m].tail
    BY <1>3 DEF ListRecord
  <2>3. Both(cell', list'["playlist"], list'["past"], p, q)
    BY <1>1, <2>1, <2>2 DEF Both, Linked, Lists
  <2>4. /\ SongsOf("playlist")' = View(cell', p, list'["playlist"].size)
        /\ SongsOf("past")' = View(cell', q, list'["past"].size)
    BY <2>1, <2>3, ShownNext
  <2> QED
    BY <1>1, <1>2, <2>1, <2>2, <2>4, ShownNow DEF Lists
<1>6. Len(f) = n
  BY <1>1, <1>2, ShownNow, FunctionIsSeq DEF Lists
<1>7. place'[l] = i + 1 /\ place[l] - 1 = list[l].selected
  BY <1>3, <1>4
<1>8. place' = [place EXCEPT ![l] = place'[l]]
  <2>1. \A m \in Lists : list'[m].selected + 1 = IF m = l THEN i + 1 ELSE place[m]
    BY <1>4
  <2>2. place' = [m \in Lists |-> IF m = l THEN i + 1 ELSE place[m]]
    BY <2>1
  <2> HIDE DEF place
  <2>3. [place EXCEPT ![l] = i + 1] = [m \in Lists |-> IF m = l THEN i + 1 ELSE place[m]]
    BY DEF place
  <2> QED
    BY <1>7, <2>2, <2>3
<1>9. bound \in SeenLists!Sizes(l) \cup {place[l] - 1}
  BY <1>6, <1>7 DEF SeenLists!Sizes, SeenLists!InList
<1>10. UNCHANGED <<SongsOf("playlist"), SongsOf("past"), now, chosen>> /\ l \in SeenLists!Lists
  BY <1>5 DEF SeenLists!Lists, Lists
<1>11. place'[l] \in UNION {0..m : m \in SeenLists!Sizes(l) \cup {place[l] - 1}}
  BY <1>7, <1>9
<1> HIDE DEF f, n
<1> QED
  BY <1>8, <1>10, <1>11 DEF SeenLists!Move

(* An arrow key stays inside the list, or the size it should have; ...     *)
LEMMA ArrowShown ==
  ASSUME IInv, NEW l \in Lists, do_arrow(l)
  PROVE  SeenLists!Move
<1>1. PICK i \in Targets(l) : list' = [list EXCEPT ![l].selected = Inside(l, i)]
  BY DEF do_arrow
<1>2. UNCHANGED <<cell, now, chosen>>
  BY DEF do_arrow
<1>3. list[l].size \in Nat /\ wanted_size \in {0, WantedSize} /\ WantedSize \in Nat
  BY ListTypes, SongListsAssumption DEF IInv, TypeOK
<1>4. i \in Int /\ MaxSize(l) \in Nat
  BY ArrowTarget
<1>5. Inside(l, i) \in Int /\ (Inside(l, i) + 1 \in 0..1 \/ Inside(l, i) + 1 \in 0..MaxSize(l))
  BY <1>4 DEF Inside
<1>6. MaxSize(l) # list[l].size => (l = "playlist" /\ MaxSize(l) = WantedSize)
  BY <1>3 DEF MaxSize
<1>7. PICK bound \in {1, list[l].size} \cup (IF l = "playlist" THEN {WantedSize} ELSE {}) :
        bound \in Nat /\ Inside(l, i) + 1 \in 0..bound
  BY <1>3, <1>4, <1>5, <1>6
<1> QED
  BY <1>1, <1>2, <1>5, <1>7, MoveShown

(* ... the knob stays inside the list.                                     *)
LEMMA KnobShown ==
  ASSUME IInv, KnobLeft \/ KnobRight
  PROVE  SeenLists!Move
<1> DEFINE n == list["playlist"].size
           k == list["playlist"].selected
<1>1. n \in Nat /\ k \in Int /\ k >= 0
  BY ListTypes DEF IInv, KnobInv, KnobLeft, KnobRight, Lists
<1>2. UNCHANGED <<cell, now, chosen>> /\ "playlist" \in Lists
  BY DEF KnobLeft, KnobRight, Lists
<1>3. CASE KnobLeft
  <2>1. list' = [list EXCEPT !["playlist"].selected = k - 1] /\ k > 0
    BY <1>3 DEF KnobLeft
  <2>2. k - 1 \in Int /\ k \in Nat /\ k - 1 + 1 \in 0..k
    BY <1>1, <2>1
  <2>3. k \in {1, n, k} \cup (IF "playlist" = "playlist" THEN {WantedSize} ELSE {})
    OBVIOUS
  <2> QED
    BY <1>2, <2>1, <2>2, <2>3, MoveShown
<1>4. CASE KnobRight
  <2>1. list' = [list EXCEPT !["playlist"].selected = k + 1] /\ k < n - 1
    BY <1>4 DEF KnobRight
  <2>2. k + 1 \in Int /\ n \in Nat /\ k + 1 + 1 \in 0..n
    BY <1>1, <2>1
  <2>3. n \in {1, n, k} \cup (IF "playlist" = "playlist" THEN {WantedSize} ELSE {})
    OBVIOUS
  <2> QED
    BY <1>2, <2>1, <2>2, <2>3, MoveShown
<1> QED
  BY <1>3, <1>4

(* Every step of the linked lists is a step of the sequences, or none.     *)
LEMMA StepShown ==
  ASSUME IInv, [Next]_vars
  PROVE  [SeenLists!Next]_SeenLists!vars
<1>1. CASE \E s \in Song : playlist_queue_song(s)
  BY <1>1, QueueShown DEF SeenLists!Next
<1>2. CASE get_next_song_info
  BY <1>2, TakeShown DEF SeenLists!Next
<1>3. CASE done_with_song_info
  BY <1>3, DoneShown DEF SeenLists!Next
<1>4. CASE do_delete \/ do_remove_playlist_entry
  <2>1. Removed(list["playlist"].selected) /\ list["playlist"].selected < list["playlist"].size
        /\ UNCHANGED <<now, chosen>> /\ list["playlist"].selected >= 0
    BY <1>4 DEF do_delete, do_remove_playlist_entry, IInv, KnobInv
  <2>2. SeenLists!Delete
    BY <2>1, RemoveShown
  <2> QED
    BY <2>2 DEF SeenLists!Next
<1>5. CASE \E l \in Lists : ChooseSelected(l)
  BY <1>5, ChooseShown DEF SeenLists!Next
<1>6. CASE \E l \in Lists : do_arrow(l)
  BY <1>6, ArrowShown DEF SeenLists!Next
<1>7. CASE KnobLeft \/ KnobRight
  BY <1>7, KnobShown DEF SeenLists!Next
<1>8. ASSUME UNCHANGED <<cell, list, now>>
      PROVE  UNCHANGED <<SongsOf("playlist"), SongsOf("past"), now, Place>>
  BY <1>8 DEF SongsOf, Entry, After, NextOf, Place
<1>9. CASE ChooseNow
  <2>1. chosen' = now /\ UNCHANGED <<cell, list, now>>
    BY <1>9 DEF ChooseNow
  <2>2. SeenLists!ChooseNow
    BY <1>8, <2>1 DEF SeenLists!ChooseNow, Place
  <2> QED
    BY <2>2 DEF SeenLists!Next
<1>10. CASE SetWantedSize \/ do_tab \/ UNCHANGED vars
  <2>1. UNCHANGED chosen /\ UNCHANGED <<cell, list, now>>
    BY <1>10 DEF SetWantedSize, do_tab, vars
  <2> QED
    BY <1>8, <2>1 DEF SeenLists!vars, Place
<1> QED
  BY <1>1, <1>2, <1>3, <1>4, <1>5, <1>6, <1>7, <1>9, <1>10 DEF Next

(* Two empty lists are two empty sequences.                                *)
LEMMA InitShown == Init => SeenLists!Init
<1> SUFFICES ASSUME Init PROVE SeenLists!Init
  OBVIOUS
<1>1. \A l \in Lists : list[l].size = 0 /\ list[l].selected = 0
  BY DEF Init, EmptyList
<1>2. \A l \in Lists : SongsOf(l) = <<>>
  BY <1>1 DEF SongsOf
<1>3. [l \in Lists |-> list[l].selected + 1] = [l \in Lists |-> 1]
  BY <1>1
<1>4. now = None /\ chosen = None
  BY DEF Init
<1> QED
  BY <1>2, <1>3, <1>4 DEF SeenLists!Init, SeenLists!Lists, Lists

(* The linked lists, with everything the program and the user do to them,  *)
(* are the two sequences of TwoLists: a song is added at the end, taken    *)
(* from the front, deleted, rated or edited at the selected place, and no  *)
(* key leads out of a list.                                                *)
THEOREM ListsRefineSequences == Spec => ListsSpec
<1>1. Init => SeenLists!Init
  BY InitShown
<1>2. IInv /\ [Next]_vars => [SeenLists!Next]_SeenLists!vars
  BY StepShown
<1> QED
  BY <1>1, <1>2, InitIInv, NextIInv, PTL DEF Spec, ListsSpec, SeenLists!Spec
=============================================================================
