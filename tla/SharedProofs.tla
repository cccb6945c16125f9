---------------------------- MODULE SharedProofs ----------------------------
(***************************************************************************)
(* Theorems about what the threads share: the locks, the list of player    *)
(* commands, and the playlist.                                             *)
(*                                                                         *)
(* Threads whose programs take the locks in the order of doc/LOCKS never   *)
(* wait in a circle, however many threads, locks and programs there are.   *)
(* The list of player commands never follows a freed entry, and it         *)
(* implements the one-place mailbox, for any set of commands and however   *)
(* many entries are lost.  The playlist never grows past what was asked    *)
(* for, for every size of the playlist, of the state file and of the       *)
(* database.                                                               *)
(***************************************************************************)
EXTENDS Locks, CommandQueue, Playlist, FiniteSetTheorems, WellFoundedInduction, TLAPS

-----------------------------------------------------------------------------
(* The locks                                                               *)

LocksTypeOK ==
    /\ program \in [Threads -> Seq(Operations)]
    /\ at \in [Threads -> Nat]
    /\ held \in [Threads -> SUBSET Claims]

\* What a running thread holds is what the text of its program says.
HeldAsWritten ==
    \A t \in Threads : Busy(t) =>
        /\ program[t] \in Programs[t]
        /\ at[t] \in 1..Len(program[t])
        /\ held[t] = HeldBefore(program[t], at[t])

HoldInv == LocksTypeOK /\ HeldAsWritten

-----------------------------------------------------------------------------

\* Nothing is held before the first operation.
LEMMA HeldBeforeFirst ==
    ASSUME NEW p PROVE HeldBefore(p, 1) = {}
  BY DEF HeldBefore

\* One operation adds what it takes and removes what it drops.
LEMMA HeldBeforeNext ==
    ASSUME NEW p \in Seq(Operations), NEW n \in 1..Len(p)
    PROVE  HeldBefore(p, n + 1) = (HeldBefore(p, n) \cup p[n].take) \ p[n].drop
  <1>1. n \in Nat /\ n >= 1 /\ (n + 1) - 1 = n
    OBVIOUS
  <1>2. p[n].take \subseteq Claims
    <2>1. p[n] \in Operations
      OBVIOUS
    <2>. QED
      BY <2>1 DEF Operations
  <1>3. ASSUME NEW a \in HeldBefore(p, n + 1)
        PROVE  a \in (HeldBefore(p, n) \cup p[n].take) \ p[n].drop
    <2>1. PICK m \in 1..n : a \in p[m].take /\ \A k \in m..n : a \notin p[k].drop
      BY <1>1, <1>3 DEF HeldBefore
    <2>2. a \in Claims /\ a \notin p[n].drop
      BY <1>1, <1>3, <2>1 DEF HeldBefore
    <2>3. CASE m = n
      BY <2>1, <2>2, <2>3
    <2>4. CASE m # n
      <3>1. m \in 1..(n - 1) /\ \A k \in m..(n - 1) : a \notin p[k].drop
        BY <1>1, <2>1, <2>4
      <3>. QED
        BY <2>1, <2>2, <3>1 DEF HeldBefore
    <2>. QED
      BY <2>3, <2>4
  <1>4. ASSUME NEW a \in HeldBefore(p, n), a \notin p[n].drop
        PROVE  a \in HeldBefore(p, n + 1)
    <2>1. PICK m \in 1..(n - 1) : a \in p[m].take /\ \A k \in m..(n - 1) : a \notin p[k].drop
      BY <1>4 DEF HeldBefore
    <2>2. m \in 1..n /\ \A k \in m..n : k \in m..(n - 1) \/ k = n
      BY <1>1
    <2>3. \A k \in m..n : a \notin p[k].drop
      BY <1>4, <2>1, <2>2
    <2>4. a \in Claims
      BY <1>4 DEF HeldBefore
    <2>. QED
      BY <1>1, <2>1, <2>2, <2>3, <2>4 DEF HeldBefore
  <1>5. ASSUME NEW a \in p[n].take, a \notin p[n].drop
        PROVE  a \in HeldBefore(p, n + 1)
    <2>1. n \in 1..n /\ \A k \in n..n : k = n
      BY <1>1
    <2>. QED
      BY <1>1, <1>2, <1>5, <2>1 DEF HeldBefore
  <1>. QED
    BY <1>3, <1>4, <1>5

-----------------------------------------------------------------------------

LEMMA InitHoldInv == LocksInit => HoldInv
  BY DEF LocksInit, HoldInv, LocksTypeOK, HeldAsWritten, Busy

\* Beginning a program: nothing is held, and nothing should be.
LEMMA BeginHoldInv ==
    ASSUME HoldInv, NEW t \in Threads, NEW p \in Programs[t], Begin(t, p)
    PROVE  HoldInv'
  <1>1. p \in Seq(Operations)
    BY ProgramsAssumption
  <1>2. LocksTypeOK'
    BY <1>1 DEF HoldInv, LocksTypeOK, Begin
  <1>3. ASSUME NEW u \in Threads, Busy(u)'
        PROVE  /\ program'[u] \in Programs[u]
               /\ at'[u] \in 1..Len(program'[u])
               /\ held'[u] = HeldBefore(program'[u], at'[u])
    <2>1. CASE u = t
      <3>1. program'[u] = p /\ at'[u] = 1 /\ held'[u] = {}
        BY <2>1 DEF Begin, HoldInv, LocksTypeOK
      <3>2. p # <<>>
        BY <1>3, <3>1 DEF Busy
      <3>3. 1 \in 1..Len(p)
        BY <1>1, <3>2
      <3>. QED
        BY <2>1, <3>1, <3>3, HeldBeforeFirst
    <2>2. CASE u # t
      <3>1. program'[u] = program[u] /\ at'[u] = at[u] /\ held'[u] = held[u]
        BY <2>2 DEF Begin, HoldInv, LocksTypeOK
      <3>. QED
        BY <1>3, <3>1 DEF Busy, HoldInv, HeldAsWritten
    <2>. QED
      BY <2>1, <2>2
  <1>. QED
    BY <1>2, <1>3 DEF HoldInv, HeldAsWritten

\* One operation: what is held follows the text.
LEMMA OperateHoldInv ==
    ASSUME HoldInv, NEW t \in Threads, Operate(t)
    PROVE  HoldInv'
  <1>. DEFINE p == program[t]
              n == at[t]
  <1>1. p \in Programs[t] /\ p \in Seq(Operations) /\ n \in 1..Len(p) /\ held[t] = HeldBefore(p, n)
    BY DEF HoldInv, LocksTypeOK, HeldAsWritten, Operate
  <1>2. p[n].take \subseteq Claims
    <2>1. p[n] \in Operations
      BY <1>1
    <2>. QED
      BY <2>1 DEF Operations
  <1>3. held' = [held EXCEPT ![t] = (@ \cup p[n].take) \ p[n].drop]
    BY DEF Operate
  <1>4. held' \in [Threads -> SUBSET Claims]
    BY <1>2, <1>3 DEF HoldInv, LocksTypeOK
  <1>5. LocksTypeOK'
    <2>1. CASE n = Len(p)
      <3>1. at' = [at EXCEPT ![t] = 1] /\ program' = [program EXCEPT ![t] = <<>>]
        BY <2>1 DEF Operate
      <3>2. <<>> \in Seq(Operations)
        OBVIOUS
      <3>. QED
        BY <1>4, <3>1, <3>2 DEF HoldInv, LocksTypeOK
    <2>2. CASE n # Len(p)
      <3>1. at' = [at EXCEPT ![t] = n + 1] /\ program' = program
        BY <2>2 DEF Operate
      <3>2. n + 1 \in Nat
        BY <1>1
      <3>. QED
        BY <1>4, <3>1, <3>2 DEF HoldInv, LocksTypeOK
    <2>. QED
      BY <2>1, <2>2
  <1>6. ASSUME NEW u \in Threads, Busy(u)'
        PROVE  /\ program'[u] \in Programs[u]
               /\ at'[u] \in 1..Len(program'[u])
               /\ held'[u] = HeldBefore(program'[u], at'[u])
    <2>1. CASE u # t
      <3>1. program'[u] = program[u] /\ at'[u] = at[u] /\ held'[u] = held[u]
        BY <2>1 DEF Operate, HoldInv, LocksTypeOK
      <3>. QED
        BY <1>6, <3>1 DEF Busy, HoldInv, HeldAsWritten
    <2>2. CASE u = t
      <3>1. n # Len(p)
        <4>1. ASSUME n = Len(p) PROVE program'[t] = <<>>
          BY <4>1 DEF Operate, HoldInv, LocksTypeOK
        <4>. QED
          BY <4>1, <1>6, <2>2 DEF Busy
      <3>2. program'[t] = p /\ at'[t] = n + 1
        BY <3>1 DEF Operate, HoldInv, LocksTypeOK
      <3>3. held'[t] = (held[t] \cup p[n].take) \ p[n].drop
        BY <1>3 DEF HoldInv, LocksTypeOK
      <3>4. held'[t] = HeldBefore(p, n + 1)
        BY <1>1, <3>3, HeldBeforeNext
      <3>5. n + 1 \in 1..Len(p)
        BY <1>1, <3>1
      <3>. QED
        BY <1>1, <2>2, <3>2, <3>4, <3>5
    <2>. QED
      BY <2>1, <2>2
  <1>. QED
    BY <1>5, <1>6 DEF HoldInv, HeldAsWritten

\* What a thread holds is what its program says it holds.
THEOREM HeldFollowsText == LocksSpec => []HoldInv
  <1>1. HoldInv /\ [LocksNext]_lockVars => HoldInv'
    <2>. SUFFICES ASSUME HoldInv, [LocksNext]_lockVars PROVE HoldInv'
      OBVIOUS
    <2>1. CASE LocksNext
      BY <2>1, BeginHoldInv, OperateHoldInv DEF LocksNext
    <2>2. CASE UNCHANGED lockVars
      BY <2>2 DEF lockVars, HoldInv, LocksTypeOK, HeldAsWritten, Busy
    <2>. QED
      BY <2>1, <2>2
  <1>. QED
    BY InitHoldInv, <1>1, PTL DEF LocksSpec

-----------------------------------------------------------------------------

\* If every program keeps to the order of doc/LOCKS on paper, every thread does at run
\* time.
LEMMA OrderOnPaper == ASSUME AllOrdered PROVE HoldInv => OrderKept
  <1>. SUFFICES ASSUME HoldInv, NEW t \in Threads, NEW a \in Wants(t), NEW b \in held[t]
                PROVE  Rank[b.lock] < Rank[a.lock]
    BY DEF OrderKept
  <1>1. Busy(t) /\ a \in program[t][at[t]].take
    BY DEF Wants
  <1>2. program[t] \in Programs[t] /\ at[t] \in 1..Len(program[t])
        /\ held[t] = HeldBefore(program[t], at[t])
    BY <1>1 DEF HoldInv, HeldAsWritten
  <1>. QED
    BY <1>1, <1>2 DEF AllOrdered, Ordered

\* A nonempty set of numbers up to a bound has a largest element.
LEMMA LargestNatural ==
    ASSUME NEW top \in Nat, NEW S \in SUBSET (0..top), S # {}
    PROVE  \E m \in S : \A k \in S : k <= m
  <1>. DEFINE R == {k \in Nat : k <= top /\ top - k \in S}
  <1>1. R # {} /\ R \in SUBSET Nat
    <2>1. PICK s : s \in S
      OBVIOUS
    <2>2. s \in Nat /\ top - s \in Nat /\ top - s <= top /\ top - (top - s) = s
      BY <2>1
    <2>. QED
      BY <2>1, <2>2
  <1>2. PICK r \in R : \A k \in R : r <= k
    <2>. HIDE DEF R
    <2>. DEFINE less == OpToRel(<, Nat)
    <2>1. PICK r \in R : \A k \in R : <<k, r>> \notin less
      <3>1. IsWellFoundedOn(less, Nat)
        BY NatLessThanWellFounded
      <3>. HIDE DEF less
      <3>. QED
        BY <1>1, <3>1, WFMin
    <2>2. ASSUME NEW k \in R PROVE r <= k
      <3>1. k \in Nat /\ r \in Nat
        BY <1>1
      <3>2. k < r => <<k, r>> \in less
        BY <3>1 DEF OpToRel
      <3>. HIDE DEF less
      <3>. QED
        BY <2>1, <3>1, <3>2
    <2>. QED
      BY <2>2
  <1>3. top - r \in S
    BY <1>2
  <1>4. ASSUME NEW k \in S PROVE k <= top - r
    <2>1. k \in Nat /\ top - k \in Nat /\ top - k <= top /\ top - (top - k) = k
      BY <1>4
    <2>2. r <= top - k
      BY <1>2, <2>1, <1>4
    <2>. QED
      BY <2>1, <2>2, <1>2
  <1>. QED
    BY <1>3, <1>4

\* In a group of threads that keep to the order, the one that wants the highest lock
\* is kept waiting by nobody of the group: whoever holds that lock would want a higher one.
LEMMA OrderedNoCircle == HoldInv /\ OrderKept => NoCircularWait
  <1>. SUFFICES ASSUME HoldInv, OrderKept, NEW T \in SUBSET {t \in Threads : Busy(t)}, T # {},
                       \A t \in T : \E u \in T : Blocks(u, t)
                PROVE  FALSE
    BY DEF NoCircularWait
  <1>. DEFINE top == Cardinality(Locks)
              Awaited == {a \in Claims : \E t, u \in T :
                            a \in Wants(t) /\ \E b \in held[u] : Conflict(a, b)}
              S == {Rank[a.lock] : a \in Awaited}
  <1>1. top \in Nat
    BY RankAssumption, FS_CardinalityType
  <1>2. ASSUME NEW a \in Claims PROVE Rank[a.lock] \in 1..top
    BY <1>2, RankAssumption DEF Claims
  <1>3. S \in SUBSET (0..top)
    BY <1>1, <1>2
  <1>4. ASSUME NEW t \in T PROVE Wants(t) \subseteq Claims
    <2>1. Busy(t) /\ program[t] \in Seq(Operations) /\ at[t] \in 1..Len(program[t])
      BY DEF HoldInv, LocksTypeOK, HeldAsWritten
    <2>2. program[t][at[t]] \in Operations
      BY <2>1
    <2>. QED
      BY <2>1, <2>2 DEF Wants, Operations
  <1>5. ASSUME NEW t \in T PROVE \E a \in Awaited : a \in Wants(t)
    <2>1. PICK u \in T : Blocks(u, t)
      OBVIOUS
    <2>. QED
      BY <1>4, <2>1 DEF Blocks
  <1>6. S # {}
    BY <1>5
  <1>7. PICK m \in S : \A k \in S : k <= m
    <2>. HIDE DEF S, top
    <2>. QED
      BY <1>1, <1>3, <1>6, LargestNatural
  <1>8. PICK a \in Awaited : m = Rank[a.lock]
    BY <1>7
  <1>9. PICK u \in T : \E b \in held[u] : Conflict(a, b)
    BY <1>8
  <1>10. PICK b \in held[u] : Conflict(a, b)
    BY <1>9
  <1>11. PICK d \in Awaited : d \in Wants(u)
    BY <1>5
  <1>12. Rank[b.lock] < Rank[d.lock] /\ Rank[b.lock] = m
    BY <1>8, <1>10, <1>11 DEF OrderKept, Conflict
  <1>13. Rank[d.lock] \in S /\ Rank[d.lock] <= m
    BY <1>7, <1>11
  <1>14. m \in Nat /\ Rank[d.lock] \in Nat
    BY <1>1, <1>3, <1>13
  <1>. QED
    BY <1>12, <1>13, <1>14

\* Threads that run programs written in the order of doc/LOCKS take every lock in that
\* order: "if you need to hold more than one lock, you may only grab them in the order
\* shown".
THEOREM LocksTakenInOrder == ASSUME AllOrdered PROVE LocksSpec => []OrderKept
  BY HeldFollowsText, OrderOnPaper, PTL

\* Threads that run programs written in the order of doc/LOCKS never wait in a circle.
THEOREM OrderPreventsDeadlock == ASSUME AllOrdered PROVE LocksSpec => []NoCircularWait
  BY HeldFollowsText, OrderOnPaper, OrderedNoCircle, PTL

-----------------------------------------------------------------------------
(* The list of player commands                                             *)

(* The list that starts at head has exactly one entry: that is what makes  *)
(* it a mailbox, and why the player's loop never reaches a second entry.   *)
OneEntryList == head # NULL => head \in Allocated /\ entry[head].next = NULL

ListInv == QueueTypeOK /\ NoDanglingEntry /\ OneEntryList

(* Nothing is allocated at first.                                          *)
LEMMA InitList == QueueInit => ListInv
<1> SUFFICES ASSUME QueueInit PROVE ListInv
  OBVIOUS
<1>1. QueueTypeOK
  <2>1. locked \in BOOLEAN
    BY DEF QueueInit
  <2>2. entry = [c \in {} |-> NULL] /\ Allocated = {}
    BY DEF QueueInit, Allocated
  <2>3. entry \in [Allocated -> Entry]
    BY <2>2
  <2> QED
    BY <2>1, <2>2, <2>3 DEF QueueInit, QueueTypeOK
<1> QED
  BY <1>1 DEF QueueInit, ListInv, NoDanglingEntry, OneEntryList

(* The entry player_queue_command() allocates, and what it links to it.    *)
LEMMA MallocFacts ==
  ASSUME QueueTypeOK, NEW command \in Commands, NEW new \in Cells \ Allocated
  PROVE  /\ Malloc(new, command) \in [Allocated \cup {new} -> Entry]
         /\ Malloc(new, command)[new] = [command |-> command, next |-> NULL]
         /\ \A e \in Allocated : Malloc(new, command)[e] = entry[e]
  BY DEF Malloc, QueueTypeOK, Entry

(* Linking an entry behind tail changes tail's successor only.             *)
LEMMA LinkFacts ==
  ASSUME QueueTypeOK, NEW command \in Commands, NEW new \in Cells \ Allocated,
         tail \in Allocated
  PROVE  /\ LinkedBehind(tail, new, command) \in [Allocated \cup {new} -> Entry]
         /\ LinkedBehind(tail, new, command)[new] = [command |-> command, next |-> NULL]
         /\ \A e \in Allocated :
              /\ LinkedBehind(tail, new, command)[e].command = entry[e].command
              /\ e # tail => LinkedBehind(tail, new, command)[e] = entry[e]
<1> DEFINE m == Malloc(new, command)
<1>1. /\ m \in [Allocated \cup {new} -> Entry]
      /\ m[new] = [command |-> command, next |-> NULL]
      /\ \A e \in Allocated : m[e] = entry[e]
  BY MallocFacts
<1>2. LinkedBehind(tail, new, command)
        = [e \in Allocated \cup {new} |-> IF e = tail THEN [m[e] EXCEPT !.next = new] ELSE m[e]]
  BY <1>1 DEF LinkedBehind
<1>3. \A e \in Allocated \cup {new} : m[e] \in Entry
  BY <1>1
<1>4. [m[tail] EXCEPT !.next = new] \in Entry
      /\ [m[tail] EXCEPT !.next = new].command = m[tail].command
  BY <1>3 DEF Entry, QueueTypeOK
<1> HIDE DEF m
<1> QED
  BY <1>1, <1>2, <1>3, <1>4

(* Queueing keeps the list well formed, and is a Queue of the mailbox.     *)
LEMMA QueueStep ==
  ASSUME ListInv, NEW command \in Commands, PlayerQueueCommand(command)
  PROVE  ListInv' /\ Mailbox!Queue(command)
<1> USE DEF ListInv
<1>1. PICK new \in Cells \ Allocated :
        /\ command_size' = command_size + 1
        /\ entry' = IF head = NULL THEN Malloc(new, command)
                                  ELSE LinkedBehind(tail, new, command)
        /\ head' = IF head = NULL \/ tail = head THEN new ELSE head
        /\ tail' = IF head = NULL THEN new ELSE tail
        /\ UNCHANGED locked
  BY DEF PlayerQueueCommand
<1>2. new # NULL
  BY CellsAssumption
<1>3. command_size' \in Int /\ locked' \in BOOLEAN
  <2>1. command_size' \in Int
    BY <1>1 DEF QueueTypeOK
  <2>2. locked' \in BOOLEAN
    BY <1>1 DEF QueueTypeOK
  <2> QED
    BY <2>1, <2>2
<1>4. CASE head = NULL
  <2>1. entry' \in [Allocated \cup {new} -> Entry]
        /\ entry'[new] = [command |-> command, next |-> NULL]
    BY <1>1, <1>4, MallocFacts
  <2>2. Allocated' = Allocated \cup {new} /\ head' = new /\ tail' = new
    BY <1>1, <1>4, <2>1 DEF Allocated
  <2>3. QueueTypeOK'
    BY <1>3, <2>1, <2>2 DEF QueueTypeOK
  <2>4. NoDanglingEntry' /\ OneEntryList'
    BY <2>1, <2>2 DEF NoDanglingEntry, OneEntryList
  <2>5. Mailbox!Queue(command)
    BY <1>2, <1>4, <2>1, <2>2 DEF Mailbox!Queue
  <2> QED
    BY <2>3, <2>4, <2>5
<1>5. CASE head # NULL
  <2>1. head \in Allocated /\ tail \in Allocated
    BY <1>5 DEF NoDanglingEntry
  <2>2. /\ entry' \in [Allocated \cup {new} -> Entry]
        /\ entry'[new] = [command |-> command, next |-> NULL]
        /\ \A e \in Allocated :
             /\ entry'[e].command = entry[e].command
             /\ e # tail => entry'[e] = entry[e]
    BY <1>1, <1>5, <2>1, LinkFacts
  <2>3. Allocated' = Allocated \cup {new} /\ tail' = tail
        /\ head' = IF tail = head THEN new ELSE head
    BY <1>1, <1>5, <2>2 DEF Allocated
  <2>4. QueueTypeOK'
    BY <1>3, <2>1, <2>2, <2>3 DEF QueueTypeOK
  <2>5. NoDanglingEntry' /\ OneEntryList'
    BY <1>5, <2>1, <2>2, <2>3 DEF NoDanglingEntry, OneEntryList
  <2>6. entry[head].command # NoCommand
    BY <2>1, CommandsAssumption DEF QueueTypeOK, Entry
  <2>7. Mailbox!Queue(command)
    <3>1. CASE tail = head
      BY <1>2, <1>5, <2>1, <2>2, <2>3, <2>6, <3>1 DEF Mailbox!Queue
    <3>2. CASE tail # head
      BY <1>5, <2>1, <2>2, <2>3, <2>6, <3>2 DEF Mailbox!Queue
    <3> QED
      BY <3>1, <3>2
  <2> QED
    BY <2>4, <2>5, <2>7
<1> QED
  BY <1>4, <1>5

(* Executing an entry empties the list, and is the Take of the mailbox.    *)
LEMMA ExecuteStep ==
  ASSUME ListInv, ExecuteEntry
  PROVE  ListInv' /\ Mailbox!Take
<1> USE DEF ListInv
<1>1. head # NULL /\ head \in Allocated /\ entry[head].next = NULL
  BY DEF ExecuteEntry, OneEntryList
<1>2. head' = NULL /\ tail' \in {NULL, tail} /\ command_size' = command_size - 1
      /\ entry' = [e \in Allocated \ {head} |-> entry[e]]
  BY <1>1 DEF ExecuteEntry
<1>3. locked' \in BOOLEAN
  BY DEF ExecuteEntry
<1>4. QueueTypeOK'
  BY <1>2, <1>3 DEF QueueTypeOK, Allocated
<1>5. NoDanglingEntry' /\ OneEntryList'
  BY <1>2 DEF NoDanglingEntry, OneEntryList
<1>6. entry[head].command # NoCommand
  BY <1>1, CommandsAssumption DEF QueueTypeOK, Entry
<1> QED
  BY <1>1, <1>2, <1>4, <1>5, <1>6 DEF Mailbox!Take

(* The invariant is inductive, and every step is a step of the mailbox or  *)
(* leaves it alone.                                                        *)
LEMMA NextList == ListInv /\ [QueueNext]_queueVars => ListInv' /\ [Mailbox!Next]_(Mailbox!mailVars)
<1> SUFFICES ASSUME ListInv, [QueueNext]_queueVars
             PROVE  ListInv' /\ [Mailbox!Next]_(Mailbox!mailVars)
  OBVIOUS
<1>1. ASSUME NEW c \in Commands, PlayerQueueCommand(c)
      PROVE  ListInv' /\ Mailbox!Next
  BY <1>1, QueueStep DEF Mailbox!Next
<1>2. CASE ExecuteEntry
  BY <1>2, ExecuteStep DEF Mailbox!Next
<1>3. ASSUME UNCHANGED <<entry, head, tail, command_size>>, locked' \in BOOLEAN
      PROVE  ListInv' /\ UNCHANGED Mailbox!mailVars
  BY <1>3 DEF ListInv, QueueTypeOK, NoDanglingEntry, OneEntryList, Allocated, Mailbox!mailVars
<1>4. CASE StartCommands
  BY <1>3, <1>4 DEF StartCommands
<1>5. CASE UNCHANGED queueVars
  BY <1>3, <1>5 DEF queueVars, ListInv, QueueTypeOK
<1> QED
  BY <1>1, <1>2, <1>4, <1>5 DEF QueueNext

(* player_queue_command() and the player's loop never follow a pointer to  *)
(* a freed entry.                                                          *)
THEOREM NoEntryUsedAfterFree == QueueSpec => []NoDanglingEntry
<1>1. ListInv => NoDanglingEntry
  BY DEF ListInv
<1> QED
  BY <1>1, InitList, NextList, PTL DEF QueueSpec

(* The list of player commands implements the one-place mailbox that the   *)
(* player of Playback takes its commands from.                             *)
THEOREM ListIsMailbox == QueueSpec => MailboxSpec
<1>1. QueueInit => Mailbox!Init
  BY DEF QueueInit, Mailbox!Init
<1> QED
  BY <1>1, InitList, NextList, PTL DEF QueueSpec, MailboxSpec, Mailbox!Spec

-----------------------------------------------------------------------------
(* The playlist                                                            *)

(* Until setup_database() sets wanted_size the manager has nothing to do.  *)
WantedLast == setup \in {"load", "restore", "release"} => wanted_size = 0

(* The manager does not look at the size again after its wait for the      *)
(* statistics.  It need not: nobody else makes the playlist longer once    *)
(* wanted_size is set.                                                     *)
RoomWhileFilling ==
  manager \in {"needStats", "statsWait", "checkStats"} => size < wanted_size

FillInv == TypeOK /\ PlaylistBounded /\ WantedLast /\ RoomWhileFilling

(* The invariant holds at startup.                                         *)
LEMMA InitFill == Init => FillInv
<1> SUFFICES ASSUME Init PROVE FillInv
  OBVIOUS
<1>1. stats_loaded \in BOOLEAN
  BY DEF Init
<1>2. TypeOK
  BY <1>1 DEF Init, TypeOK, SetupSteps, ManagerSteps, PlayerSteps
<1> QED
  BY <1>2 DEF Init, FillInv, PlaylistBounded, WantedLast, RoomWhileFilling

(* A wakeup takes a thread to a step of its program, never into the wait   *)
(* for statistics.                                                         *)
LEMMA WakeupFacts ==
  ASSUME TypeOK
  PROVE  /\ AfterNotFull \in ManagerSteps
         /\ AfterNotFull \in {"needStats", "statsWait", "checkStats"} => AfterNotFull = manager
         /\ AfterNotEmpty \in PlayerSteps
         /\ AfterStatsFinished \in ManagerSteps
         /\ AfterStatsFinished \in {"needStats", "statsWait", "checkStats"}
              => manager \in {"needStats", "statsWait", "checkStats"}
  BY DEF TypeOK, AfterNotFull, AfterNotEmpty, AfterStatsFinished, Woken, ManagerSteps, PlayerSteps

(* Every step of setup_database() keeps the invariant.                     *)
LEMMA SetupKeepsFill == FillInv /\ SetupStep => FillInv'
<1> SUFFICES ASSUME FillInv, SetupStep PROVE FillInv'
  OBVIOUS
<1> USE WakeupFacts, PlaylistAssumption
    DEF FillInv, TypeOK, PlaylistBounded, WantedLast, RoomWhileFilling, SetupSteps
<1>1. CASE LoadDatabase
  BY <1>1 DEF LoadDatabase, PlayerSteps
<1>2. ASSUME NEW found \in BOOLEAN, LoadStateEntry(found) PROVE FillInv'
  BY <1>2 DEF LoadStateEntry
<1>3. CASE StateLoaded
  BY <1>3 DEF StateLoaded
<1>4. CASE ReleaseManager
  BY <1>4 DEF ReleaseManager
<1>5. CASE start_song_picker
  <2>1. stats_loaded' \in BOOLEAN
    BY <1>5 DEF start_song_picker
  <2> QED
    BY <1>5, <2>1 DEF start_song_picker
<1>6. CASE SignalStatsFinished
  BY <1>6 DEF SignalStatsFinished
<1> QED
  BY <1>1, <1>2, <1>3, <1>4, <1>5, <1>6 DEF SetupStep

(* Every step of playlist_manager() keeps the invariant.                   *)
LEMMA ManagerKeepsFill == FillInv /\ ManagerStep => FillInv'
<1> SUFFICES ASSUME FillInv, ManagerStep PROVE FillInv'
  OBVIOUS
<1> USE WakeupFacts, PlaylistAssumption
    DEF FillInv, TypeOK, PlaylistBounded, WantedLast, RoomWhileFilling, ManagerSteps
<1>1. CASE FirstWait
  BY <1>1 DEF FirstWait, ManagerGoesTo
<1>2. CASE WaitNotFull
  BY <1>2 DEF WaitNotFull, ManagerGoesTo
<1>3. CASE DatabaseEmpty
  BY <1>3 DEF DatabaseEmpty, ManagerGoesTo
<1>4. CASE QueueSong
  BY <1>4 DEF QueueSong, Enough, AddSong, StatsMissing, ManagerGoesTo
<1>5. CASE WaitForStats
  BY <1>5 DEF WaitForStats, ManagerGoesTo
<1>6. CASE CheckStatsAgain
  BY <1>6 DEF CheckStatsAgain, AddSong, StatsMissing, ManagerGoesTo
<1>7. CASE SignalNotEmpty
  BY <1>7 DEF SignalNotEmpty
<1> QED
  BY <1>1, <1>2, <1>3, <1>4, <1>5, <1>6, <1>7 DEF ManagerStep

(* The player and the user only make the playlist shorter.                 *)
LEMMA TakersKeepFill == FillInv /\ (PlayerStep \/ do_delete) => FillInv'
<1> SUFFICES ASSUME FillInv, PlayerStep \/ do_delete PROVE FillInv'
  OBVIOUS
<1> USE WakeupFacts
    DEF FillInv, TypeOK, PlaylistBounded, WantedLast, RoomWhileFilling, PlayerSteps
<1>1. CASE get_next_song_info
  BY <1>1 DEF get_next_song_info
<1>2. CASE WaitNotEmpty
  BY <1>2 DEF WaitNotEmpty
<1>3. CASE SongOver
  BY <1>3 DEF SongOver
<1>4. CASE do_delete
  BY <1>4 DEF do_delete
<1> QED
  BY <1>1, <1>2, <1>3, <1>4 DEF PlayerStep

(* The manager never overfills the playlist.                               *)
THEOREM PlaylistStaysBounded == Spec => []PlaylistBounded
<1>1. FillInv /\ [Next]_vars => FillInv'
  <2> SUFFICES ASSUME FillInv, [Next]_vars PROVE FillInv'
    OBVIOUS
  <2>1. CASE UNCHANGED vars
    BY <2>1 DEF vars, FillInv, TypeOK, PlaylistBounded, WantedLast, RoomWhileFilling
  <2> QED
    BY <2>1, SetupKeepsFill, ManagerKeepsFill, TakersKeepFill DEF Next
<1>2. FillInv => PlaylistBounded
  BY DEF FillInv
<1> QED
  BY <1>1, <1>2, InitFill, PTL DEF Spec

=============================================================================
