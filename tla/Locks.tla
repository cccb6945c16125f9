------------------------------- MODULE Locks -------------------------------
(***************************************************************************)
(* Threads that take and release the locks of include/global.h.  What a    *)
(* thread does between two moments at which it holds nothing is a program: *)
(* a sequence of operations, each of which takes some locks or drops some. *)
(* Which programs there are is left to SquashLocks; the order of the locks *)
(* is the one doc/LOCKS prescribes.                                        *)
(*                                                                         *)
(* database_info.lock is a read/write lock.  A claim says which lock is    *)
(* held and whether it is shared.  pthread_rwlock_t is used with default   *)
(* attributes: a reader waits for a writer that holds the lock, not for    *)
(* one that waits for it.                                                  *)
(***************************************************************************)
EXTENDS Naturals, Sequences, FiniteSets

CONSTANTS Threads,      \* the threads of the process
          Locks,        \* the locks
          Rank,         \* their order: a lock of higher rank is taken later
          Programs,     \* for each thread, the programs it may run
          MaxBusy       \* bound: threads inside a program at the same time

Claims == [lock : Locks, shared : BOOLEAN]
Operations == [take : SUBSET Claims, drop : SUBSET Claims]

ASSUME RankAssumption ==
    /\ IsFiniteSet(Locks)
    /\ Rank \in [Locks -> 1..Cardinality(Locks)]

ASSUME ProgramsAssumption ==
    /\ DOMAIN Programs = Threads
    /\ \A t \in Threads : \A p \in Programs[t] : p \in Seq(Operations)

VARIABLES program,      \* the program each thread is running
          at,           \* the operation of it that comes next
          held          \* the claims each thread holds

lockVars == <<program, at, held>>

Busy(t) == program[t] # <<>>

\* The claims the thread must get before it can go on.
Wants(t) == IF Busy(t) THEN program[t][at[t]].take ELSE {}

Conflict(a, b) == a.lock = b.lock /\ ~(a.shared /\ b.shared)

\* u holds what t is waiting for.  A mutex is not recursive, so u may be t.
Blocks(u, t) == \E a \in Wants(t), b \in held[u] : Conflict(a, b)

LocksInit ==
    /\ program = [t \in Threads |-> <<>>]
    /\ at = [t \in Threads |-> 1]
    /\ held = [t \in Threads |-> {}]

\* A thread comes to the next function it has to execute.
Begin(t, p) ==
    /\ ~Busy(t)
    /\ held[t] = {}
    /\ Cardinality({u \in Threads : Busy(u)}) < MaxBusy
    /\ program' = [program EXCEPT ![t] = p]
    /\ at' = [at EXCEPT ![t] = 1]
    /\ UNCHANGED held

\* pthread_mutex_lock() and pthread_rwlock_*lock(), which wait, and the unlocks.
Operate(t) ==
    /\ Busy(t)
    /\ \A u \in Threads : ~Blocks(u, t)
    /\ LET op == program[t][at[t]]
       IN  held' = [held EXCEPT ![t] = (@ \cup op.take) \ op.drop]
    /\ IF at[t] = Len(program[t])
         THEN at' = [at EXCEPT ![t] = 1] /\ program' = [program EXCEPT ![t] = <<>>]
         ELSE at' = [at EXCEPT ![t] = @ + 1] /\ UNCHANGED program

LocksNext == \E t \in Threads : Operate(t) \/ \E p \in Programs[t] : Begin(t, p)

LocksSpec == LocksInit /\ [][LocksNext]_lockVars

-----------------------------------------------------------------------------

\* Every lock a thread waits for comes after the locks it holds: doc/LOCKS, "if you
\* need to hold more than one lock, you may only grab them in the order shown".
OrderKept ==
    \A t \in Threads : \A a \in Wants(t), b \in held[t] : Rank[b.lock] < Rank[a.lock]

\* No group of threads waits in a circle: in every group there is a thread that
\* nobody of the group keeps waiting, so the process as a whole cannot lock up.
NoCircularWait ==
    \A T \in SUBSET {t \in Threads : Busy(t)} :
        T # {} => \E t \in T : \A u \in T : ~Blocks(u, t)

-----------------------------------------------------------------------------
(***************************************************************************)
(* The order as a property of the text of a program: what has been taken   *)
(* and not dropped before operation n ranks below what operation n takes.  *)
(***************************************************************************)
HeldBefore(p, n) ==
    {a \in Claims : \E m \in 1..(n - 1) :
        a \in p[m].take /\ \A k \in m..(n - 1) : a \notin p[k].drop}

Ordered(p) ==
    \A n \in 1..Len(p) : \A a \in p[n].take, b \in HeldBefore(p, n) :
        Rank[b.lock] < Rank[a.lock]

AllOrdered == \A t \in Threads : \A p \in Programs[t] : Ordered(p)
=============================================================================
