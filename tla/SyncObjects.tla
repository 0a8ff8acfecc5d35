---------------------------- MODULE SyncObjects ----------------------------
(***************************************************************************)
(* The synchronisation objects of src/hle/libkernel_sync.cpp, and the      *)
(* guards of static variables of src/hle/liblibc.cpp, side by side.        *)
(* Each kind of object has a map, a lock and condition variables of its    *)
(* own and no handler touches two kinds, so a behaviour that uses several  *)
(* kinds is an interleaving of behaviours that use one: kind picks the one *)
(* the guest program uses, and an invariant of each kind alone is an       *)
(* invariant of them all together.                                         *)
(***************************************************************************)
EXTENDS Naturals, FiniteSets, Sequences, TLC

CONSTANTS Threads, NoThread,                  \* guest threads; owner = 0
          Handles, NoHandle,                  \* handles of semaphores, flags, queues
          Waits,                              \* among "none", "poll", "timed"
          MaxCount, MaxNeed, MaxSignals,      \* bounds of kernel semaphores
          Vars, NoVar, MaxPosts,              \* sem_t variables; bound on their posts
          Bits, WaitArgs, MaxSets,            \* bits and waits of event flags; bound
          Idents, Filters, MaxSlots, MaxArms, \* the arguments of event queues; bounds
          Locks, NoLock, Symbols,             \* rwlocks and the guest symbols used
          Onces,                              \* once-control variables
          Waiters, Wakers, Addrs, Values, Entries, NoEntry, NoAddr,
          Objs, NoObj, MaxRecursion, MaxLevels, \* kernel mutexes; bounds
          MutexObjs, Zero, Adaptive \* heap blocks and static initialisers of mutexes

\* The names of nothing name nothing, the bounds let something happen, and the
\* waits are those the calls take.
ASSUME SyncObjectsAssumption ==
    /\ NoThread \notin Threads /\ NoHandle \notin Handles /\ NoVar \notin Vars
    /\ NoLock \notin Locks /\ NoEntry \notin Entries /\ NoAddr \notin Addrs
    /\ NoObj \notin Objs \cup MutexObjs /\ {Zero, Adaptive} \cap MutexObjs = {} /\ Zero # Adaptive
    /\ IsFiniteSet(Threads) /\ IsFiniteSet(Waiters) /\ Waiters \cap Wakers = {}
    /\ {MaxCount, MaxNeed, MaxRecursion, MaxLevels} \subseteq Nat \ {0}
    /\ {MaxSignals, MaxPosts, MaxSets, MaxSlots, MaxArms} \subseteq Nat
    /\ Waits \subseteq {"none", "poll", "timed"} /\ 0 \in Values
    /\ WaitArgs \subseteq [pattern : SUBSET Bits, test : {"and", "or"},
                            clear : {"keep", "pattern", "all"}, timo : {"none", "poll", "timed"}]

VARIABLES kind,  \* the kind of object the guest program uses
          semas, sema_created, sema_count, max_count, sema_pc, sema, n, sema_timo,
          sema_asleep, signals,
          sems, posixsem_count, posixsem_pc, sem, posixsem_asleep, posixsem_posts,
          eflags, flag_created, bits, flag_pc, flag, arg, flag_asleep, sets, flag_unspent,
          equeues, queue_created, events, queue_pc, eq, key, slots, queue_timo,
          queue_asleep, queue_posts, queue_unspent, empty,
          shared, exclusive, readers, writer, rwlock_pc, lock, symbol, holds, misused,
          done, stack, runs, completed,
          guard, g_guard_in_progress, guard_pc, wants, guard_asleep, guard_runs,
          word, map, counted, address_pc, addr, entry, isTimed, address_asleep, target,
          owner, recursion, mtype, waiters, held, blocked, timed, sleeping,
          call, handle, wanted, taken, before,
          mutex_word, mutexes, var, op, step, token,
          mutex_owner, mutex_recursion, mutex_type, mutex_waiters, mutex_held,
          mutex_blocked, mutex_timed, mutex_sleeping

semaVars     == <<semas, sema_created, sema_count, max_count, sema_pc, sema, n,
                  sema_timo, sema_asleep, signals>>
posixsemVars == <<sems, posixsem_count, posixsem_pc, sem, posixsem_asleep, posixsem_posts>>
flagVars     == <<eflags, flag_created, bits, flag_pc, flag, arg, flag_asleep, sets, flag_unspent>>
queueVars    == <<equeues, queue_created, events, queue_pc, eq, key, slots, queue_timo,
                  queue_asleep, queue_posts, queue_unspent, empty>>
rwlockVars   == <<shared, exclusive, readers, writer, rwlock_pc, lock, symbol, holds, misused>>
onceVars     == <<done, stack, runs, completed, guard, g_guard_in_progress, guard_pc, wants,
                  guard_asleep, guard_runs>>
addressVars  == <<word, map, counted, address_pc, addr, entry, isTimed, address_asleep, target>>
kmutexVars   == <<owner, recursion, mtype, waiters, held, blocked, timed, sleeping,
                  call, handle, wanted, taken, before>>
variableVars == <<mutex_word, mutexes, var, op, step, token, mutex_owner, mutex_recursion,
                  mutex_type, mutex_waiters, mutex_held, mutex_blocked, mutex_timed, mutex_sleeping>>
vars == <<kind, semaVars, posixsemVars, flagVars, queueVars, rwlockVars, onceVars,
          addressVars, kmutexVars, variableVars>>

Sema == INSTANCE KernelSema
            WITH created <- sema_created, count <- sema_count, pc <- sema_pc, timo <- sema_timo,
                 asleep <- sema_asleep, Kinds <- Waits, MaxLife <- MaxSignals
Posix == INSTANCE PosixSem
            WITH count <- posixsem_count, pc <- posixsem_pc, asleep <- posixsem_asleep,
                 posts <- posixsem_posts
Flag == INSTANCE EventFlag
            WITH created <- flag_created, pc <- flag_pc, asleep <- flag_asleep,
                 unspent <- flag_unspent
Queue == INSTANCE EventQueue
            WITH created <- queue_created, pc <- queue_pc, timo <- queue_timo, asleep <- queue_asleep,
                 posts <- queue_posts, unspent <- queue_unspent, Kinds <- Waits, MaxPosts <- MaxArms
Rw == INSTANCE Rwlock WITH pc <- rwlock_pc
Once == INSTANCE PthreadOnce
Address == INSTANCE AddressWait WITH pc <- address_pc, asleep <- address_asleep
Kmutex == INSTANCE MutexCalls
            WITH Modes <- {"lock", "try"}, Types <- {"Recursive"}, word <- mutex_word
Variable == INSTANCE MutexCalls
            WITH Objs <- MutexObjs, Modes <- {"lock", "timed"}, Types <- {"ErrorCheck", "AdaptiveNp"},
                 MaxRecursion <- 1, word <- mutex_word, owner <- mutex_owner,
                 recursion <- mutex_recursion, mtype <- mutex_type, waiters <- mutex_waiters,
                 held <- mutex_held, blocked <- mutex_blocked, timed <- mutex_timed,
                 sleeping <- mutex_sleeping

-----------------------------------------------------------------------------
Init ==
    /\ kind \in {"sema", "posixsem", "flag", "queue", "rwlock", "once", "guard", "address", "mutex", "variable"}
    /\ Sema!Init /\ Posix!Init /\ Flag!Init /\ Queue!Init
    /\ Rw!Init /\ Once!Init /\ Address!Init /\ Kmutex!KernelMutexInit
    /\ Variable!MutexVariablesInit
    \* of the kinds that are not used one initial state is enough
    /\ kind # "variable" => /\ \A v \in Vars : mutex_word[v] = Zero
                            /\ \A o \in MutexObjs : mutex_type[o] = "ErrorCheck"

Next ==
    \/ /\ kind = "sema" /\ Sema!Next
       /\ UNCHANGED <<kind, posixsemVars, flagVars, queueVars, rwlockVars, onceVars, addressVars, kmutexVars,
                      variableVars>>
    \/ /\ kind = "posixsem" /\ Posix!Next
       /\ UNCHANGED <<kind, semaVars, flagVars, queueVars, rwlockVars, onceVars, addressVars, kmutexVars,
                      variableVars>>
    \/ /\ kind = "flag" /\ Flag!Next
       /\ UNCHANGED <<kind, semaVars, posixsemVars, queueVars, rwlockVars, onceVars, addressVars, kmutexVars,
                      variableVars>>
    \/ /\ kind = "queue" /\ Queue!Next
       /\ UNCHANGED <<kind, semaVars, posixsemVars, flagVars, rwlockVars, onceVars, addressVars, kmutexVars,
                      variableVars>>
    \/ /\ kind = "rwlock" /\ Rw!Next
       /\ UNCHANGED <<kind, semaVars, posixsemVars, flagVars, queueVars, onceVars, addressVars, kmutexVars,
                      variableVars>>
    \/ /\ \/ kind = "once" /\ Once!OnceNext
          \/ kind = "guard" /\ Once!GuardNext
       /\ UNCHANGED <<kind, semaVars, posixsemVars, flagVars, queueVars, rwlockVars, addressVars, kmutexVars,
                      variableVars>>
    \/ /\ kind = "address" /\ Address!Next
       /\ UNCHANGED <<kind, semaVars, posixsemVars, flagVars, queueVars, rwlockVars, onceVars, kmutexVars,
                      variableVars>>
    \/ /\ kind = "mutex" /\ Kmutex!KernelMutexNext
       /\ UNCHANGED <<kind, semaVars, posixsemVars, flagVars, queueVars, rwlockVars, onceVars, addressVars,
                      variableVars>>
    \/ /\ kind = "variable" /\ Variable!MutexVariablesNext
       /\ UNCHANGED <<kind, semaVars, posixsemVars, flagVars, queueVars, rwlockVars, onceVars, addressVars,
                      kmutexVars>>

Spec == Init /\ [][Next]_vars

-----------------------------------------------------------------------------
(* Properties. *)

\* The type invariants of the objects of every kind.
SyncObjectsTypeOK ==
    /\ Sema!TypeOK /\ Posix!TypeOK /\ Flag!TypeOK /\ Queue!TypeOK
    /\ Rw!TypeOK /\ Address!TypeOK /\ Kmutex!KernelMutexTypeOK
    /\ Variable!MutexVariablesTypeOK

\* No thread is left asleep on an object that would satisfy it: a signal, set,
\* post or trigger changes the object under its lock and notifies later (or one
\* waiter only), and whoever is then to wake the sleeper is still on its way; and
\* the count that wake(n) trusts is the number of threads waiting on the entry.
NoWakeupIsLost ==
    /\ Sema!SleeperHasSignaller
    /\ Posix!EveryPermitHasATaker
    /\ Flag!SleeperHasSetter
    /\ Queue!SleeperHasNotifier
    /\ Once!GuardSleeperIsWoken
    /\ Address!CountedIsWaiting

\* What is raised once is consumed once: one set of a bit releases one wait that
\* clears it, one post of an event delivers it once, however many waiters woke.
EachPostServesOneWait ==
    /\ Flag!BitReleasesOneClearingWait
    /\ Queue!DeliveredOncePerPost

\* A wait on an event queue without a timeout never comes back with no event.
UntimedWaitDelivers == Queue!UntimedWaitDelivers

\* While a thread may write under a read-write lock no other reads or writes, and
\* unlock releases the lock in the mode in which the calling thread acquired it,
\* although it only looks at two shared atomics; an unlock by a thread that holds
\* nothing changes nothing of a lock that nobody holds; and from the first time
\* that such an unlock finds something to take the writer's lock is still given
\* back once only, and only while it is acquired.
ReadersAndWriterStayApart ==
    /\ Rw!WriterExcludesAll /\ Rw!UnlockReleasesWhatWasAcquired
    /\ Rw!UnlockOfAFreeLockIsDropped /\ Rw!ExclusiveIsGivenBackOnce

\* The init routine of a once-control variable is started once at most, and a
\* guarded static variable is initialised to the end once at most.
InitRunsAtMostOnce == Once!InitRunsAtMostOnce /\ Once!GuardCompletesOnce

\* A counted kernel lock takes all of its levels or, timed out, none.
LockIsAllOrNothing == Kmutex!LockIsAllOrNothing

\* However many threads make the first call on a statically initialised mutex
\* variable at once, initialise or destroy it: one object is made for it and no
\* two variables share one, and nobody holds or waits for an object that is freed.
OneObjectPerVariable == Variable!OneObjectPerVariable /\ Variable!NoUseAfterDestroy

\* A mutex variable is a FIFO lock from its first use to its destruction,
\* whichever object stands behind it at the time.
VariablesAreFifoLocks == Variable!VariablesAreFifoLocks

-----------------------------------------------------------------------------
(* The instance for TLC. *)

\* Waits on event flags that compete for bits, of both tests, with every way of
\* clearing and every kind of timeout.
MCWaitArgs ==
    { [pattern |-> {1},    test |-> "and", clear |-> "pattern", timo |-> "none"],
      [pattern |-> {1, 2}, test |-> "or",  clear |-> "pattern", timo |-> "none"],
      [pattern |-> {1, 2}, test |-> "and", clear |-> "all",     timo |-> "timed"],
      [pattern |-> {2},    test |-> "and", clear |-> "keep",    timo |-> "poll"] }

\* Threads are interchangeable.
SyncSymmetry == Permutations(Threads)
=============================================================================
