----------------------------- MODULE GuestMutex -----------------------------
(***************************************************************************)
(* struct GuestMutex of src/hle/libkernel_sync.cpp and the two functions   *)
(* every mutex call of the guest ends in, MutexLockImpl and                *)
(* MutexUnlockImpl.  A host object has an owner, a recursion count, a type *)
(* and a FIFO of blocked threads; its std::mutex m is held for the whole   *)
(* of each function except inside cv.wait, so a call is one action up to   *)
(* the point where it blocks and one more when it wakes up.                *)
(*                                                                         *)
(* The condition variable is modelled as the C++ standard gives it: a      *)
(* thread in cv.wait is asleep until a notify reaches it, may also wake    *)
(* for no reason, and on waking re-evaluates its predicate.                *)
(***************************************************************************)
EXTENDS Naturals, Sequences, SequencesExt

CONSTANTS Threads,        \* identities returned by CurrentTlsIdentity
          Objs,           \* host GuestMutex objects
          NoThread,       \* owner = 0
          NoObj,          \* "not blocked on any mutex"
          Modes,          \* the ways into MutexLockImpl the guest uses
          Types,          \* the mutex types it uses
          MaxRecursion    \* bound: how deep the guest re-locks one mutex

\* INFINITE, try_only, and a finite timeout.
AllModes == {"lock", "try", "timed"}

MutexTypes == {"ErrorCheck", "Recursive", "Normal", "AdaptiveNp"}

ASSUME GuestMutexAssumption ==
    /\ NoThread \notin Threads
    /\ NoObj \notin Objs
    /\ Modes \subseteq AllModes
    /\ Types \subseteq MutexTypes
    /\ MaxRecursion \in Nat \ {0}

VARIABLES owner,       \* GuestMutex::owner
          recursion,   \* GuestMutex::recursion
          mtype,       \* GuestMutex::type
          waiters,     \* GuestMutex::waiters
          blocked,     \* the object whose cv the thread waits on, or NoObj
          timed,       \* that wait is the wait_for of a timed lock
          sleeping,    \* threads inside cv.wait that no notify has reached
          held         \* what the guest is entitled to: counted locks minus unlocks,
                          \* of the calls that returned 0

objVars   == <<owner, recursion, mtype, waiters>>
waitVars  == <<blocked, timed, sleeping>>
mutexVars == <<owner, recursion, mtype, waiters, blocked, timed, sleeping, held>>

Ready(t) == blocked[t] = NoObj

-----------------------------------------------------------------------------
MutexAcquireLocked(o, t) ==
    /\ owner' = [owner EXCEPT ![o] = t]
    /\ recursion' = [recursion EXCEPT ![o] = 1]

\* Variants of the handoff for the mutant runs: the owner field is cleared and
\* the head is only woken; the newest waiter is served first; one waiter is
\* notified instead of all.
HandoffWakeOnly(o) ==
    /\ owner' = [owner EXCEPT ![o] = NoThread]
    /\ recursion' = [recursion EXCEPT ![o] = 0]
    /\ sleeping' = sleeping \ {u \in Threads : blocked[u] = o}
    /\ UNCHANGED waiters

HandoffToLast(o) ==
    /\ owner' = [owner EXCEPT ![o] = IF waiters[o] = <<>> THEN NoThread ELSE Last(waiters[o])]
    /\ recursion' = [recursion EXCEPT ![o] = IF waiters[o] = <<>> THEN 0 ELSE 1]
    /\ waiters' = [waiters EXCEPT ![o] = IF @ = <<>> THEN @ ELSE Front(@)]
    /\ sleeping' = sleeping \ {u \in Threads : blocked[u] = o}

HandoffNotifyOne(o) ==
    /\ owner' = [owner EXCEPT ![o] = IF waiters[o] = <<>> THEN NoThread ELSE Head(waiters[o])]
    /\ recursion' = [recursion EXCEPT ![o] = IF waiters[o] = <<>> THEN 0 ELSE 1]
    /\ waiters' = [waiters EXCEPT ![o] = IF @ = <<>> THEN @ ELSE Tail(@)]
    /\ \/ \E u \in sleeping : blocked[u] = o /\ sleeping' = sleeping \ {u}
       \/ (\A u \in sleeping : blocked[u] # o) /\ UNCHANGED sleeping

\* The last unlock: the head waiter becomes the owner in the same critical
\* section, and notify_all wakes everybody blocked on this object.
MutexHandoffLocked(o) ==
    /\ IF waiters[o] # <<>>
       THEN /\ owner' = [owner EXCEPT ![o] = Head(waiters[o])]
            /\ waiters' = [waiters EXCEPT ![o] = Tail(@)]
            /\ recursion' = [recursion EXCEPT ![o] = 1]
       ELSE /\ owner' = [owner EXCEPT ![o] = NoThread]
            /\ recursion' = [recursion EXCEPT ![o] = 0]
            /\ UNCHANGED waiters
    /\ sleeping' = sleeping \ {u \in Threads : blocked[u] = o}

\* The owner locks again: counted for Recursive (and for Normal unless it is
\* a trylock); every other combination returns 0, EBUSY or EDEADLK and
\* changes nothing.
CountsRelock(o, mode) ==
    \/ mtype[o] = "Recursive"
    \/ mtype[o] = "Normal" /\ mode # "try"

LockAgain(t, o, mode) ==
    /\ owner[o] = t
    /\ IF CountsRelock(o, mode)
       THEN /\ recursion[o] < MaxRecursion
            /\ recursion' = [recursion EXCEPT ![o] = @ + 1]
            /\ held' = [held EXCEPT ![t][o] = @ + 1]
       ELSE UNCHANGED <<recursion, held>>
    /\ UNCHANGED <<owner, mtype, waiters, blocked, timed, sleeping>>

\* A free mutex is taken at once, by a blocking lock only if nobody queues.
MayTake(o, mode) == owner[o] = NoThread /\ (mode = "try" \/ waiters[o] = <<>>)

LockFree(t, o, mode) ==
    /\ MayTake(o, mode)
    /\ MutexAcquireLocked(o, t)
    /\ held' = [held EXCEPT ![t][o] = 1]
    /\ UNCHANGED <<mtype, waiters, blocked, timed, sleeping>>

\* Otherwise a trylock returns EBUSY (no change) and the others join the FIFO.
Queue(t, o, isTimed) ==
    /\ waiters' = [waiters EXCEPT ![o] = Append(@, t)]
    /\ blocked' = [blocked EXCEPT ![t] = o]
    /\ timed' = [timed EXCEPT ![t] = isTimed]
    /\ sleeping' = sleeping \cup {t}

LockBusy(t, o, mode) ==
    /\ owner[o] # t
    /\ ~ MayTake(o, mode)
    /\ IF mode = "try"
       THEN UNCHANGED <<waiters, blocked, timed, sleeping>>
       ELSE Queue(t, o, mode = "timed")
    /\ UNCHANGED <<owner, recursion, mtype, held>>

MutexLockImpl(t, o, mode) ==
    LockAgain(t, o, mode) \/ LockFree(t, o, mode) \/ LockBusy(t, o, mode)

\* Variant for the mutant runs: unlock without the owner test.
UnlockByAnyone(t, o) ==
    IF recursion[o] = 0
    THEN UNCHANGED mutexVars
    ELSE /\ IF recursion[o] = 1
            THEN MutexHandoffLocked(o)
            ELSE /\ recursion' = [recursion EXCEPT ![o] = @ - 1]
                 /\ UNCHANGED <<owner, waiters, sleeping>>
         /\ held' = [held EXCEPT ![t][o] = @ - 1]
         /\ UNCHANGED <<mtype, blocked, timed>>

\* EINVAL when nobody holds it, EPERM when somebody else does: no change.
MutexUnlockImpl(t, o) ==
    IF recursion[o] = 0 \/ owner[o] # t
    THEN UNCHANGED mutexVars
    ELSE /\ IF recursion[o] = 1
            THEN MutexHandoffLocked(o)
            ELSE /\ recursion' = [recursion EXCEPT ![o] = @ - 1]
                 /\ UNCHANGED <<owner, waiters, sleeping>>
         /\ held' = [held EXCEPT ![t][o] = @ - 1]
         /\ UNCHANGED <<mtype, blocked, timed>>

-----------------------------------------------------------------------------
(* The blocked half of MutexLockImpl. *)

\* The predicate owner == tid holds: the lock call returns 0.  A timed wait
\* that expires re-evaluates the predicate and takes this path as well.
LockGranted(t) ==
    /\ blocked[t] # NoObj
    /\ owner[blocked[t]] = t
    /\ t \notin sleeping \/ timed[t]
    /\ held' = [held EXCEPT ![t][blocked[t]] = 1]
    /\ blocked' = [blocked EXCEPT ![t] = NoObj]
    /\ timed' = [timed EXCEPT ![t] = FALSE]
    /\ sleeping' = sleeping \ {t}
    /\ UNCHANGED <<owner, recursion, mtype, waiters>>

\* The first position of t in the FIFO of o, as std::find returns it.
PositionOf(t, o) ==
    CHOOSE i \in 1 .. Len(waiters[o]) : waiters[o][i] = t

\* Variant for the mutant runs: the caller gives up but stays in the FIFO.
TimedOutStaysQueued(t) ==
    /\ blocked[t] # NoObj
    /\ timed[t]
    /\ owner[blocked[t]] # t
    /\ blocked' = [blocked EXCEPT ![t] = NoObj]
    /\ timed' = [timed EXCEPT ![t] = FALSE]
    /\ sleeping' = sleeping \ {t}
    /\ UNCHANGED <<owner, recursion, mtype, waiters, held>>

\* wait_for expired without a grant: leave the FIFO and return ETIMEDOUT.
LockTimedOut(t) ==
    /\ blocked[t] # NoObj
    /\ timed[t]
    /\ owner[blocked[t]] # t
    /\ waiters' = [waiters EXCEPT ![blocked[t]] = RemoveAt(@, PositionOf(t, blocked[t]))]
    /\ blocked' = [blocked EXCEPT ![t] = NoObj]
    /\ timed' = [timed EXCEPT ![t] = FALSE]
    /\ sleeping' = sleeping \ {t}
    /\ UNCHANGED <<owner, recursion, mtype, held>>

\* Woken for somebody else's grant: the predicate fails, sleep again.
SleepAgain(t) ==
    /\ blocked[t] # NoObj
    /\ t \notin sleeping
    /\ owner[blocked[t]] # t
    /\ sleeping' = sleeping \cup {t}
    /\ UNCHANGED <<owner, recursion, mtype, waiters, blocked, timed, held>>

\* The C++ library may wake a waiter without a notify.
SpuriousWake(t) ==
    /\ t \in sleeping
    /\ sleeping' = sleeping \ {t}
    /\ UNCHANGED <<owner, recursion, mtype, waiters, blocked, timed, held>>

-----------------------------------------------------------------------------
GuestMutexInit ==
    /\ owner = [o \in Objs |-> NoThread]
    /\ recursion = [o \in Objs |-> 0]
    /\ mtype \in [Objs -> Types]
    /\ waiters = [o \in Objs |-> <<>>]
    /\ blocked = [t \in Threads |-> NoObj]
    /\ timed = [t \in Threads |-> FALSE]
    /\ sleeping = {}
    /\ held = [t \in Threads |-> [o \in Objs |-> 0]]

Lock(t, o, mode) == Ready(t) /\ MutexLockImpl(t, o, mode)
Unlock(t, o)     == Ready(t) /\ MutexUnlockImpl(t, o)

GuestMutexNext ==
    \E t \in Threads :
        \/ \E o \in Objs : Unlock(t, o) \/ \E mode \in Modes : Lock(t, o, mode)
        \/ LockGranted(t)
        \/ LockTimedOut(t)
        \/ SleepAgain(t)
        \/ SpuriousWake(t)

GuestMutexSpec == GuestMutexInit /\ [][GuestMutexNext]_mutexVars

-----------------------------------------------------------------------------
(* Properties. *)

\* The type invariant of the mutex objects and of the threads blocked on them.
GuestMutexTypeOK ==
    /\ owner \in [Objs -> Threads \cup {NoThread}]
    /\ recursion \in [Objs -> Nat]
    /\ mtype \in [Objs -> Types]
    /\ waiters \in [Objs -> Seq(Threads)]
    /\ blocked \in [Threads -> Objs \cup {NoObj}]
    /\ timed \in [Threads -> BOOLEAN]
    /\ sleeping \in SUBSET Threads
    /\ held \in [Threads -> [Objs -> Nat]]

\* At most one thread has had its lock calls on a mutex return 0 without a
\* matching unlock, whatever the types, the timeouts and the order of wake-ups.
MutualExclusion ==
    \A o \in Objs : \A t, u \in Threads :
        held[t][o] > 0 /\ held[u][o] > 0 => t = u

\* "the mutex is never observable as free-with-waiter" (comment above
\* MutexHandoffLocked): the fast path of lock refuses that state for ever.
NeverFreeWithWaiter ==
    \A o \in Objs : owner[o] = NoThread => waiters[o] = <<>>

\* Ownership handed over by an unlock always reaches a caller that takes it:
\* the owner either believes it holds the mutex or is still inside the lock
\* call and has been notified.  A timed-out caller is never the owner.
GrantReachesCaller ==
    \A o \in Objs : \A t \in Threads :
        owner[o] = t => \/ held[t][o] > 0
                        \/ blocked[t] = o /\ (t \notin sleeping \/ timed[t])

\* Every thread blocked in a lock call is in the FIFO of that mutex exactly
\* once, or has just been made its owner.
WaitersAreQueuedOnce ==
    \A o \in Objs : \A t \in Threads :
        LET places == {i \in 1 .. Len(waiters[o]) : waiters[o][i] = t}
        IN  IF blocked[t] = o /\ owner[o] # t
            THEN \E i \in places : places = {i}
            ELSE places = {}

\* The refinement: the owner followed by the FIFO is the queue of FifoLock,
\* so a blocked thread is served in the order of arrival and never overtaken.
LockQueue == [o \in Objs |-> IF owner[o] = NoThread THEN <<>> ELSE <<owner[o]>> \o waiters[o]]

Fifo == INSTANCE FifoLock WITH Locks <- Objs, queue <- LockQueue

ImplementsFifoLock == Fifo!FifoSpec
=============================================================================
