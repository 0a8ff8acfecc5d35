------------------------- MODULE GuestThreadsProofs -------------------------
(***************************************************************************)
(* Proofs about guest threads: the registry they are kept in, and their    *)
(* waits on condition variables.                                           *)
(*                                                                         *)
(* The registry, for any set of ids and any size: a stack can only be      *)
(* freed under running guest code by an action of another thread, so the   *)
(* invariant says which of creator, joiner, killer and host thread may be  *)
(* where at the same time.                                                 *)
(*                                                                         *)
(* Condition variables and mutexes together, for any set of threads,       *)
(* mutexes and condition variables: seen from the mutex every step of      *)
(* PthreadCond is a step of the mutex or none, entering a wait is the last *)
(* unlock, coming back from one is a lock.  So the inductive invariant of  *)
(* the mutex carries over, and what has to be added is that a thread       *)
(* inside CondWaitImpl is out of reach of every mutex.                     *)
(***************************************************************************)
EXTENDS GuestThreads, PthreadCond, MutexCallsProofs, FiniteSetTheorems

\* An entry and the memory of its thread come and go together.
EntryOwnsMemory == memory = threads

\* Until the host thread is started nobody but its creator knows the id.
UnknownBeforeStart ==
    \A i \in Ids :
        /\ creator[i] \in {"none", "starting"} =>
              /\ host[i] = "none" /\ joiner[i] = "none"
              /\ i \notin is_running /\ i \notin is_joined /\ i \notin detached /\ i \notin killer
        /\ creator[i] = "none" => i \notin threads
        /\ creator[i] = "starting" => i \in threads

\* A thread is joined or detached, and the joiner that waits has marked it.
JoinExcludesDetach ==
    \A i \in Ids : /\ joiner[i] # "none" => i \in is_joined
                   /\ i \in is_joined => i \notin detached

\* A join closes the handle after the host thread has ended, which has an entry
\* as long as it runs guest code.
EndedBeforeClosed ==
    \A i \in Ids : /\ joiner[i] = "closed" => host[i] = "ended"
                   /\ host[i] = "running" => i \in threads

\* Whoever ends a thread has closed its wake event before.
WakeEventOfTheLiving ==
    \A i \in Ids : host[i] \in {"left", "ended"} \/ i \in killer => i \notin wake_event

RegistryInv ==
    /\ TypeOK
    /\ IsFiniteSet(threads)
    /\ EntryOwnsMemory
    /\ UnknownBeforeStart
    /\ JoinExcludesDetach
    /\ EndedBeforeClosed
    /\ WakeEventOfTheLiving

-----------------------------------------------------------------------------
\* Only CreateThread makes the registry larger.
LEMMA SizeLemma ==
    ASSUME RegistryInv, threads' \subseteq threads
    PROVE  IsFiniteSet(threads') /\ Cardinality(threads') <= kMaxThreads
<1>1. IsFiniteSet(threads) /\ Cardinality(threads) <= kMaxThreads
    BY DEF RegistryInv, TypeOK
<1>2. IsFiniteSet(threads') /\ Cardinality(threads') <= Cardinality(threads)
    BY <1>1, FS_Subset
<1>3. Cardinality(threads) \in Nat /\ Cardinality(threads') \in Nat
    BY <1>1, <1>2, FS_CardinalityType
<1> QED
    BY <1>1, <1>2, <1>3, GuestThreadsAssumption

\* The empty registry satisfies the invariant, and each step below keeps it.
LEMMA RegistryInitInv == Init => RegistryInv
<1> SUFFICES ASSUME Init PROVE RegistryInv
    OBVIOUS
<1>1. IsFiniteSet(threads) /\ Cardinality(threads) <= kMaxThreads
    BY FS_EmptySet, GuestThreadsAssumption DEF Init
<1>2. TypeOK
    BY <1>1 DEF Init, TypeOK
<1> QED
    BY <1>1, <1>2 DEF Init, RegistryInv, EntryOwnsMemory, UnknownBeforeStart, JoinExcludesDetach,
        EndedBeforeClosed, WakeEventOfTheLiving

LEMMA RegistryStutterInv ==
    ASSUME RegistryInv, UNCHANGED vars PROVE RegistryInv'
    BY DEF vars, flags, RegistryInv, TypeOK, EntryOwnsMemory, UnknownBeforeStart,
        JoinExcludesDetach, EndedBeforeClosed, WakeEventOfTheLiving

-----------------------------------------------------------------------------
(* One lemma per action of the registry. *)

LEMMA AddEntryKeepsInv ==
    ASSUME NEW i \in Ids, RegistryInv, AddEntry(i) PROVE RegistryInv'
<1> USE DEF AddEntry, flags, RegistryInv
<1>1. IsFiniteSet(threads') /\ Cardinality(threads') <= kMaxThreads
    <2>1. IsFiniteSet(threads) /\ Cardinality(threads) \in Nat
        BY FS_CardinalityType
    <2>2. /\ IsFiniteSet(threads \cup {i})
          /\ \/ Cardinality(threads \cup {i}) = Cardinality(threads)
             \/ Cardinality(threads \cup {i}) = Cardinality(threads) + 1
        BY <2>1, FS_AddElement, Zenon
    <2> QED
        BY <2>1, <2>2, GuestThreadsAssumption
<1>2. TypeOK'
    BY <1>1 DEF TypeOK
<1>3. EntryOwnsMemory'
    BY DEF EntryOwnsMemory
<1>4. UnknownBeforeStart'
    BY DEF TypeOK, UnknownBeforeStart
<1>5. JoinExcludesDetach'
    BY DEF JoinExcludesDetach
<1>6. EndedBeforeClosed'
    BY DEF EndedBeforeClosed
<1>7. WakeEventOfTheLiving'
    BY DEF UnknownBeforeStart, WakeEventOfTheLiving
<1> QED
    BY <1>1, <1>2, <1>3, <1>4, <1>5, <1>6, <1>7

LEMMA StartHostThreadKeepsInv ==
    ASSUME NEW i \in Ids, RegistryInv, StartHostThread(i) PROVE RegistryInv'
<1> USE DEF StartHostThread, flags, RegistryInv
<1>1. IsFiniteSet(threads') /\ Cardinality(threads') <= kMaxThreads
    BY SizeLemma
<1>2. TypeOK'
    BY <1>1 DEF TypeOK
<1>3. EntryOwnsMemory'
    BY DEF EntryOwnsMemory
<1>4. UnknownBeforeStart'
    BY DEF TypeOK, UnknownBeforeStart
<1>5. JoinExcludesDetach'
    BY DEF JoinExcludesDetach
<1>6. EndedBeforeClosed'
    BY DEF UnknownBeforeStart, EndedBeforeClosed
<1>7. WakeEventOfTheLiving'
    BY DEF WakeEventOfTheLiving
<1> QED
    BY <1>1, <1>2, <1>3, <1>4, <1>5, <1>6, <1>7

LEMMA StartFailsKeepsInv ==
    ASSUME NEW i \in Ids, RegistryInv, StartFails(i) PROVE RegistryInv'
<1> USE DEF StartFails, flags, RegistryInv
<1>1. IsFiniteSet(threads') /\ Cardinality(threads') <= kMaxThreads
    BY SizeLemma
<1>2. TypeOK'
    BY <1>1 DEF TypeOK, UnknownBeforeStart
<1>3. EntryOwnsMemory'
    BY DEF EntryOwnsMemory
<1>4. UnknownBeforeStart'
    BY DEF TypeOK, UnknownBeforeStart
<1>5. JoinExcludesDetach'
    BY DEF JoinExcludesDetach
<1>6. EndedBeforeClosed'
    BY DEF UnknownBeforeStart, EndedBeforeClosed
<1>7. WakeEventOfTheLiving'
    BY DEF WakeEventOfTheLiving
<1> QED
    BY <1>1, <1>2, <1>3, <1>4, <1>5, <1>6, <1>7

LEMMA PublishHandleKeepsInv ==
    ASSUME NEW i \in Ids, RegistryInv, PublishHandle(i) PROVE RegistryInv'
<1> USE DEF PublishHandle, flags, RegistryInv
<1>1. IsFiniteSet(threads') /\ Cardinality(threads') <= kMaxThreads
    BY SizeLemma
<1>2. TypeOK'
    BY <1>1 DEF TypeOK
<1>3. EntryOwnsMemory'
    BY DEF EntryOwnsMemory
<1>4. UnknownBeforeStart'
    BY DEF UnknownBeforeStart
<1>5. JoinExcludesDetach'
    BY DEF JoinExcludesDetach
<1>6. EndedBeforeClosed'
    BY DEF EndedBeforeClosed
<1>7. WakeEventOfTheLiving'
    BY DEF WakeEventOfTheLiving
<1> QED
    BY <1>1, <1>2, <1>3, <1>4, <1>5, <1>6, <1>7

LEMMA PublishRunningKeepsInv ==
    ASSUME NEW i \in Ids, RegistryInv, PublishRunning(i) PROVE RegistryInv'
<1> USE DEF PublishRunning, flags, RegistryInv
<1>1. IsFiniteSet(threads') /\ Cardinality(threads') <= kMaxThreads
    BY SizeLemma
<1>2. TypeOK'
    BY <1>1 DEF TypeOK
<1>3. EntryOwnsMemory'
    BY DEF EntryOwnsMemory
<1>4. UnknownBeforeStart'
    BY DEF UnknownBeforeStart
<1>5. JoinExcludesDetach'
    BY DEF JoinExcludesDetach
<1>6. EndedBeforeClosed'
    BY DEF EndedBeforeClosed
<1>7. WakeEventOfTheLiving'
    BY DEF WakeEventOfTheLiving
<1> QED
    BY <1>1, <1>2, <1>3, <1>4, <1>5, <1>6, <1>7

LEMMA HandleThreadExitKeepsInv ==
    ASSUME NEW i \in Ids, RegistryInv, HandleThreadExit(i) PROVE RegistryInv'
<1> USE DEF HandleThreadExit, flags, Erase, RegistryInv
<1>1. IsFiniteSet(threads') /\ Cardinality(threads') <= kMaxThreads
    BY SizeLemma
<1>2. TypeOK'
    BY <1>1 DEF TypeOK
<1>3. EntryOwnsMemory'
    BY DEF EntryOwnsMemory
<1>4. UnknownBeforeStart'
    BY DEF UnknownBeforeStart
<1>5. JoinExcludesDetach'
    BY DEF JoinExcludesDetach
<1>6. EndedBeforeClosed'
    BY DEF TypeOK, EndedBeforeClosed
<1>7. WakeEventOfTheLiving'
    BY DEF WakeEventOfTheLiving
<1> QED
    BY <1>1, <1>2, <1>3, <1>4, <1>5, <1>6, <1>7

LEMMA HostThreadEndsKeepsInv ==
    ASSUME NEW i \in Ids, RegistryInv, HostThreadEnds(i) PROVE RegistryInv'
<1> USE DEF HostThreadEnds, flags, RegistryInv
<1>1. IsFiniteSet(threads') /\ Cardinality(threads') <= kMaxThreads
    BY SizeLemma
<1>2. TypeOK'
    BY <1>1 DEF TypeOK
<1>3. EntryOwnsMemory'
    BY DEF EntryOwnsMemory
<1>4. UnknownBeforeStart'
    BY DEF UnknownBeforeStart
<1>5. JoinExcludesDetach'
    BY DEF JoinExcludesDetach
<1>6. EndedBeforeClosed'
    BY DEF EndedBeforeClosed
<1>7. WakeEventOfTheLiving'
    BY DEF WakeEventOfTheLiving
<1> QED
    BY <1>1, <1>2, <1>3, <1>4, <1>5, <1>6, <1>7

LEMMA JoinThreadKeepsInv ==
    ASSUME NEW i \in Ids, RegistryInv, JoinThread(i) PROVE RegistryInv'
<1> USE DEF JoinThread, flags, Known, RegistryInv
<1>1. IsFiniteSet(threads') /\ Cardinality(threads') <= kMaxThreads
    BY SizeLemma
<1>2. TypeOK'
    BY <1>1 DEF TypeOK
<1>3. EntryOwnsMemory'
    BY DEF EntryOwnsMemory
<1>4. UnknownBeforeStart'
    BY DEF UnknownBeforeStart
<1>5. JoinExcludesDetach'
    BY DEF JoinExcludesDetach
<1>6. EndedBeforeClosed'
    BY DEF EndedBeforeClosed
<1>7. WakeEventOfTheLiving'
    BY DEF WakeEventOfTheLiving
<1> QED
    BY <1>1, <1>2, <1>3, <1>4, <1>5, <1>6, <1>7

LEMMA JoinClosesKeepsInv ==
    ASSUME NEW i \in Ids, RegistryInv, JoinCloses(i) PROVE RegistryInv'
<1> USE DEF JoinCloses, flags, RegistryInv
<1>1. IsFiniteSet(threads') /\ Cardinality(threads') <= kMaxThreads
    BY SizeLemma
<1>2. TypeOK'
    BY <1>1 DEF TypeOK
<1>3. EntryOwnsMemory'
    BY DEF EntryOwnsMemory
<1>4. UnknownBeforeStart'
    BY DEF UnknownBeforeStart
<1>5. JoinExcludesDetach'
    BY DEF JoinExcludesDetach
<1>6. EndedBeforeClosed'
    BY DEF EndedBeforeClosed
<1>7. WakeEventOfTheLiving'
    BY DEF WakeEventOfTheLiving
<1> QED
    BY <1>1, <1>2, <1>3, <1>4, <1>5, <1>6, <1>7

LEMMA JoinFreesKeepsInv ==
    ASSUME NEW i \in Ids, RegistryInv, JoinFrees(i) PROVE RegistryInv'
<1> USE DEF JoinFrees, flags, Erase, RegistryInv
<1>1. IsFiniteSet(threads') /\ Cardinality(threads') <= kMaxThreads
    BY SizeLemma
<1>2. TypeOK'
    BY <1>1 DEF TypeOK, EndedBeforeClosed, WakeEventOfTheLiving
<1>3. EntryOwnsMemory'
    BY DEF EntryOwnsMemory
<1>4. UnknownBeforeStart'
    BY DEF UnknownBeforeStart
<1>5. JoinExcludesDetach'
    BY DEF TypeOK, JoinExcludesDetach
<1>6. EndedBeforeClosed'
    BY DEF EndedBeforeClosed
<1>7. WakeEventOfTheLiving'
    BY DEF WakeEventOfTheLiving
<1> QED
    BY <1>1, <1>2, <1>3, <1>4, <1>5, <1>6, <1>7

LEMMA DetachThreadKeepsInv ==
    ASSUME NEW i \in Ids, RegistryInv, DetachThread(i) PROVE RegistryInv'
<1> USE DEF DetachThread, flags, Known, RegistryInv
<1>1. IsFiniteSet(threads') /\ Cardinality(threads') <= kMaxThreads
    BY SizeLemma
<1>2. TypeOK'
    BY <1>1 DEF TypeOK
<1>3. EntryOwnsMemory'
    BY DEF EntryOwnsMemory
<1>4. UnknownBeforeStart'
    BY DEF UnknownBeforeStart
<1>5. JoinExcludesDetach'
    BY DEF JoinExcludesDetach
<1>6. EndedBeforeClosed'
    BY DEF EndedBeforeClosed
<1>7. WakeEventOfTheLiving'
    BY DEF WakeEventOfTheLiving
<1> QED
    BY <1>1, <1>2, <1>3, <1>4, <1>5, <1>6, <1>7

LEMMA TerminateThreadKeepsInv ==
    ASSUME NEW i \in Ids, RegistryInv, TerminateThread(i) PROVE RegistryInv'
<1> USE DEF TerminateThread, flags, RegistryInv
<1>1. IsFiniteSet(threads') /\ Cardinality(threads') <= kMaxThreads
    BY SizeLemma
<1>2. TypeOK'
    BY <1>1 DEF TypeOK
<1>3. EntryOwnsMemory'
    BY DEF EntryOwnsMemory
<1>4. UnknownBeforeStart'
    BY DEF UnknownBeforeStart
<1>5. JoinExcludesDetach'
    BY DEF JoinExcludesDetach
<1>6. EndedBeforeClosed'
    BY DEF EndedBeforeClosed
<1>7. WakeEventOfTheLiving'
    BY DEF WakeEventOfTheLiving
<1> QED
    BY <1>1, <1>2, <1>3, <1>4, <1>5, <1>6, <1>7

LEMMA HostTerminatesKeepsInv ==
    ASSUME NEW i \in Ids, RegistryInv, HostTerminates(i) PROVE RegistryInv'
<1> USE DEF HostTerminates, flags, RegistryInv
<1>1. IsFiniteSet(threads') /\ Cardinality(threads') <= kMaxThreads
    BY SizeLemma
<1>2. TypeOK'
    BY <1>1 DEF TypeOK
<1>3. EntryOwnsMemory'
    BY DEF EntryOwnsMemory
<1>4. UnknownBeforeStart'
    BY DEF UnknownBeforeStart
<1>5. JoinExcludesDetach'
    BY DEF JoinExcludesDetach
<1>6. EndedBeforeClosed'
    BY DEF EndedBeforeClosed
<1>7. WakeEventOfTheLiving'
    BY DEF WakeEventOfTheLiving
<1> QED
    BY <1>1, <1>2, <1>3, <1>4, <1>5, <1>6, <1>7

-----------------------------------------------------------------------------
LEMMA RegistryNextInv == RegistryInv /\ [Next]_vars => RegistryInv'
    BY RegistryStutterInv, AddEntryKeepsInv, StartHostThreadKeepsInv, StartFailsKeepsInv,
       PublishHandleKeepsInv, PublishRunningKeepsInv, HandleThreadExitKeepsInv,
       HostThreadEndsKeepsInv, JoinThreadKeepsInv, JoinClosesKeepsInv, JoinFreesKeepsInv,
       DetachThreadKeepsInv, TerminateThreadKeepsInv, HostTerminatesKeepsInv DEF Next

\* The invariant of the registry, from which the properties follow.
THEOREM RegistryInvHolds == Spec => []RegistryInv
    BY RegistryInitInv, RegistryNextInv, PTL DEF Spec

\* The registry and the host threads are well typed, and the registry never
\* grows past kMaxThreads (the size test of CreateThread).
THEOREM RegistryTypeCorrect == Spec => []TypeOK
<1>1. RegistryInv => TypeOK
    BY DEF RegistryInv
<1> QED
    BY <1>1, RegistryInvHolds, PTL

\* The stack and TLS of a thread are there while it runs guest code, whatever
\* exit, join, detach and terminate do in whatever order (FreeThreadGuestMemory).
THEOREM MemoryOutlivesGuestCodeHolds == Spec => []MemoryOutlivesGuestCode
<1>1. RegistryInv => MemoryOutlivesGuestCode
    BY DEF RegistryInv, EntryOwnsMemory, EndedBeforeClosed, MemoryOutlivesGuestCode
<1> QED
    BY <1>1, RegistryInvHolds, PTL

\* The entry a join waits on stays until that join frees it (JoinThread).
THEOREM JoinedStaysUntilFreedHolds == Spec => []JoinedStaysUntilFreed
<1>1. RegistryInv => JoinedStaysUntilFreed
    BY DEF RegistryInv, TypeOK, EntryOwnsMemory, JoinExcludesDetach, JoinedStaysUntilFreed
<1> QED
    BY <1>1, RegistryInvHolds, PTL

-----------------------------------------------------------------------------
(* Condition variables: the inductive invariant. *)

\* The thread is between giving the mutex up and asking for it again.
Inside(t) == cwait[t] # NoCond \/ t \in reacquiring

\* Such a thread knows which mutex to come back for, is not in any FIFO and has
\* no mutex handed to it meanwhile.
InsideIsDetached ==
    \A t \in Threads : Inside(t) =>
        /\ cmutex[t] \in Objs
        /\ blocked[t] = NoObj
        /\ owner[cmutex[t]] # t

\* The wait has ended when the mutex is asked for.
ReacquiringIsAwake == \A t \in reacquiring : cwait[t] = NoCond

PthreadCondInv ==
    /\ GuestMutexInv
    /\ PthreadCondTypeOK
    /\ InsideIsDetached
    /\ ReacquiringIsAwake

-----------------------------------------------------------------------------
(* Every step is, for the mutex, a step of the mutex or none. *)

\* A wait that begins gives the mutex up as its last unlock does; a mutex that
\* was merely adopted had nobody waiting and stays as it was.
LEMMA WaitIsUnlock ==
    ASSUME NEW t \in Threads, NEW c \in Conds, NEW o \in Objs, NEW isTimed \in BOOLEAN,
           GuestMutexInv, CondWait(t, c, o, isTimed)
    PROVE  UNCHANGED mutexVars \/ Unlock(t, o)
<1> USE GuestMutexAssumption
<1>0. GuestMutexTypeOK /\ FreeIsUnused /\ HeldIsRecursion /\ BlockedAreQueued
    BY DEF GuestMutexInv
<1>1. CASE owner[o] = NoThread
    <2>1. /\ MutexHandoffLocked(o)
          /\ held' = [held EXCEPT ![t][o] = 0]
          /\ UNCHANGED <<mtype, blocked, timed>>
        BY <1>1 DEF CondWait
    <2>2. waiters[o] = <<>> /\ recursion[o] = 0
        BY <1>0, <1>1 DEF FreeIsUnused
    <2>3. \A u \in Threads : blocked[u] # o
        <3>1. \A u \in Threads : owner[o] # u
            BY <1>1
        <3>2. 1 .. Len(waiters[o]) = {}
            BY <2>2
        <3> QED
            BY <1>0, <3>1, <3>2 DEF BlockedAreQueued
    <2>4. owner' = owner /\ recursion' = recursion /\ waiters' = waiters /\ sleeping' = sleeping
        <3>1. /\ owner' = [owner EXCEPT ![o] = NoThread]
              /\ recursion' = [recursion EXCEPT ![o] = 0]
              /\ waiters' = waiters
              /\ sleeping' = sleeping \ {u \in Threads : blocked[u] = o}
            BY <2>1, <2>2 DEF MutexHandoffLocked
        <3> QED
            BY <1>0, <1>1, <2>2, <2>3, <3>1 DEF GuestMutexTypeOK
    <2>5. held' = held
        <3>1. held[t][o] = 0
            BY <1>0, <1>1 DEF HeldIsRecursion
        <3> QED
            BY <1>0, <2>1, <3>1 DEF GuestMutexTypeOK
    <2> QED
        BY <2>1, <2>4, <2>5 DEF mutexVars
<1>2. CASE owner[o] = t /\ recursion[o] = 1
    <2>1. /\ Ready(t) /\ MutexHandoffLocked(o)
          /\ held' = [held EXCEPT ![t][o] = 0]
          /\ UNCHANGED <<mtype, blocked, timed>>
        BY <1>2 DEF CondWait, InGuest
    <2>2. held[t][o] = 1
        BY <1>0, <1>2, <2>1 DEF HeldIsRecursion, Ready
    <2>3. held' = [held EXCEPT ![t][o] = @ - 1]
        BY <2>1, <2>2
    <2>4. ~ (recursion[o] = 0 \/ owner[o] # t)
        BY <1>2
    <2> QED
        BY <1>2, <2>1, <2>3, <2>4, Zenon DEF Unlock, MutexUnlockImpl
<1>3. CASE ~ (owner[o] = NoThread \/ (owner[o] = t /\ recursion[o] = 1))
    BY <1>3 DEF CondWait, allVars, mutexVars
<1> QED
    BY <1>1, <1>2, <1>3

\* A thread that comes back takes the free mutex or joins its FIFO, as a lock does.
LEMMA ReacquireIsLock ==
    ASSUME NEW t \in Threads, PthreadCondInv, CondReacquire(t)
    PROVE  cmutex[t] \in Objs /\ Lock(t, cmutex[t], "lock")
<1>1. cmutex[t] \in Objs /\ Ready(t)
    BY DEF CondReacquire, PthreadCondInv, InsideIsDetached, Inside, Ready
<1>2. MutexLockImpl(t, cmutex[t], "lock")
    BY DEF CondReacquire, MutexLockImpl, LockFree, LockBusy, MayTake
<1> QED
    BY <1>1, <1>2 DEF Lock

LEMMA StepIsMove ==
    ASSUME PthreadCondInv, [PthreadCondNext]_allVars PROVE [MutexMove]_mutexVars
<1> USE GuestMutexAssumption
<1>1. CASE UNCHANGED allVars
    BY <1>1 DEF allVars, mutexVars
<1>2. CASE MutexStep
    BY <1>2 DEF MutexStep, MutexMove
<1>3. ASSUME NEW t \in Threads, NEW c \in Conds, NEW o \in Objs, NEW isTimed \in BOOLEAN,
             CondWait(t, c, o, isTimed)
      PROVE  [MutexMove]_mutexVars
    BY <1>3, WaitIsUnlock DEF PthreadCondInv, MutexMove
<1>4. ASSUME NEW t \in Threads, CondReacquire(t) PROVE [MutexMove]_mutexVars
    <2>1. cmutex[t] \in Objs /\ Lock(t, cmutex[t], "lock") /\ "lock" \in AllModes
        BY <1>4, ReacquireIsLock DEF AllModes
    <2> QED
        BY <2>1 DEF MutexMove
<1>5. ASSUME NEW t \in Threads, NEW c \in Conds, NEW kind \in Notifies, CondSignal(t, c, kind)
      PROVE  [MutexMove]_mutexVars
    BY <1>5 DEF CondSignal
<1>6. ASSUME NEW t \in Threads,
             CondNotify(t) \/ CondWaitEnds(t) \/ CondSleepAgain(t) \/ CondSpuriousWake(t)
      PROVE  [MutexMove]_mutexVars
    BY <1>6 DEF CondNotify, CondWaitEnds, CondSleepAgain, CondSpuriousWake
<1> QED
    BY <1>1, <1>2, <1>3, <1>4, <1>5, <1>6 DEF PthreadCondNext

-----------------------------------------------------------------------------
(* The invariant is inductive. *)

LEMMA CondInitEstablishesInv == PthreadCondInit => PthreadCondInv
<1> SUFFICES ASSUME PthreadCondInit PROVE PthreadCondInv
    OBVIOUS
<1>1. GuestMutexInv
    BY InitEstablishesInv DEF PthreadCondInit
<1>2. PthreadCondTypeOK
    BY <1>1 DEF PthreadCondInit, PthreadCondTypeOK, GuestMutexInv
<1>3. InsideIsDetached /\ ReacquiringIsAwake
    BY DEF PthreadCondInit, InsideIsDetached, ReacquiringIsAwake, Inside
<1> QED
    BY <1>1, <1>2, <1>3 DEF PthreadCondInv

\* A mutex is only handed to a thread that queues for it, so no step of the mutex
\* on behalf of other threads makes t its owner while t is not in the FIFO, and
\* none moves t in or out of the FIFO.
LEMMA OthersLeaveAlone ==
    ASSUME NEW t \in Threads, NEW o \in Objs, GuestMutexInv, blocked[t] = NoObj, owner[o] # t,
           \/ UNCHANGED mutexVars
           \/ \E u \in Threads, p \in Objs : Unlock(u, p)
           \/ \E u \in Threads \ {t}, p \in Objs, mode \in AllModes : Lock(u, p, mode)
           \/ \E u \in Threads : LockGranted(u) \/ LockTimedOut(u) \/ SleepAgain(u) \/ SpuriousWake(u)
    PROVE  blocked'[t] = NoObj /\ owner'[o] # t
<1> USE GuestMutexAssumption
<1>0. GuestMutexTypeOK /\ QueuedAreBlocked
    BY DEF GuestMutexInv
<1>1. CASE UNCHANGED mutexVars
    BY <1>1 DEF mutexVars
<1>2. ASSUME NEW u \in Threads, NEW p \in Objs, Unlock(u, p)
      PROVE  blocked'[t] = NoObj /\ owner'[o] # t
    <2>1. blocked' = blocked
        BY <1>2 DEF Unlock, MutexUnlockImpl, mutexVars
    <2>2. CASE owner' = owner
        BY <2>1, <2>2
    <2>3. CASE owner' # owner
        <3>1. MutexHandoffLocked(p)
            BY <1>2, <2>3 DEF Unlock, MutexUnlockImpl, mutexVars
        <3>2. CASE waiters[p] = <<>>
            BY <1>0, <2>1, <3>1, <3>2 DEF MutexHandoffLocked, GuestMutexTypeOK
        <3>3. CASE waiters[p] # <<>>
            <4>1. waiters[p] \in Seq(Threads)
                BY <1>0 DEF GuestMutexTypeOK
            <4>2. 1 \in 1 .. Len(waiters[p]) /\ Head(waiters[p]) = waiters[p][1]
                BY <3>3, <4>1
            <4>3. Head(waiters[p]) # t
                BY <1>0, <4>2 DEF QueuedAreBlocked
            <4> QED
                BY <1>0, <2>1, <3>1, <3>3, <4>3 DEF MutexHandoffLocked, GuestMutexTypeOK
        <3> QED
            BY <3>2, <3>3
    <2> QED
        BY <2>2, <2>3
<1>3. ASSUME NEW u \in Threads \ {t}, NEW p \in Objs, NEW mode \in AllModes, Lock(u, p, mode)
      PROVE  blocked'[t] = NoObj /\ owner'[o] # t
    <2>1. CASE LockAgain(u, p, mode)
        BY <2>1 DEF LockAgain
    <2>2. CASE LockFree(u, p, mode)
        BY <1>0, <2>2 DEF LockFree, MutexAcquireLocked, GuestMutexTypeOK
    <2>3. CASE LockBusy(u, p, mode)
        BY <1>0, <2>3 DEF LockBusy, Queue, GuestMutexTypeOK
    <2> QED
        BY <1>3, <2>1, <2>2, <2>3 DEF Lock, MutexLockImpl
<1>4. ASSUME NEW u \in Threads, LockGranted(u) \/ LockTimedOut(u) \/ SleepAgain(u) \/ SpuriousWake(u)
      PROVE  blocked'[t] = NoObj /\ owner'[o] # t
    BY <1>0, <1>4 DEF LockGranted, LockTimedOut, SleepAgain, SpuriousWake, GuestMutexTypeOK
<1> QED
    BY <1>1, <1>2, <1>3, <1>4

LEMMA CondNextKeepsInv == PthreadCondInv /\ [PthreadCondNext]_allVars => PthreadCondInv'
<1> SUFFICES ASSUME PthreadCondInv, [PthreadCondNext]_allVars PROVE PthreadCondInv'
    OBVIOUS
<1> USE GuestMutexAssumption, PthreadCondAssumption
<1>0. GuestMutexInv /\ PthreadCondTypeOK /\ InsideIsDetached /\ ReacquiringIsAwake
    BY DEF PthreadCondInv
<1>1. GuestMutexInv'
    BY <1>0, StepIsMove, NextKeepsInv
<1>2. GuestMutexTypeOK'
    BY <1>1 DEF GuestMutexInv
<1>3. CASE UNCHANGED condVars /\ (UNCHANGED mutexVars \/ MutexStep)
    <2>1. PthreadCondTypeOK'
        BY <1>0, <1>2, <1>3 DEF PthreadCondTypeOK, condVars
    <2>2. ReacquiringIsAwake'
        BY <1>0, <1>3 DEF ReacquiringIsAwake, condVars
    <2>3. ASSUME NEW t \in Threads, Inside(t)'
          PROVE  cmutex'[t] \in Objs /\ blocked'[t] = NoObj /\ owner'[cmutex'[t]] # t
        <3>1. Inside(t) /\ cmutex' = cmutex
            BY <1>3, <2>3 DEF Inside, condVars
        <3>2. cmutex[t] \in Objs /\ blocked[t] = NoObj /\ owner[cmutex[t]] # t
            BY <1>0, <3>1 DEF InsideIsDetached
        <3>3. \/ UNCHANGED mutexVars
              \/ \E u \in Threads, p \in Objs : Unlock(u, p)
              \/ \E u \in Threads \ {t}, p \in Objs, mode \in AllModes : Lock(u, p, mode)
              \/ \E u \in Threads : LockGranted(u) \/ LockTimedOut(u) \/ SleepAgain(u) \/ SpuriousWake(u)
            BY <1>3, <3>1 DEF MutexStep, InGuest, Inside
        <3> QED
            BY <1>0, <3>1, <3>2, <3>3, OthersLeaveAlone
    <2> QED
        BY <1>1, <2>1, <2>2, <2>3 DEF PthreadCondInv, InsideIsDetached
<1>4. ASSUME NEW t \in Threads, NEW c \in Conds, NEW o \in Objs, NEW isTimed \in BOOLEAN,
             CondWait(t, c, o, isTimed)
      PROVE  PthreadCondInv'
    <2>1. CASE UNCHANGED allVars
        BY <1>3, <2>1 DEF allVars, condVars
    <2>2. CASE ~ UNCHANGED allVars
        <3>1. /\ InGuest(t)
              /\ owner[o] = NoThread \/ (owner[o] = t /\ recursion[o] = 1)
              /\ MutexHandoffLocked(o)
              /\ cwait' = [cwait EXCEPT ![t] = c]
              /\ cmutex' = [cmutex EXCEPT ![t] = o]
              /\ csample' = [csample EXCEPT ![t] = sequence[c]]
              /\ ctimed' = [ctimed EXCEPT ![t] = isTimed]
              /\ casleep' = casleep \cup {t}
              /\ UNCHANGED <<mtype, blocked, timed, sequence, reacquiring, notifying, ncond, due>>
            BY <1>4, <2>2 DEF CondWait
        <3>2. PthreadCondTypeOK'
            BY <1>0, <1>2, <3>1 DEF PthreadCondTypeOK
        <3>3. ReacquiringIsAwake'
            BY <1>0, <3>1 DEF ReacquiringIsAwake, InGuest, PthreadCondTypeOK
        <3>4. ASSUME NEW u \in Threads, Inside(u)'
              PROVE  cmutex'[u] \in Objs /\ blocked'[u] = NoObj /\ owner'[cmutex'[u]] # u
            <4>1. CASE u = t
                <5>1. cmutex'[u] = o /\ blocked'[u] = NoObj
                    BY <1>0, <3>1, <4>1 DEF PthreadCondTypeOK, InGuest, Ready
                <5>2. owner'[o] # t
                    <6>1. CASE waiters[o] = <<>>
                        BY <1>0, <3>1, <6>1 DEF MutexHandoffLocked, PthreadCondTypeOK, GuestMutexTypeOK
                    <6>2. CASE waiters[o] # <<>>
                        <7>1. waiters[o] \in Seq(Threads)
                            BY <1>0 DEF PthreadCondTypeOK, GuestMutexTypeOK
                        <7>2. 1 \in 1 .. Len(waiters[o]) /\ Head(waiters[o]) = waiters[o][1]
                            BY <6>2, <7>1
                        <7>3. blocked[Head(waiters[o])] = o
                            BY <1>0, <7>2 DEF GuestMutexInv, QueuedAreBlocked
                        <7>4. Head(waiters[o]) # t
                            BY <3>1, <7>3 DEF InGuest, Ready
                        <7> QED
                            BY <1>0, <3>1, <6>2, <7>4
                               DEF MutexHandoffLocked, PthreadCondTypeOK, GuestMutexTypeOK
                    <6> QED
                        BY <6>1, <6>2
                <5> QED
                    BY <4>1, <5>1, <5>2
            <4>2. CASE u # t
                <5>1. Inside(u) /\ cmutex'[u] = cmutex[u]
                    BY <1>0, <3>1, <3>4, <4>2 DEF Inside, PthreadCondTypeOK
                <5>2. cmutex[u] \in Objs /\ blocked[u] = NoObj /\ owner[cmutex[u]] # u
                    BY <1>0, <5>1 DEF InsideIsDetached
                <5>3. UNCHANGED mutexVars \/ Unlock(t, o)
                    BY <1>0, <1>4, WaitIsUnlock
                <5> QED
                    BY <1>0, <5>1, <5>2, <5>3, OthersLeaveAlone
            <4> QED
                BY <4>1, <4>2
        <3> QED
            BY <1>1, <3>2, <3>3, <3>4 DEF PthreadCondInv, InsideIsDetached
    <2> QED
        BY <2>1, <2>2
<1>5. ASSUME NEW t \in Threads, CondReacquire(t) PROVE PthreadCondInv'
    <2>1. /\ t \in reacquiring
          /\ reacquiring' = reacquiring \ {t}
          /\ UNCHANGED <<sequence, cwait, cmutex, csample, ctimed, casleep, notifying, ncond, due>>
        BY <1>5 DEF CondReacquire
    <2>2. PthreadCondTypeOK'
        BY <1>0, <1>2, <2>1 DEF PthreadCondTypeOK
    <2>3. ReacquiringIsAwake'
        BY <1>0, <2>1 DEF ReacquiringIsAwake
    <2>4. ASSUME NEW u \in Threads, Inside(u)'
          PROVE  cmutex'[u] \in Objs /\ blocked'[u] = NoObj /\ owner'[cmutex'[u]] # u
        <3>1. u # t /\ Inside(u) /\ cmutex' = cmutex
            BY <1>0, <2>1, <2>4 DEF Inside, ReacquiringIsAwake
        <3>2. cmutex[u] \in Objs /\ blocked[u] = NoObj /\ owner[cmutex[u]] # u
            BY <1>0, <3>1 DEF InsideIsDetached
        <3>3. cmutex[t] \in Objs /\ Lock(t, cmutex[t], "lock") /\ "lock" \in AllModes
            BY <1>5, ReacquireIsLock DEF AllModes
        <3> QED
            BY <1>0, <3>1, <3>2, <3>3, OthersLeaveAlone
    <2> QED
        BY <1>1, <2>2, <2>3, <2>4 DEF PthreadCondInv, InsideIsDetached
<1>6. ASSUME NEW t \in Threads, CondWaitEnds(t) PROVE PthreadCondInv'
    <2>1. /\ cwait[t] # NoCond
          /\ cwait' = [cwait EXCEPT ![t] = NoCond]
          /\ ctimed' = [ctimed EXCEPT ![t] = FALSE]
          /\ casleep' = casleep \ {t}
          /\ reacquiring' = reacquiring \cup {t}
          /\ due' = [u \in Threads |-> due[u] \ {t}]
          /\ UNCHANGED <<mutexVars, sequence, cmutex, csample, notifying, ncond>>
        BY <1>6 DEF CondWaitEnds
    <2>2. PthreadCondTypeOK'
        BY <1>0, <1>2, <2>1 DEF PthreadCondTypeOK
    <2>3. ReacquiringIsAwake' /\ InsideIsDetached'
        BY <1>0, <2>1 DEF ReacquiringIsAwake, InsideIsDetached, Inside, PthreadCondTypeOK, mutexVars
    <2> QED
        BY <1>1, <2>2, <2>3 DEF PthreadCondInv
<1>7. ASSUME NEW t \in Threads, NEW c \in Conds, NEW kind \in Notifies, CondSignal(t, c, kind)
      PROVE  PthreadCondInv'
    <2>1. /\ sequence' = [sequence EXCEPT ![c] = @ + 1]
          /\ notifying' = [notifying EXCEPT ![t] = kind]
          /\ ncond' = [ncond EXCEPT ![t] = c]
          /\ due' = [due EXCEPT ![t] = WaitersOn(c)]
          /\ UNCHANGED <<mutexVars, cwait, cmutex, csample, ctimed, casleep, reacquiring>>
        BY <1>7 DEF CondSignal
    <2>2. WaitersOn(c) \subseteq Threads
        BY DEF WaitersOn
    <2>3. PthreadCondTypeOK'
        BY <1>0, <1>2, <2>1, <2>2 DEF PthreadCondTypeOK
    <2>4. ReacquiringIsAwake' /\ InsideIsDetached'
        BY <1>0, <2>1 DEF ReacquiringIsAwake, InsideIsDetached, Inside, mutexVars
    <2> QED
        BY <1>1, <2>3, <2>4 DEF PthreadCondInv
<1>8. ASSUME NEW t \in Threads, CondNotify(t) \/ CondSleepAgain(t) \/ CondSpuriousWake(t)
      PROVE  PthreadCondInv'
    <2>1. /\ casleep' \in SUBSET Threads
          /\ notifying' = notifying \/ notifying' = [notifying EXCEPT ![t] = "none"]
          /\ UNCHANGED <<mutexVars, sequence, cwait, cmutex, csample, ctimed, reacquiring, ncond, due>>
        BY <1>0, <1>8 DEF CondNotify, CondSleepAgain, CondSpuriousWake, PthreadCondTypeOK
    <2>2. PthreadCondTypeOK'
        BY <1>0, <1>2, <2>1 DEF PthreadCondTypeOK
    <2>3. ReacquiringIsAwake' /\ InsideIsDetached'
        BY <1>0, <2>1 DEF ReacquiringIsAwake, InsideIsDetached, Inside, mutexVars
    <2> QED
        BY <1>1, <2>2, <2>3 DEF PthreadCondInv
<1> QED
    BY <1>3, <1>4, <1>5, <1>6, <1>7, <1>8 DEF PthreadCondNext, allVars, condVars, MutexStep

THEOREM CondInvariantHolds == PthreadCondSpec => []PthreadCondInv
    BY CondInitEstablishesInv, CondNextKeepsInv, PTL DEF PthreadCondSpec

-----------------------------------------------------------------------------
(* What follows for every reachable state. *)

\* Every reachable state of CondWaitImpl, the signals and the mutex is well typed.
THEOREM CondTypeCorrect == PthreadCondSpec => []PthreadCondTypeOK
<1>1. PthreadCondInv => PthreadCondTypeOK
    BY DEF PthreadCondInv
<1> QED
    BY <1>1, CondInvariantHolds, PTL

\* Whatever waits and signals come in between, two threads never hold one mutex ...
THEOREM CondMutualExclusion == PthreadCondSpec => []MutualExclusion
<1>1. PthreadCondInv => MutualExclusion
    BY InvExcludes DEF PthreadCondInv
<1> QED
    BY <1>1, CondInvariantHolds, PTL

\* ... a mutex given up by a wait is never left free while somebody queues ...
THEOREM CondNeverFreeWithWaiter == PthreadCondSpec => []NeverFreeWithWaiter
<1>1. PthreadCondInv => NeverFreeWithWaiter
    BY InvLeavesNoneWaiting DEF PthreadCondInv
<1> QED
    BY <1>1, CondInvariantHolds, PTL

\* ... and whoever it is handed to is awake to take it.
THEOREM CondGrantReachesCaller == PthreadCondSpec => []GrantReachesCaller
<1>1. PthreadCondInv => GrantReachesCaller
    BY InvReachesCaller DEF PthreadCondInv
<1> QED
    BY <1>1, CondInvariantHolds, PTL

\* A thread inside CondWaitImpl neither holds its mutex nor queues for one.
THEOREM WaiterHoldsNothingHolds == PthreadCondSpec => []WaiterHoldsNothing
<1>1. PthreadCondInv => WaiterHoldsNothing
    <2> SUFFICES ASSUME PthreadCondInv, NEW t \in Threads, Inside(t)
                 PROVE  blocked[t] = NoObj /\ held[t][cmutex[t]] = 0 /\ owner[cmutex[t]] # t
        BY DEF WaiterHoldsNothing, Inside
    <2>1. cmutex[t] \in Objs /\ blocked[t] = NoObj /\ owner[cmutex[t]] # t
        BY DEF PthreadCondInv, InsideIsDetached
    <2> QED
        BY <2>1 DEF PthreadCondInv, GuestMutexInv, HeldIsRecursion
<1> QED
    BY <1>1, CondInvariantHolds, PTL

\* With waits, time-outs and signals the mutex still is the FIFO lock of FifoLock:
\* a thread that comes back from a wait queues behind those that came before it.
THEOREM CondRefinesFifoLock == PthreadCondSpec => ImplementsFifoLock
<1>1. PthreadCondInit => Fifo!FifoInit
    BY InitMapsToFifoInit DEF PthreadCondInit
<1>2. PthreadCondInv /\ PthreadCondInv' /\ [PthreadCondNext]_allVars => [Fifo!FifoNext]_LockQueue
    BY StepIsMove, MoveMapsToFifoStep DEF PthreadCondInv
<1> QED
    BY <1>1, <1>2, CondInvariantHolds, PTL DEF PthreadCondSpec, ImplementsFifoLock, Fifo!FifoSpec
=============================================================================
