------------------------------- MODULE Rwlock -------------------------------
(***************************************************************************)
(* Guest read-write locks of src/hle/libkernel_sync.cpp: a Windows SRW     *)
(* lock that does the waiting, and two atomics, readers and writer, from   *)
(* which unlock guesses the mode it has to release.  The handlers take no  *)
(* lock of their own, so every access is a step.  Unlock does not ask who  *)
(* calls it: a thread that holds nothing may give back what others hold,   *)
(* and misused records the locks that this happened to.                    *)
(***************************************************************************)
EXTENDS Integers, Sequences, FiniteSets

CONSTANTS Threads, Locks, NoLock,
          Symbols   \* the guest symbols the threads call

VARIABLES shared,    \* srw: how many times it is acquired in shared mode
          exclusive, \* srw: it is acquired in exclusive mode
          readers,   \* GuestRwlock::readers, a u32: -n stands for 2^32 - n
          writer,    \* GuestRwlock::writer
          pc,        \* where a thread is in its call
          lock,      \* ... about which lock
          symbol,    \* ... and through which guest symbol
          holds,     \* per thread and lock, what its calls that returned 0 gave it
          misused    \* locks of which a thread took away what others had acquired

vars == <<shared, exclusive, readers, writer, pc, lock, symbol, holds, misused>>
srw  == <<shared, exclusive>>

\* RegisterLibKernelSync, in its order: guest symbol and handler.
Registrations == <<
    <<"scePthreadRwlockRdlock", "Rdlock">>, <<"scePthreadRwlockWrlock", "Wrlock">>,
    <<"scePthreadRwlockTrywrlock", "Trywrlock">>, <<"scePthreadRwlockTryrdlock", "Tryrdlock">>,
    <<"pthread_rwlock_trywrlock", "Trywrlock">>, <<"pthread_rwlock_tryrdlock", "Tryrdlock">>,
    <<"pthread_rwlock_rdlock", "Rdlock">>, <<"pthread_rwlock_tryrdlock", "Rdlock">>,
    <<"pthread_rwlock_wrlock", "Wrlock">>, <<"pthread_rwlock_trywrlock", "Wrlock">> >>

\* RegisterSymbol replaces the handler of a key it has: the last one wins.
Handler(name) ==
    LET last == CHOOSE i \in 1 .. Len(Registrations) :
                    /\ Registrations[i][1] = name
                    /\ \A j \in i + 1 .. Len(Registrations) : Registrations[j][1] # name
    IN  Registrations[last][2]

SharedFree(l)    == ~ exclusive[l]
ExclusiveFree(l) == ~ exclusive[l] /\ shared[l] = 0

Goto(t, label) == pc' = [pc EXCEPT ![t] = label]

-----------------------------------------------------------------------------
\* A thread that does not hold l calls one of the acquiring symbols; a try
\* handler that does not get the SRW lock returns EBUSY.
Call(t, l, name) ==
    LET h == Handler(name)
    IN  /\ pc[t] = "guest" /\ holds[t][l] = "no"
        /\ lock' = [lock EXCEPT ![t] = l]
        /\ symbol' = [symbol EXCEPT ![t] = name]
        /\ \/ h = "Rdlock" /\ Goto(t, "acquireShared") /\ UNCHANGED srw
           \/ h = "Wrlock" /\ Goto(t, "acquireExclusive") /\ UNCHANGED srw
           \/ /\ h = "Tryrdlock" /\ SharedFree(l)
              /\ Goto(t, "countReader")
              /\ shared' = [shared EXCEPT ![l] = @ + 1]
              /\ UNCHANGED exclusive
           \/ /\ h = "Trywrlock" /\ ExclusiveFree(l)
              /\ Goto(t, "setWriter")
              /\ exclusive' = [exclusive EXCEPT ![l] = TRUE]
              /\ UNCHANGED shared
           \/ h = "Tryrdlock" /\ ~ SharedFree(l) /\ UNCHANGED <<pc, srw>>
           \/ h = "Trywrlock" /\ ~ ExclusiveFree(l) /\ UNCHANGED <<pc, srw>>
        /\ UNCHANGED <<readers, writer, holds, misused>>

AcquireSRWLockShared(t) ==
    /\ pc[t] = "acquireShared" /\ SharedFree(lock[t])
    /\ shared' = [shared EXCEPT ![lock[t]] = @ + 1]
    /\ Goto(t, "countReader")
    /\ UNCHANGED <<exclusive, readers, writer, lock, symbol, holds, misused>>

\* Variant for the mutant runs: any shared holder is overlooked.
AcquireOverReaders(t) ==
    /\ pc[t] = "acquireExclusive" /\ ~ exclusive[lock[t]]
    /\ exclusive' = [exclusive EXCEPT ![lock[t]] = TRUE]
    /\ Goto(t, "setWriter")
    /\ UNCHANGED <<shared, readers, writer, lock, symbol, holds, misused>>

AcquireSRWLockExclusive(t) ==
    /\ pc[t] = "acquireExclusive" /\ ExclusiveFree(lock[t])
    /\ exclusive' = [exclusive EXCEPT ![lock[t]] = TRUE]
    /\ Goto(t, "setWriter")
    /\ UNCHANGED <<shared, readers, writer, lock, symbol, holds, misused>>

\* Variant for the mutant runs: the reader is not counted.
ReaderUncounted(t) ==
    /\ pc[t] = "countReader"
    /\ holds' = [holds EXCEPT ![t][lock[t]] = "read"]
    /\ Goto(t, "guest")
    /\ UNCHANGED <<shared, exclusive, readers, writer, lock, symbol, misused>>

\* readers.fetch_add(1), and the call returns.
CountReader(t) ==
    /\ pc[t] = "countReader"
    /\ readers' = [readers EXCEPT ![lock[t]] = @ + 1]
    /\ holds' = [holds EXCEPT ![t][lock[t]] = "read"]
    /\ Goto(t, "guest")
    /\ UNCHANGED <<shared, exclusive, writer, lock, symbol, misused>>

\* writer.store(true), and the call returns.
SetWriter(t) ==
    /\ pc[t] = "setWriter"
    /\ writer' = [writer EXCEPT ![lock[t]] = TRUE]
    /\ holds' = [holds EXCEPT ![t][lock[t]] = "write"]
    /\ Goto(t, "guest")
    /\ UNCHANGED <<shared, exclusive, readers, lock, symbol, misused>>

\* t takes away what others acquired on l, having acquired nothing there.
Misuse(t, l) == misused' = IF holds[t][l] = "no" THEN misused \cup {l} ELSE misused

\* Variant for the mutant runs: the flag is read and left set.
UnlockKeepsFlag(t, l) ==
    /\ pc[t] = "guest"
    /\ lock' = [lock EXCEPT ![t] = l]
    /\ \/ writer[l] /\ Goto(t, "releaseExclusive") /\ Misuse(t, l)
       \/ ~ writer[l] /\ Goto(t, "loadReaders") /\ UNCHANGED misused
    /\ UNCHANGED <<shared, exclusive, readers, writer, symbol, holds>>

\* Unlock by any thread: writer.exchange(false) decides the mode.
Unlock(t, l) ==
    /\ pc[t] = "guest"
    /\ lock' = [lock EXCEPT ![t] = l]
    /\ writer' = [writer EXCEPT ![l] = FALSE]
    /\ \/ writer[l] /\ Goto(t, "releaseExclusive") /\ Misuse(t, l)
       \/ ~ writer[l] /\ Goto(t, "loadReaders") /\ UNCHANGED misused
    /\ UNCHANGED <<shared, exclusive, readers, symbol, holds>>

\* readers.load() > 0, or the unlock is dropped with a warning.
LoadReaders(t) ==
    /\ pc[t] = "loadReaders"
    /\ \/ /\ readers[lock[t]] # 0
          /\ Goto(t, "subtractReader") /\ Misuse(t, lock[t]) /\ UNCHANGED holds
       \/ /\ readers[lock[t]] = 0
          /\ Goto(t, "guest") /\ holds' = [holds EXCEPT ![t][lock[t]] = "no"] /\ UNCHANGED misused
    /\ UNCHANGED <<shared, exclusive, readers, writer, lock, symbol>>

SubtractReader(t) ==
    /\ pc[t] = "subtractReader"
    /\ readers' = [readers EXCEPT ![lock[t]] = @ - 1]
    /\ Goto(t, "releaseShared")
    /\ UNCHANGED <<shared, exclusive, writer, lock, symbol, holds, misused>>

\* ReleaseSRWLockExclusive or ReleaseSRWLockShared ends the call.
Release(t) ==
    LET l == lock[t]
    IN  /\ \/ /\ pc[t] = "releaseExclusive"
              /\ exclusive' = [exclusive EXCEPT ![l] = FALSE] /\ UNCHANGED shared
           \/ /\ pc[t] = "releaseShared" /\ shared[l] > 0
              /\ shared' = [shared EXCEPT ![l] = @ - 1] /\ UNCHANGED exclusive
        /\ holds' = [holds EXCEPT ![t][l] = "no"]
        /\ Goto(t, "guest")
        /\ UNCHANGED <<readers, writer, lock, symbol, misused>>

\* Two unlocks that both saw the last reader: the second releases an SRW lock that
\* is not acquired, which is undefined; the thread is followed no further.
ReleaseOfNothing(t) ==
    /\ pc[t] = "releaseShared" /\ shared[lock[t]] = 0
    /\ Goto(t, "undefined")
    /\ UNCHANGED <<shared, exclusive, readers, writer, lock, symbol, holds, misused>>

\* A program that gave back what it did not hold may wait for ever.
MisuseBlocks == misused # {} /\ UNCHANGED vars

-----------------------------------------------------------------------------
Init ==
    /\ shared = [l \in Locks |-> 0] /\ exclusive = [l \in Locks |-> FALSE]
    /\ readers = [l \in Locks |-> 0] /\ writer = [l \in Locks |-> FALSE]
    /\ pc = [t \in Threads |-> "guest"]
    /\ lock = [t \in Threads |-> NoLock]
    /\ symbol = [t \in Threads |-> "none"]
    /\ holds = [t \in Threads |-> [l \in Locks |-> "no"]]
    /\ misused = {}

Next ==
    \/ MisuseBlocks
    \/ \E t \in Threads :
        \/ \E l \in Locks : Unlock(t, l) \/ \E name \in Symbols : Call(t, l, name)
        \/ AcquireSRWLockShared(t) \/ AcquireSRWLockExclusive(t)
        \/ CountReader(t) \/ SetWriter(t)
        \/ LoadReaders(t) \/ SubtractReader(t) \/ Release(t) \/ ReleaseOfNothing(t)

Spec == Init /\ [][Next]_vars

-----------------------------------------------------------------------------
(* Properties. *)

\* The type invariant of the SRW lock, the two atomics and the calls.
TypeOK ==
    /\ shared \in [Locks -> Nat] /\ exclusive \in [Locks -> BOOLEAN]
    /\ readers \in [Locks -> Int] /\ writer \in [Locks -> BOOLEAN]
    /\ pc \in [Threads -> {"guest", "acquireShared", "acquireExclusive", "countReader", "setWriter", "loadReaders",
                           "subtractReader", "releaseShared", "releaseExclusive", "undefined"}]
    /\ lock \in [Threads -> Locks \cup {NoLock}]
    /\ symbol \in [Threads -> Symbols \cup {"none"}]
    /\ holds \in [Threads -> [Locks -> {"no", "read", "write"}]]
    /\ misused \subseteq Locks

\* While a thread may write under the lock no other thread may read or write, until
\* a thread gives back what it does not hold.
WriterExcludesAll ==
    \A l \in Locks \ misused : \A t, u \in Threads :
        holds[t][l] = "write" /\ holds[u][l] # "no" => t = u

\* The mode unlock guesses from the two atomics, between other threads' steps,
\* is the mode in which the calling thread acquired (releasing an SRW lock in
\* the other mode is undefined), and the unlock of a reader is never dropped as
\* an "unlock of unlocked lock"; until a thread gives back what it does not hold.
UnlockReleasesWhatWasAcquired ==
    \A t \in Threads : lock[t] \in Locks \ misused =>
        /\ pc[t] = "releaseExclusive" => holds[t][lock[t]] = "write"
        /\ pc[t] \in {"subtractReader", "releaseShared"} => holds[t][lock[t]] = "read"
        /\ pc[t] = "loadReaders" => holds[t][lock[t]] # "write"
        /\ pc[t] \in {"loadReaders", "subtractReader"} /\ holds[t][lock[t]] = "read" => readers[lock[t]] > 0
        /\ pc[t] # "undefined"

\* A lock that no call returned with has nothing an unlock could take: a thread that
\* unlocks it is sent away and disturbs no call that is acquiring it.
UnlockOfAFreeLockIsDropped ==
    \A l \in Locks \ misused :
        (\A t \in Threads : holds[t][l] = "no") => ~ writer[l] /\ readers[l] = 0

\* Whoever calls unlock, and however often: what one writer acquired is given back
\* once, while it is acquired, and the next writer's flag is still to come.
ExclusiveIsGivenBackOnce ==
    \A t \in Threads : pc[t] = "releaseExclusive" =>
        /\ exclusive[lock[t]] /\ ~ writer[lock[t]]
        /\ \A u \in Threads \ {t} : lock[u] = lock[t] => pc[u] \notin {"setWriter", "releaseExclusive"}
=============================================================================
