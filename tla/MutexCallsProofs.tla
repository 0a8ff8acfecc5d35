-------------------------- MODULE MutexCallsProofs --------------------------
(***************************************************************************)
(* Proofs about GuestMutex and the calls that are built on it, for any set *)
(* of threads and of mutexes.                                              *)
(*                                                                         *)
(* The mutex: its inductive invariant ties the four views of a mutex       *)
(* together, the owner field, the recursion count, the FIFO and what each  *)
(* thread is doing.                                                        *)
(*                                                                         *)
(* The calls made from MutexLockImpl and MutexUnlockImpl: the counted      *)
(* kernel mutexes and the lookup of mutex variables.  Every step of either *)
(* is, for the mutex, a step of the mutex or none, except that the         *)
(* variables also make new mutexes in blocks that nobody uses.             *)
(***************************************************************************)
EXTENDS MutexCalls, Integers, Sequences, SequencesExt, SequenceTheorems, TLAPS

-----------------------------------------------------------------------------
(* Facts about sequences. *)

\* Appending keeps every element in its place and adds one at the end.
LEMMA AppendLemma ==
    ASSUME NEW S, NEW w \in Seq(S), NEW e \in S
    PROVE  /\ Append(w, e) \in Seq(S)
           /\ Len(Append(w, e)) = Len(w) + 1
           /\ \A j \in 1 .. Len(w) : Append(w, e)[j] = w[j]
           /\ Append(w, e)[Len(w) + 1] = e
    OBVIOUS

\* Removing position i shortens the sequence by one and shifts what follows.
LEMMA RemoveAtLemma ==
    ASSUME NEW S, NEW w \in Seq(S), NEW i \in 1 .. Len(w)
    PROVE  /\ RemoveAt(w, i) \in Seq(S)
           /\ Len(RemoveAt(w, i)) = Len(w) - 1
           /\ \A j \in 1 .. Len(w) - 1 :
                 RemoveAt(w, i)[j] = IF j < i THEN w[j] ELSE w[j + 1]
<1> DEFINE a == SubSeq(w, 1, i - 1)
           b == SubSeq(w, i + 1, Len(w))
<1>1. Len(w) \in Nat /\ \A j \in 1 .. Len(w) : w[j] \in S
    BY LenProperties, ElementOfSeq
<1>2. /\ a \in Seq(S)
      /\ Len(a) = i - 1
      /\ \A j \in 1 .. i - 1 : a[j] = w[j]
    <2>1. \A j \in 1 .. i - 1 : w[j] \in S
        BY <1>1
    <2> QED
        BY <1>1, <2>1, SubSeqProperties
<1>3. /\ b \in Seq(S)
      /\ Len(b) = Len(w) - i
      /\ \A j \in 1 .. Len(w) - i : b[j] = w[i + j]
    <2>1. \A j \in i + 1 .. Len(w) : w[j] \in S
        BY <1>1
    <2>2. /\ b \in Seq(S)
          /\ Len(b) = IF i + 1 <= Len(w) THEN Len(w) - (i + 1) + 1 ELSE 0
          /\ \A j \in 1 .. Len(w) - (i + 1) + 1 : b[j] = w[i + 1 + j - 1]
        BY <1>1, <2>1, SubSeqProperties
    <2> QED
        BY <1>1, <2>2
<1>4. /\ a \o b \in Seq(S)
      /\ Len(a \o b) = (i - 1) + (Len(w) - i)
      /\ \A j \in 1 .. (i - 1) + (Len(w) - i) :
            (a \o b)[j] = IF j <= i - 1 THEN a[j] ELSE b[j - (i - 1)]
    <2> HIDE DEF a, b
    <2>1. /\ a \o b \in Seq(S)
          /\ Len(a \o b) = Len(a) + Len(b)
          /\ \A j \in 1 .. Len(a) + Len(b) :
                (a \o b)[j] = IF j <= Len(a) THEN a[j] ELSE b[j - Len(a)]
        <3>1. a \in Seq(S) /\ b \in Seq(S)
            BY <1>2, <1>3
        <3> QED
            BY <3>1, ConcatProperties, Zenon
    <2>2. Len(a) = i - 1 /\ Len(b) = Len(w) - i
        BY <1>2, <1>3
    <2> QED
        BY <2>1, <2>2
<1>5. RemoveAt(w, i) = a \o b
    BY DEF RemoveAt
<1> HIDE DEF a, b
<1>6. ASSUME NEW j \in 1 .. Len(w) - 1
      PROVE  (a \o b)[j] = IF j < i THEN w[j] ELSE w[j + 1]
    <2>1. CASE j < i
        BY <1>1, <1>2, <1>4, <2>1
    <2>2. CASE ~ (j < i)
        <3>1. j - (i - 1) \in 1 .. Len(w) - i
            BY <1>1, <2>2
        <3>2. (a \o b)[j] = b[j - (i - 1)]
            BY <1>1, <1>4, <2>2
        <3> QED
            BY <1>1, <1>3, <2>2, <3>1, <3>2
    <2> QED
        BY <2>1, <2>2
<1> QED
    BY <1>1, <1>4, <1>5, <1>6

-----------------------------------------------------------------------------
(* The inductive invariant. *)

\* A mutex is unowned exactly when its count is zero, and then nobody queues.
FreeIsUnused ==
    \A o \in Objs :
        /\ owner[o] = NoThread => waiters[o] = <<>> /\ recursion[o] = 0
        /\ owner[o] # NoThread => recursion[o] > 0

\* The guest's count of its own locks is the host's recursion count.
HeldIsRecursion ==
    \A o \in Objs : \A t \in Threads :
        held[t][o] = IF owner[o] = t /\ blocked[t] # o THEN recursion[o] ELSE 0

\* A thread that was handed the mutex while blocked has been notified.
GrantedIsAwake ==
    \A o \in Objs : \A t \in Threads :
        owner[o] = t /\ blocked[t] = o => recursion[o] = 1 /\ t \notin sleeping

\* The FIFO holds blocked threads that do not own the mutex ...
QueuedAreBlocked ==
    \A o \in Objs : \A i \in 1 .. Len(waiters[o]) :
        blocked[waiters[o][i]] = o /\ owner[o] # waiters[o][i]

\* ... it holds all of them ...
BlockedAreQueued ==
    \A o \in Objs : \A t \in Threads :
        blocked[t] = o /\ owner[o] # t => \E i \in 1 .. Len(waiters[o]) : waiters[o][i] = t

\* ... and none of them twice.
QueuedOnce ==
    \A o \in Objs : \A i, j \in 1 .. Len(waiters[o]) :
        waiters[o][i] = waiters[o][j] => i = j

GuestMutexInv ==
    /\ GuestMutexTypeOK
    /\ FreeIsUnused
    /\ HeldIsRecursion
    /\ GrantedIsAwake
    /\ QueuedAreBlocked
    /\ BlockedAreQueued
    /\ QueuedOnce

-----------------------------------------------------------------------------
LEMMA InitEstablishesInv == GuestMutexInit => GuestMutexInv
<1> SUFFICES ASSUME GuestMutexInit PROVE GuestMutexInv
    OBVIOUS
<1> USE GuestMutexAssumption DEF GuestMutexInit
<1>1. GuestMutexTypeOK
    BY DEF GuestMutexTypeOK
<1>2. FreeIsUnused /\ HeldIsRecursion /\ GrantedIsAwake
    BY DEF FreeIsUnused, HeldIsRecursion, GrantedIsAwake
<1>3. QueuedAreBlocked /\ BlockedAreQueued /\ QueuedOnce
    BY DEF QueuedAreBlocked, BlockedAreQueued, QueuedOnce
<1> QED
    BY <1>1, <1>2, <1>3 DEF GuestMutexInv

\* Nothing changes: every call that fails, and every stuttering step.
LEMMA StutterKeepsInv ==
    ASSUME GuestMutexInv, UNCHANGED mutexVars PROVE GuestMutexInv'
    BY DEF mutexVars, GuestMutexInv, GuestMutexTypeOK, FreeIsUnused, HeldIsRecursion,
           GrantedIsAwake, QueuedAreBlocked, BlockedAreQueued, QueuedOnce

\* Every action below changes held[t][o] for one thread and one mutex.
LEMMA HeldLemma ==
    ASSUME NEW t \in Threads, NEW o \in Objs, NEW k \in Nat,
           held \in [Threads -> [Objs -> Nat]],
           held' = [held EXCEPT ![t][o] = k]
    PROVE  /\ held' \in [Threads -> [Objs -> Nat]]
           /\ \A u \in Threads, p \in Objs :
                 held'[u][p] = IF u = t /\ p = o THEN k ELSE held[u][p]
    OBVIOUS

\* A relock by the owner changes at most its own two counts.
LEMMA LockAgainKeepsInv ==
    ASSUME NEW t \in Threads, NEW o \in Objs, NEW mode \in AllModes,
           GuestMutexInv, Ready(t), LockAgain(t, o, mode)
    PROVE  GuestMutexInv'
<1> USE GuestMutexAssumption DEF GuestMutexInv, GuestMutexTypeOK
<1>1. CASE CountsRelock(o, mode)
    <2>1. /\ owner[o] = t /\ blocked[t] = NoObj
          /\ recursion' = [recursion EXCEPT ![o] = @ + 1]
          /\ held' = [held EXCEPT ![t][o] = @ + 1]
          /\ UNCHANGED <<owner, mtype, waiters, blocked, timed, sleeping>>
        BY <1>1 DEF LockAgain, Ready
    <2>2. held' = [held EXCEPT ![t][o] = held[t][o] + 1] /\ held[t][o] + 1 \in Nat
        BY <2>1
    <2>3. /\ held' \in [Threads -> [Objs -> Nat]]
          /\ \A u \in Threads, p \in Objs :
                held'[u][p] = IF u = t /\ p = o THEN held[t][o] + 1 ELSE held[u][p]
        BY <2>2, HeldLemma
    <2>4. GuestMutexTypeOK'
        BY <2>1, <2>3
    <2>5. FreeIsUnused' /\ HeldIsRecursion' /\ GrantedIsAwake'
        BY <2>1, <2>3 DEF FreeIsUnused, HeldIsRecursion, GrantedIsAwake
    <2>6. QueuedAreBlocked' /\ BlockedAreQueued' /\ QueuedOnce'
        BY <2>1 DEF QueuedAreBlocked, BlockedAreQueued, QueuedOnce
    <2> QED
        BY <2>4, <2>5, <2>6
<1>2. CASE ~ CountsRelock(o, mode)
    <2>1. UNCHANGED mutexVars
        BY <1>2 DEF LockAgain, mutexVars
    <2> QED
        BY <2>1, StutterKeepsInv
<1> QED
    BY <1>1, <1>2

\* Taking a free mutex: it had no waiters, so the FIFO facts are untouched.
LEMMA LockFreeKeepsInv ==
    ASSUME NEW t \in Threads, NEW o \in Objs, NEW mode \in AllModes,
           GuestMutexInv, Ready(t), LockFree(t, o, mode)
    PROVE  GuestMutexInv'
<1> USE GuestMutexAssumption
<1>0. /\ GuestMutexTypeOK /\ FreeIsUnused /\ HeldIsRecursion /\ GrantedIsAwake
      /\ QueuedAreBlocked /\ BlockedAreQueued /\ QueuedOnce
    BY DEF GuestMutexInv
<1>1. /\ owner[o] = NoThread /\ blocked[t] = NoObj
      /\ owner' = [owner EXCEPT ![o] = t]
      /\ recursion' = [recursion EXCEPT ![o] = 1]
      /\ held' = [held EXCEPT ![t][o] = 1]
      /\ UNCHANGED <<mtype, waiters, blocked, timed, sleeping>>
    BY DEF LockFree, MayTake, MutexAcquireLocked, Ready
<1>2. /\ held' \in [Threads -> [Objs -> Nat]]
      /\ \A u \in Threads, p \in Objs :
            held'[u][p] = IF u = t /\ p = o THEN 1 ELSE held[u][p]
    BY <1>0, <1>1, HeldLemma DEF GuestMutexTypeOK
<1>3. 1 .. Len(waiters[o]) = {}
    BY <1>0, <1>1 DEF FreeIsUnused
<1>8. \A u \in Threads : blocked[u] # o
    BY <1>0, <1>1, <1>3 DEF BlockedAreQueued, GuestMutexTypeOK
<1>9. \A p \in Objs : p # o => owner'[p] = owner[p]
    BY <1>0, <1>1 DEF GuestMutexTypeOK
<1>4. GuestMutexTypeOK'
    BY <1>0, <1>1, <1>2 DEF GuestMutexTypeOK
<1>5. FreeIsUnused' /\ GrantedIsAwake'
    BY <1>0, <1>1, <1>3, <1>8 DEF GuestMutexTypeOK, FreeIsUnused, GrantedIsAwake
<1>6. HeldIsRecursion'
    BY <1>0, <1>1, <1>2, <1>8 DEF GuestMutexTypeOK, HeldIsRecursion
<1>7. QueuedAreBlocked' /\ BlockedAreQueued' /\ QueuedOnce'
    <2>1. QueuedAreBlocked'
        BY <1>0, <1>1, <1>3, <1>9 DEF QueuedAreBlocked
    <2>2. BlockedAreQueued'
        BY <1>0, <1>1, <1>8, <1>9 DEF BlockedAreQueued
    <2>3. QueuedOnce'
        BY <1>0, <1>1 DEF QueuedOnce
    <2> QED
        BY <2>1, <2>2, <2>3
<1> QED
    BY <1>4, <1>5, <1>6, <1>7 DEF GuestMutexInv

\* Joining the FIFO: the newcomer is in it once, behind everybody else.
LEMMA LockBusyKeepsInv ==
    ASSUME NEW t \in Threads, NEW o \in Objs, NEW mode \in AllModes,
           GuestMutexInv, Ready(t), LockBusy(t, o, mode)
    PROVE  GuestMutexInv'
<1> USE GuestMutexAssumption
<1>0. /\ GuestMutexTypeOK /\ FreeIsUnused /\ HeldIsRecursion /\ GrantedIsAwake
      /\ QueuedAreBlocked /\ BlockedAreQueued /\ QueuedOnce
    BY DEF GuestMutexInv
<1>1. CASE mode = "try"
    <2>1. UNCHANGED mutexVars
        BY <1>1 DEF LockBusy, mutexVars
    <2> QED
        BY <2>1, StutterKeepsInv
<1>2. CASE mode # "try"
    <2>1. /\ owner[o] # t /\ blocked[t] = NoObj
          /\ waiters' = [waiters EXCEPT ![o] = Append(waiters[o], t)]
          /\ blocked' = [blocked EXCEPT ![t] = o]
          /\ timed' = [timed EXCEPT ![t] = (mode = "timed")]
          /\ sleeping' = sleeping \cup {t}
          /\ UNCHANGED <<owner, recursion, mtype, held>>
        BY <1>2 DEF LockBusy, Queue, Ready
    <2>2. owner[o] # NoThread
        BY <1>0, <1>2 DEF LockBusy, MayTake, FreeIsUnused
    <2>3. waiters[o] \in Seq(Threads) /\ Len(waiters[o]) \in Nat
        BY <1>0 DEF GuestMutexTypeOK
    <2>4. /\ waiters'[o] \in Seq(Threads)
          /\ Len(waiters'[o]) = Len(waiters[o]) + 1
          /\ \A j \in 1 .. Len(waiters[o]) : waiters'[o][j] = waiters[o][j]
          /\ waiters'[o][Len(waiters[o]) + 1] = t
          /\ \A p \in Objs : p # o => waiters'[p] = waiters[p]
        <3>1. waiters'[o] = Append(waiters[o], t) /\ \A p \in Objs : p # o => waiters'[p] = waiters[p]
            BY <1>0, <2>1 DEF GuestMutexTypeOK
        <3>2. /\ Append(waiters[o], t) \in Seq(Threads)
              /\ Len(Append(waiters[o], t)) = Len(waiters[o]) + 1
              /\ \A j \in 1 .. Len(waiters[o]) : Append(waiters[o], t)[j] = waiters[o][j]
              /\ Append(waiters[o], t)[Len(waiters[o]) + 1] = t
            BY <2>3, AppendLemma
        <3> QED
            BY <3>1, <3>2
    <2>5. \A p \in Objs : \A j \in 1 .. Len(waiters[p]) : waiters[p][j] \in Threads \ {t}
        BY <1>0, <2>1 DEF QueuedAreBlocked, GuestMutexTypeOK
    <2>6. /\ \A u \in Threads : blocked'[u] = IF u = t THEN o ELSE blocked[u]
          /\ owner' = owner
        BY <1>0, <2>1 DEF GuestMutexTypeOK
    <2>7. GuestMutexTypeOK'
        BY <1>0, <2>1, <2>4 DEF GuestMutexTypeOK
    <2>8. FreeIsUnused' /\ HeldIsRecursion' /\ GrantedIsAwake'
        BY <1>0, <2>1, <2>2, <2>4 DEF GuestMutexTypeOK, FreeIsUnused, HeldIsRecursion, GrantedIsAwake
    <2>9. ASSUME NEW p \in Objs, NEW i \in 1 .. Len(waiters'[p])
          PROVE  blocked'[waiters'[p][i]] = p /\ owner'[p] # waiters'[p][i]
        <3>1. CASE p # o
            BY <1>0, <3>1, <2>4, <2>5, <2>6 DEF QueuedAreBlocked
        <3>2. CASE p = o /\ i # Len(waiters[o]) + 1
            <4>1. i \in 1 .. Len(waiters[o])
                BY <3>2, <2>3, <2>4
            <4> QED
                BY <1>0, <4>1, <3>2, <2>4, <2>5, <2>6 DEF QueuedAreBlocked
        <3>3. CASE p = o /\ i = Len(waiters[o]) + 1
            BY <3>3, <2>1, <2>4, <2>6
        <3> QED
            BY <3>1, <3>2, <3>3
    <2>10. ASSUME NEW p \in Objs, NEW u \in Threads, blocked'[u] = p, owner'[p] # u
           PROVE  \E i \in 1 .. Len(waiters'[p]) : waiters'[p][i] = u
        <3>1. CASE p # o
            BY <1>0, <2>10, <3>1, <2>4, <2>6 DEF BlockedAreQueued
        <3>2. CASE p = o /\ u = t
            BY <3>2, <2>3, <2>4
        <3>3. CASE p = o /\ u # t
            <4>1. PICK i \in 1 .. Len(waiters[o]) : waiters[o][i] = u
                BY <1>0, <2>10, <3>3, <2>6 DEF BlockedAreQueued
            <4> QED
                BY <4>1, <3>3, <2>3, <2>4
        <3> QED
            BY <3>1, <3>2, <3>3
    <2>11. QueuedOnce'
        <3> SUFFICES ASSUME NEW p \in Objs,
                            NEW i \in 1 .. Len(waiters'[p]), NEW j \in 1 .. Len(waiters'[p]),
                            waiters'[p][i] = waiters'[p][j]
                     PROVE  i = j
            BY DEF QueuedOnce
        <3>1. CASE p # o
            BY <1>0, <3>1, <2>4 DEF QueuedOnce
        <3>2. CASE p = o
            <4>1. CASE i = Len(waiters[o]) + 1 \/ j = Len(waiters[o]) + 1
                <5>1. \A n \in 1 .. Len(waiters[o]) : waiters'[o][n] # t
                    BY <2>4, <2>5
                <5>2. waiters'[o][i] = t /\ waiters'[o][j] = t
                    BY <2>4, <3>2, <4>1
                <5>3. \A n \in 1 .. Len(waiters[o]) + 1 :
                         n \in 1 .. Len(waiters[o]) \/ n = Len(waiters[o]) + 1
                    BY <2>3
                <5> QED
                    BY <2>4, <3>2, <5>1, <5>2, <5>3
            <4>2. CASE i # Len(waiters[o]) + 1 /\ j # Len(waiters[o]) + 1
                <5>1. i \in 1 .. Len(waiters[o]) /\ j \in 1 .. Len(waiters[o])
                    BY <2>3, <2>4, <3>2, <4>2
                <5>2. waiters[o][i] = waiters[o][j]
                    BY <2>4, <3>2, <5>1
                <5> QED
                    BY <1>0, <5>1, <5>2 DEF QueuedOnce
            <4> QED
                BY <4>1, <4>2
        <3> QED
            BY <3>1, <3>2
    <2>12. QueuedAreBlocked' /\ BlockedAreQueued'
        BY <2>9, <2>10 DEF QueuedAreBlocked, BlockedAreQueued
    <2> QED
        BY <2>7, <2>8, <2>11, <2>12 DEF GuestMutexInv
<1> QED
    BY <1>1, <1>2

\* A nested unlock lowers the owner's two counts together.
LEMMA NestedUnlockKeepsInv ==
    ASSUME NEW t \in Threads, NEW o \in Objs, GuestMutexInv, Ready(t),
           owner[o] = t, recursion[o] > 1, Unlock(t, o)
    PROVE  GuestMutexInv'
<1> USE GuestMutexAssumption
<1>0. /\ GuestMutexTypeOK /\ FreeIsUnused /\ HeldIsRecursion /\ GrantedIsAwake
      /\ QueuedAreBlocked /\ BlockedAreQueued /\ QueuedOnce
    BY DEF GuestMutexInv
<1>1. /\ blocked[t] = NoObj
      /\ recursion' = [recursion EXCEPT ![o] = recursion[o] - 1]
      /\ held' = [held EXCEPT ![t][o] = held[t][o] - 1]
      /\ UNCHANGED <<owner, mtype, waiters, blocked, timed, sleeping>>
    BY <1>0 DEF Unlock, MutexUnlockImpl, Ready, GuestMutexTypeOK
<1>2. held[t][o] = recursion[o] /\ held[t][o] - 1 \in Nat
    <2>1. blocked[t] # o
        BY <1>1
    <2>2. held[t][o] = recursion[o] /\ recursion[o] \in Nat
        BY <1>0, <2>1 DEF HeldIsRecursion, GuestMutexTypeOK
    <2> QED
        BY <2>2
<1>3. /\ held' \in [Threads -> [Objs -> Nat]]
      /\ \A u \in Threads, p \in Objs :
            held'[u][p] = IF u = t /\ p = o THEN held[t][o] - 1 ELSE held[u][p]
    BY <1>0, <1>1, <1>2, HeldLemma DEF GuestMutexTypeOK
<1>4. GuestMutexTypeOK'
    BY <1>0, <1>1, <1>2, <1>3 DEF GuestMutexTypeOK
<1>5. FreeIsUnused' /\ HeldIsRecursion' /\ GrantedIsAwake'
    BY <1>0, <1>1, <1>2, <1>3
       DEF GuestMutexTypeOK, FreeIsUnused, HeldIsRecursion, GrantedIsAwake
<1>6. QueuedAreBlocked' /\ BlockedAreQueued' /\ QueuedOnce'
    BY <1>0, <1>1 DEF QueuedAreBlocked, BlockedAreQueued, QueuedOnce
<1> QED
    BY <1>4, <1>5, <1>6 DEF GuestMutexInv

\* The last unlock with nobody queued leaves the mutex free.
LEMMA ReleaseKeepsInv ==
    ASSUME NEW t \in Threads, NEW o \in Objs, GuestMutexInv, Ready(t),
           owner[o] = t, recursion[o] = 1, waiters[o] = <<>>, Unlock(t, o)
    PROVE  GuestMutexInv'
<1> USE GuestMutexAssumption
<1>0. /\ GuestMutexTypeOK /\ FreeIsUnused /\ HeldIsRecursion /\ GrantedIsAwake
      /\ QueuedAreBlocked /\ BlockedAreQueued /\ QueuedOnce
    BY DEF GuestMutexInv
<1>1. /\ blocked[t] = NoObj
      /\ owner' = [owner EXCEPT ![o] = NoThread]
      /\ recursion' = [recursion EXCEPT ![o] = 0]
      /\ held' = [held EXCEPT ![t][o] = held[t][o] - 1]
      /\ sleeping' = sleeping \ {u \in Threads : blocked[u] = o}
      /\ UNCHANGED <<mtype, waiters, blocked, timed>>
    BY DEF Unlock, MutexUnlockImpl, MutexHandoffLocked, Ready
<1>2. held[t][o] = 1
    BY <1>0, <1>1 DEF HeldIsRecursion, GuestMutexTypeOK
<1>3. /\ held' \in [Threads -> [Objs -> Nat]]
      /\ \A u \in Threads, p \in Objs :
            held'[u][p] = IF u = t /\ p = o THEN 0 ELSE held[u][p]
    BY <1>0, <1>1, <1>2, HeldLemma DEF GuestMutexTypeOK
<1>4. 1 .. Len(waiters[o]) = {}
    <2>1. Len(waiters[o]) = 0
        BY EmptySeq
    <2> QED
        BY <2>1
<1>5. \A u \in Threads : blocked[u] # o
    <2>1. \A u \in Threads : u # t => blocked[u] # o
        BY <1>0, <1>4 DEF BlockedAreQueued
    <2> QED
        BY <1>1, <2>1
<1>6. \A p \in Objs : p # o => owner'[p] = owner[p]
    BY <1>0, <1>1 DEF GuestMutexTypeOK
<1>7. GuestMutexTypeOK'
    BY <1>0, <1>1, <1>3 DEF GuestMutexTypeOK
<1>8. FreeIsUnused' /\ HeldIsRecursion' /\ GrantedIsAwake'
    BY <1>0, <1>1, <1>3, <1>5
       DEF GuestMutexTypeOK, FreeIsUnused, HeldIsRecursion, GrantedIsAwake
<1>9. QueuedAreBlocked'
    BY <1>0, <1>1, <1>4, <1>6 DEF QueuedAreBlocked
<1>10. BlockedAreQueued'
    BY <1>0, <1>1, <1>5, <1>6 DEF BlockedAreQueued
<1>11. QueuedOnce'
    BY <1>0, <1>1 DEF QueuedOnce
<1> QED
    BY <1>7, <1>8, <1>9, <1>10, <1>11 DEF GuestMutexInv

\* The last unlock with waiters: the head of the FIFO owns the mutex, leaves
\* the FIFO, and everybody blocked on this mutex is awake.
LEMMA HandoffKeepsInv ==
    ASSUME NEW t \in Threads, NEW o \in Objs, GuestMutexInv, Ready(t),
           owner[o] = t, recursion[o] = 1, waiters[o] # <<>>, Unlock(t, o)
    PROVE  GuestMutexInv'
<1> USE GuestMutexAssumption
<1>0. /\ GuestMutexTypeOK /\ FreeIsUnused /\ HeldIsRecursion /\ GrantedIsAwake
      /\ QueuedAreBlocked /\ BlockedAreQueued /\ QueuedOnce
    BY DEF GuestMutexInv
<1> DEFINE h == Head(waiters[o])
<1>1. /\ blocked[t] = NoObj
      /\ owner' = [owner EXCEPT ![o] = h]
      /\ recursion' = [recursion EXCEPT ![o] = 1]
      /\ waiters' = [waiters EXCEPT ![o] = Tail(waiters[o])]
      /\ held' = [held EXCEPT ![t][o] = held[t][o] - 1]
      /\ sleeping' = sleeping \ {u \in Threads : blocked[u] = o}
      /\ UNCHANGED <<mtype, blocked, timed>>
    BY DEF Unlock, MutexUnlockImpl, MutexHandoffLocked, Ready
<1>2. held[t][o] = 1
    BY <1>0, <1>1 DEF HeldIsRecursion, GuestMutexTypeOK
<1>3. /\ held' \in [Threads -> [Objs -> Nat]]
      /\ \A u \in Threads, p \in Objs :
            held'[u][p] = IF u = t /\ p = o THEN 0 ELSE held[u][p]
    BY <1>0, <1>1, <1>2, HeldLemma DEF GuestMutexTypeOK
<1>4. /\ waiters[o] \in Seq(Threads)
      /\ Len(waiters[o]) \in Nat /\ Len(waiters[o]) > 0
      /\ h \in Threads /\ h = waiters[o][1]
      /\ Tail(waiters[o]) \in Seq(Threads)
      /\ Len(Tail(waiters[o])) = Len(waiters[o]) - 1
      /\ \A j \in 1 .. Len(waiters[o]) - 1 : Tail(waiters[o])[j] = waiters[o][j + 1]
    <2>1. waiters[o] \in Seq(Threads)
        BY <1>0 DEF GuestMutexTypeOK
    <2> QED
        BY <2>1, HeadTailProperties
<1> HIDE DEF h
<1>5. /\ waiters'[o] \in Seq(Threads)
      /\ Len(waiters'[o]) = Len(waiters[o]) - 1
      /\ \A j \in 1 .. Len(waiters[o]) - 1 : waiters'[o][j] = waiters[o][j + 1]
      /\ \A p \in Objs : p # o => waiters'[p] = waiters[p] /\ owner'[p] = owner[p]
      /\ owner'[o] = h
      /\ \A p \in Objs : recursion'[p] = IF p = o THEN 1 ELSE recursion[p]
    BY <1>0, <1>1, <1>4 DEF GuestMutexTypeOK
<1>6. blocked[h] = o /\ h # t
    BY <1>0, <1>1, <1>4 DEF QueuedAreBlocked
<1>7. GuestMutexTypeOK'
    BY <1>0, <1>1, <1>3, <1>4 DEF GuestMutexTypeOK
<1>8. FreeIsUnused' /\ GrantedIsAwake'
    BY <1>0, <1>1, <1>4, <1>5, <1>6 DEF GuestMutexTypeOK, FreeIsUnused, GrantedIsAwake
<1>9. HeldIsRecursion'
    BY <1>0, <1>1, <1>3, <1>4, <1>5, <1>6 DEF GuestMutexTypeOK, HeldIsRecursion
<1>10. ASSUME NEW p \in Objs, NEW i \in 1 .. Len(waiters'[p])
       PROVE  blocked'[waiters'[p][i]] = p /\ owner'[p] # waiters'[p][i]
    <2>1. CASE p # o
        BY <1>0, <1>1, <1>5, <2>1 DEF QueuedAreBlocked
    <2>2. CASE p = o
        <3>1. i + 1 \in 1 .. Len(waiters[o]) /\ 1 \in 1 .. Len(waiters[o]) /\ i + 1 # 1
            BY <1>4, <1>5, <2>2
        <3>2. waiters'[o][i] = waiters[o][i + 1]
            BY <1>4, <1>5, <2>2
        <3>3. waiters[o][i + 1] # waiters[o][1]
            BY <1>0, <3>1 DEF QueuedOnce
        <3> QED
            BY <1>0, <1>1, <1>4, <1>5, <2>2, <3>1, <3>2, <3>3 DEF QueuedAreBlocked
    <2> QED
        BY <2>1, <2>2
<1>11. ASSUME NEW p \in Objs, NEW u \in Threads, blocked'[u] = p, owner'[p] # u
       PROVE  \E i \in 1 .. Len(waiters'[p]) : waiters'[p][i] = u
    <2>1. CASE p # o
        BY <1>0, <1>1, <1>5, <1>11, <2>1 DEF BlockedAreQueued
    <2>2. CASE p = o
        <3>1. u # t /\ u # h /\ blocked[u] = o
            BY <1>1, <1>5, <1>6, <1>11, <2>2
        <3>2. PICK i \in 1 .. Len(waiters[o]) : waiters[o][i] = u
            BY <1>0, <3>1 DEF BlockedAreQueued
        <3>3. i # 1
            BY <1>4, <3>1, <3>2
        <3>4. i - 1 \in 1 .. Len(waiters[o]) - 1
            BY <1>4, <3>2, <3>3
        <3>5. waiters'[o][i - 1] = waiters[o][i - 1 + 1]
            BY <1>5, <3>4
        <3>6. i - 1 + 1 = i
            BY <1>4, <3>2
        <3> QED
            BY <1>5, <2>2, <3>2, <3>4, <3>5, <3>6
    <2> QED
        BY <2>1, <2>2
<1>12. ASSUME NEW p \in Objs,
              NEW i \in 1 .. Len(waiters'[p]), NEW j \in 1 .. Len(waiters'[p]),
              waiters'[p][i] = waiters'[p][j]
       PROVE  i = j
    <2>1. CASE p # o
        BY <1>0, <1>5, <1>12, <2>1 DEF QueuedOnce
    <2>2. CASE p = o
        <3>1. i + 1 \in 1 .. Len(waiters[o]) /\ j + 1 \in 1 .. Len(waiters[o])
            BY <1>4, <1>5, <2>2
        <3>2. waiters[o][i + 1] = waiters[o][j + 1]
            BY <1>4, <1>5, <1>12, <2>2
        <3>3. i + 1 = j + 1
            BY <1>0, <3>1, <3>2 DEF QueuedOnce
        <3> QED
            BY <3>3
    <2> QED
        BY <2>1, <2>2
<1>13. QueuedAreBlocked' /\ BlockedAreQueued' /\ QueuedOnce'
    BY <1>10, <1>11, <1>12 DEF QueuedAreBlocked, BlockedAreQueued, QueuedOnce
<1> QED
    BY <1>7, <1>8, <1>9, <1>13 DEF GuestMutexInv

\* The owner that was granted the mutex while blocked returns from its call.
LEMMA LockGrantedKeepsInv ==
    ASSUME NEW t \in Threads, GuestMutexInv, LockGranted(t)
    PROVE  GuestMutexInv'
<1> USE GuestMutexAssumption
<1>0. /\ GuestMutexTypeOK /\ FreeIsUnused /\ HeldIsRecursion /\ GrantedIsAwake
      /\ QueuedAreBlocked /\ BlockedAreQueued /\ QueuedOnce
    BY DEF GuestMutexInv
<1> DEFINE o == blocked[t]
<1>1. o \in Objs /\ owner[o] = t
    BY <1>0 DEF LockGranted, GuestMutexTypeOK
<1> HIDE DEF o
<1>2. /\ blocked[t] = o
      /\ blocked' = [blocked EXCEPT ![t] = NoObj]
      /\ timed' = [timed EXCEPT ![t] = FALSE]
      /\ sleeping' = sleeping \ {t}
      /\ held' = [held EXCEPT ![t][o] = 1]
      /\ UNCHANGED <<owner, recursion, mtype, waiters>>
    BY DEF LockGranted, o
<1>3. recursion[o] = 1
    BY <1>0, <1>1, <1>2 DEF GrantedIsAwake
<1>4. /\ held' \in [Threads -> [Objs -> Nat]]
      /\ \A u \in Threads, p \in Objs :
            held'[u][p] = IF u = t /\ p = o THEN 1 ELSE held[u][p]
    BY <1>0, <1>1, <1>2, HeldLemma DEF GuestMutexTypeOK
<1>5. \A u \in Threads : blocked'[u] = IF u = t THEN NoObj ELSE blocked[u]
    BY <1>0, <1>2 DEF GuestMutexTypeOK
<1>6. GuestMutexTypeOK'
    BY <1>0, <1>2, <1>4 DEF GuestMutexTypeOK
<1>7. FreeIsUnused' /\ HeldIsRecursion' /\ GrantedIsAwake'
    BY <1>0, <1>1, <1>2, <1>3, <1>4, <1>5
       DEF FreeIsUnused, HeldIsRecursion, GrantedIsAwake
<1>8. \A p \in Objs : \A i \in 1 .. Len(waiters[p]) : waiters[p][i] \in Threads \ {t}
    BY <1>0, <1>1, <1>2 DEF QueuedAreBlocked, GuestMutexTypeOK
<1>9. QueuedAreBlocked' /\ QueuedOnce'
    BY <1>0, <1>2, <1>5, <1>8 DEF QueuedAreBlocked, QueuedOnce
<1>10. BlockedAreQueued'
    BY <1>0, <1>2, <1>5 DEF BlockedAreQueued
<1> QED
    BY <1>6, <1>7, <1>9, <1>10 DEF GuestMutexInv

\* A timed waiter gives up: it is in the FIFO once, and leaves it.
LEMMA LockTimedOutKeepsInv ==
    ASSUME NEW t \in Threads, GuestMutexInv, LockTimedOut(t)
    PROVE  GuestMutexInv'
<1> USE GuestMutexAssumption
<1>0. /\ GuestMutexTypeOK /\ FreeIsUnused /\ HeldIsRecursion /\ GrantedIsAwake
      /\ QueuedAreBlocked /\ BlockedAreQueued /\ QueuedOnce
    BY DEF GuestMutexInv
<1> DEFINE o == blocked[t]
           k == PositionOf(t, o)
<1>1. o \in Objs /\ owner[o] # t
    BY <1>0 DEF LockTimedOut, GuestMutexTypeOK
<1>2. k \in 1 .. Len(waiters[o]) /\ waiters[o][k] = t
    <2>1. \E i \in 1 .. Len(waiters[o]) : waiters[o][i] = t
        BY <1>0, <1>1 DEF BlockedAreQueued
    <2> QED
        BY <2>1 DEF PositionOf
<1>3. /\ blocked[t] = o
      /\ waiters' = [waiters EXCEPT ![o] = RemoveAt(waiters[o], k)]
      /\ blocked' = [blocked EXCEPT ![t] = NoObj]
      /\ timed' = [timed EXCEPT ![t] = FALSE]
      /\ sleeping' = sleeping \ {t}
      /\ UNCHANGED <<owner, recursion, mtype, held>>
    BY DEF LockTimedOut
<1> HIDE DEF o, k
<1>4. waiters[o] \in Seq(Threads) /\ Len(waiters[o]) \in Nat /\ k \in Nat
    BY <1>0, <1>1, <1>2 DEF GuestMutexTypeOK
<1>5. /\ waiters'[o] \in Seq(Threads)
      /\ Len(waiters'[o]) = Len(waiters[o]) - 1
      /\ \A j \in 1 .. Len(waiters[o]) - 1 :
            waiters'[o][j] = IF j < k THEN waiters[o][j] ELSE waiters[o][j + 1]
      /\ \A p \in Objs : p # o => waiters'[p] = waiters[p]
    <2>1. waiters'[o] = RemoveAt(waiters[o], k) /\ \A p \in Objs : p # o => waiters'[p] = waiters[p]
        BY <1>0, <1>1, <1>3 DEF GuestMutexTypeOK
    <2>2. /\ RemoveAt(waiters[o], k) \in Seq(Threads)
          /\ Len(RemoveAt(waiters[o], k)) = Len(waiters[o]) - 1
          /\ \A j \in 1 .. Len(waiters[o]) - 1 :
                RemoveAt(waiters[o], k)[j] = IF j < k THEN waiters[o][j] ELSE waiters[o][j + 1]
        BY <1>2, <1>4, RemoveAtLemma
    <2> QED
        BY <2>1, <2>2
<1>6. \A u \in Threads : blocked'[u] = IF u = t THEN NoObj ELSE blocked[u]
    BY <1>0, <1>3 DEF GuestMutexTypeOK
<1>7. GuestMutexTypeOK'
    <2>1. waiters' \in [Objs -> Seq(Threads)]
        BY <1>0, <1>3, <1>5 DEF GuestMutexTypeOK
    <2> QED
        BY <1>0, <1>3, <2>1 DEF GuestMutexTypeOK
<1>8. owner[o] # NoThread
    BY <1>0, <1>1, <1>2 DEF FreeIsUnused
<1>9. FreeIsUnused'
    <2>1. \A p \in Objs : owner[p] = NoThread => waiters'[p] = waiters[p]
        BY <1>5, <1>8
    <2> QED
        BY <1>0, <1>3, <2>1 DEF FreeIsUnused
<1>10. HeldIsRecursion' /\ GrantedIsAwake'
    BY <1>0, <1>1, <1>3, <1>6 DEF HeldIsRecursion, GrantedIsAwake
<1>11. ASSUME NEW p \in Objs, NEW i \in 1 .. Len(waiters'[p])
       PROVE  blocked'[waiters'[p][i]] = p /\ owner'[p] # waiters'[p][i]
    <2>1. CASE p # o
        <3>1. i \in 1 .. Len(waiters[p]) /\ waiters[p] \in Seq(Threads)
            BY <1>0, <1>5, <2>1 DEF GuestMutexTypeOK
        <3>2. waiters[p][i] \in Threads /\ blocked[waiters[p][i]] = p /\ owner[p] # waiters[p][i]
            BY <1>0, <3>1 DEF QueuedAreBlocked
        <3> QED
            BY <1>3, <1>5, <1>6, <2>1, <3>2
    <2>2. CASE p = o
        <3>1. PICK n \in 1 .. Len(waiters[o]) : n # k /\ waiters'[o][i] = waiters[o][n]
            <4>1. CASE i < k
                <5>1. i \in 1 .. Len(waiters'[o])
                    BY <2>2
                <5>2. i \in 1 .. Len(waiters[o]) - 1 /\ i \in 1 .. Len(waiters[o]) /\ i # k
                    BY <1>4, <1>5, <4>1, <5>1
                <5>3. waiters'[o][i] = waiters[o][i]
                    BY <1>5, <4>1, <5>2
                <5> QED
                    BY <5>2, <5>3
            <4>2. CASE ~ (i < k)
                <5>1. i + 1 \in 1 .. Len(waiters[o]) /\ i + 1 # k
                    BY <1>2, <1>4, <1>5, <2>2, <4>2
                <5> QED
                    BY <1>4, <1>5, <2>2, <4>2, <5>1
            <4> QED
                BY <4>1, <4>2
        <3>2. waiters[o][n] # t /\ waiters[o][n] \in Threads
            BY <1>0, <1>1, <1>2, <1>4, <3>1 DEF QueuedOnce
        <3>3. blocked[waiters[o][n]] = o /\ owner[o] # waiters[o][n]
            BY <1>0, <1>1, <3>1 DEF QueuedAreBlocked
        <3> QED
            BY <1>3, <1>6, <2>2, <3>1, <3>2, <3>3
    <2> QED
        BY <2>1, <2>2
<1>12. ASSUME NEW p \in Objs, NEW u \in Threads, blocked'[u] = p, owner'[p] # u
       PROVE  \E i \in 1 .. Len(waiters'[p]) : waiters'[p][i] = u
    <2>1. u # t /\ blocked[u] = p /\ owner[p] # u
        BY <1>3, <1>6, <1>12
    <2>2. PICK n \in 1 .. Len(waiters[p]) : waiters[p][n] = u
        BY <1>0, <2>1 DEF BlockedAreQueued
    <2>3. CASE p # o
        BY <1>5, <2>2, <2>3
    <2>4. CASE p = o
        <3>1. n # k
            BY <1>2, <2>1, <2>2, <2>4
        <3>2. CASE n < k
            BY <1>2, <1>4, <1>5, <2>2, <2>4, <3>2
        <3>3. CASE n > k
            <4>1. n - 1 \in 1 .. Len(waiters[o]) - 1 /\ ~ (n - 1 < k) /\ n - 1 + 1 = n
                BY <1>2, <1>4, <2>2, <2>4, <3>3
            <4>2. waiters'[o][n - 1] = waiters[o][n]
                BY <1>5, <4>1
            <4> QED
                BY <1>5, <2>2, <2>4, <4>1, <4>2
        <3> QED
            BY <1>2, <1>4, <2>2, <2>4, <3>1, <3>2, <3>3
    <2> QED
        BY <2>3, <2>4
<1>13. ASSUME NEW p \in Objs,
              NEW i \in 1 .. Len(waiters'[p]), NEW j \in 1 .. Len(waiters'[p]),
              waiters'[p][i] = waiters'[p][j]
       PROVE  i = j
    <2>1. CASE p # o
        BY <1>0, <1>5, <1>13, <2>1 DEF QueuedOnce
    <2>2. CASE p = o
        <3> DEFINE f(n) == IF n < k THEN n ELSE n + 1
        <3>1. ASSUME NEW n \in 1 .. Len(waiters'[o])
              PROVE  f(n) \in 1 .. Len(waiters[o]) /\ waiters'[o][n] = waiters[o][f(n)]
            <4>1. n \in 1 .. Len(waiters[o]) - 1
                BY <1>5
            <4>2. f(n) \in 1 .. Len(waiters[o])
                BY <1>2, <1>4, <4>1
            <4> QED
                BY <1>5, <4>1, <4>2
        <3>2. f(i) = f(j)
            <4> HIDE DEF f
            <4> QED
                BY <1>0, <1>1, <1>13, <2>2, <3>1 DEF QueuedOnce
        <3> QED
            BY <1>4, <1>5, <2>2, <3>2
    <2> QED
        BY <2>1, <2>2
<1>14. QueuedAreBlocked' /\ BlockedAreQueued' /\ QueuedOnce'
    BY <1>11, <1>12, <1>13 DEF QueuedAreBlocked, BlockedAreQueued, QueuedOnce
<1> QED
    BY <1>7, <1>9, <1>10, <1>14 DEF GuestMutexInv

\* Going back to sleep, or waking for no reason, touches only the sleepers;
\* the owner of a mutex never goes back to sleep on it.
LEMMA WakeUpsKeepInv ==
    ASSUME NEW t \in Threads, GuestMutexInv, SleepAgain(t) \/ SpuriousWake(t)
    PROVE  GuestMutexInv'
<1> USE GuestMutexAssumption
<1>0. /\ GuestMutexTypeOK /\ FreeIsUnused /\ HeldIsRecursion /\ GrantedIsAwake
      /\ QueuedAreBlocked /\ BlockedAreQueued /\ QueuedOnce
    BY DEF GuestMutexInv
<1>1. UNCHANGED <<owner, recursion, mtype, waiters, blocked, timed, held>>
    BY DEF SleepAgain, SpuriousWake
<1>2. GuestMutexTypeOK'
    BY <1>0, <1>1 DEF GuestMutexTypeOK, SleepAgain, SpuriousWake
<1>3. GrantedIsAwake'
    BY <1>0, <1>1 DEF GuestMutexTypeOK, GrantedIsAwake, SleepAgain, SpuriousWake
<1>4. FreeIsUnused' /\ HeldIsRecursion' /\ QueuedAreBlocked' /\ BlockedAreQueued' /\ QueuedOnce'
    BY <1>0, <1>1
       DEF FreeIsUnused, HeldIsRecursion, QueuedAreBlocked, BlockedAreQueued, QueuedOnce
<1> QED
    BY <1>2, <1>3, <1>4 DEF GuestMutexInv

\* A refused unlock changes nothing; the others are the three cases above.
LEMMA UnlockKeepsInv ==
    ASSUME NEW t \in Threads, NEW o \in Objs, GuestMutexInv, Unlock(t, o)
    PROVE  GuestMutexInv'
<1>1. CASE recursion[o] = 0 \/ owner[o] # t
    <2>1. UNCHANGED mutexVars
        BY <1>1 DEF Unlock, MutexUnlockImpl
    <2> QED
        BY <2>1, StutterKeepsInv
<1>2. CASE owner[o] = t /\ recursion[o] > 1
    BY <1>2, NestedUnlockKeepsInv DEF Unlock
<1>3. CASE owner[o] = t /\ recursion[o] = 1
    BY <1>3, ReleaseKeepsInv, HandoffKeepsInv DEF Unlock
<1>4. recursion[o] \in Nat
    BY DEF GuestMutexInv, GuestMutexTypeOK
<1> QED
    BY <1>1, <1>2, <1>3, <1>4

LEMMA LockKeepsInv ==
    ASSUME NEW t \in Threads, NEW o \in Objs, NEW mode \in AllModes,
           GuestMutexInv, Lock(t, o, mode)
    PROVE  GuestMutexInv'
    BY LockAgainKeepsInv, LockFreeKeepsInv, LockBusyKeepsInv DEF Lock, MutexLockImpl

\* A step of the mutex on behalf of any caller, the guest or another function of
\* the emulator, in any mode, and the steps of GuestMutexNext among them.
MutexMove ==
    \E t \in Threads :
        \/ \E o \in Objs : Unlock(t, o) \/ \E mode \in AllModes : Lock(t, o, mode)
        \/ LockGranted(t)
        \/ LockTimedOut(t)
        \/ SleepAgain(t)
        \/ SpuriousWake(t)

LEMMA NextIsMove == GuestMutexNext => MutexMove
    BY GuestMutexAssumption DEF GuestMutexNext, MutexMove

\* The invariant is inductive: one case per disjunct of the next-state relation.
LEMMA NextKeepsInv == GuestMutexInv /\ [MutexMove]_mutexVars => GuestMutexInv'
<1> SUFFICES ASSUME GuestMutexInv, [MutexMove]_mutexVars PROVE GuestMutexInv'
    OBVIOUS
<1>1. CASE UNCHANGED mutexVars
    BY <1>1, StutterKeepsInv
<1>2. ASSUME NEW t \in Threads, NEW o \in Objs, Unlock(t, o) PROVE GuestMutexInv'
    BY <1>2, UnlockKeepsInv
<1>3. ASSUME NEW t \in Threads, NEW o \in Objs, NEW mode \in AllModes, Lock(t, o, mode)
      PROVE  GuestMutexInv'
    BY <1>3, LockKeepsInv
<1>4. ASSUME NEW t \in Threads, LockGranted(t) PROVE GuestMutexInv'
    BY <1>4, LockGrantedKeepsInv
<1>5. ASSUME NEW t \in Threads, LockTimedOut(t) PROVE GuestMutexInv'
    BY <1>5, LockTimedOutKeepsInv
<1>6. ASSUME NEW t \in Threads, SleepAgain(t) \/ SpuriousWake(t) PROVE GuestMutexInv'
    BY <1>6, WakeUpsKeepInv
<1> QED
    BY <1>1, <1>2, <1>3, <1>4, <1>5, <1>6 DEF MutexMove

-----------------------------------------------------------------------------
(* What the invariant implies. *)

LEMMA InvExcludes == GuestMutexInv => MutualExclusion
<1> SUFFICES ASSUME HeldIsRecursion, NEW o \in Objs, NEW t \in Threads, NEW u \in Threads,
                    held[t][o] > 0, held[u][o] > 0
             PROVE  t = u
    BY DEF GuestMutexInv, MutualExclusion
<1>1. owner[o] = t /\ owner[o] = u
    BY DEF HeldIsRecursion
<1> QED
    BY <1>1

LEMMA InvLeavesNoneWaiting == GuestMutexInv => NeverFreeWithWaiter
    BY DEF GuestMutexInv, FreeIsUnused, NeverFreeWithWaiter

LEMMA InvReachesCaller == GuestMutexInv => GrantReachesCaller
<1> SUFFICES ASSUME GuestMutexInv, NEW o \in Objs, NEW t \in Threads, owner[o] = t
             PROVE  held[t][o] > 0 \/ (blocked[t] = o /\ (t \notin sleeping \/ timed[t]))
    BY DEF GrantReachesCaller
<1>1. CASE blocked[t] = o
    BY <1>1 DEF GuestMutexInv, GrantedIsAwake
<1>2. CASE blocked[t] # o
    BY <1>2, GuestMutexAssumption
       DEF GuestMutexInv, GuestMutexTypeOK, FreeIsUnused, HeldIsRecursion
<1> QED
    BY <1>1, <1>2

-----------------------------------------------------------------------------
THEOREM InvariantHolds == GuestMutexSpec => []GuestMutexInv
    BY InitEstablishesInv, NextIsMove, NextKeepsInv, PTL DEF GuestMutexSpec

\* Every reachable state of MutexLockImpl and MutexUnlockImpl is well typed.
THEOREM TypeCorrect == GuestMutexSpec => []GuestMutexTypeOK
<1>1. GuestMutexInv => GuestMutexTypeOK
    BY DEF GuestMutexInv
<1> QED
    BY <1>1, InvariantHolds, PTL

\* Two threads never believe at once that they hold one mutex.
THEOREM MutualExclusionHolds == GuestMutexSpec => []MutualExclusion
    BY InvExcludes, InvariantHolds, PTL

\* No state of the code shows a free mutex with somebody in its FIFO.
THEOREM NeverFreeWithWaiterHolds == GuestMutexSpec => []NeverFreeWithWaiter
    BY InvLeavesNoneWaiting, InvariantHolds, PTL

\* A handed-over mutex always has a caller that is awake to take it.
THEOREM GrantReachesCallerHolds == GuestMutexSpec => []GrantReachesCaller
    BY InvReachesCaller, InvariantHolds, PTL

\* A blocked thread is in the FIFO of its mutex exactly once unless it owns it.
THEOREM WaitersAreQueuedOnceHolds == GuestMutexSpec => []WaitersAreQueuedOnce
<1>1. GuestMutexInv => WaitersAreQueuedOnce
    <2> SUFFICES ASSUME GuestMutexInv, NEW o \in Objs, NEW t \in Threads
                 PROVE  LET places == {i \in 1 .. Len(waiters[o]) : waiters[o][i] = t}
                        IN  IF blocked[t] = o /\ owner[o] # t
                            THEN \E i \in places : places = {i}
                            ELSE places = {}
        BY DEF WaitersAreQueuedOnce
    <2>1. QueuedAreBlocked /\ BlockedAreQueued /\ QueuedOnce
        BY DEF GuestMutexInv
    <2>2. CASE blocked[t] = o /\ owner[o] # t
        <3>1. PICK i \in 1 .. Len(waiters[o]) : waiters[o][i] = t
            BY <2>1, <2>2 DEF BlockedAreQueued
        <3>2. \A j \in 1 .. Len(waiters[o]) : waiters[o][j] = t => j = i
            BY <2>1, <3>1 DEF QueuedOnce
        <3> QED
            BY <2>2, <3>1, <3>2
    <2>3. CASE ~ (blocked[t] = o /\ owner[o] # t)
        BY <2>1, <2>3 DEF QueuedAreBlocked
    <2> QED
        BY <2>2, <2>3
<1> QED
    BY <1>1, InvariantHolds, PTL

-----------------------------------------------------------------------------
(* The refinement of FifoLock, one lemma per kind of step. *)

\* The abstract queue of one mutex.
LEMMA LockQueueOf ==
    ASSUME NEW o \in Objs, GuestMutexInv
    PROVE  /\ owner[o] = NoThread => LockQueue[o] = <<>>
           /\ owner[o] # NoThread => /\ owner[o] \in Threads
                                     /\ LockQueue[o] = <<owner[o]>> \o waiters[o]
           /\ waiters[o] \in Seq(Threads)
    BY DEF LockQueue, GuestMutexInv, GuestMutexTypeOK

\* A step that leaves the owners and the FIFOs alone is a stutter.
LEMMA SameQueues ==
    ASSUME UNCHANGED <<owner, waiters>> PROVE LockQueue' = LockQueue
    BY DEF LockQueue

\* One thread in front of a sequence.
LEMMA ConsLemma ==
    ASSUME NEW S, NEW a \in S, NEW w \in Seq(S)
    PROVE  /\ <<a>> \o w \in Seq(S)
           /\ Len(<<a>> \o w) = Len(w) + 1
           /\ (<<a>> \o w)[1] = a
           /\ \A i \in 1 .. Len(w) : (<<a>> \o w)[i + 1] = w[i]
<1>1. <<a>> \in Seq(S) /\ Len(<<a>>) = 1 /\ <<a>>[1] = a
    OBVIOUS
<1>2. /\ <<a>> \o w \in Seq(S)
      /\ Len(<<a>> \o w) = Len(<<a>>) + Len(w)
      /\ \A i \in 1 .. Len(<<a>>) + Len(w) :
            (<<a>> \o w)[i] = IF i <= Len(<<a>>) THEN <<a>>[i] ELSE w[i - Len(<<a>>)]
    BY <1>1, ConcatProperties, Zenon
<1>3. Len(w) \in Nat
    OBVIOUS
<1> QED
    BY <1>1, <1>2, <1>3

\* Taking the mutex, or queueing for it, is Enter.
LEMMA EnterStep ==
    ASSUME NEW t \in Threads, NEW o \in Objs, NEW mode \in AllModes,
           GuestMutexInv, GuestMutexInv', Lock(t, o, mode)
    PROVE  UNCHANGED LockQueue \/ Fifo!Enter(t, o)
<1> USE GuestMutexAssumption
<1>1. CASE LockAgain(t, o, mode)
    BY <1>1, SameQueues DEF LockAgain
<1>2. CASE LockFree(t, o, mode)
    <2>1. /\ owner[o] = NoThread /\ waiters' = waiters
          /\ owner' = [owner EXCEPT ![o] = t]
          /\ owner \in [Objs -> Threads \cup {NoThread}]
        BY <1>2 DEF LockFree, MayTake, MutexAcquireLocked, GuestMutexInv, GuestMutexTypeOK
    <2>2. LockQueue[o] = <<>> /\ waiters[o] = <<>>
        BY <2>1 DEF LockQueue, GuestMutexInv, FreeIsUnused
    <2>3. LockQueue' = [LockQueue EXCEPT ![o] = <<t>> \o waiters[o]]
        BY <2>1 DEF LockQueue
    <2>4. <<t>> \o <<>> = Append(<<>>, t)
        OBVIOUS
    <2> QED
        BY <2>2, <2>3, <2>4 DEF Fifo!Enter
<1>3. CASE LockBusy(t, o, mode)
    <2>1. CASE mode = "try"
        BY <1>3, <2>1, SameQueues DEF LockBusy
    <2>2. CASE mode # "try"
        <3>1. /\ owner[o] # t /\ blocked[t] = NoObj
              /\ owner' = owner
              /\ waiters' = [waiters EXCEPT ![o] = Append(waiters[o], t)]
            BY <1>3, <2>2 DEF LockBusy, Queue, Lock, Ready
        <3>2. owner[o] # NoThread
            BY <1>3, <2>2 DEF LockBusy, MayTake, GuestMutexInv, FreeIsUnused
        <3>3. /\ owner[o] \in Threads /\ waiters[o] \in Seq(Threads)
              /\ LockQueue[o] = <<owner[o]>> \o waiters[o]
            BY <3>2, LockQueueOf
        <3>4. \A j \in 1 .. Len(waiters[o]) : waiters[o][j] # t
            BY <3>1 DEF GuestMutexInv, QueuedAreBlocked
        <3>5. /\ Len(LockQueue[o]) = Len(waiters[o]) + 1
              /\ LockQueue[o][1] = owner[o]
              /\ \A j \in 1 .. Len(waiters[o]) : LockQueue[o][j + 1] = waiters[o][j]
            BY <3>3, ConsLemma
        <3>6. \A i \in 1 .. Len(LockQueue[o]) : LockQueue[o][i] # t
            <4> SUFFICES ASSUME NEW i \in 1 .. Len(LockQueue[o]), i # 1 PROVE LockQueue[o][i] # t
                BY <3>1, <3>5
            <4>1. i - 1 \in 1 .. Len(waiters[o]) /\ i - 1 + 1 = i
                BY <3>3, <3>5
            <4> QED
                BY <3>4, <3>5, <4>1
        <3>7. <<owner[o]>> \o Append(waiters[o], t) = Append(LockQueue[o], t)
            BY <3>3
        <3>8. LockQueue' = [LockQueue EXCEPT ![o] = <<owner[o]>> \o Append(waiters[o], t)]
            BY <3>1, <3>2 DEF LockQueue, GuestMutexInv, GuestMutexTypeOK
        <3> QED
            BY <3>6, <3>7, <3>8 DEF Fifo!Enter
    <2> QED
        BY <2>1, <2>2
<1> QED
    BY <1>1, <1>2, <1>3 DEF Lock, MutexLockImpl

\* The last unlock is Leave, whether it hands the mutex over or frees it.
LEMMA LeaveStep ==
    ASSUME NEW t \in Threads, NEW o \in Objs, GuestMutexInv, Unlock(t, o)
    PROVE  UNCHANGED LockQueue \/ Fifo!Leave(o)
<1> USE GuestMutexAssumption
<1>1. CASE recursion[o] # 1 \/ owner[o] # t
    <2>1. UNCHANGED <<owner, waiters>>
        BY <1>1 DEF Unlock, MutexUnlockImpl, mutexVars
    <2> QED
        BY <2>1, SameQueues
<1>2. CASE recursion[o] = 1 /\ owner[o] = t
    <2>1. /\ owner[o] = t /\ MutexHandoffLocked(o)
          /\ owner \in [Objs -> Threads \cup {NoThread}]
          /\ waiters \in [Objs -> Seq(Threads)]
        BY <1>2 DEF Unlock, MutexUnlockImpl, GuestMutexInv, GuestMutexTypeOK
    <2>2. LockQueue[o] = <<t>> \o waiters[o]
        BY <2>1 DEF LockQueue
    <2>3. LockQueue[o] # <<>> /\ Tail(LockQueue[o]) = waiters[o]
        BY <2>1, <2>2
    <2>4. LockQueue' = [LockQueue EXCEPT ![o] = waiters[o]]
        <3>1. CASE waiters[o] = <<>>
            <4>1. owner' = [owner EXCEPT ![o] = NoThread] /\ waiters' = waiters
                BY <2>1, <3>1 DEF MutexHandoffLocked
            <4> QED
                BY <2>1, <3>1, <4>1 DEF LockQueue
        <3>2. CASE waiters[o] # <<>>
            <4>1. /\ owner' = [owner EXCEPT ![o] = Head(waiters[o])]
                  /\ waiters' = [waiters EXCEPT ![o] = Tail(waiters[o])]
                BY <2>1, <3>2 DEF MutexHandoffLocked
            <4>2. Head(waiters[o]) \in Threads /\ waiters[o] \in Seq(Threads)
                BY <2>1, <3>2
            <4>3. <<Head(waiters[o])>> \o Tail(waiters[o]) = waiters[o]
                BY <3>2, <4>2
            <4>4. LockQueue' = [LockQueue EXCEPT ![o] = <<Head(waiters[o])>> \o Tail(waiters[o])]
                BY <2>1, <4>1, <4>2 DEF LockQueue
            <4> QED
                BY <4>3, <4>4
        <3> QED
            BY <3>1, <3>2
    <2> QED
        BY <2>3, <2>4 DEF Fifo!Leave
<1> QED
    BY <1>1, <1>2

\* A timeout is GiveUp of one of the waiters, never of the holder.
LEMMA GiveUpStep ==
    ASSUME NEW t \in Threads, GuestMutexInv, LockTimedOut(t)
    PROVE  \E o \in Objs : Fifo!GiveUp(o)
<1> USE GuestMutexAssumption
<1> DEFINE o == blocked[t]
           k == PositionOf(t, o)
           w == waiters[o]
<1>1. /\ o \in Objs /\ owner[o] # t
      /\ w \in Seq(Threads)
      /\ owner \in [Objs -> Threads \cup {NoThread}]
      /\ waiters \in [Objs -> Seq(Threads)]
    BY DEF LockTimedOut, GuestMutexInv, GuestMutexTypeOK
<1>2. k \in 1 .. Len(w)
    <2>1. \E i \in 1 .. Len(w) : w[i] = t
        BY <1>1 DEF GuestMutexInv, BlockedAreQueued
    <2> QED
        BY <2>1 DEF PositionOf
<1>3. owner' = owner /\ waiters' = [waiters EXCEPT ![o] = RemoveAt(w, k)]
    BY DEF LockTimedOut
<1> HIDE DEF o, k
<1>4. owner[o] # NoThread
    <2>1. w # <<>>
        BY <1>2
    <2> QED
        BY <1>1, <2>1 DEF GuestMutexInv, FreeIsUnused
<1> DEFINE a == owner[o]
<1>5. a \in Threads /\ LockQueue[o] = <<a>> \o w
    BY <1>1, <1>4, LockQueueOf
<1>6. LockQueue' = [LockQueue EXCEPT ![o] = <<a>> \o RemoveAt(w, k)]
    BY <1>1, <1>3, <1>4 DEF LockQueue
<1> HIDE DEF a, w
<1>7. Len(w) \in Nat /\ k \in Nat
    BY <1>1, <1>2
<1>8. <<a>> \o RemoveAt(w, k) = RemoveAt(<<a>> \o w, k + 1) /\ k + 1 \in 2 .. Len(<<a>> \o w)
    <2> DEFINE q == <<a>> \o w
    <2>1. /\ q \in Seq(Threads) /\ Len(q) = Len(w) + 1
          /\ q[1] = a
          /\ \A i \in 1 .. Len(w) : q[i + 1] = w[i]
        BY <1>1, <1>5, ConsLemma
    <2> HIDE DEF q
    <2>2. /\ RemoveAt(w, k) \in Seq(Threads)
          /\ Len(RemoveAt(w, k)) = Len(w) - 1
          /\ \A j \in 1 .. Len(w) - 1 :
                RemoveAt(w, k)[j] = IF j < k THEN w[j] ELSE w[j + 1]
        BY <1>1, <1>2, RemoveAtLemma
    <2>3. k + 1 \in 1 .. Len(q) /\ k + 1 \in 2 .. Len(q)
        BY <1>2, <1>7, <2>1
    <2>4. /\ RemoveAt(q, k + 1) \in Seq(Threads)
          /\ Len(RemoveAt(q, k + 1)) = Len(q) - 1
          /\ \A j \in 1 .. Len(q) - 1 :
                RemoveAt(q, k + 1)[j] = IF j < k + 1 THEN q[j] ELSE q[j + 1]
        BY <2>1, <2>3, RemoveAtLemma
    <2> DEFINE r == RemoveAt(w, k)
               s == <<a>> \o r
               z == RemoveAt(q, k + 1)
    <2>5. /\ s \in Seq(Threads) /\ Len(s) = Len(r) + 1
          /\ s[1] = a
          /\ \A i \in 1 .. Len(r) : s[i + 1] = r[i]
        BY <1>5, <2>2, ConsLemma
    <2> HIDE DEF r, s, z
    <2>6. Len(s) = Len(w) /\ Len(z) = Len(w)
        BY <1>7, <2>1, <2>2, <2>4, <2>5 DEF r, z
    <2>7. ASSUME NEW i \in 1 .. Len(s) PROVE s[i] = z[i]
        <3>1. CASE i = 1
            <4>1. 1 \in 1 .. Len(q) - 1 /\ 1 < k + 1
                BY <1>2, <1>7, <2>1
            <4>2. z[1] = q[1]
                BY <2>4, <4>1 DEF z
            <4> QED
                BY <2>1, <2>5, <3>1, <4>2
        <3>2. CASE i # 1
            <4>1. i - 1 \in 1 .. Len(w) - 1 /\ i - 1 + 1 = i
                BY <1>7, <2>6, <3>2
            <4>2. s[i] = IF i - 1 < k THEN w[i - 1] ELSE w[i]
                BY <1>7, <2>2, <2>5, <4>1 DEF r
            <4>3. z[i] = IF i < k + 1 THEN q[i] ELSE q[i + 1]
                BY <1>7, <2>1, <2>4, <2>6 DEF z
            <4>4. q[i] = w[i - 1] /\ q[i + 1] = w[i]
                BY <1>7, <2>1, <2>6, <4>1
            <4> QED
                BY <1>7, <2>6, <4>2, <4>3, <4>4
        <3> QED
            BY <3>1, <3>2
    <2>8. s = z
        BY <2>4, <2>5, <2>6, <2>7, SeqEqual DEF z
    <2> QED
        BY <2>3, <2>8 DEF s, z, r, q
<1>9. LockQueue' = [LockQueue EXCEPT ![o] = Fifo!RemoveAt(LockQueue[o], k + 1)]
    BY <1>5, <1>6, <1>8 DEF RemoveAt, Fifo!RemoveAt
<1> QED
    BY <1>1, <1>5, <1>8, <1>9 DEF Fifo!GiveUp

\* The queue of a mutex starts empty, and a step of the mutex moves it as
\* FifoLock allows or not at all.
LEMMA InitMapsToFifoInit == GuestMutexInit => Fifo!FifoInit
    BY DEF GuestMutexInit, LockQueue, Fifo!FifoInit

LEMMA MoveMapsToFifoStep ==
    ASSUME GuestMutexInv, GuestMutexInv', [MutexMove]_mutexVars
    PROVE  [Fifo!FifoNext]_LockQueue
<1>1. CASE UNCHANGED mutexVars
    BY <1>1, SameQueues DEF mutexVars
<1>2. ASSUME NEW t \in Threads, NEW o \in Objs, Unlock(t, o)
      PROVE  [Fifo!FifoNext]_LockQueue
    BY <1>2, LeaveStep DEF Fifo!FifoNext
<1>3. ASSUME NEW t \in Threads, NEW o \in Objs, NEW mode \in AllModes, Lock(t, o, mode)
      PROVE  [Fifo!FifoNext]_LockQueue
    BY <1>3, EnterStep DEF Fifo!FifoNext
<1>4. ASSUME NEW t \in Threads, LockTimedOut(t) PROVE [Fifo!FifoNext]_LockQueue
    BY <1>4, GiveUpStep DEF Fifo!FifoNext
<1>5. ASSUME NEW t \in Threads, LockGranted(t) \/ SleepAgain(t) \/ SpuriousWake(t)
      PROVE  [Fifo!FifoNext]_LockQueue
    BY <1>5, SameQueues DEF LockGranted, SleepAgain, SpuriousWake
<1> QED
    BY <1>1, <1>2, <1>3, <1>4, <1>5 DEF MutexMove

\* The mutex of the code is a FIFO lock: the owner followed by the queue of
\* waiters moves only as FifoLock allows.
THEOREM RefinesFifoLock == GuestMutexSpec => ImplementsFifoLock
    BY InitMapsToFifoInit, MoveMapsToFifoStep, NextIsMove, InvariantHolds, PTL
       DEF GuestMutexSpec, ImplementsFifoLock, Fifo!FifoSpec

-----------------------------------------------------------------------------
\* What the kernel calls take for granted beyond the mutex: they use Recursive
\* mutexes only, and a call may take one level at least.
KernelCallsAssumption ==
    /\ Types = {"Recursive"} /\ {"lock", "try"} \subseteq Modes
    /\ MaxLevels \in Nat \ {0}

-----------------------------------------------------------------------------
(* Kernel mutexes: the inductive invariant. *)

\* No mutex is locked deeper than the bound.
RecursionBounded == \A o \in Objs : recursion[o] <= MaxRecursion

\* A thread in a call has named its mutex; only an untimed lock blocks, and it
\* does so in the middle of a round.
CallIsRounds(t) ==
    /\ call[t] # "none" => handle[t] \in Objs
    /\ blocked[t] # NoObj => call[t] = "lock" /\ blocked[t] = handle[t] /\ wanted[t] > 0

\* What the thread holds is what it held when the call began and the levels the
\* call has taken since, less those a back-out has given up again.
LevelsAddUp(t) ==
    /\ call[t] \in {"lock", "poll"} =>
          /\ held[t][handle[t]] = before[t] + taken[t]
          /\ taken[t] + wanted[t] \in 1 .. MaxLevels
    /\ call[t] = "backout" =>
          /\ held[t][handle[t]] = before[t] + wanted[t]

KernelMutexInv ==
    /\ GuestMutexInv
    /\ KernelMutexTypeOK
    /\ RecursionBounded
    /\ \A t \in Threads : CallIsRounds(t) /\ LevelsAddUp(t)

LEMMA KernelInitEstablishesInv ==
    KernelCallsAssumption /\ KernelMutexInit => KernelMutexInv
<1> SUFFICES ASSUME KernelCallsAssumption, KernelMutexInit PROVE KernelMutexInv
    OBVIOUS
<1> USE GuestMutexAssumption DEF KernelCallsAssumption
<1>1. GuestMutexInv
    BY InitEstablishesInv DEF KernelMutexInit
<1>2. KernelMutexTypeOK
    BY <1>1 DEF KernelMutexInit, KernelMutexTypeOK, GuestMutexInv
<1>3. RecursionBounded /\ \A t \in Threads : CallIsRounds(t) /\ LevelsAddUp(t)
    BY DEF KernelMutexInit, GuestMutexInit, RecursionBounded, CallIsRounds, LevelsAddUp
<1> QED
    BY <1>1, <1>2, <1>3 DEF KernelMutexInv

-----------------------------------------------------------------------------
(* What a lock and an unlock do to the levels a thread holds. *)

\* A lock of a Recursive mutex takes one level, or leaves the levels alone: a
\* try does so when another thread owns it, and the others block.
LEMMA RoundTakesOne ==
    ASSUME NEW t \in Threads, NEW o \in Objs, NEW mode \in {"lock", "try"},
           KernelCallsAssumption, GuestMutexInv, RecursionBounded,
           blocked[t] = NoObj, MutexLockImpl(t, o, mode)
    PROVE  /\ RecursionBounded'
           /\ \/ /\ UNCHANGED blocked
                 /\ held' = [held EXCEPT ![t][o] = held[t][o] + 1] /\ held[t][o] + 1 <= MaxRecursion
              \/ /\ UNCHANGED held /\ owner[o] # t
                 /\ IF mode = "try" THEN UNCHANGED blocked ELSE blocked' = [blocked EXCEPT ![t] = o]
<1> USE GuestMutexAssumption DEF GuestMutexInv, GuestMutexTypeOK
<1>1. mtype[o] = "Recursive" /\ recursion[o] \in Nat /\ held[t][o] \in Nat
    BY DEF KernelCallsAssumption
<1>2. held[t][o] = IF owner[o] = t THEN recursion[o] ELSE 0
    BY DEF HeldIsRecursion
<1>3. CASE LockAgain(t, o, mode)
    <2>1. /\ owner[o] = t /\ recursion[o] < MaxRecursion
          /\ recursion' = [recursion EXCEPT ![o] = recursion[o] + 1]
          /\ held' = [held EXCEPT ![t][o] = held[t][o] + 1]
          /\ UNCHANGED blocked
        BY <1>1, <1>3 DEF LockAgain, CountsRelock
    <2>2. RecursionBounded'
        BY <1>1, <2>1 DEF RecursionBounded
    <2> QED
        BY <1>1, <1>2, <2>1, <2>2
<1>4. CASE LockFree(t, o, mode)
    <2>1. /\ owner[o] = NoThread
          /\ recursion' = [recursion EXCEPT ![o] = 1]
          /\ held' = [held EXCEPT ![t][o] = 1]
          /\ UNCHANGED blocked
        BY <1>4 DEF LockFree, MayTake, MutexAcquireLocked
    <2>2. RecursionBounded'
        BY <2>1 DEF RecursionBounded
    <2>3. held[t][o] = 0
        BY <1>2, <2>1
    <2> QED
        BY <2>1, <2>2, <2>3
<1>5. CASE LockBusy(t, o, mode)
    <2>1. /\ owner[o] # t /\ UNCHANGED <<held, recursion>>
          /\ IF mode = "try" THEN UNCHANGED blocked ELSE blocked' = [blocked EXCEPT ![t] = o]
        BY <1>5 DEF LockBusy, Queue
    <2> QED
        BY <2>1 DEF RecursionBounded
<1> QED
    BY <1>3, <1>4, <1>5 DEF MutexLockImpl

\* An unlock gives one level back if there is one.
LEMMA RoundGivesOne ==
    ASSUME NEW t \in Threads, NEW o \in Objs, GuestMutexInv, RecursionBounded,
           blocked[t] = NoObj, MutexUnlockImpl(t, o)
    PROVE  /\ RecursionBounded' /\ UNCHANGED blocked
           /\ held[t][o] > 0 => held' = [held EXCEPT ![t][o] = held[t][o] - 1]
           /\ held[t][o] = 0 => UNCHANGED held
<1> USE GuestMutexAssumption DEF GuestMutexInv, GuestMutexTypeOK
<1>1. held[t][o] = IF owner[o] = t THEN recursion[o] ELSE 0
    BY DEF HeldIsRecursion
<1>2. recursion[o] \in Nat /\ (owner[o] = t => recursion[o] > 0)
    BY DEF FreeIsUnused
<1>3. CASE recursion[o] = 0 \/ owner[o] # t
    <2>1. UNCHANGED <<held, recursion, blocked>>
        BY <1>3 DEF MutexUnlockImpl, mutexVars
    <2> QED
        BY <1>1, <1>3, <2>1 DEF RecursionBounded
<1>4. CASE ~ (recursion[o] = 0 \/ owner[o] # t)
    <2>1. /\ held' = [held EXCEPT ![t][o] = held[t][o] - 1]
          /\ UNCHANGED blocked
          /\ \E c \in {0, 1, recursion[o] - 1} : recursion' = [recursion EXCEPT ![o] = c]
        BY <1>2, <1>4 DEF MutexUnlockImpl, MutexHandoffLocked
    <2>2. RecursionBounded'
        <3>1. PICK c \in {0, 1, recursion[o] - 1} : recursion' = [recursion EXCEPT ![o] = c]
            BY <2>1
        <3>2. c <= MaxRecursion
            BY <1>2 DEF RecursionBounded
        <3> QED
            BY <3>1, <3>2 DEF RecursionBounded
    <2> QED
        BY <1>1, <1>2, <1>4, <2>1, <2>2
<1> QED
    BY <1>3, <1>4

-----------------------------------------------------------------------------
(* Every step of the calls is a step of the mutex or none. *)

LEMMA KernelStepIsMove ==
    ASSUME KernelCallsAssumption, KernelMutexInv, [KernelMutexNext]_kernelVars
    PROVE  [MutexMove]_mutexVars
<1> USE GuestMutexAssumption
<1>0. /\ \A t \in Threads : call[t] # "none" => handle[t] \in Objs
      /\ \A t \in Threads : call[t] # "lock" => Ready(t)
    BY DEF KernelMutexInv, CallIsRounds, Ready
<1>1. CASE UNCHANGED kernelVars
    BY <1>1 DEF kernelVars, mutexVars
<1>2. ASSUME NEW t \in Threads, NEW o \in Objs, NEW kind \in {"lock", "poll", "unlock"},
             NEW n \in 1 .. MaxLevels, Begin(t, o, kind, n)
      PROVE  [MutexMove]_mutexVars
    BY <1>2 DEF Begin
<1>3. ASSUME NEW t \in Threads, LockRound(t) PROVE [MutexMove]_mutexVars
    <2>1. handle[t] \in Objs /\ Lock(t, handle[t], "lock") /\ "lock" \in AllModes
        BY <1>0, <1>3 DEF LockRound, Lock, AllModes
    <2> QED
        BY <2>1 DEF MutexMove
<1>4. ASSUME NEW t \in Threads, PollRound(t) PROVE [MutexMove]_mutexVars
    <2>1. handle[t] \in Objs /\ Lock(t, handle[t], "try") /\ "try" \in AllModes
        BY <1>0, <1>4 DEF PollRound, Lock, AllModes
    <2> QED
        BY <2>1 DEF MutexMove
<1>5. ASSUME NEW t \in Threads, UnlockRound(t) PROVE [MutexMove]_mutexVars
    <2>1. handle[t] \in Objs /\ Unlock(t, handle[t])
        BY <1>0, <1>5 DEF UnlockRound, Unlock
    <2> QED
        BY <2>1 DEF MutexMove
<1>6. ASSUME NEW t \in Threads, RoundGranted(t) \/ BlockedStep(t) PROVE [MutexMove]_mutexVars
    BY <1>6 DEF RoundGranted, BlockedStep, MutexMove
<1>7. ASSUME NEW t \in Threads, Deadline(t) \/ Return(t) PROVE [MutexMove]_mutexVars
    BY <1>7 DEF Deadline, Return
<1> QED
    BY <1>1, <1>2, <1>3, <1>4, <1>5, <1>6, <1>7 DEF KernelMutexNext

-----------------------------------------------------------------------------
(* The invariant is inductive. *)

\* The parts of the invariant that a step on behalf of t can disturb are those
\* about t: the calls of the other threads and what they hold stay as they are.
LEMMA OwnStep ==
    ASSUME NEW t \in Threads, KernelMutexInv, GuestMutexInv', RecursionBounded', KernelMutexTypeOK',
           \A u \in Threads \ {t} :
               /\ call'[u] = call[u] /\ handle'[u] = handle[u] /\ wanted'[u] = wanted[u]
               /\ taken'[u] = taken[u] /\ before'[u] = before[u]
               /\ blocked'[u] = blocked[u] /\ held'[u] = held[u],
           CallIsRounds(t)', LevelsAddUp(t)'
    PROVE  KernelMutexInv'
<1>1. ASSUME NEW u \in Threads, u # t PROVE (CallIsRounds(u) /\ LevelsAddUp(u))'
    BY <1>1 DEF KernelMutexInv, CallIsRounds, LevelsAddUp
<1> QED
    BY <1>1 DEF KernelMutexInv

\* What the invariant says of one thread.
LEMMA OwnFacts ==
    ASSUME NEW t \in Threads, KernelMutexInv
    PROVE  /\ KernelMutexTypeOK /\ GuestMutexTypeOK /\ RecursionBounded
           /\ CallIsRounds(t) /\ LevelsAddUp(t)
           /\ call[t] \in {"none", "lock", "poll", "backout", "unlock"}
           /\ wanted[t] \in 0 .. MaxLevels /\ taken[t] \in 0 .. MaxLevels
           /\ before[t] \in 0 .. MaxRecursion
           /\ \A o \in Objs : held[t][o] \in 0 .. MaxRecursion
<1>1. GuestMutexTypeOK /\ RecursionBounded /\ HeldIsRecursion /\ KernelMutexTypeOK
    BY DEF KernelMutexInv, GuestMutexInv
<1>2. \A o \in Objs : held[t][o] \in Nat /\ recursion[o] <= MaxRecursion
    BY <1>1 DEF GuestMutexTypeOK, RecursionBounded
<1>3. \A o \in Objs : held[t][o] \in {0, recursion[o]}
    BY <1>1 DEF HeldIsRecursion
<1>4. \A o \in Objs : held[t][o] \in 0 .. MaxRecursion
    BY <1>2, <1>3, GuestMutexAssumption
<1> QED
    BY <1>1, <1>4 DEF KernelMutexInv, KernelMutexTypeOK

\* The call begins; the mutex is not touched.
LEMMA BeginKeepsInv ==
    ASSUME NEW t \in Threads, NEW o \in Objs, NEW kind \in {"lock", "poll", "unlock"},
           NEW n \in 1 .. MaxLevels, KernelCallsAssumption, KernelMutexInv, GuestMutexInv',
           Begin(t, o, kind, n)
    PROVE  KernelMutexInv'
<1>1. /\ call[t] = "none" /\ UNCHANGED mutexVars
      /\ call' = [call EXCEPT ![t] = kind] /\ handle' = [handle EXCEPT ![t] = o]
      /\ wanted' = [wanted EXCEPT ![t] = n] /\ taken' = [taken EXCEPT ![t] = 0]
      /\ before' = [before EXCEPT ![t] = held[t][o]]
    BY DEF Begin
<1>2. /\ KernelMutexTypeOK /\ RecursionBounded /\ CallIsRounds(t)
      /\ held[t][o] \in 0 .. MaxRecursion
    BY OwnFacts
<1>3. UNCHANGED <<held, recursion, blocked>> /\ blocked[t] = NoObj
    BY <1>1, <1>2 DEF mutexVars, CallIsRounds
<1>4. RecursionBounded'
    BY <1>2, <1>3 DEF RecursionBounded
<1>5. KernelMutexTypeOK'
    BY <1>1, <1>2 DEF KernelMutexTypeOK, GuestMutexInv, KernelCallsAssumption
<1>6. /\ call'[t] = kind /\ handle'[t] = o /\ wanted'[t] = n /\ taken'[t] = 0
      /\ before'[t] = held[t][o]
      /\ \A u \in Threads \ {t} :
               /\ call'[u] = call[u] /\ handle'[u] = handle[u] /\ wanted'[u] = wanted[u]
               /\ taken'[u] = taken[u] /\ before'[u] = before[u]
    BY <1>1, <1>2 DEF KernelMutexTypeOK
<1>7. CallIsRounds(t)' /\ LevelsAddUp(t)'
    BY <1>2, <1>3, <1>6 DEF CallIsRounds, LevelsAddUp
<1> QED
    BY <1>3, <1>4, <1>5, <1>6, <1>7, OwnStep

\* A round of an untimed or of a timed lock.
LEMMA RoundKeepsInv ==
    ASSUME NEW t \in Threads, KernelCallsAssumption, KernelMutexInv, GuestMutexInv',
           LockRound(t) \/ PollRound(t)
    PROVE  KernelMutexInv'
<1> DEFINE o == handle[t]
           mode == IF call[t] = "lock" THEN "lock" ELSE "try"
<1>1. /\ call[t] \in {"lock", "poll"} /\ wanted[t] > 0 /\ MutexLockImpl(t, o, mode)
      /\ call[t] = "lock" => blocked[t] = NoObj
      /\ call[t] = "lock" => IF blocked'[t] = NoObj THEN Count(t) ELSE UNCHANGED callVars
      /\ call[t] = "poll" => IF held'[t][o] > held[t][o] THEN Count(t) ELSE UNCHANGED callVars
    BY DEF LockRound, PollRound, Ready
<1>2. KernelMutexTypeOK /\ GuestMutexTypeOK /\ RecursionBounded /\ CallIsRounds(t) /\ LevelsAddUp(t)
    BY OwnFacts
<1>3. /\ o \in Objs /\ blocked[t] = NoObj /\ o # NoObj
      /\ held[t][o] = before[t] + taken[t] /\ taken[t] + wanted[t] \in 1 .. MaxLevels
      /\ held[t][o] \in Nat /\ taken[t] \in Nat /\ wanted[t] \in Nat /\ before[t] \in Nat
    BY <1>1, <1>2, OwnFacts, GuestMutexAssumption DEF CallIsRounds, LevelsAddUp
<1>4. mode \in {"lock", "try"} /\ GuestMutexInv
    BY DEF KernelMutexInv
<1>5. /\ RecursionBounded'
      /\ \/ /\ UNCHANGED blocked
            /\ held' = [held EXCEPT ![t][o] = held[t][o] + 1] /\ held[t][o] + 1 <= MaxRecursion
         \/ /\ UNCHANGED held /\ owner[o] # t
            /\ IF mode = "try" THEN UNCHANGED blocked ELSE blocked' = [blocked EXCEPT ![t] = o]
    <2> HIDE DEF mode
    <2> QED
        BY <1>1, <1>2, <1>3, <1>4, RoundTakesOne
<1>6. CASE /\ UNCHANGED blocked
           /\ held' = [held EXCEPT ![t][o] = held[t][o] + 1]
    <2>1. held'[t][o] = held[t][o] + 1 /\ \A u \in Threads \ {t} : held'[u] = held[u]
        BY <1>2, <1>3, <1>6 DEF GuestMutexTypeOK
    <2>2. Count(t)
        BY <1>1, <1>3, <1>6, <2>1
    <2>3. /\ wanted' = [wanted EXCEPT ![t] = wanted[t] - 1] /\ taken' = [taken EXCEPT ![t] = taken[t] + 1]
          /\ UNCHANGED <<call, handle, before>>
        BY <2>2 DEF Count
    <2>4. /\ wanted'[t] = wanted[t] - 1 /\ taken'[t] = taken[t] + 1
          /\ \A u \in Threads \ {t} : wanted'[u] = wanted[u] /\ taken'[u] = taken[u]
        BY <1>2, <2>3 DEF KernelMutexTypeOK
    <2>5. wanted[t] - 1 \in 0 .. MaxLevels /\ taken[t] + 1 \in 0 .. MaxLevels
        BY <1>1, <1>3 DEF KernelCallsAssumption
    <2>6. KernelMutexTypeOK'
        BY <1>2, <2>3, <2>5 DEF KernelMutexTypeOK, GuestMutexInv
    <2>7. CallIsRounds(t)' /\ LevelsAddUp(t)'
        BY <1>1, <1>3, <1>6, <2>1, <2>3, <2>4 DEF CallIsRounds, LevelsAddUp
    <2> QED
        BY <1>5, <1>6, <2>1, <2>3, <2>4, <2>6, <2>7, OwnStep
<1>7. CASE /\ UNCHANGED held
           /\ IF mode = "try" THEN UNCHANGED blocked ELSE blocked' = [blocked EXCEPT ![t] = o]
    <2>1. blocked'[t] = (IF mode = "try" THEN NoObj ELSE o) /\ \A u \in Threads \ {t} : blocked'[u] = blocked[u]
        BY <1>2, <1>3, <1>7 DEF GuestMutexTypeOK
    <2>2. UNCHANGED callVars
        BY <1>1, <1>3, <1>7, <2>1
    <2>3. UNCHANGED <<call, handle, wanted, taken, before>>
        BY <2>2 DEF callVars
    <2>4. KernelMutexTypeOK'
        BY <1>2, <2>3 DEF KernelMutexTypeOK, GuestMutexInv
    <2>5. CallIsRounds(t)' /\ LevelsAddUp(t)'
        BY <1>1, <1>2, <1>3, <1>7, <2>1, <2>3 DEF CallIsRounds, LevelsAddUp
    <2> QED
        BY <1>5, <1>7, <2>1, <2>3, <2>4, <2>5, OwnStep
<1> QED
    BY <1>5, <1>6, <1>7

\* The owner an untimed lock waited for has handed the mutex over.
LEMMA RoundGrantedKeepsInv ==
    ASSUME NEW t \in Threads, KernelCallsAssumption, KernelMutexInv, GuestMutexInv', RoundGranted(t)
    PROVE  KernelMutexInv'
<1> DEFINE o == handle[t]
<1>1. /\ blocked[t] # NoObj
      /\ held' = [held EXCEPT ![t][blocked[t]] = 1]
      /\ blocked' = [blocked EXCEPT ![t] = NoObj]
      /\ UNCHANGED recursion
      /\ wanted' = [wanted EXCEPT ![t] = wanted[t] - 1] /\ taken' = [taken EXCEPT ![t] = taken[t] + 1]
      /\ UNCHANGED <<call, handle, before>>
    BY DEF RoundGranted, LockGranted, Count
<1>2. KernelMutexTypeOK /\ GuestMutexTypeOK /\ RecursionBounded /\ CallIsRounds(t) /\ LevelsAddUp(t)
    BY OwnFacts
<1>3. /\ call[t] = "lock" /\ blocked[t] = o /\ o \in Objs /\ wanted[t] > 0
      /\ held[t][o] = before[t] + taken[t] /\ taken[t] + wanted[t] \in 1 .. MaxLevels
      /\ taken[t] \in Nat /\ wanted[t] \in Nat /\ before[t] \in Nat
    BY <1>1, <1>2, OwnFacts DEF CallIsRounds, LevelsAddUp
<1>4. held[t][o] = 0
    BY <1>3 DEF KernelMutexInv, GuestMutexInv, HeldIsRecursion
<1>5. /\ held'[t][o] = 1 /\ blocked'[t] = NoObj
      /\ \A u \in Threads \ {t} : held'[u] = held[u] /\ blocked'[u] = blocked[u]
    BY <1>1, <1>2, <1>3 DEF GuestMutexTypeOK
<1>6. /\ wanted'[t] = wanted[t] - 1 /\ taken'[t] = taken[t] + 1
      /\ \A u \in Threads \ {t} : wanted'[u] = wanted[u] /\ taken'[u] = taken[u]
    BY <1>1, <1>2 DEF KernelMutexTypeOK
<1>7. wanted[t] - 1 \in 0 .. MaxLevels /\ taken[t] + 1 \in 0 .. MaxLevels
    BY <1>3 DEF KernelCallsAssumption
<1>8. KernelMutexTypeOK'
    BY <1>1, <1>2, <1>7 DEF KernelMutexTypeOK, GuestMutexInv
<1>9. CallIsRounds(t)' /\ LevelsAddUp(t)'
    BY <1>1, <1>3, <1>4, <1>5, <1>6 DEF CallIsRounds, LevelsAddUp
<1>10. RecursionBounded'
    BY <1>1, <1>2 DEF RecursionBounded
<1> QED
    BY <1>1, <1>5, <1>6, <1>8, <1>9, <1>10, OwnStep

\* A round of an unlock call or of a back-out.
LEMMA UnlockRoundKeepsInv ==
    ASSUME NEW t \in Threads, KernelCallsAssumption, KernelMutexInv, GuestMutexInv', UnlockRound(t)
    PROVE  KernelMutexInv'
<1> DEFINE o == handle[t]
<1>1. /\ call[t] \in {"unlock", "backout"} /\ wanted[t] > 0 /\ MutexUnlockImpl(t, o)
      /\ wanted' = [wanted EXCEPT ![t] = wanted[t] - 1]
      /\ UNCHANGED <<call, handle, taken, before>>
    BY DEF UnlockRound
<1>2. KernelMutexTypeOK /\ GuestMutexTypeOK /\ RecursionBounded /\ CallIsRounds(t) /\ LevelsAddUp(t)
    BY OwnFacts
<1>3. /\ o \in Objs /\ blocked[t] = NoObj
      /\ call[t] = "backout" => held[t][o] = before[t] + wanted[t]
      /\ held[t][o] \in Nat /\ wanted[t] \in 0 .. MaxLevels /\ before[t] \in Nat
    BY <1>1, <1>2, OwnFacts DEF CallIsRounds, LevelsAddUp
<1>4. /\ RecursionBounded' /\ UNCHANGED blocked
      /\ held[t][o] > 0 => held' = [held EXCEPT ![t][o] = held[t][o] - 1]
      /\ held[t][o] = 0 => UNCHANGED held
    BY <1>1, <1>2, <1>3, RoundGivesOne DEF KernelMutexInv
<1>5. /\ \A u \in Threads \ {t} : held'[u] = held[u]
      /\ call[t] = "backout" => held'[t][o] = held[t][o] - 1
    BY <1>1, <1>2, <1>3, <1>4 DEF GuestMutexTypeOK
<1>6. wanted'[t] = wanted[t] - 1 /\ \A u \in Threads \ {t} : wanted'[u] = wanted[u]
    BY <1>1, <1>2 DEF KernelMutexTypeOK
<1>7. wanted[t] - 1 \in 0 .. MaxLevels
    BY <1>1, <1>3 DEF KernelCallsAssumption
<1>8. KernelMutexTypeOK'
    BY <1>1, <1>2, <1>7 DEF KernelMutexTypeOK, GuestMutexInv
<1>9. CallIsRounds(t)' /\ LevelsAddUp(t)'
    BY <1>1, <1>3, <1>4, <1>5, <1>6 DEF CallIsRounds, LevelsAddUp
<1> QED
    BY <1>1, <1>4, <1>5, <1>6, <1>8, <1>9, OwnStep

\* The deadline, when another thread owns the mutex: all that was taken goes back.
LEMMA DeadlineKeepsInv ==
    ASSUME NEW t \in Threads, KernelCallsAssumption, KernelMutexInv, GuestMutexInv', Deadline(t)
    PROVE  KernelMutexInv'
<1>1. /\ call[t] = "poll" /\ UNCHANGED mutexVars
      /\ call' = [call EXCEPT ![t] = "backout"] /\ wanted' = [wanted EXCEPT ![t] = taken[t]]
      /\ UNCHANGED <<handle, taken, before>>
    BY DEF Deadline
<1>2. /\ KernelMutexTypeOK /\ RecursionBounded /\ CallIsRounds(t) /\ LevelsAddUp(t)
      /\ taken[t] \in 0 .. MaxLevels
    BY OwnFacts
<1>3. UNCHANGED <<held, recursion, blocked>>
    BY <1>1 DEF mutexVars
<1>4. RecursionBounded'
    BY <1>2, <1>3 DEF RecursionBounded
<1>5. KernelMutexTypeOK'
    BY <1>1, <1>2 DEF KernelMutexTypeOK, GuestMutexInv
<1>6. /\ call'[t] = "backout" /\ wanted'[t] = taken[t]
      /\ \A u \in Threads \ {t} : call'[u] = call[u] /\ wanted'[u] = wanted[u]
    BY <1>1, <1>2 DEF KernelMutexTypeOK
<1>7. CallIsRounds(t)' /\ LevelsAddUp(t)'
    BY <1>1, <1>2, <1>3, <1>6 DEF CallIsRounds, LevelsAddUp
<1> QED
    BY <1>1, <1>3, <1>4, <1>5, <1>6, <1>7, OwnStep

\* The return, and the wake-ups that change nobody's levels.
LEMMA QuietStepKeepsInv ==
    ASSUME NEW t \in Threads, KernelMutexInv, GuestMutexInv', Return(t) \/ BlockedStep(t)
    PROVE  KernelMutexInv'
<1>1. /\ UNCHANGED <<held, recursion, blocked, handle, wanted, taken, before>>
      /\ \/ blocked[t] = NoObj /\ call' = [call EXCEPT ![t] = "none"]
         \/ UNCHANGED call
    BY DEF Return, BlockedStep, Ready, SleepAgain, SpuriousWake, mutexVars, callVars
<1>2. /\ KernelMutexTypeOK /\ RecursionBounded /\ CallIsRounds(t) /\ LevelsAddUp(t)
      /\ call[t] \in {"none", "lock", "poll", "backout", "unlock"}
    BY OwnFacts
<1>3. RecursionBounded'
    BY <1>1, <1>2 DEF RecursionBounded
<1>4. KernelMutexTypeOK'
    BY <1>1, <1>2 DEF KernelMutexTypeOK, GuestMutexInv
<1>5. /\ call'[t] = call[t] \/ (call'[t] = "none" /\ blocked[t] = NoObj)
      /\ \A u \in Threads \ {t} : call'[u] = call[u]
    BY <1>1, <1>2 DEF KernelMutexTypeOK
<1>6. CallIsRounds(t)' /\ LevelsAddUp(t)'
    BY <1>1, <1>2, <1>5 DEF CallIsRounds, LevelsAddUp
<1> QED
    BY <1>1, <1>3, <1>4, <1>5, <1>6, OwnStep

LEMMA KernelStepKeepsInv ==
    ASSUME KernelCallsAssumption, KernelMutexInv, [KernelMutexNext]_kernelVars
    PROVE  KernelMutexInv'
<1>1. GuestMutexInv'
    BY KernelStepIsMove, NextKeepsInv DEF KernelMutexInv
<1>2. CASE UNCHANGED kernelVars
    <2>1. UNCHANGED <<held, recursion, blocked, call, handle, wanted, taken, before>>
        BY <1>2 DEF kernelVars, mutexVars, callVars
    <2> QED
        BY <1>1, <2>1 DEF KernelMutexInv, KernelMutexTypeOK, RecursionBounded, CallIsRounds, LevelsAddUp,
                          GuestMutexInv
<1>3. ASSUME NEW t \in Threads, NEW o \in Objs, NEW kind \in {"lock", "poll", "unlock"},
             NEW n \in 1 .. MaxLevels, Begin(t, o, kind, n)
      PROVE  KernelMutexInv'
    BY <1>1, <1>3, BeginKeepsInv
<1> QED
    BY <1>1, <1>2, <1>3, RoundKeepsInv, RoundGrantedKeepsInv, UnlockRoundKeepsInv, DeadlineKeepsInv,
       QuietStepKeepsInv DEF KernelMutexNext

\* The change of levels a returning call leaves behind.
LEMMA ReturnIsAllOrNothing ==
    ASSUME KernelCallsAssumption, KernelMutexInv, [KernelMutexNext]_kernelVars, NEW t \in Threads,
           call[t] \in {"lock", "poll", "backout"}, call'[t] = "none"
    PROVE  LET n == held'[t][handle[t]] - before[t]
           IN  IF call[t] = "lock" THEN n > 0 /\ n = taken[t] ELSE n \in {0, taken[t] + wanted[t]}
<1>1. KernelMutexTypeOK /\ LevelsAddUp(t) /\ taken[t] \in Nat /\ before[t] \in Nat
    BY OwnFacts
<1>2. Return(t)
    <2>1. \A u \in Threads : LockRound(u) => UNCHANGED call
        BY DEF LockRound, Count, callVars
    <2>2. \A u \in Threads : PollRound(u) => UNCHANGED call
        BY DEF PollRound, Count, callVars
    <2>3. \A u \in Threads : RoundGranted(u) \/ UnlockRound(u) \/ BlockedStep(u) => UNCHANGED call
        BY DEF RoundGranted, Count, UnlockRound, BlockedStep, callVars
    <2>4. \A u \in Threads : Deadline(u) => call'[t] # "none"
        BY <1>1 DEF Deadline, KernelMutexTypeOK
    <2>5. \A u \in Threads, o \in Objs, kind \in {"lock", "poll", "unlock"}, n \in 1 .. MaxLevels :
             Begin(u, o, kind, n) => call'[t] # "none"
        BY <1>1 DEF Begin, KernelMutexTypeOK
    <2>6. \A u \in Threads : u # t /\ Return(u) => call'[t] # "none"
        BY <1>1 DEF Return, KernelMutexTypeOK
    <2>7. UNCHANGED kernelVars => UNCHANGED call
        BY DEF kernelVars, callVars
    <2> QED
        BY <2>1, <2>2, <2>3, <2>4, <2>5, <2>6, <2>7 DEF KernelMutexNext
<1>3. wanted[t] = 0 /\ held' = held
    BY <1>2 DEF Return, mutexVars
<1> QED
    BY <1>1, <1>3 DEF LevelsAddUp

-----------------------------------------------------------------------------
(* Mutex variables: the inductive invariant. *)

\* What the variables take for granted: the static initialisers are no tokens,
\* and the types a static initialiser stands for are among the types.
VariablesAssumption ==
    /\ {"ErrorCheck", "AdaptiveNp"} \subseteq Types
    /\ Zero \notin Objs /\ Adaptive \notin Objs

\* A block that is not in the map is nobody's mutex.
FreeIsNobodys == \A o \in FreeObjs : owner[o] = NoThread

\* A thread inside a lookup is about one variable and is not blocked, and a token
\* it is to look up or has found still is the one in the word.
LookupIsCurrent(t) ==
    /\ step[t] # "guest" => var[t] \in Vars /\ blocked[t] = NoObj
    /\ step[t] \in {"find", "found"} => token[t] = word[var[t]] /\ token[t] \in mutexes

MutexVariablesInv ==
    /\ GuestMutexInv
    /\ MutexVariablesTypeOK
    /\ OneObjectPerVariable
    /\ FreeIsNobodys
    /\ \A t \in Threads : LookupIsCurrent(t)

\* A mutex that nobody owns is not blocked on and not held.
LEMMA NobodysIsUnused ==
    ASSUME GuestMutexInv, NEW o \in Objs, owner[o] = NoThread
    PROVE  /\ waiters[o] = <<>> /\ recursion[o] = 0
           /\ \A t \in Threads : held[t][o] = 0 /\ blocked[t] # o
<1>1. waiters[o] = <<>> /\ recursion[o] = 0
    BY DEF GuestMutexInv, FreeIsUnused
<1>2. \A t \in Threads : owner[o] # t
    BY GuestMutexAssumption
<1>3. 1 .. Len(waiters[o]) = {}
    BY <1>1
<1> QED
    BY <1>1, <1>2, <1>3 DEF GuestMutexInv, HeldIsRecursion, BlockedAreQueued

LEMMA NothingOfTheFreed ==
    MutexVariablesInv => NoUseAfterDestroy
    BY NobodysIsUnused DEF MutexVariablesInv, FreeIsNobodys, FreeObjs, NoUseAfterDestroy

LEMMA VariablesInitEstablishesInv ==
    VariablesAssumption /\ MutexVariablesInit => MutexVariablesInv
<1> SUFFICES ASSUME VariablesAssumption, MutexVariablesInit PROVE MutexVariablesInv
    OBVIOUS
<1>1. GuestMutexInv
    BY InitEstablishesInv DEF MutexVariablesInit
<1>2. MutexVariablesTypeOK
    BY <1>1 DEF MutexVariablesInit, MutexVariablesTypeOK, GuestMutexInv, Calls
<1>3. OneObjectPerVariable
    BY DEF MutexVariablesInit, OneObjectPerVariable, VariablesAssumption
<1>4. FreeIsNobodys /\ \A t \in Threads : LookupIsCurrent(t)
    BY DEF MutexVariablesInit, GuestMutexInit, FreeIsNobodys, FreeObjs, LookupIsCurrent
<1> QED
    BY <1>1, <1>2, <1>3, <1>4 DEF MutexVariablesInv

-----------------------------------------------------------------------------
(* Steps of the mutex. *)

\* The calls and the blocked threads move the mutex as anybody does.
LEMMA VariableStepIsMove ==
    ASSUME NEW t \in Threads, MutexVariablesInv, Perform(t)
    PROVE  /\ token[t] \in mutexes /\ token[t] \in Objs /\ blocked[t] = NoObj
           /\ Unlock(t, token[t]) \/ \E mode \in AllModes : Lock(t, token[t], mode)
<1>1. step[t] = "found" /\ LookupIsCurrent(t) /\ MutexVariablesTypeOK
    BY DEF Perform, MutexVariablesInv
<1>2. token[t] \in mutexes /\ token[t] \in Objs /\ blocked[t] = NoObj /\ op[t] \in Modes \cup {"unlock"}
    BY <1>1 DEF LookupIsCurrent, MutexVariablesTypeOK, Calls
<1>3. Unlock(t, token[t]) \/ \E mode \in AllModes : Lock(t, token[t], mode)
    BY <1>2, GuestMutexAssumption DEF Perform, Unlock, Lock, Ready
<1> QED
    BY <1>2, <1>3

\* A lock or an unlock gives only its own mutex another owner, and blocks nobody
\* but the caller.
LEMMA OwnMutexOnly ==
    ASSUME NEW t \in Threads, NEW o \in Objs, GuestMutexInv,
           Unlock(t, o) \/ \E mode \in AllModes : Lock(t, o, mode)
    PROVE  /\ \A p \in Objs \ {o} : owner'[p] = owner[p]
           /\ \A u \in Threads \ {t} : blocked'[u] = blocked[u]
<1>0. GuestMutexTypeOK
    BY DEF GuestMutexInv
<1>1. CASE Unlock(t, o)
    BY <1>0, <1>1 DEF GuestMutexTypeOK, Unlock, MutexUnlockImpl, MutexHandoffLocked, mutexVars
<1>2. ASSUME NEW mode \in AllModes, Lock(t, o, mode)
      PROVE  /\ \A p \in Objs \ {o} : owner'[p] = owner[p]
             /\ \A u \in Threads \ {t} : blocked'[u] = blocked[u]
    BY <1>0, <1>2 DEF GuestMutexTypeOK, Lock, MutexLockImpl, LockAgain, LockFree, LockBusy, Queue,
                      MutexAcquireLocked
<1> QED
    BY <1>1, <1>2

LEMMA PerformKeepsInv ==
    ASSUME NEW t \in Threads, MutexVariablesInv, Perform(t)
    PROVE  MutexVariablesInv'
<1>1. /\ token[t] \in mutexes /\ token[t] \in Objs
      /\ Unlock(t, token[t]) \/ \E mode \in AllModes : Lock(t, token[t], mode)
    BY VariableStepIsMove
<1>2. /\ step' = [step EXCEPT ![t] = "guest"] /\ var' = [var EXCEPT ![t] = NoVar]
      /\ UNCHANGED <<word, mutexes, op, token>>
    BY DEF Perform
<1>3. GuestMutexInv'
    <2>1. MutexMove
        BY <1>1 DEF MutexMove
    <2> QED
        BY <2>1, NextKeepsInv DEF MutexVariablesInv
<1>4. /\ \A p \in Objs \ {token[t]} : owner'[p] = owner[p]
      /\ \A u \in Threads \ {t} : blocked'[u] = blocked[u]
    BY <1>1, OwnMutexOnly DEF MutexVariablesInv
<1>5. MutexVariablesTypeOK'
    BY <1>2, <1>3 DEF MutexVariablesInv, MutexVariablesTypeOK, GuestMutexInv
<1>6. OneObjectPerVariable' /\ FreeIsNobodys'
    BY <1>1, <1>2, <1>4 DEF MutexVariablesInv, OneObjectPerVariable, FreeIsNobodys, FreeObjs
<1>7. ASSUME NEW u \in Threads PROVE LookupIsCurrent(u)'
    BY <1>2, <1>4 DEF MutexVariablesInv, MutexVariablesTypeOK, LookupIsCurrent
<1> QED
    BY <1>3, <1>5, <1>6, <1>7 DEF MutexVariablesInv

LEMMA BlockedInLockKeepsInv ==
    ASSUME NEW t \in Threads, MutexVariablesInv, UNCHANGED lookupVars,
           LockGranted(t) \/ LockTimedOut(t) \/ SleepAgain(t) \/ SpuriousWake(t)
    PROVE  MutexVariablesInv'
<1>1. /\ UNCHANGED <<owner, word, mutexes, var, op, step, token>>
      /\ \A u \in Threads : blocked'[u] \in {blocked[u], NoObj}
    BY DEF lookupVars, LockGranted, LockTimedOut, SleepAgain, SpuriousWake, MutexVariablesInv,
           GuestMutexInv, GuestMutexTypeOK
<1>2. GuestMutexInv'
    <2>1. MutexMove
        BY DEF MutexMove
    <2> QED
        BY <2>1, NextKeepsInv DEF MutexVariablesInv
<1>3. MutexVariablesTypeOK' /\ OneObjectPerVariable' /\ FreeIsNobodys'
    BY <1>1, <1>2 DEF MutexVariablesInv, MutexVariablesTypeOK, OneObjectPerVariable, FreeIsNobodys,
                      FreeObjs, GuestMutexInv
<1>4. ASSUME NEW u \in Threads PROVE LookupIsCurrent(u)'
    BY <1>1 DEF MutexVariablesInv, LookupIsCurrent
<1> QED
    BY <1>2, <1>3, <1>4 DEF MutexVariablesInv

-----------------------------------------------------------------------------
(* Steps of the lookup. *)

LEMMA ReadTokenKeepsInv ==
    ASSUME NEW t \in Threads, NEW v \in Vars, NEW c \in Calls, MutexVariablesInv, ReadToken(t, v, c)
    PROVE  MutexVariablesInv'
<1>1. /\ Ready(t) /\ step[t] = "guest" /\ token' = [token EXCEPT ![t] = word[v]]
      /\ UNCHANGED <<mutexVars, word, mutexes>>
    BY DEF ReadToken
<1>2. /\ GuestMutexInv' /\ UNCHANGED <<owner, blocked>>
      /\ MutexVariablesTypeOK /\ OneObjectPerVariable /\ GuestMutexTypeOK'
    BY <1>1, StutterKeepsInv DEF MutexVariablesInv, mutexVars, GuestMutexInv
<1>3. MutexVariablesTypeOK'
    BY <1>1, <1>2 DEF MutexVariablesTypeOK, ReadToken
<1>4. OneObjectPerVariable' /\ FreeIsNobodys'
    BY <1>1, <1>2 DEF MutexVariablesInv, OneObjectPerVariable, FreeIsNobodys, FreeObjs
<1>5. ASSUME NEW u \in Threads PROVE LookupIsCurrent(u)'
    <2>1. LookupIsCurrent(u)
        BY DEF MutexVariablesInv
    <2>2. CASE u = t
        <3>1. word[v] \in Objs => word[v] \in mutexes
            BY <1>2 DEF OneObjectPerVariable
        <3> QED
            BY <1>1, <1>2, <2>2, <3>1 DEF ReadToken, LookupIsCurrent, MutexVariablesTypeOK, Ready
    <2>3. CASE u # t
        BY <1>1, <1>2, <2>1, <2>3 DEF ReadToken, LookupIsCurrent, MutexVariablesTypeOK
    <2> QED
        BY <2>2, <2>3
<1> QED
    BY <1>2, <1>3, <1>4, <1>5 DEF MutexVariablesInv

LEMMA FindTokenKeepsInv ==
    ASSUME NEW t \in Threads, MutexVariablesInv, FindToken(t)
    PROVE  MutexVariablesInv'
<1>0. MutexVariablesTypeOK /\ step[t] = "find" /\ token[t] \in mutexes
    BY DEF MutexVariablesInv, LookupIsCurrent, FindToken
<1>1. /\ step' = [step EXCEPT ![t] = "found"]
      /\ UNCHANGED <<mutexVars, word, mutexes, var, op, token>>
    BY <1>0 DEF FindToken
<1>2. GuestMutexInv' /\ UNCHANGED <<owner, blocked>> /\ GuestMutexTypeOK'
    BY <1>1, StutterKeepsInv DEF MutexVariablesInv, mutexVars, GuestMutexInv
<1>3. MutexVariablesTypeOK'
    BY <1>0, <1>1, <1>2 DEF MutexVariablesTypeOK
<1>4. OneObjectPerVariable' /\ FreeIsNobodys'
    BY <1>1, <1>2 DEF MutexVariablesInv, OneObjectPerVariable, FreeIsNobodys, FreeObjs
<1>5. ASSUME NEW u \in Threads PROVE LookupIsCurrent(u)'
    BY <1>0, <1>1, <1>2 DEF MutexVariablesInv, LookupIsCurrent, MutexVariablesTypeOK
<1> QED
    BY <1>2, <1>3, <1>4, <1>5 DEF MutexVariablesInv

-----------------------------------------------------------------------------
(* Steps that make and free objects. *)

\* A new mutex in a block that nobody uses: only its type may be new.
LEMMA NewMutexKeepsMutexInv ==
    ASSUME NEW o \in FreeObjs, NEW v \in Vars, NEW type \in Types, MutexVariablesInv,
           NewMutex(o, v, type), UNCHANGED <<blocked, timed, sleeping, held>>
    PROVE  GuestMutexInv' /\ UNCHANGED <<owner, waiters>>
<1>1. o \in Objs /\ owner[o] = NoThread /\ waiters[o] = <<>> /\ recursion[o] = 0
    BY NobodysIsUnused DEF MutexVariablesInv, FreeIsNobodys, FreeObjs
<1>2. GuestMutexTypeOK
    BY DEF MutexVariablesInv, GuestMutexInv
<1>3. /\ UNCHANGED <<owner, recursion, waiters, blocked, timed, sleeping, held>>
      /\ mtype' = [mtype EXCEPT ![o] = type]
    BY <1>1, <1>2 DEF NewMutex, GuestMutexTypeOK
<1>4. GuestMutexTypeOK'
    BY <1>1, <1>2, <1>3 DEF GuestMutexTypeOK
<1>5. FreeIsUnused' /\ HeldIsRecursion' /\ GrantedIsAwake'
    BY <1>3 DEF MutexVariablesInv, GuestMutexInv, FreeIsUnused, HeldIsRecursion, GrantedIsAwake
<1>6. QueuedAreBlocked' /\ BlockedAreQueued' /\ QueuedOnce'
    BY <1>3 DEF MutexVariablesInv, GuestMutexInv, QueuedAreBlocked, BlockedAreQueued, QueuedOnce
<1> QED
    BY <1>3, <1>4, <1>5, <1>6 DEF GuestMutexInv

\* A variable that names no object gets one of its own.
LEMMA NewMutexKeepsOne ==
    ASSUME NEW o \in FreeObjs, NEW v \in Vars, NEW type \in Types, MutexVariablesInv,
           word[v] \notin mutexes, NewMutex(o, v, type)
    PROVE  /\ OneObjectPerVariable' /\ word'[v] = o /\ word[v] \notin Objs
           /\ \A x \in Vars \ {v} : word'[x] = word[x]
<1>1. MutexVariablesTypeOK /\ OneObjectPerVariable
    BY DEF MutexVariablesInv
<1>2. /\ mutexes' = mutexes \cup {o} /\ word'[v] = o /\ o \in Objs \ mutexes
      /\ \A x \in Vars \ {v} : word'[x] = word[x]
    BY <1>1 DEF NewMutex, FreeObjs, MutexVariablesTypeOK
<1>3. \A x \in Vars : word[x] \in Objs <=> word[x] \in mutexes
    BY <1>1 DEF OneObjectPerVariable, MutexVariablesTypeOK
<1>4. mutexes' = {word'[x] : x \in {y \in Vars : word'[y] \in Objs}}
    BY <1>1, <1>2, <1>3 DEF OneObjectPerVariable
<1>5. \A x, y \in Vars : word'[x] \in mutexes' /\ word'[x] = word'[y] => x = y
    BY <1>1, <1>2, <1>3 DEF OneObjectPerVariable
<1> QED
    BY <1>2, <1>3, <1>4, <1>5 DEF OneObjectPerVariable

LEMMA CreateMutexKeepsInv ==
    ASSUME NEW t \in Threads, VariablesAssumption, MutexVariablesInv, CreateMutex(t)
    PROVE  MutexVariablesInv'
<1> DEFINE v == var[t]
<1>0. MutexVariablesTypeOK /\ GuestMutexTypeOK
    BY DEF MutexVariablesInv, MutexVariablesTypeOK
<1>1. /\ step[t] = "create" /\ step' = [step EXCEPT ![t] = "found"]
      /\ UNCHANGED <<var, op>>
    BY DEF CreateMutex
<1>2. v \in Vars /\ blocked[t] = NoObj
    BY <1>1 DEF MutexVariablesInv, LookupIsCurrent
<1>3. CASE word[v] \in mutexes
    <2>1. /\ token' = [token EXCEPT ![t] = word[v]]
          /\ UNCHANGED <<mutexVars, word, mutexes>>
        BY <1>3 DEF CreateMutex
    <2>2. GuestMutexInv' /\ UNCHANGED <<owner, blocked>> /\ GuestMutexTypeOK'
        BY <2>1, StutterKeepsInv DEF MutexVariablesInv, mutexVars, GuestMutexInv
    <2>3. MutexVariablesTypeOK'
        BY <1>0, <1>1, <1>2, <2>1, <2>2 DEF MutexVariablesTypeOK
    <2>4. OneObjectPerVariable' /\ FreeIsNobodys'
        BY <2>1, <2>2 DEF MutexVariablesInv, OneObjectPerVariable, FreeIsNobodys, FreeObjs
    <2>5. ASSUME NEW u \in Threads PROVE LookupIsCurrent(u)'
        BY <1>0, <1>1, <1>2, <1>3, <2>1, <2>2 DEF MutexVariablesInv, LookupIsCurrent, MutexVariablesTypeOK
    <2> QED
        BY <2>2, <2>3, <2>4, <2>5 DEF MutexVariablesInv
<1>4. CASE word[v] \notin mutexes
    <2>1. PICK o \in FreeObjs :
              /\ NewMutex(o, v, StaticType(word[v]))
              /\ token' = [token EXCEPT ![t] = o]
              /\ UNCHANGED <<blocked, timed, sleeping, held>>
        BY <1>4 DEF CreateMutex
    <2>2. StaticType(word[v]) \in Types
        BY DEF StaticType, VariablesAssumption
    <2>3. GuestMutexInv' /\ UNCHANGED owner
        BY <1>2, <2>1, <2>2, NewMutexKeepsMutexInv
    <2>4. /\ OneObjectPerVariable' /\ word'[v] = o /\ word[v] \notin Objs
          /\ \A x \in Vars \ {v} : word'[x] = word[x]
        BY <1>2, <1>4, <2>1, <2>2, NewMutexKeepsOne
    <2>5. /\ mutexes' = mutexes \cup {o} /\ o \in Objs
          /\ word' = [word EXCEPT ![v] = o]
        BY <2>1 DEF NewMutex, FreeObjs
    <2>6. MutexVariablesTypeOK'
        BY <1>0, <1>1, <1>2, <2>1, <2>3, <2>5 DEF MutexVariablesTypeOK, GuestMutexInv
    <2>7. FreeIsNobodys'
        BY <2>3, <2>5 DEF MutexVariablesInv, FreeIsNobodys, FreeObjs
    <2>8. ASSUME NEW u \in Threads PROVE LookupIsCurrent(u)'
        <3>1. LookupIsCurrent(u)
            BY DEF MutexVariablesInv
        <3>2. CASE u = t
            BY <1>0, <1>1, <1>2, <2>1, <2>4, <2>5, <3>2 DEF LookupIsCurrent, MutexVariablesTypeOK
        <3>3. CASE u # t
            <4>1. /\ step'[u] = step[u] /\ var'[u] = var[u] /\ token'[u] = token[u]
                  /\ blocked'[u] = blocked[u]
                BY <1>0, <1>1, <2>1, <3>3 DEF MutexVariablesTypeOK
            <4>2. step[u] \in {"find", "found"} => var[u] # v
                BY <1>4, <3>1 DEF LookupIsCurrent
            <4> QED
                BY <2>4, <2>5, <3>1, <4>1, <4>2 DEF LookupIsCurrent
        <3> QED
            BY <3>2, <3>3
    <2> QED
        BY <2>3, <2>4, <2>6, <2>7, <2>8 DEF MutexVariablesInv
<1> QED
    BY <1>3, <1>4

LEMMA MutexInitKeepsInv ==
    ASSUME NEW v \in Vars, NEW type \in Types, MutexVariablesInv, ScePthreadMutexInit(v, type)
    PROVE  MutexVariablesInv'
<1>0. MutexVariablesTypeOK
    BY DEF MutexVariablesInv
<1>1. PICK o \in FreeObjs : NewMutex(o, v, type)
    BY DEF ScePthreadMutexInit
<1>2. /\ word[v] \notin mutexes /\ \A u \in Threads : var[u] # v
      /\ UNCHANGED <<var, op, step, token, blocked, timed, sleeping, held>>
    BY DEF ScePthreadMutexInit, Unused
<1>3. GuestMutexInv' /\ UNCHANGED owner
    BY <1>1, <1>2, NewMutexKeepsMutexInv
<1>4. OneObjectPerVariable' /\ \A x \in Vars \ {v} : word'[x] = word[x]
    BY <1>1, <1>2, NewMutexKeepsOne
<1>5. mutexes' = mutexes \cup {o} /\ o \in Objs /\ word' = [word EXCEPT ![v] = o]
    BY <1>1 DEF NewMutex, FreeObjs
<1>6. MutexVariablesTypeOK'
    BY <1>0, <1>2, <1>3, <1>5 DEF MutexVariablesTypeOK, GuestMutexInv
<1>7. FreeIsNobodys'
    BY <1>3, <1>5 DEF MutexVariablesInv, FreeIsNobodys, FreeObjs
<1>8. ASSUME NEW u \in Threads PROVE LookupIsCurrent(u)'
    BY <1>2, <1>4, <1>5 DEF MutexVariablesInv, LookupIsCurrent
<1> QED
    BY <1>3, <1>4, <1>6, <1>7, <1>8 DEF MutexVariablesInv

LEMMA MutexDestroyKeepsInv ==
    ASSUME NEW v \in Vars, VariablesAssumption, MutexVariablesInv, ScePthreadMutexDestroy(v)
    PROVE  MutexVariablesInv'
<1>0. MutexVariablesTypeOK /\ OneObjectPerVariable
    BY DEF MutexVariablesInv
<1>1. /\ \A u \in Threads : var[u] # v
      /\ word[v] \in mutexes => owner[word[v]] = NoThread
      /\ mutexes' = mutexes \ {word[v]} /\ word' = [word EXCEPT ![v] = Zero]
      /\ UNCHANGED <<mutexVars, var, op, step, token>>
    BY DEF ScePthreadMutexDestroy, Unused
<1>2. GuestMutexInv' /\ UNCHANGED <<owner, blocked>> /\ GuestMutexTypeOK'
    BY <1>1, StutterKeepsInv DEF MutexVariablesInv, mutexVars, GuestMutexInv
<1>3. MutexVariablesTypeOK'
    BY <1>0, <1>1, <1>2 DEF MutexVariablesTypeOK
<1>4. word'[v] = Zero /\ Zero \notin Objs /\ \A x \in Vars \ {v} : word'[x] = word[x]
    BY <1>0, <1>1 DEF MutexVariablesTypeOK, VariablesAssumption
<1>5. \A x \in Vars \ {v} : word[x] \in mutexes => word[x] # word[v]
    BY <1>0 DEF OneObjectPerVariable
<1>6. OneObjectPerVariable'
    <2>1. \A x \in Vars : word[x] \in Objs <=> word[x] \in mutexes
        BY <1>0 DEF OneObjectPerVariable, MutexVariablesTypeOK
    <2>2. mutexes' = {word'[x] : x \in {y \in Vars : word'[y] \in Objs}}
        BY <1>0, <1>1, <1>4, <1>5, <2>1 DEF OneObjectPerVariable
    <2>3. \A x, y \in Vars : word'[x] \in mutexes' /\ word'[x] = word'[y] => x = y
        BY <1>0, <1>1, <1>4, <2>1 DEF OneObjectPerVariable, MutexVariablesTypeOK
    <2> QED
        BY <2>2, <2>3 DEF OneObjectPerVariable
<1>7. FreeIsNobodys'
    BY <1>1, <1>2 DEF MutexVariablesInv, FreeIsNobodys, FreeObjs
<1>8. ASSUME NEW u \in Threads PROVE LookupIsCurrent(u)'
    BY <1>1, <1>2, <1>4, <1>5 DEF MutexVariablesInv, LookupIsCurrent
<1> QED
    BY <1>2, <1>3, <1>6, <1>7, <1>8 DEF MutexVariablesInv

LEMMA VariablesStepKeepsInv ==
    ASSUME VariablesAssumption, MutexVariablesInv, [MutexVariablesNext]_variableVars
    PROVE  MutexVariablesInv'
<1>1. CASE UNCHANGED variableVars
    <2>1. /\ GuestMutexInv' /\ GuestMutexTypeOK' /\ UNCHANGED <<owner, blocked>>
          /\ UNCHANGED <<word, mutexes, var, op, step, token>>
        BY <1>1, StutterKeepsInv DEF variableVars, mutexVars, lookupVars, MutexVariablesInv, GuestMutexInv
    <2>2. MutexVariablesTypeOK' /\ OneObjectPerVariable' /\ FreeIsNobodys'
        BY <2>1 DEF MutexVariablesInv, MutexVariablesTypeOK, OneObjectPerVariable, FreeIsNobodys, FreeObjs
    <2>3. ASSUME NEW u \in Threads PROVE LookupIsCurrent(u)'
        BY <2>1 DEF MutexVariablesInv, LookupIsCurrent
    <2> QED
        BY <2>1, <2>2, <2>3 DEF MutexVariablesInv
<1>2. CASE BlockedInLock
    BY <1>2, BlockedInLockKeepsInv DEF BlockedInLock
<1> QED
    BY <1>1, <1>2, ReadTokenKeepsInv, FindTokenKeepsInv, CreateMutexKeepsInv, PerformKeepsInv,
       MutexInitKeepsInv, MutexDestroyKeepsInv DEF MutexVariablesNext

-----------------------------------------------------------------------------
(* Mutex variables implement FifoLock. *)

\* The queue of a variable is that of its object, and nobody queues at a block
\* that is not in the map.
LEMMA QueueOfVariable ==
    ASSUME MutexVariablesInv
    PROVE  /\ \A v \in Vars : VariableQueue[v] = IF word[v] \in mutexes THEN LockQueue[word[v]] ELSE <<>>
           /\ \A o \in Objs : owner[o] = NoThread => LockQueue[o] = <<>>
           /\ \A o \in FreeObjs : LockQueue[o] = <<>>
    BY DEF VariableQueue, LockQueue, MutexVariablesInv, FreeIsNobodys, FreeObjs

\* A move of the mutex of a variable is a move of the variable.
LEMMA MoveOfVariable ==
    ASSUME MutexVariablesInv, MutexVariablesInv', UNCHANGED <<word, mutexes>>, MutexMove
    PROVE  [VariableFifo!FifoNext]_VariableQueue
<1>1. [Fifo!FifoNext]_LockQueue
    BY MoveMapsToFifoStep DEF MutexVariablesInv
<1>2. CASE UNCHANGED LockQueue
    BY <1>2, QueueOfVariable DEF VariableQueue
<1>3. ASSUME NEW o \in Objs, Fifo!Leave(o) \/ Fifo!GiveUp(o) \/ \E t \in Threads : Fifo!Enter(t, o)
      PROVE  [VariableFifo!FifoNext]_VariableQueue
    <2>1. LockQueue \in [Objs -> Seq(Threads)]
        BY DEF LockQueue, MutexVariablesInv, GuestMutexInv, GuestMutexTypeOK
    <2>2. \A p \in Objs \ {o} : LockQueue'[p] = LockQueue[p]
        BY <1>3, <2>1 DEF Fifo!Leave, Fifo!GiveUp, Fifo!Enter
    <2>3. o \in mutexes
        <3>1. CASE \E t \in Threads : Fifo!Enter(t, o)
            <4>1. PICK t \in Threads : LockQueue'[o] = Append(LockQueue[o], t)
                BY <2>1, <3>1 DEF Fifo!Enter
            <4>2. LockQueue'[o] # <<>>
                BY <2>1, <4>1
            <4>3. o \notin FreeObjs'
                BY <4>2 DEF MutexVariablesInv, FreeIsNobodys, LockQueue, FreeObjs
            <4> QED
                BY <4>3 DEF FreeObjs
        <3>2. CASE Fifo!Leave(o) \/ Fifo!GiveUp(o)
            <4>1. LockQueue[o] # <<>>
                BY <2>1, <3>2 DEF Fifo!Leave, Fifo!GiveUp
            <4> QED
                BY <4>1, QueueOfVariable DEF FreeObjs
        <3> QED
            BY <1>3, <3>1, <3>2
    <2>4. PICK v \in Vars : word[v] = o
        BY <2>3 DEF MutexVariablesInv, OneObjectPerVariable
    <2>5. \A x \in Vars \ {v} : word[x] # o
        BY <2>3, <2>4 DEF MutexVariablesInv, OneObjectPerVariable
    <2>6. VariableQueue[v] = LockQueue[o] /\ VariableQueue'[v] = LockQueue'[o]
        BY <2>3, <2>4 DEF VariableQueue
    <2>7. \A x \in Vars \ {v} : VariableQueue'[x] = VariableQueue[x]
        BY <2>2, <2>5 DEF VariableQueue, MutexVariablesInv, MutexVariablesTypeOK
    <2>8. DOMAIN VariableQueue = Vars /\ DOMAIN VariableQueue' = Vars
        BY DEF VariableQueue
    <2>9. VariableQueue' = [VariableQueue EXCEPT ![v] = LockQueue'[o]]
        <3>1. VariableQueue = [x \in Vars |-> VariableQueue[x]] /\ VariableQueue' = [x \in Vars |-> VariableQueue'[x]]
            BY DEF VariableQueue
        <3> QED
            BY <2>6, <2>7, <2>8, <3>1
    <2>10. CASE Fifo!Leave(o)
        <3>1. LockQueue[o] # <<>> /\ LockQueue'[o] = Tail(LockQueue[o])
            BY <2>1, <2>10 DEF Fifo!Leave
        <3> QED
            BY <2>6, <2>9, <3>1 DEF VariableFifo!Leave, VariableFifo!FifoNext
    <2>11. CASE Fifo!GiveUp(o)
        <3>1. PICK i \in 2 .. Len(LockQueue[o]) : LockQueue'[o] = Fifo!RemoveAt(LockQueue[o], i)
            BY <2>1, <2>11 DEF Fifo!GiveUp
        <3>2. LockQueue'[o] = VariableFifo!RemoveAt(VariableQueue[v], i)
            BY <2>6, <3>1 DEF Fifo!RemoveAt, VariableFifo!RemoveAt
        <3>3. i \in 2 .. Len(VariableQueue[v]) /\ VariableQueue' = [VariableQueue EXCEPT ![v] = VariableFifo!RemoveAt(@, i)]
            BY <2>6, <2>9, <3>2
        <3> QED
            BY <3>3 DEF VariableFifo!GiveUp, VariableFifo!FifoNext
    <2>12. CASE \E t \in Threads : Fifo!Enter(t, o)
        <3>1. PICK t \in Threads : /\ \A i \in 1 .. Len(LockQueue[o]) : LockQueue[o][i] # t
                                   /\ LockQueue'[o] = Append(LockQueue[o], t)
            BY <2>1, <2>12 DEF Fifo!Enter
        <3>2. VariableFifo!Enter(t, v)
            BY <2>6, <2>9, <3>1 DEF VariableFifo!Enter
        <3> QED
            BY <3>2 DEF VariableFifo!FifoNext
    <2> QED
        BY <1>3, <2>10, <2>11, <2>12
<1> QED
    BY <1>1, <1>2, <1>3 DEF Fifo!FifoNext

\* Making and freeing an object moves no queue.
LEMMA NewObjectMovesNothing ==
    ASSUME NEW o \in FreeObjs, NEW v \in Vars, NEW type \in Types, MutexVariablesInv, MutexVariablesInv',
           word[v] \notin mutexes, NewMutex(o, v, type), UNCHANGED <<blocked, timed, sleeping, held>>
    PROVE  VariableQueue' = VariableQueue
<1>1. LockQueue' = LockQueue
    BY NewMutexKeepsMutexInv, SameQueues
<1>2. word'[v] = o /\ word[v] \notin Objs /\ \A x \in Vars \ {v} : word'[x] = word[x]
    BY NewMutexKeepsOne
<1>3. mutexes' = mutexes \cup {o} /\ o \in Objs
    BY DEF NewMutex, FreeObjs
<1>4. \A x \in Vars \ {v} : word[x] \in mutexes' <=> word[x] \in mutexes
    BY <1>2, <1>3 DEF MutexVariablesInv, OneObjectPerVariable
<1>5. LockQueue[o] = <<>>
    BY QueueOfVariable
<1>6. \A x \in Vars : VariableQueue'[x] = VariableQueue[x]
    BY <1>1, <1>2, <1>3, <1>4, <1>5 DEF VariableQueue
<1> QED
    BY <1>6 DEF VariableQueue

LEMMA VariableStepMapsToFifoStep ==
    ASSUME VariablesAssumption, MutexVariablesInv, MutexVariablesInv', [MutexVariablesNext]_variableVars
    PROVE  [VariableFifo!FifoNext]_VariableQueue
<1>1. ASSUME UNCHANGED <<mutexVars, word, mutexes>> PROVE VariableQueue' = VariableQueue
    <2>1. LockQueue' = LockQueue
        BY <1>1, SameQueues DEF mutexVars
    <2> QED
        BY <1>1, <2>1 DEF VariableQueue
<1>2. CASE UNCHANGED variableVars
    BY <1>1, <1>2 DEF variableVars, lookupVars
<1>3. ASSUME NEW t \in Threads, FindToken(t) \/ \E v \in Vars, c \in Calls : ReadToken(t, v, c)
      PROVE  [VariableFifo!FifoNext]_VariableQueue
    BY <1>1, <1>3 DEF FindToken, ReadToken
<1>4. ASSUME NEW t \in Threads, CreateMutex(t) PROVE [VariableFifo!FifoNext]_VariableQueue
    <2>1. CASE word[var[t]] \in mutexes
        BY <1>1, <1>4, <2>1 DEF CreateMutex
    <2>2. CASE word[var[t]] \notin mutexes
        <3>1. PICK o \in FreeObjs :
                  /\ NewMutex(o, var[t], StaticType(word[var[t]]))
                  /\ UNCHANGED <<blocked, timed, sleeping, held>>
            BY <1>4, <2>2 DEF CreateMutex
        <3>2. StaticType(word[var[t]]) \in Types
            BY DEF StaticType, VariablesAssumption
        <3>3. var[t] \in Vars
            BY <1>4 DEF CreateMutex, MutexVariablesInv, LookupIsCurrent
        <3> QED
            BY <2>2, <3>1, <3>2, <3>3, NewObjectMovesNothing
    <2> QED
        BY <2>1, <2>2
<1>5. ASSUME NEW t \in Threads, Perform(t) PROVE [VariableFifo!FifoNext]_VariableQueue
    <2>1. MutexMove /\ UNCHANGED <<word, mutexes>>
        <3>1. token[t] \in Objs /\ (Unlock(t, token[t]) \/ \E mode \in AllModes : Lock(t, token[t], mode))
            BY <1>5, VariableStepIsMove
        <3> QED
            BY <1>5, <3>1 DEF MutexMove, Perform
    <2> QED
        BY <2>1, MoveOfVariable
<1>6. CASE BlockedInLock
    <2>1. MutexMove /\ UNCHANGED <<word, mutexes>>
        BY <1>6 DEF BlockedInLock, MutexMove, lookupVars
    <2> QED
        BY <2>1, MoveOfVariable
<1>7. ASSUME NEW v \in Vars, NEW type \in Types, ScePthreadMutexInit(v, type)
      PROVE  [VariableFifo!FifoNext]_VariableQueue
    BY <1>7, NewObjectMovesNothing DEF ScePthreadMutexInit
<1>8. ASSUME NEW v \in Vars, ScePthreadMutexDestroy(v) PROVE [VariableFifo!FifoNext]_VariableQueue
    <2>1. /\ word[v] \in mutexes => owner[word[v]] = NoThread
          /\ mutexes' = mutexes \ {word[v]} /\ word' = [word EXCEPT ![v] = Zero]
          /\ UNCHANGED <<owner, waiters>>
        BY <1>8 DEF ScePthreadMutexDestroy, Unused, mutexVars
    <2>2. LockQueue' = LockQueue
        BY <2>1, SameQueues
    <2>3. MutexVariablesTypeOK /\ OneObjectPerVariable
        BY DEF MutexVariablesInv
    <2>4. word'[v] \notin mutexes' /\ \A x \in Vars \ {v} : word'[x] = word[x]
        BY <2>1, <2>3 DEF MutexVariablesTypeOK, VariablesAssumption
    <2>5. \A x \in Vars \ {v} : word[x] \in mutexes' <=> word[x] \in mutexes
        BY <2>1, <2>3 DEF OneObjectPerVariable
    <2>6. VariableQueue[v] = <<>>
        BY <2>1, <2>3, QueueOfVariable DEF MutexVariablesTypeOK
    <2>7. \A x \in Vars : VariableQueue'[x] = VariableQueue[x]
        BY <2>2, <2>4, <2>5, <2>6 DEF VariableQueue
    <2>8. VariableQueue' = VariableQueue
        BY <2>7 DEF VariableQueue
    <2> QED
        BY <2>8
<1> QED
    BY <1>2, <1>3, <1>4, <1>5, <1>6, <1>7, <1>8 DEF MutexVariablesNext
=============================================================================
