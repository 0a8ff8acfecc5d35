-------------------------- MODULE SyncObjectsProofs --------------------------
(***************************************************************************)
(* Proofs about the synchronisation objects, for any number of threads and *)
(* of objects and any bounds: semaphores, event flags, read-write locks,   *)
(* once-control variables, guards and addresses, then the event queues,    *)
(* the kernel mutexes and the mutex variables, whose proofs are those of   *)
(* MutexCallsProofs, and at the end all kinds together.  Each kind of      *)
(* object has an inductive invariant of its own and one lemma per step of  *)
(* its next-state relation.                                                *)
(***************************************************************************)
EXTENDS SyncObjects, Integers, FiniteSetTheorems, SequenceTheorems, WellFoundedInduction, TLAPS

\* One more or less in a finite set is one more or less to count; more of them
\* are not fewer.
LEMMA CountSubset ==
    ASSUME NEW S, IsFiniteSet(S), NEW T \in SUBSET S
    PROVE  /\ Cardinality(T) \in Nat
           /\ \A U \in SUBSET S : T \subseteq U => Cardinality(T) <= Cardinality(U)
           /\ \A t \in S \ T : Cardinality(T \cup {t}) = Cardinality(T) + 1
           /\ \A t \in T : Cardinality(T \ {t}) = Cardinality(T) - 1
<1>1. \A U \in SUBSET S : IsFiniteSet(U)
    BY FS_Subset
<1> QED
    BY <1>1, FS_CardinalityType, FS_Subset, FS_AddElement, FS_RemoveElement

LEMMA CountThreads ==
    ASSUME NEW T \in SUBSET Threads
    PROVE  /\ Cardinality(T) \in Nat
           /\ \A U \in SUBSET Threads : T \subseteq U => Cardinality(T) <= Cardinality(U)
           /\ \A t \in Threads \ T : Cardinality(T \cup {t}) = Cardinality(T) + 1
           /\ \A t \in T : Cardinality(T \ {t}) = Cardinality(T) - 1
    BY SyncObjectsAssumption, CountSubset
-----------------------------------------------------------------------------
(* Kernel semaphores. *)

\* A call that found its object works on one that was created, and only threads
\* inside WaitSemaImpl sleep.
SemaCallsOK ==
    /\ \A t \in Threads : sema_pc[t] # "guest" => sema[t] \in sema_created
    /\ \A t \in sema_asleep : sema_pc[t] = "blocked"

SemaInv == Sema!TypeOK /\ SemaCallsOK /\ Sema!SleeperHasSignaller

LEMMA SemaInit == Sema!Init => SemaInv
    BY SyncObjectsAssumption
       DEF Sema!Init, SemaInv, SemaCallsOK, Sema!TypeOK, Sema!SleeperHasSignaller, Sema!Amounts

\* The count rises before the notify: meanwhile the signaller stands for it.
LEMMA SignalKeepsSemaInv ==
    ASSUME NEW t \in Threads, SemaInv, Sema!SignalSema(t) PROVE SemaInv'
<1> USE SyncObjectsAssumption DEF SemaInv, SemaCallsOK, Sema!TypeOK, Sema!Amounts
<1> DEFINE h == sema[t]
<1>1. h \in Handles /\ sema_pc[t] = "signal"
    BY DEF Sema!SignalSema
<1>2. PICK c \in 0 .. MaxCount : c <= max_count[h] /\ sema_count' = [sema_count EXCEPT ![h] = c]
    <2>1. /\ sema_count[h] + n[t] > max_count[h]
             => sema_count' = [sema_count EXCEPT ![h] = max_count[h]]
          /\ ~ (sema_count[h] + n[t] > max_count[h])
             => sema_count' = [sema_count EXCEPT ![h] = sema_count[h] + n[t]]
        BY DEF Sema!SignalSema
    <2>2. /\ max_count[h] \in 1 .. MaxCount /\ sema_count[h] \in 0 .. MaxCount
          /\ n[t] \in 1 .. MaxNeed
        BY <1>1
    <2>3. CASE sema_count[h] + n[t] > max_count[h]
        BY <2>1, <2>2, <2>3
    <2>4. CASE ~ (sema_count[h] + n[t] > max_count[h])
        <3>1. sema_count[h] + n[t] \in 0 .. MaxCount
            BY <2>2, <2>4
        <3> QED
            BY <2>1, <2>2, <2>4, <3>1
    <2> QED
        BY <2>3, <2>4
<1>3. /\ sema_pc' = [sema_pc EXCEPT ![t] = "notify"]
      /\ signals' = signals + 1 /\ signals < MaxSignals
      /\ UNCHANGED <<semas, sema_created, max_count, sema, n, sema_timo, sema_asleep>>
    BY DEF Sema!SignalSema
<1>4. Sema!TypeOK' /\ SemaCallsOK'
    BY <1>1, <1>2, <1>3
<1>5. Sema!SleeperHasSignaller'
    <2> SUFFICES ASSUME NEW u \in sema_asleep, sema_count'[sema[u]] >= n[u]
                 PROVE  \E s \in Threads : sema_pc'[s] = "notify" /\ sema[s] = sema[u]
        BY <1>3 DEF Sema!SleeperHasSignaller, Sema!Satisfied
    <2>1. CASE sema[u] = h
        BY <1>3, <2>1
    <2>2. CASE sema[u] # h
        <3>1. sema_count[sema[u]] >= n[u]
            BY <1>2, <2>2
        <3>2. PICK s \in Threads : sema_pc[s] = "notify" /\ sema[s] = sema[u]
            BY <3>1 DEF Sema!SleeperHasSignaller, Sema!Satisfied
        <3> QED
            BY <1>1, <1>3, <3>2
    <2> QED
        BY <2>1, <2>2
<1> QED
    BY <1>4, <1>5

LEMMA SemaStep == SemaInv /\ Sema!Next => SemaInv'
<1> SUFFICES ASSUME SemaInv, Sema!Next PROVE SemaInv'
    OBVIOUS
<1> USE SyncObjectsAssumption
    DEF SemaInv, SemaCallsOK, Sema!TypeOK, Sema!SleeperHasSignaller, Sema!Amounts, Sema!Satisfied
<1>1. ASSUME NEW h \in Handles, NEW max \in 1 .. MaxCount, NEW init \in 0 .. MaxCount,
             Sema!SceKernelCreateSema(h, init, max)
      PROVE  SemaInv'
    BY <1>1 DEF Sema!SceKernelCreateSema
<1>2. ASSUME NEW h \in Handles, Sema!SceKernelDeleteSema(h) PROVE SemaInv'
    BY <1>2 DEF Sema!SceKernelDeleteSema
<1>3. ASSUME NEW t \in Threads, NEW h \in Handles, NEW amount \in 1 .. MaxNeed,
             NEW op1 \in {"wait", "signal"}, NEW timo \in {"none", "poll", "timed"},
             Sema!FindSema(t, h, op1, amount, timo)
      PROVE  SemaInv'
    BY <1>3 DEF Sema!FindSema
<1>4. ASSUME NEW t \in Threads, Sema!WaitSemaImpl(t) PROVE SemaInv'
    BY <1>4 DEF Sema!WaitSemaImpl, Sema!Take, Sema!Done
<1>5. ASSUME NEW t \in Threads, Sema!WaitSatisfied(t) PROVE SemaInv'
    BY <1>5 DEF Sema!WaitSatisfied, Sema!Take, Sema!Done
<1>6. ASSUME NEW t \in Threads, Sema!WaitTimedOut(t) PROVE SemaInv'
    BY <1>6 DEF Sema!WaitTimedOut, Sema!Done
<1>7. ASSUME NEW t \in Threads, Sema!SleepAgain(t) \/ Sema!SpuriousWake(t) PROVE SemaInv'
    BY <1>7 DEF Sema!SleepAgain, Sema!SpuriousWake
<1>8. ASSUME NEW t \in Threads, Sema!SignalSema(t) PROVE SemaInv'
    BY <1>8, SignalKeepsSemaInv
<1>9. ASSUME NEW t \in Threads, Sema!NotifyAll(t) PROVE SemaInv'
    BY <1>9 DEF Sema!NotifyAll, Sema!Done
<1> HIDE DEF SemaInv
<1> QED
    BY <1>1, <1>2, <1>3, <1>4, <1>5, <1>6, <1>7, <1>8, <1>9 DEF Sema!Next

-----------------------------------------------------------------------------
(* POSIX semaphores. *)

\* A call works on an object of the map, and only threads inside wait sleep.
PosixCallsOK ==
    /\ \A t \in Threads : posixsem_pc[t] # "guest" => sem[t] \in sems
    /\ \A t \in posixsem_asleep : posixsem_pc[t] = "blocked"

PosixInv == Posix!TypeOK /\ PosixCallsOK /\ Posix!EveryPermitHasATaker

\* Those who sleep on v, and those who have woken up and not looked yet.
Sleepers(v) == posixsem_asleep \cap Posix!BlockedOn(v)
Takers(v) == Posix!BlockedOn(v) \ posixsem_asleep

\* What EveryPermitHasATaker says of one variable.
Covered(v) == Sleepers(v) # {} => posixsem_count[v] <= Cardinality(Takers(v))

\* PosixSem counts with the Cardinality of its own instance of FiniteSets.
LEMMA PosixCardinality == \A S : Posix!Cardinality(S) = Cardinality(S)
    BY Zenon DEF Posix!Cardinality, Cardinality, Posix!IsFiniteSet, IsFiniteSet

LEMMA CoveredLemma == Posix!EveryPermitHasATaker <=> \A v \in Vars : Covered(v)
    BY PosixCardinality, Zenon DEF Posix!EveryPermitHasATaker, Covered, Sleepers, Takers

LEMMA PosixInit == Posix!Init => PosixInv
    BY SyncObjectsAssumption
       DEF Posix!Init, PosixInv, PosixCallsOK, Posix!TypeOK, Posix!EveryPermitHasATaker,
           Posix!BlockedOn, Posix!Calls

\* A step that adds no permit to v and takes away no taker leaves v covered, if it
\* sends somebody to sleep only when there is no permit.
LEMMA StaysCovered ==
    ASSUME NEW v \in Vars, Covered(v), posixsem_count[v] \in Nat, posixsem_count'[v] \in Nat,
           posixsem_count'[v] <= posixsem_count[v], Takers(v) \subseteq Takers(v)',
           Sleepers(v) # {} \/ Sleepers(v)' = {} \/ posixsem_count'[v] = 0
    PROVE  Covered(v)'
<1> DEFINE old == Takers(v)
           new == Takers(v)'
<1>1. old \in SUBSET Threads /\ new \in SUBSET Threads /\ old \subseteq new
    BY DEF Takers, Posix!BlockedOn
<1>2. Covered(v)' <=> (Sleepers(v)' # {} => posixsem_count'[v] <= Cardinality(new))
    BY DEF Covered
<1>3. Sleepers(v) # {} => posixsem_count[v] <= Cardinality(old)
    BY DEF Covered
<1> HIDE DEF old, new
<1>4. Cardinality(old) \in Nat /\ Cardinality(new) \in Nat /\ Cardinality(old) <= Cardinality(new)
    BY <1>1, CountThreads
<1> QED
    BY <1>2, <1>3, <1>4

\* The post adds a permit and, if somebody sleeps, a taker.
LEMMA PostKeepsCovered ==
    ASSUME NEW t \in Threads, NEW v \in Vars, PosixInv, Posix!ScePthreadSemPost(t)
    PROVE  Covered(v)'
<1> USE DEF PosixInv, PosixCallsOK, Posix!TypeOK
<1>1. /\ posixsem_pc[t] = "post" /\ sem[t] \in Vars
      /\ posixsem_count' = [posixsem_count EXCEPT ![sem[t]] = @ + 1]
      /\ posixsem_pc' = [posixsem_pc EXCEPT ![t] = "guest"]
      /\ sem' = [sem EXCEPT ![t] = NoVar]
    BY DEF Posix!ScePthreadSemPost, Posix!Done
<1>2. Posix!BlockedOn(v)' = Posix!BlockedOn(v)
    BY <1>1 DEF Posix!BlockedOn
<1>3. Covered(v)
    BY CoveredLemma
<1>4. CASE v # sem[t]
    <2>1. Sleepers(v)' \subseteq Sleepers(v) /\ Takers(v) \subseteq Takers(v)'
        BY <1>2 DEF Posix!ScePthreadSemPost, Sleepers, Takers
    <2> QED
        BY <1>1, <1>3, <1>4, <2>1, StaysCovered
<1>5. CASE v = sem[t] /\ Sleepers(v) = {}
    <2>1. Sleepers(v)' = {}
        BY <1>2, <1>5 DEF Posix!ScePthreadSemPost, Sleepers
    <2> QED
        BY <2>1 DEF Covered
<1>6. CASE v = sem[t] /\ Sleepers(v) # {}
    <2>1. PICK u \in Sleepers(v) : posixsem_asleep' = posixsem_asleep \ {u}
        BY <1>6 DEF Posix!ScePthreadSemPost, Sleepers
    <2> DEFINE old == Takers(v)
    <2>2. u \in Threads \ old /\ old \in SUBSET Threads
        BY <2>1 DEF Sleepers, Takers, Posix!BlockedOn
    <2>3. Takers(v)' = old \cup {u}
        BY <1>2, <2>1 DEF Sleepers, Takers
    <2>4. posixsem_count[v] <= Cardinality(old) /\ posixsem_count[v] \in Nat
        BY <1>3, <1>6 DEF Covered
    <2>5. posixsem_count'[v] = posixsem_count[v] + 1
        BY <1>1, <1>6
    <2> HIDE DEF old
    <2>6. Cardinality(old) \in Nat /\ Cardinality(old \cup {u}) = Cardinality(old) + 1
        BY <2>2, CountThreads
    <2> QED
        BY <2>3, <2>4, <2>5, <2>6 DEF Covered
<1> QED
    BY <1>4, <1>5, <1>6

\* Whoever takes a permit after waking was one of the takers of it.
LEMMA WakeKeepsCovered ==
    ASSUME NEW t \in Threads, NEW v \in Vars, PosixInv, Posix!WakeTests(t)
    PROVE  Covered(v)'
<1> USE DEF PosixInv, PosixCallsOK, Posix!TypeOK
<1>1. posixsem_pc[t] = "blocked" /\ sem[t] \in Vars /\ t \notin posixsem_asleep
    BY DEF Posix!WakeTests
<1>2. Covered(v) /\ posixsem_count[v] \in Nat
    BY CoveredLemma
<1>3. CASE posixsem_count[sem[t]] > 0
    <2>1. /\ posixsem_count' = [posixsem_count EXCEPT ![sem[t]] = @ - 1]
          /\ posixsem_pc' = [posixsem_pc EXCEPT ![t] = "guest"]
          /\ sem' = [sem EXCEPT ![t] = NoVar]
          /\ posixsem_asleep' = posixsem_asleep
        BY <1>3 DEF Posix!WakeTests, Posix!Done
    <2>2. Sleepers(v)' = Sleepers(v) /\ Takers(v)' = Takers(v) \ {t}
        BY <1>1, <2>1 DEF Sleepers, Takers, Posix!BlockedOn
    <2>3. CASE v # sem[t]
        <3>1. Takers(v)' = Takers(v) /\ posixsem_count'[v] = posixsem_count[v]
            BY <2>1, <2>2, <2>3 DEF Takers, Posix!BlockedOn
        <3> QED
            BY <1>2, <2>2, <3>1, StaysCovered
    <2>4. CASE v = sem[t]
        <3> DEFINE old == Takers(v)
        <3>1. t \in old /\ old \in SUBSET Threads
            BY <1>1, <2>4 DEF Takers, Posix!BlockedOn
        <3>2. Sleepers(v) # {} => posixsem_count[v] <= Cardinality(old)
            BY <1>2 DEF Covered
        <3>3. posixsem_count'[v] = posixsem_count[v] - 1
            BY <1>2, <2>1, <2>4
        <3> HIDE DEF old
        <3>4. Cardinality(old) \in Nat /\ Cardinality(old \ {t}) = Cardinality(old) - 1
            BY <3>1, CountThreads
        <3>5. Covered(v)' <=> (Sleepers(v) # {} => posixsem_count'[v] <= Cardinality(old \ {t}))
            BY <2>2 DEF Covered, old
        <3> QED
            BY <1>2, <3>2, <3>3, <3>4, <3>5
    <2> QED
        BY <2>3, <2>4
<1>4. CASE ~ (posixsem_count[sem[t]] > 0)
    <2>1. posixsem_asleep' = posixsem_asleep \cup {t} /\ UNCHANGED <<posixsem_count, posixsem_pc, sem>>
        BY <1>4 DEF Posix!WakeTests
    <2>2. CASE v # sem[t]
        <3>1. Sleepers(v)' = Sleepers(v) /\ Takers(v)' = Takers(v)
            BY <2>1, <2>2 DEF Sleepers, Takers, Posix!BlockedOn
        <3> QED
            BY <1>2, <2>1, <3>1, StaysCovered
    <2>3. CASE v = sem[t]
        <3> DEFINE new == Takers(v)'
        <3>1. new \in SUBSET Threads /\ posixsem_count'[v] = 0
            BY <1>2, <1>4, <2>1, <2>3 DEF Takers, Posix!BlockedOn
        <3>2. Covered(v)' <=> (Sleepers(v)' # {} => posixsem_count'[v] <= Cardinality(new))
            BY DEF Covered
        <3> HIDE DEF new
        <3> QED
            BY <3>1, <3>2, CountThreads
    <2> QED
        BY <2>2, <2>3
<1> QED
    BY <1>3, <1>4

LEMMA PosixStep == PosixInv /\ Posix!Next => PosixInv'
<1> SUFFICES ASSUME PosixInv, Posix!Next PROVE PosixInv'
    OBVIOUS
<1> USE SyncObjectsAssumption DEF PosixCallsOK, Posix!TypeOK, Posix!Calls
<1>0. /\ Posix!TypeOK /\ PosixCallsOK
      /\ \A v \in Vars : Covered(v) /\ posixsem_count[v] \in Nat
    BY CoveredLemma DEF PosixInv
<1>1. ASSUME NEW v \in Vars, NEW value \in 0 .. MaxCount, Posix!ScePthreadSemInit(v, value)
      PROVE  Posix!TypeOK' /\ PosixCallsOK' /\ \A x \in Vars : Covered(x)'
    <2>1. Posix!TypeOK' /\ PosixCallsOK'
        BY <1>0, <1>1 DEF Posix!ScePthreadSemInit
    <2>2. ASSUME NEW x \in Vars PROVE Covered(x)'
        <3>1. Sleepers(x)' = Sleepers(x) /\ Takers(x)' = Takers(x)
            BY <1>1 DEF Posix!ScePthreadSemInit, Sleepers, Takers, Posix!BlockedOn
        <3>2. CASE x = v /\ v \notin sems
            <4>1. Sleepers(x) = {}
                BY <1>0, <3>2 DEF Sleepers, Posix!BlockedOn
            <4> QED
                BY <3>1, <4>1 DEF Covered
        <3>3. CASE ~ (x = v /\ v \notin sems)
            <4>1. posixsem_count'[x] = posixsem_count[x]
                BY <1>0, <1>1, <3>3 DEF Posix!ScePthreadSemInit
            <4> QED
                BY <1>0, <3>1, <4>1 DEF Covered
        <3> QED
            BY <3>2, <3>3
    <2> QED
        BY <2>1, <2>2
<1>2. ASSUME NEW v \in Vars, Posix!ScePthreadSemDestroy(v)
      PROVE  Posix!TypeOK' /\ PosixCallsOK' /\ \A x \in Vars : Covered(x)'
    <2>1. Posix!TypeOK' /\ PosixCallsOK'
        BY <1>0, <1>2 DEF Posix!ScePthreadSemDestroy
    <2> QED
        BY <1>0, <1>2, <2>1
           DEF Posix!ScePthreadSemDestroy, Covered, Sleepers, Takers, Posix!BlockedOn
<1>3. ASSUME NEW t \in Threads, NEW v \in Vars, NEW c \in Posix!Calls,
             Posix!LookupOrCreatePosixSem(t, v, c)
      PROVE  Posix!TypeOK' /\ PosixCallsOK' /\ \A x \in Vars : Covered(x)'
    <2>1. Posix!TypeOK' /\ PosixCallsOK'
        BY <1>0, <1>3 DEF Posix!LookupOrCreatePosixSem
    <2>2. ASSUME NEW x \in Vars PROVE Covered(x)'
        <3>1. Sleepers(x)' = Sleepers(x) /\ Takers(x)' = Takers(x)
            BY <1>0, <1>3 DEF Posix!LookupOrCreatePosixSem, Sleepers, Takers, Posix!BlockedOn
        <3>2. CASE x = v /\ v \notin sems
            <4>1. Sleepers(x) = {}
                BY <1>0, <3>2 DEF Sleepers, Posix!BlockedOn
            <4> QED
                BY <3>1, <4>1 DEF Covered
        <3>3. CASE ~ (x = v /\ v \notin sems)
            <4>1. posixsem_count'[x] = posixsem_count[x]
                BY <1>0, <1>3, <3>3 DEF Posix!LookupOrCreatePosixSem
            <4> QED
                BY <1>0, <3>1, <4>1 DEF Covered
        <3> QED
            BY <3>2, <3>3
    <2> QED
        BY <2>1, <2>2
<1>4. ASSUME NEW t \in Threads, Posix!TakePermit(t) \/ Posix!NoPermit(t) \/ Posix!SpuriousWake(t)
      PROVE  Posix!TypeOK' /\ PosixCallsOK' /\ \A x \in Vars : Covered(x)'
    <2>1. Posix!TypeOK' /\ PosixCallsOK'
        BY <1>0, <1>4 DEF Posix!TakePermit, Posix!NoPermit, Posix!SpuriousWake, Posix!Done
    <2>2. ASSUME NEW x \in Vars PROVE Covered(x)'
        <3>1. posixsem_count'[x] <= posixsem_count[x] /\ posixsem_count'[x] \in Nat
            BY <1>0, <1>4, <2>1 DEF Posix!TakePermit, Posix!NoPermit, Posix!SpuriousWake
        <3>2. Takers(x) \subseteq Takers(x)'
            BY <1>0, <1>4
               DEF Posix!TakePermit, Posix!NoPermit, Posix!SpuriousWake, Posix!Done, Takers, Posix!BlockedOn
        <3>3. Sleepers(x) # {} \/ Sleepers(x)' = {} \/ posixsem_count'[x] = 0
            BY <1>0, <1>4
               DEF Posix!TakePermit, Posix!NoPermit, Posix!SpuriousWake, Posix!Done, Sleepers, Posix!BlockedOn
        <3> QED
            BY <1>0, <3>1, <3>2, <3>3, StaysCovered
    <2> QED
        BY <2>1, <2>2
<1>5. ASSUME NEW t \in Threads, Posix!WakeTests(t)
      PROVE  Posix!TypeOK' /\ PosixCallsOK' /\ \A x \in Vars : Covered(x)'
    <2>1. Posix!TypeOK' /\ PosixCallsOK'
        BY <1>0, <1>5 DEF Posix!WakeTests, Posix!Done
    <2> QED
        BY <1>5, <2>1, WakeKeepsCovered
<1>6. ASSUME NEW t \in Threads, Posix!ScePthreadSemPost(t)
      PROVE  Posix!TypeOK' /\ PosixCallsOK' /\ \A x \in Vars : Covered(x)'
    <2>1. Posix!TypeOK' /\ PosixCallsOK'
        BY <1>0, <1>6 DEF Posix!ScePthreadSemPost, Posix!Done
    <2> QED
        BY <1>6, <2>1, PostKeepsCovered
<1>7. Posix!TypeOK' /\ PosixCallsOK' /\ \A x \in Vars : Covered(x)'
    <2> HIDE DEF Posix!TypeOK, PosixCallsOK
    <2> QED
        BY <1>1, <1>2, <1>3, <1>4, <1>5, <1>6 DEF Posix!Next, Posix!ThreadStep
<1>8. Posix!EveryPermitHasATaker'
    BY <1>7, PosixCardinality, Zenon DEF Posix!EveryPermitHasATaker, Covered, Sleepers, Takers
<1> QED
    BY <1>7, <1>8 DEF PosixInv


-----------------------------------------------------------------------------
(* Event flags. *)

\* A bit that is up has been raised once more than waits have spent it.
RaisedIsUnspent ==
    /\ flag_unspent \in [Handles -> [Bits -> Int]]
    /\ \A h \in Handles, b \in Bits : flag_unspent[h][b] >= IF b \in bits[h] THEN 1 ELSE 0

FlagInv == Flag!TypeOK /\ RaisedIsUnspent /\ Flag!SleeperHasSetter

LEMMA FlagInit == Flag!Init => FlagInv
    BY SyncObjectsAssumption
       DEF Flag!Init, FlagInv, Flag!TypeOK, RaisedIsUnspent, Flag!SleeperHasSetter, Flag!NoArg

\* Fewer bits satisfy fewer waits.
LEMMA FewerBitsSatisfyFewer ==
    ASSUME NEW u \in Threads, Flag!Satisfied(u)', bits'[flag'[u]] \subseteq bits[flag[u]],
           arg'[u] = arg[u]
    PROVE  Flag!Satisfied(u)
    BY DEF Flag!Satisfied

\* A sleeper with no more bits than before keeps the setter that is to wake it.
LEMMA SettersStay ==
    ASSUME Flag!SleeperHasSetter,
           \A u \in flag_asleep' : Flag!Satisfied(u)' =>
               /\ u \in flag_asleep /\ u \in Threads /\ flag'[u] = flag[u] /\ arg'[u] = arg[u]
               /\ bits'[flag[u]] \subseteq bits[flag[u]]
               /\ \A s \in Threads : flag_pc[s] = "notify" /\ flag[s] = flag[u]
                                     => flag_pc'[s] = "notify" /\ flag'[s] = flag[s]
    PROVE  Flag!SleeperHasSetter'
<1> SUFFICES ASSUME NEW u \in flag_asleep', Flag!Satisfied(u)'
             PROVE  \E s \in Threads : flag_pc'[s] = "notify" /\ flag'[s] = flag'[u]
    BY DEF Flag!SleeperHasSetter
<1>1. Flag!Satisfied(u)
    BY FewerBitsSatisfyFewer
<1> QED
    BY <1>1 DEF Flag!SleeperHasSetter

LEMMA ReturnKeepsFlagInv ==
    ASSUME NEW t \in Threads, FlagInv, flag_pc[t] \in {"wait", "blocked"}, Flag!ReturnFromWait(t) PROVE FlagInv'
<1> USE SyncObjectsAssumption DEF FlagInv, Flag!TypeOK, RaisedIsUnspent
<1> DEFINE h == flag[t]
           left == Flag!Cleared(t)
           spent == Flag!SpentBy(t)
<1>1. h \in Handles /\ arg[t].clear \in {"keep", "pattern", "all"} /\ arg[t].pattern \in SUBSET Bits
    OBVIOUS
<1>2. left \subseteq bits[h] /\ spent \subseteq bits[h] /\ left \cap spent = {}
    <2>1. CASE arg[t].clear = "keep"
        BY <1>1, <2>1 DEF Flag!Cleared, Flag!SpentBy
    <2>2. CASE arg[t].clear = "pattern"
        BY <1>1, <2>2 DEF Flag!Cleared, Flag!SpentBy
    <2>3. CASE arg[t].clear = "all"
        BY <1>1, <2>3 DEF Flag!Cleared, Flag!SpentBy
    <2> QED
        BY <1>1, <2>1, <2>2, <2>3
<1>3. /\ bits' = [bits EXCEPT ![h] = left]
      /\ flag_unspent' = [flag_unspent EXCEPT ![h] =
             [b \in Bits |-> IF b \in spent THEN flag_unspent[h][b] - 1 ELSE flag_unspent[h][b]]]
      /\ flag_asleep' = flag_asleep \ {t}
      /\ flag_pc' = [flag_pc EXCEPT ![t] = "guest"]
      /\ flag' = [flag EXCEPT ![t] = NoHandle]
      /\ arg' = [arg EXCEPT ![t] = Flag!NoArg]
      /\ UNCHANGED <<eflags, flag_created, sets>>
    BY DEF Flag!ReturnFromWait, Flag!Done
<1> HIDE DEF left, spent
<1>4. Flag!TypeOK'
    BY <1>1, <1>2, <1>3 DEF Flag!NoArg
<1>5. RaisedIsUnspent'
    <2>1. flag_unspent' \in [Handles -> [Bits -> Int]]
        BY <1>1, <1>3
    <2>2. ASSUME NEW x \in Handles, NEW b \in Bits
          PROVE  flag_unspent'[x][b] >= IF b \in bits'[x] THEN 1 ELSE 0
        <3>1. CASE x # h
            BY <1>3, <3>1
        <3>2. CASE x = h
            <4>1. /\ bits'[x] = left
                  /\ flag_unspent'[x][b] = IF b \in spent THEN flag_unspent[h][b] - 1 ELSE flag_unspent[h][b]
                BY <1>1, <1>3, <3>2
            <4>2. flag_unspent[h][b] \in Int /\ flag_unspent[h][b] >= IF b \in bits[h] THEN 1 ELSE 0
                BY <1>1
            <4> QED
                BY <1>2, <4>1, <4>2
        <3> QED
            BY <3>1, <3>2
    <2> QED
        BY <2>1, <2>2
<1>6. Flag!SleeperHasSetter'
    BY <1>1, <1>2, <1>3, SettersStay
<1> QED
    BY <1>4, <1>5, <1>6

LEMMA SetKeepsFlagInv ==
    ASSUME NEW t \in Threads, FlagInv, Flag!SetBits(t) PROVE FlagInv'
<1> USE SyncObjectsAssumption DEF FlagInv, Flag!TypeOK, RaisedIsUnspent
<1>1. flag[t] \in Handles
    BY DEF Flag!SetBits
<1>2. Flag!TypeOK'
    BY <1>1 DEF Flag!SetBits
<1>3. RaisedIsUnspent'
    BY <1>1 DEF Flag!SetBits
<1>4. Flag!SleeperHasSetter'
    <2> SUFFICES ASSUME NEW u \in flag_asleep, Flag!Satisfied(u)'
                 PROVE  \E s \in Threads : flag_pc'[s] = "notify" /\ flag[s] = flag[u]
        BY DEF Flag!SleeperHasSetter, Flag!SetBits
    <2>1. CASE flag[u] = flag[t]
        BY <2>1 DEF Flag!SetBits
    <2>2. CASE flag[u] # flag[t]
        <3>1. Flag!Satisfied(u)
            BY <1>1, <2>2 DEF Flag!SetBits, Flag!Satisfied
        <3> QED
            BY <3>1 DEF Flag!SleeperHasSetter, Flag!SetBits
    <2> QED
        BY <2>1, <2>2
<1> QED
    BY <1>2, <1>3, <1>4

LEMMA FlagStep == FlagInv /\ Flag!Next => FlagInv'
<1> SUFFICES ASSUME FlagInv, Flag!Next PROVE FlagInv'
    OBVIOUS
<1> USE SyncObjectsAssumption DEF FlagInv, Flag!TypeOK, RaisedIsUnspent
<1>1. ASSUME NEW h \in Handles, NEW init \in SUBSET Bits, Flag!SceKernelCreateEventFlag(h, init) PROVE FlagInv'
    <2>1. Flag!TypeOK' /\ RaisedIsUnspent'
        BY <1>1 DEF Flag!SceKernelCreateEventFlag
    <2>2. Flag!SleeperHasSetter'
        BY <1>1, SettersStay DEF Flag!SceKernelCreateEventFlag
    <2> QED
        BY <2>1, <2>2
<1>2. ASSUME NEW h \in Handles, Flag!SceKernelDeleteEventFlag(h) PROVE FlagInv'
    <2>1. Flag!TypeOK' /\ RaisedIsUnspent'
        BY <1>2 DEF Flag!SceKernelDeleteEventFlag
    <2>2. Flag!SleeperHasSetter'
        BY <1>2, SettersStay DEF Flag!SceKernelDeleteEventFlag
    <2> QED
        BY <2>1, <2>2
<1>3. ASSUME NEW t \in Threads, NEW h \in Handles, NEW a, NEW op1,
             \/ op1 = "wait" /\ a \in WaitArgs
             \/ op1 \in {"set", "clear"} /\ \E p \in Flag!Patterns : a = [Flag!NoArg EXCEPT !.pattern = p],
             Flag!FindEventFlag(t, h, op1, a)
      PROVE FlagInv'
    <2>0. a \in [pattern : SUBSET Bits, test : {"and", "or"},
                 clear : {"keep", "pattern", "all"}, timo : {"none", "poll", "timed"}]
        BY <1>3 DEF Flag!NoArg, Flag!Patterns
    <2>1. Flag!TypeOK' /\ RaisedIsUnspent'
        BY <2>0, <1>3 DEF Flag!FindEventFlag
    <2>2. Flag!SleeperHasSetter'
        BY <1>3, SettersStay DEF Flag!FindEventFlag
    <2> QED
        BY <2>1, <2>2
<1>4. ASSUME NEW t \in Threads, Flag!WaitAtOnce(t) \/ Flag!WaitSatisfied(t) PROVE FlagInv'
    BY <1>4, ReturnKeepsFlagInv DEF Flag!WaitAtOnce, Flag!WaitSatisfied
<1>5. ASSUME NEW t \in Threads, Flag!PollFails(t) \/ Flag!WaitTimedOut(t) PROVE FlagInv'
    <2>1. Flag!TypeOK' /\ RaisedIsUnspent'
        <3>1. CASE Flag!PollFails(t)
            BY <3>1 DEF Flag!PollFails, Flag!Done, Flag!NoArg
        <3>2. CASE Flag!WaitTimedOut(t)
            BY <3>2 DEF Flag!WaitTimedOut, Flag!Done, Flag!NoArg
        <3> QED
            BY <1>5, <3>1, <3>2
    <2>2. Flag!SleeperHasSetter'
        BY <1>5, SettersStay DEF Flag!PollFails, Flag!WaitTimedOut, Flag!Done, Flag!NoArg
    <2> QED
        BY <2>1, <2>2
<1>6. ASSUME NEW t \in Threads, Flag!StartToWait(t) \/ Flag!SleepAgain(t) PROVE FlagInv'
    <2>1. Flag!TypeOK' /\ RaisedIsUnspent'
        BY <1>6 DEF Flag!StartToWait, Flag!SleepAgain
    <2>2. Flag!SleeperHasSetter'
        BY <1>6, SettersStay DEF Flag!StartToWait, Flag!SleepAgain, Flag!Satisfied
    <2> QED
        BY <2>1, <2>2
<1>7. ASSUME NEW t \in Threads, Flag!SpuriousWake(t) PROVE FlagInv'
    <2>1. Flag!TypeOK' /\ RaisedIsUnspent'
        BY <1>7 DEF Flag!SpuriousWake
    <2>2. Flag!SleeperHasSetter'
        BY <1>7, SettersStay DEF Flag!SpuriousWake
    <2> QED
        BY <2>1, <2>2
<1>8. ASSUME NEW t \in Threads, Flag!SetBits(t) PROVE FlagInv'
    BY <1>8, SetKeepsFlagInv
<1>9. ASSUME NEW t \in Threads, Flag!NotifyAll(t) PROVE FlagInv'
    <2>1. Flag!TypeOK' /\ RaisedIsUnspent'
        BY <1>9 DEF Flag!NotifyAll, Flag!Done, Flag!NoArg
    <2>2. Flag!SleeperHasSetter'
        BY <1>9, SettersStay DEF Flag!NotifyAll, Flag!Done, Flag!NoArg
    <2> QED
        BY <2>1, <2>2
<1>10. ASSUME NEW t \in Threads, Flag!ClearBits(t) PROVE FlagInv'
    <2>1. Flag!TypeOK' /\ RaisedIsUnspent'
        BY <1>10 DEF Flag!ClearBits, Flag!Done, Flag!NoArg
    <2>2. Flag!SleeperHasSetter'
        BY <1>10, SettersStay DEF Flag!ClearBits, Flag!Done, Flag!NoArg
    <2> QED
        BY <2>1, <2>2
<1> HIDE DEF FlagInv
<1> QED
    BY <1>1, <1>2, <1>3, <1>4, <1>5, <1>6, <1>7, <1>8, <1>9, <1>10 DEF Flag!Next, Flag!ThreadStep

LEMMA FlagSpendsOnce == FlagInv => Flag!BitReleasesOneClearingWait
    BY DEF FlagInv, RaisedIsUnspent, Flag!BitReleasesOneClearingWait

-----------------------------------------------------------------------------
(* Read-write locks. *)

\* Who has acquired the SRW lock of l, from the acquisition to the release, and
\* whom the atomics know of, from the end of the lock call into the unlock.
HasShared(t, l) == (rwlock_pc[t] = "countReader" /\ lock[t] = l) \/ holds[t][l] = "read"
HasExclusive(t, l) == (rwlock_pc[t] = "setWriter" /\ lock[t] = l) \/ holds[t][l] = "write"
CountedReader(t, l) == holds[t][l] = "read" /\ ~ (rwlock_pc[t] = "releaseShared" /\ lock[t] = l)
KnownWriter(t, l) == holds[t][l] = "write" /\ ~ (rwlock_pc[t] = "releaseExclusive" /\ lock[t] = l)

SharedHolders(l) == {t \in Threads : HasShared(t, l)}
CountedReaders(l) == {t \in Threads : CountedReader(t, l)}

\* An acquiring call works for a thread that does not hold the lock and, until the
\* lock is misused, an unlock for one that holds it in the mode the unlock guessed.
RwCallsOK ==
    \A t \in Threads :
        /\ rwlock_pc[t] # "guest" => lock[t] \in Locks
        /\ rwlock_pc[t] \in {"acquireShared", "acquireExclusive", "countReader", "setWriter"}
           => holds[t][lock[t]] = "no"
        /\ lock[t] \in Locks \ misused =>
           /\ rwlock_pc[t] = "releaseExclusive" => holds[t][lock[t]] = "write"
           /\ rwlock_pc[t] \in {"subtractReader", "releaseShared"} => holds[t][lock[t]] = "read"
           /\ rwlock_pc[t] = "loadReaders" => holds[t][lock[t]] # "write"
           /\ rwlock_pc[t] # "undefined"

\* The SRW lock and the two atomics say what the threads have.
LockMatches(l) ==
    /\ shared[l] = Cardinality(SharedHolders(l))
    /\ exclusive[l] <=> \E t \in Threads : HasExclusive(t, l)
    /\ exclusive[l] => SharedHolders(l) = {}
    /\ \A t, u \in Threads : HasExclusive(t, l) /\ HasExclusive(u, l) => t = u
    /\ readers[l] = Cardinality(CountedReaders(l))
    /\ writer[l] <=> \E t \in Threads : KnownWriter(t, l)

\* Whoever unlocks, the exclusive mode is the business of one: the thread that has
\* acquired it and did not raise the flag yet, the flag, or the thread that took the
\* flag and is about to release.
InExclusive(t, l) == lock[t] = l /\ rwlock_pc[t] \in {"setWriter", "releaseExclusive"}

OneWriter(l) ==
    /\ exclusive[l] <=> writer[l] \/ \E t \in Threads : InExclusive(t, l)
    /\ writer[l] => \A t \in Threads : ~ InExclusive(t, l)
    /\ \A t, u \in Threads : InExclusive(t, l) /\ InExclusive(u, l) => t = u

RwInv ==
    /\ Rw!TypeOK /\ RwCallsOK
    /\ \A l \in Locks : OneWriter(l)
    /\ \A l \in Locks \ misused : LockMatches(l)

LEMMA RwInit == Rw!Init => RwInv
<1> SUFFICES ASSUME Rw!Init PROVE RwInv
    OBVIOUS
<1> USE DEF Rw!Init
<1>1. Rw!TypeOK /\ RwCallsOK
    BY DEF Rw!TypeOK, RwCallsOK
<1>3. ASSUME NEW l \in Locks PROVE OneWriter(l)
    BY DEF OneWriter, InExclusive
<1>2. ASSUME NEW l \in Locks PROVE LockMatches(l)
    <2>1. SharedHolders(l) = {} /\ CountedReaders(l) = {}
        BY DEF SharedHolders, CountedReaders, HasShared, CountedReader
    <2> QED
        BY <2>1, FS_EmptySet DEF LockMatches, HasExclusive, KnownWriter
<1> QED
    BY <1>1, <1>2, <1>3 DEF RwInv

\* A step that changes what nobody has of l.
LEMMA SameHoldersMatch ==
    ASSUME NEW l \in Locks, LockMatches(l),
           \A u \in Threads : /\ HasShared(u, l)' <=> HasShared(u, l)
                              /\ HasExclusive(u, l)' <=> HasExclusive(u, l)
                              /\ CountedReader(u, l)' <=> CountedReader(u, l)
                              /\ KnownWriter(u, l)' <=> KnownWriter(u, l),
           shared'[l] = shared[l], exclusive'[l] = exclusive[l], readers'[l] = readers[l], writer'[l] = writer[l]
    PROVE  LockMatches(l)'
<1>1. SharedHolders(l)' = SharedHolders(l) /\ CountedReaders(l)' = CountedReaders(l)
    BY DEF SharedHolders, CountedReaders
<1> QED
    BY <1>1 DEF LockMatches

\* A lock the step of t is not about.
LEMMA OtherLocksMatch ==
    ASSUME NEW t \in Threads, NEW l \in Locks, LockMatches(l),
           \A u \in Threads : u # t => rwlock_pc'[u] = rwlock_pc[u] /\ lock'[u] = lock[u] /\ holds'[u] = holds[u],
           holds'[t][l] = holds[t][l], rwlock_pc[t] = "guest" \/ lock[t] # l,
           rwlock_pc'[t] = "guest" \/ lock'[t] # l,
           shared'[l] = shared[l], exclusive'[l] = exclusive[l], readers'[l] = readers[l], writer'[l] = writer[l]
    PROVE  LockMatches(l)'
<1>1. \A u \in Threads : /\ HasShared(u, l)' <=> HasShared(u, l)
                         /\ HasExclusive(u, l)' <=> HasExclusive(u, l)
                         /\ CountedReader(u, l)' <=> CountedReader(u, l)
                         /\ KnownWriter(u, l)' <=> KnownWriter(u, l)
    BY DEF HasShared, HasExclusive, CountedReader, KnownWriter
<1> QED
    BY <1>1, SameHoldersMatch

\* A reader is counted, and whoever acquired in shared mode excludes writers.
LEMMA ReadersAreCounted ==
    ASSUME RwInv, NEW t \in Threads, NEW l \in Locks \ misused
    PROVE  /\ shared[l] \in Nat /\ readers[l] \in Nat
           /\ HasShared(t, l) => shared[l] > 0 /\ ~ exclusive[l] /\ ~ writer[l]
           /\ CountedReader(t, l) => readers[l] > 0
<1> USE DEF RwInv, LockMatches
<1>1. SharedHolders(l) \in SUBSET Threads /\ CountedReaders(l) \in SUBSET Threads
    BY DEF SharedHolders, CountedReaders
<1>2. shared[l] \in Nat /\ readers[l] \in Nat
    <2>1. Cardinality(CountedReaders(l)) \in Nat
        BY <1>1, CountThreads
    <2> QED
        BY <2>1 DEF Rw!TypeOK
<1>3. HasShared(t, l) => shared[l] > 0
    <2> DEFINE S == SharedHolders(l)
    <2> SUFFICES ASSUME t \in S PROVE shared[l] > 0
        BY DEF SharedHolders
    <2>1. S \in SUBSET Threads /\ shared[l] = Cardinality(S)
        BY <1>1
    <2> HIDE DEF S
    <2>2. Cardinality(S \ {t}) \in Nat /\ Cardinality(S \ {t}) = Cardinality(S) - 1
        BY <2>1, CountThreads
    <2> QED
        BY <1>2, <2>1, <2>2
<1>4. CountedReader(t, l) => readers[l] > 0
    <2> DEFINE S == CountedReaders(l)
    <2> SUFFICES ASSUME t \in S PROVE readers[l] > 0
        BY DEF CountedReaders
    <2>1. S \in SUBSET Threads /\ readers[l] = Cardinality(S)
        BY <1>1
    <2> HIDE DEF S
    <2>2. Cardinality(S \ {t}) \in Nat /\ Cardinality(S \ {t}) = Cardinality(S) - 1
        BY <2>1, CountThreads
    <2> QED
        BY <1>2, <2>1, <2>2
<1>5. HasShared(t, l) => ~ exclusive[l]
    BY DEF SharedHolders
<1>6. writer[l] => exclusive[l]
    BY DEF KnownWriter, HasExclusive
<1> QED
    BY <1>2, <1>3, <1>4, <1>5, <1>6

\* The steps of a call on l = lock'[t], by what becomes of the sets of l.
LEMMA AcquireSharedMatches ==
    ASSUME NEW t \in Threads, NEW l \in Locks \ misused, RwInv, ~ exclusive[l], ~ HasShared(t, l), holds[t][l] = "no",
           rwlock_pc[t] # "setWriter",
           rwlock_pc' = [rwlock_pc EXCEPT ![t] = "countReader"], lock' = [lock EXCEPT ![t] = l],
           shared' = [shared EXCEPT ![l] = @ + 1], UNCHANGED <<exclusive, readers, writer, holds>>
    PROVE  LockMatches(l)'
<1> USE DEF RwInv, Rw!TypeOK
<1> DEFINE S == SharedHolders(l)
<1>1. S \in SUBSET Threads /\ t \notin S /\ shared[l] = Cardinality(S) /\ shared'[l] = shared[l] + 1
    BY DEF SharedHolders, LockMatches
<1>2. SharedHolders(l)' = S \cup {t} /\ CountedReaders(l)' = CountedReaders(l)
    BY DEF SharedHolders, HasShared, CountedReaders, CountedReader
<1>3. \A u \in Threads : /\ HasExclusive(u, l)' <=> HasExclusive(u, l)
                         /\ KnownWriter(u, l)' <=> KnownWriter(u, l)
    BY DEF HasExclusive, KnownWriter
<1> HIDE DEF S
<1>4. Cardinality(S \cup {t}) = Cardinality(S) + 1
    BY <1>1, CountThreads
<1> QED
    BY <1>1, <1>2, <1>3, <1>4 DEF LockMatches

LEMMA AcquireExclusiveMatches ==
    ASSUME NEW t \in Threads, NEW l \in Locks \ misused, RwInv, ~ exclusive[l], shared[l] = 0, holds[t][l] = "no",
           rwlock_pc[t] \notin {"countReader", "setWriter"},
           rwlock_pc' = [rwlock_pc EXCEPT ![t] = "setWriter"], lock' = [lock EXCEPT ![t] = l],
           exclusive' = [exclusive EXCEPT ![l] = TRUE], UNCHANGED <<shared, readers, writer, holds>>
    PROVE  LockMatches(l)'
<1> USE DEF RwInv, Rw!TypeOK
<1>1. \A u \in Threads : ~ HasShared(u, l) /\ ~ HasExclusive(u, l)
    BY ReadersAreCounted DEF LockMatches
<1>2. \A u \in Threads : /\ ~ HasShared(u, l)'
                         /\ HasExclusive(u, l)' <=> u = t
                         /\ CountedReader(u, l)' <=> CountedReader(u, l)
                         /\ KnownWriter(u, l)' <=> KnownWriter(u, l)
    BY <1>1 DEF HasShared, HasExclusive, CountedReader, KnownWriter
<1>3. SharedHolders(l)' = {} /\ SharedHolders(l) = {} /\ CountedReaders(l)' = CountedReaders(l)
    BY <1>1, <1>2 DEF SharedHolders, CountedReaders
<1> QED
    BY <1>2, <1>3 DEF LockMatches

LEMMA CountReaderMatches ==
    ASSUME NEW t \in Threads, RwInv, Rw!CountReader(t), lock[t] \notin misused PROVE LockMatches(lock[t])'
<1> USE DEF RwInv, Rw!TypeOK
<1> DEFINE l == lock[t]
           S == CountedReaders(l)
<1>1. l \in Locks /\ holds[t][l] = "no" /\ rwlock_pc[t] = "countReader" /\ lock' = lock
    BY DEF Rw!CountReader, RwCallsOK
<1>2. \A u \in Threads : /\ HasShared(u, l)' <=> HasShared(u, l)
                         /\ HasExclusive(u, l)' <=> HasExclusive(u, l)
                         /\ KnownWriter(u, l)' <=> KnownWriter(u, l)
                         /\ CountedReader(u, l)' <=> CountedReader(u, l) \/ u = t
    BY <1>1 DEF Rw!CountReader, Rw!Goto, HasShared, HasExclusive, KnownWriter, CountedReader
<1>3. SharedHolders(l)' = SharedHolders(l) /\ CountedReaders(l)' = S \cup {t}
    BY <1>1, <1>2 DEF SharedHolders, CountedReaders
<1>4. S \in SUBSET Threads /\ t \notin S /\ readers[l] = Cardinality(S)
    BY <1>1 DEF CountedReaders, CountedReader, LockMatches
<1>5. readers'[l] = readers[l] + 1 /\ UNCHANGED <<shared, exclusive, writer>>
    BY <1>1 DEF Rw!CountReader
<1> HIDE DEF S
<1>6. Cardinality(S \cup {t}) = Cardinality(S) + 1
    BY <1>4, CountThreads
<1> QED
    BY <1>1, <1>2, <1>3, <1>4, <1>5, <1>6 DEF LockMatches

LEMMA SubtractReaderMatches ==
    ASSUME NEW t \in Threads, RwInv, Rw!SubtractReader(t), lock[t] \notin misused
    PROVE  LockMatches(lock[t])'
<1> USE DEF RwInv, Rw!TypeOK
<1> DEFINE l == lock[t]
           S == CountedReaders(l)
<1>1. l \in Locks /\ holds[t][l] = "read" /\ rwlock_pc[t] = "subtractReader" /\ lock' = lock
    BY DEF Rw!SubtractReader, RwCallsOK
<1>2. \A u \in Threads : /\ HasShared(u, l)' <=> HasShared(u, l)
                         /\ HasExclusive(u, l)' <=> HasExclusive(u, l)
                         /\ KnownWriter(u, l)' <=> KnownWriter(u, l)
                         /\ CountedReader(u, l)' <=> CountedReader(u, l) /\ u # t
    BY <1>1 DEF Rw!SubtractReader, Rw!Goto, HasShared, HasExclusive, KnownWriter, CountedReader
<1>3. SharedHolders(l)' = SharedHolders(l) /\ CountedReaders(l)' = S \ {t}
    BY <1>1, <1>2 DEF SharedHolders, CountedReaders
<1>4. S \in SUBSET Threads /\ t \in S /\ readers[l] = Cardinality(S)
    BY <1>1 DEF CountedReaders, CountedReader, LockMatches
<1>5. readers' = [readers EXCEPT ![l] = readers[l] - 1] /\ UNCHANGED <<shared, exclusive, writer>>
    BY <1>1 DEF Rw!SubtractReader
<1> HIDE DEF S
<1>6. Cardinality(S \ {t}) = Cardinality(S) - 1 /\ Cardinality(S \ {t}) \in Nat
    BY <1>4, CountThreads
<1> QED
    BY <1>1, <1>2, <1>3, <1>4, <1>5, <1>6 DEF LockMatches

LEMMA ReleaseMatches ==
    ASSUME NEW t \in Threads, RwInv, Rw!Release(t), lock[t] \notin misused
    PROVE  LockMatches(lock[t])'
<1> USE DEF RwInv, Rw!TypeOK
<1> DEFINE l == lock[t]
           S == SharedHolders(l)
<1>1. l \in Locks /\ lock' = lock /\ UNCHANGED <<readers, writer>>
      /\ rwlock_pc' = [rwlock_pc EXCEPT ![t] = "guest"] /\ holds' = [holds EXCEPT ![t][l] = "no"]
    BY DEF Rw!Release, Rw!Goto, RwCallsOK
<1>2. LockMatches(l)
    BY <1>1
<1>3. CASE rwlock_pc[t] = "releaseExclusive"
    <2>1. /\ holds[t][l] = "write" /\ HasExclusive(t, l)
          /\ exclusive' = [exclusive EXCEPT ![l] = FALSE] /\ shared' = shared
        BY <1>3 DEF Rw!Release, RwCallsOK, HasExclusive
    <2>2. \A u \in Threads : ~ HasShared(u, l) /\ (HasExclusive(u, l) => u = t)
        BY <1>2, <2>1 DEF LockMatches, SharedHolders
    <2>3. \A u \in Threads : /\ ~ HasShared(u, l)'
                             /\ ~ HasExclusive(u, l)'
                             /\ CountedReader(u, l)' <=> CountedReader(u, l)
                             /\ KnownWriter(u, l)' <=> KnownWriter(u, l)
        BY <1>1, <1>3, <2>1, <2>2 DEF HasShared, HasExclusive, CountedReader, KnownWriter
    <2>4. SharedHolders(l)' = S /\ CountedReaders(l)' = CountedReaders(l)
        BY <2>2, <2>3 DEF SharedHolders, CountedReaders
    <2> QED
        BY <1>1, <1>2, <2>1, <2>3, <2>4 DEF LockMatches
<1>4. CASE rwlock_pc[t] = "releaseShared"
    <2>1. /\ holds[t][l] = "read" /\ shared[l] > 0
          /\ shared' = [shared EXCEPT ![l] = shared[l] - 1] /\ exclusive' = exclusive
        BY <1>4 DEF Rw!Release, RwCallsOK
    <2>2. \A u \in Threads : /\ HasShared(u, l)' <=> HasShared(u, l) /\ u # t
                             /\ HasExclusive(u, l)' <=> HasExclusive(u, l)
                             /\ CountedReader(u, l)' <=> CountedReader(u, l)
                             /\ KnownWriter(u, l)' <=> KnownWriter(u, l)
        BY <1>1, <1>4, <2>1 DEF HasShared, HasExclusive, CountedReader, KnownWriter
    <2>3. SharedHolders(l)' = S \ {t} /\ CountedReaders(l)' = CountedReaders(l)
        BY <1>1, <2>2 DEF SharedHolders, CountedReaders
    <2>4. S \in SUBSET Threads /\ t \in S /\ shared[l] = Cardinality(S)
        BY <1>2, <2>1 DEF SharedHolders, HasShared, LockMatches
    <2> HIDE DEF S
    <2>5. Cardinality(S \ {t}) = Cardinality(S) - 1 /\ Cardinality(S \ {t}) \in Nat
        BY <2>4, CountThreads
    <2>6. S = {} => S \ {t} = {}
        OBVIOUS
    <2>7. exclusive[l] => S = {}
        BY <1>2 DEF LockMatches, S
    <2> QED
        BY <1>1, <1>2, <2>1, <2>2, <2>3, <2>4, <2>5, <2>6, <2>7 DEF LockMatches
<1> QED
    BY <1>3, <1>4 DEF Rw!Release

\* A thread in the guest starts a call on l.
LEMMA CallKeepsOneWriter ==
    ASSUME NEW t \in Threads, NEW l \in Locks, NEW name \in Symbols, RwInv, Rw!Call(t, l, name), NEW x \in Locks
    PROVE  OneWriter(x)'
<1> USE DEF RwInv, Rw!TypeOK
<1>1. /\ rwlock_pc[t] = "guest" /\ lock' = [lock EXCEPT ![t] = l] /\ writer' = writer
      /\ \A u \in Threads : u # t => rwlock_pc'[u] = rwlock_pc[u] /\ lock'[u] = lock[u]
    BY DEF Rw!Call, Rw!Goto
<1>2. \/ rwlock_pc'[t] \notin {"setWriter", "releaseExclusive"} /\ exclusive' = exclusive
      \/ rwlock_pc'[t] = "setWriter" /\ ~ exclusive[l] /\ exclusive' = [exclusive EXCEPT ![l] = TRUE]
    BY <1>1 DEF Rw!Call, Rw!Goto, Rw!ExclusiveFree, Rw!srw
<1>3. \A u \in Threads : u # t => (InExclusive(u, x)' <=> InExclusive(u, x))
    BY <1>1 DEF InExclusive
<1>4. ~ InExclusive(t, x)
    BY <1>1 DEF InExclusive
<1>5. CASE rwlock_pc'[t] \notin {"setWriter", "releaseExclusive"} /\ exclusive' = exclusive
    <2>1. ~ InExclusive(t, x)'
        BY <1>5 DEF InExclusive
    <2> QED
        BY <1>1, <1>3, <1>4, <1>5, <2>1 DEF OneWriter
<1>6. CASE rwlock_pc'[t] = "setWriter" /\ ~ exclusive[l] /\ exclusive' = [exclusive EXCEPT ![l] = TRUE]
    <2>1. InExclusive(t, x)' <=> x = l
        BY <1>1, <1>6 DEF InExclusive
    <2>2. CASE x = l
        BY <1>1, <1>3, <1>4, <1>6, <2>1, <2>2 DEF OneWriter
    <2>3. CASE x # l
        BY <1>1, <1>3, <1>4, <1>6, <2>1, <2>3 DEF OneWriter
    <2> QED
        BY <2>2, <2>3
<1> QED
    BY <1>2, <1>5, <1>6

\* Unlock takes the flag, or finds none.
LEMMA UnlockKeepsOneWriter ==
    ASSUME NEW t \in Threads, NEW l \in Locks, RwInv, Rw!Unlock(t, l), NEW x \in Locks
    PROVE  OneWriter(x)'
<1> USE DEF RwInv, Rw!TypeOK
<1>1. /\ rwlock_pc[t] = "guest" /\ lock' = [lock EXCEPT ![t] = l] /\ exclusive' = exclusive
      /\ writer' = [writer EXCEPT ![l] = FALSE]
      /\ rwlock_pc' = [rwlock_pc EXCEPT ![t] = IF writer[l] THEN "releaseExclusive" ELSE "loadReaders"]
    BY DEF Rw!Unlock, Rw!Goto
<1>2. \A u \in Threads : u # t => (InExclusive(u, x)' <=> InExclusive(u, x))
    BY <1>1 DEF InExclusive
<1>3. ~ InExclusive(t, x)
    BY <1>1 DEF InExclusive
<1>4. InExclusive(t, x)' <=> x = l /\ writer[l]
    BY <1>1 DEF InExclusive
<1>5. CASE x = l
    BY <1>1, <1>2, <1>3, <1>4, <1>5 DEF OneWriter
<1>6. CASE x # l
    BY <1>1, <1>2, <1>3, <1>4, <1>6 DEF OneWriter
<1> QED
    BY <1>5, <1>6

\* A step inside a call of t, on lock[t].
LEMMA InsideKeepsOneWriter ==
    ASSUME NEW t \in Threads, RwInv, NEW x \in Locks,
           \/ Rw!AcquireSRWLockShared(t) \/ Rw!AcquireSRWLockExclusive(t)
           \/ Rw!CountReader(t) \/ Rw!SetWriter(t) \/ Rw!LoadReaders(t)
           \/ Rw!SubtractReader(t) \/ Rw!Release(t) \/ Rw!ReleaseOfNothing(t)
    PROVE  OneWriter(x)'
<1> USE DEF RwInv, Rw!TypeOK, Rw!Goto
<1> DEFINE l == lock[t]
<1>1. /\ l \in Locks /\ lock' = lock
      /\ \A u \in Threads : u # t => rwlock_pc'[u] = rwlock_pc[u]
    BY DEF RwCallsOK, Rw!AcquireSRWLockShared, Rw!AcquireSRWLockExclusive, Rw!CountReader, Rw!SetWriter,
           Rw!LoadReaders, Rw!SubtractReader, Rw!Release, Rw!ReleaseOfNothing
<1>2. \/ /\ rwlock_pc[t] \notin {"setWriter", "releaseExclusive"}
         /\ rwlock_pc'[t] \notin {"setWriter", "releaseExclusive"}
         /\ UNCHANGED <<exclusive, writer>>
      \/ /\ rwlock_pc[t] = "acquireExclusive" /\ rwlock_pc'[t] = "setWriter" /\ ~ exclusive[l]
         /\ exclusive' = [exclusive EXCEPT ![l] = TRUE] /\ writer' = writer
      \/ /\ rwlock_pc[t] = "setWriter" /\ rwlock_pc'[t] = "guest"
         /\ writer' = [writer EXCEPT ![l] = TRUE] /\ exclusive' = exclusive
      \/ /\ rwlock_pc[t] = "releaseExclusive" /\ rwlock_pc'[t] = "guest"
         /\ exclusive' = [exclusive EXCEPT ![l] = FALSE] /\ writer' = writer
    BY DEF Rw!AcquireSRWLockShared, Rw!AcquireSRWLockExclusive, Rw!CountReader, Rw!SetWriter,
           Rw!LoadReaders, Rw!SubtractReader, Rw!Release, Rw!ReleaseOfNothing, Rw!ExclusiveFree
<1>3. \A u \in Threads : u # t => (InExclusive(u, x)' <=> InExclusive(u, x))
    BY <1>1 DEF InExclusive
<1>4. CASE x # l
    <2>1. ~ InExclusive(t, x) /\ ~ InExclusive(t, x)'
        BY <1>1, <1>4 DEF InExclusive
    <2>2. exclusive'[x] = exclusive[x] /\ writer'[x] = writer[x]
        BY <1>1, <1>2, <1>4
    <2> QED
        BY <1>3, <2>1, <2>2 DEF OneWriter
<1>5. CASE x = l
    <2>1. InExclusive(t, x) <=> rwlock_pc[t] \in {"setWriter", "releaseExclusive"}
        BY <1>5 DEF InExclusive
    <2>2. InExclusive(t, x)' <=> rwlock_pc'[t] \in {"setWriter", "releaseExclusive"}
        BY <1>1, <1>5 DEF InExclusive
    <2>3. OneWriter(x)
        OBVIOUS
    <2>4. CASE UNCHANGED <<exclusive, writer>>
        BY <1>1, <1>2, <1>3, <1>5, <2>1, <2>2, <2>3, <2>4 DEF OneWriter
    <2>5. CASE rwlock_pc'[t] = "setWriter" /\ ~ exclusive[l] /\ exclusive'[l] = TRUE /\ writer' = writer
        BY <1>1, <1>3, <1>5, <2>1, <2>2, <2>3, <2>5 DEF OneWriter
    <2>6. CASE rwlock_pc[t] = "setWriter" /\ rwlock_pc'[t] = "guest" /\ writer'[l] = TRUE /\ exclusive' = exclusive
        BY <1>1, <1>3, <1>5, <2>1, <2>2, <2>3, <2>6 DEF OneWriter
    <2>7. CASE rwlock_pc[t] = "releaseExclusive" /\ rwlock_pc'[t] = "guest" /\ exclusive'[l] = FALSE /\ writer' = writer
        BY <1>1, <1>3, <1>5, <2>1, <2>2, <2>3, <2>7 DEF OneWriter
    <2> QED
        BY <1>1, <1>2, <2>4, <2>5, <2>6, <2>7
<1> QED
    BY <1>4, <1>5

\* The calls that acquire: the thread has nothing of the lock yet.
LEMMA CallKeepsRwInv ==
    ASSUME NEW t \in Threads, NEW l \in Locks, NEW name \in Symbols, RwInv, Rw!Call(t, l, name)
    PROVE  RwInv'
<1> USE DEF RwInv, Rw!TypeOK
<1>1. /\ rwlock_pc[t] = "guest" /\ holds[t][l] = "no" /\ lock' = [lock EXCEPT ![t] = l]
      /\ symbol' = [symbol EXCEPT ![t] = name] /\ UNCHANGED <<readers, writer, holds, misused>>
    BY DEF Rw!Call
<1>2. \/ /\ rwlock_pc' = [rwlock_pc EXCEPT ![t] = "countReader"] /\ ~ exclusive[l]
         /\ shared' = [shared EXCEPT ![l] = shared[l] + 1] /\ exclusive' = exclusive
      \/ /\ rwlock_pc' = [rwlock_pc EXCEPT ![t] = "setWriter"] /\ ~ exclusive[l] /\ shared[l] = 0
         /\ exclusive' = [exclusive EXCEPT ![l] = TRUE] /\ shared' = shared
      \/ /\ \/ rwlock_pc' = [rwlock_pc EXCEPT ![t] = "acquireShared"]
            \/ rwlock_pc' = [rwlock_pc EXCEPT ![t] = "acquireExclusive"]
            \/ rwlock_pc' = rwlock_pc
         /\ UNCHANGED <<shared, exclusive>>
    BY DEF Rw!Call, Rw!Goto, Rw!SharedFree, Rw!ExclusiveFree, Rw!srw
<1>3. Rw!TypeOK' /\ RwCallsOK'
    <2>1. Rw!TypeOK'
        <3>1. shared' \in [Locks -> Nat] /\ exclusive' \in [Locks -> BOOLEAN]
            <4>1. shared \in [Locks -> Nat] /\ exclusive \in [Locks -> BOOLEAN] /\ shared[l] + 1 \in Nat
                OBVIOUS
            <4> HIDE DEF RwInv, Rw!TypeOK
            <4>2. shared' = shared \/ shared' = [shared EXCEPT ![l] = shared[l] + 1]
                BY <1>2
            <4>3. exclusive' = exclusive \/ exclusive' = [exclusive EXCEPT ![l] = TRUE]
                BY <1>2
            <4> QED
                BY <4>1, <4>2, <4>3
        <3>2. rwlock_pc' \in [Threads -> {"guest", "acquireShared", "acquireExclusive", "countReader", "setWriter",
                   "loadReaders", "subtractReader", "releaseShared", "releaseExclusive", "undefined"}]
            BY <1>2
        <3>3. /\ lock' \in [Threads -> Locks \cup {NoLock}] /\ symbol' \in [Threads -> Symbols \cup {"none"}]
              /\ UNCHANGED <<readers, writer, holds, misused>>
            BY <1>1
        <3> QED
            BY <3>1, <3>2, <3>3
    <2>2. /\ rwlock_pc'[t] \in {"guest", "acquireShared", "acquireExclusive", "countReader", "setWriter"}
          /\ \A u \in Threads : u # t => rwlock_pc'[u] = rwlock_pc[u]
        BY <1>1, <1>2
    <2>3. \A u \in Threads : u # t => lock'[u] = lock[u]
        BY <1>1
    <2> QED
        BY <1>1, <2>1, <2>2, <2>3 DEF RwCallsOK
<1>4. ASSUME NEW x \in Locks \ misused, x # l PROVE LockMatches(x)'
    <2>1. shared'[x] = shared[x] /\ exclusive'[x] = exclusive[x]
        BY <1>2, <1>4
    <2>2. \A u \in Threads : u # t => rwlock_pc'[u] = rwlock_pc[u]
        BY <1>2
    <2> QED
        BY <1>1, <1>4, <2>1, <2>2, OtherLocksMatch
<1>5. ASSUME l \notin misused PROVE LockMatches(l)'
    <2>1. ~ HasShared(t, l)
        BY <1>1 DEF HasShared
    <2>2. CASE rwlock_pc' = [rwlock_pc EXCEPT ![t] = "countReader"]
        BY <1>1, <1>2, <1>5, <2>1, <2>2, AcquireSharedMatches
    <2>3. CASE rwlock_pc' = [rwlock_pc EXCEPT ![t] = "setWriter"]
        BY <1>1, <1>2, <1>5, <2>3, AcquireExclusiveMatches
    <2>4. CASE rwlock_pc'[t] \in {"acquireShared", "acquireExclusive", "guest"}
        <3>1. \A u \in Threads : u # t => rwlock_pc'[u] = rwlock_pc[u] /\ lock'[u] = lock[u]
            BY <1>1, <1>2
        <3>2. UNCHANGED <<shared, exclusive>>
            BY <1>2, <2>4
        <3>3. \A u \in Threads : /\ HasShared(u, l)' <=> HasShared(u, l)
                                 /\ HasExclusive(u, l)' <=> HasExclusive(u, l)
                                 /\ CountedReader(u, l)' <=> CountedReader(u, l)
                                 /\ KnownWriter(u, l)' <=> KnownWriter(u, l)
            BY <1>1, <2>4, <3>1 DEF HasShared, HasExclusive, CountedReader, KnownWriter
        <3> QED
            BY <1>1, <1>5, <3>2, <3>3, SameHoldersMatch
    <2> QED
        BY <1>1, <1>2, <2>2, <2>3, <2>4
<1>6. ASSUME NEW x \in Locks PROVE OneWriter(x)'
    BY CallKeepsOneWriter
<1> QED
    BY <1>1, <1>3, <1>4, <1>5, <1>6

\* The exchange of the writer flag tells a writer from a reader, and finds nothing
\* on behalf of a thread that holds nothing unless it takes it from another.
LEMMA UnlockKeepsRwInv ==
    ASSUME NEW t \in Threads, NEW l \in Locks, RwInv, Rw!Unlock(t, l) PROVE RwInv'
<1> USE DEF RwInv, Rw!TypeOK
<1>1. /\ rwlock_pc[t] = "guest" /\ holds[t][l] \in {"no", "read", "write"} /\ lock' = [lock EXCEPT ![t] = l]
      /\ writer' = [writer EXCEPT ![l] = FALSE]
      /\ rwlock_pc' = [rwlock_pc EXCEPT ![t] = IF writer[l] THEN "releaseExclusive" ELSE "loadReaders"]
      /\ UNCHANGED <<shared, exclusive, readers, symbol, holds>>
    BY DEF Rw!Unlock, Rw!Goto
<1>2. misused' = IF writer[l] /\ holds[t][l] = "no" THEN misused \cup {l} ELSE misused
    BY DEF Rw!Unlock, Rw!Misuse
<1>3. l \notin misused' => (writer[l] <=> holds[t][l] = "write")
    <2> SUFFICES ASSUME l \notin misused' PROVE writer[l] <=> holds[t][l] = "write"
        OBVIOUS
    <2>1. l \notin misused /\ ~ (writer[l] /\ holds[t][l] = "no")
        BY <1>2
    <2>2. holds[t][l] = "read" => ~ writer[l]
        BY <2>1, ReadersAreCounted DEF HasShared
    <2>3. holds[t][l] = "write" => writer[l]
        BY <1>1, <2>1 DEF LockMatches, KnownWriter
    <2> QED
        BY <1>1, <2>1, <2>2, <2>3
<1>4. Rw!TypeOK'
    BY <1>1, <1>2
<1>5. RwCallsOK'
    <2>1. \A u \in Threads : u # t => rwlock_pc'[u] = rwlock_pc[u] /\ lock'[u] = lock[u]
        BY <1>1
    <2>2. misused \subseteq misused'
        BY <1>2
    <2>3. lock'[t] = l /\ rwlock_pc'[t] = IF writer[l] THEN "releaseExclusive" ELSE "loadReaders"
        BY <1>1
    <2> QED
        BY <1>1, <1>3, <2>1, <2>2, <2>3 DEF RwCallsOK
<1>6. ASSUME NEW x \in Locks \ misused', x # l PROVE LockMatches(x)'
    BY <1>1, <1>2, <1>6, OtherLocksMatch
<1>7. ASSUME l \notin misused' PROVE LockMatches(l)'
    <2>0. LockMatches(l)
        BY <1>2, <1>7
    <2>1. \A u \in Threads : HasExclusive(u, l) /\ holds[t][l] = "write" => u = t
        BY <2>0 DEF LockMatches, HasExclusive
    <2>2. \A u \in Threads : /\ HasShared(u, l)' <=> HasShared(u, l)
                             /\ HasExclusive(u, l)' <=> HasExclusive(u, l)
                             /\ CountedReader(u, l)' <=> CountedReader(u, l)
        BY <1>1, <1>3, <1>7 DEF HasShared, HasExclusive, CountedReader
    <2>3. \A u \in Threads : ~ KnownWriter(u, l)'
        <3>1. CASE holds[t][l] = "write"
            BY <1>1, <1>3, <1>7, <2>1, <3>1 DEF KnownWriter, HasExclusive
        <3>2. CASE holds[t][l] # "write"
            <4>1. \A u \in Threads : ~ KnownWriter(u, l)
                BY <1>3, <1>7, <2>0, <3>2 DEF LockMatches
            <4> QED
                BY <1>1, <3>2, <4>1 DEF KnownWriter
        <3> QED
            BY <3>1, <3>2
    <2>4. SharedHolders(l)' = SharedHolders(l) /\ CountedReaders(l)' = CountedReaders(l)
        BY <2>2 DEF SharedHolders, CountedReaders
    <2> QED
        BY <1>1, <2>0, <2>2, <2>3, <2>4 DEF LockMatches
<1>8. ASSUME NEW x \in Locks PROVE OneWriter(x)'
    BY UnlockKeepsOneWriter
<1> QED
    BY <1>4, <1>5, <1>6, <1>7, <1>8

LEMMA RwStep == RwInv /\ Rw!Next => RwInv'
<1> SUFFICES ASSUME RwInv, Rw!Next PROVE RwInv'
    OBVIOUS
<1> USE DEF RwInv, Rw!TypeOK
<1>1. ASSUME NEW t \in Threads, NEW l \in Locks,
             Rw!Unlock(t, l) \/ \E name \in Symbols : Rw!Call(t, l, name)
      PROVE  RwInv'
    BY <1>1, UnlockKeepsRwInv, CallKeepsRwInv
<1>2. ASSUME NEW t \in Threads, rwlock_pc[t] # "guest", lock' = lock, misused \subseteq misused',
             rwlock_pc' = [rwlock_pc EXCEPT ![t] = rwlock_pc'[t]],
             \A u \in Threads, l \in Locks : <<u, l>> # <<t, lock[t]>> => holds'[u][l] = holds[u][l],
             \A l \in Locks : l # lock[t] => /\ shared'[l] = shared[l] /\ exclusive'[l] = exclusive[l]
                                             /\ readers'[l] = readers[l] /\ writer'[l] = writer[l],
             lock[t] \notin misused' => LockMatches(lock[t])',
             Rw!TypeOK', RwCallsOK', \A x \in Locks : OneWriter(x)'
      PROVE  RwInv'
    <2>1. ASSUME NEW l \in Locks \ misused', l # lock[t] PROVE LockMatches(l)'
        <3>1. \A u \in Threads : /\ HasShared(u, l)' <=> HasShared(u, l)
                                 /\ HasExclusive(u, l)' <=> HasExclusive(u, l)
                                 /\ CountedReader(u, l)' <=> CountedReader(u, l)
                                 /\ KnownWriter(u, l)' <=> KnownWriter(u, l)
            BY <1>2, <2>1 DEF HasShared, HasExclusive, CountedReader, KnownWriter
        <3>2. LockMatches(l)
            BY <1>2, <2>1
        <3> QED
            BY <1>2, <2>1, <3>1, <3>2, SameHoldersMatch
    <2> QED
        BY <1>2, <2>1
<1>3. ASSUME NEW t \in Threads, Rw!AcquireSRWLockShared(t) PROVE RwInv'
    <2>1. Rw!TypeOK' /\ RwCallsOK'
        BY <1>3 DEF Rw!AcquireSRWLockShared, Rw!Goto, RwCallsOK
    <2>2. lock[t] \notin misused' => LockMatches(lock[t])'
        <3>1. lock' = [lock EXCEPT ![t] = lock[t]] /\ misused' = misused
            BY <1>3 DEF Rw!AcquireSRWLockShared
        <3>2. holds[t][lock[t]] = "no" /\ lock[t] \in Locks
            BY <1>3 DEF Rw!AcquireSRWLockShared, RwCallsOK
        <3>3. ~ HasShared(t, lock[t])
            BY <1>3, <3>2 DEF Rw!AcquireSRWLockShared, HasShared
        <3> QED
            BY <1>3, <3>1, <3>2, <3>3, AcquireSharedMatches
               DEF Rw!AcquireSRWLockShared, Rw!Goto, Rw!SharedFree
    <2>3. \A x \in Locks : OneWriter(x)'
        BY <1>3, InsideKeepsOneWriter
    <2> QED
        BY <1>2, <1>3, <2>1, <2>2, <2>3 DEF Rw!AcquireSRWLockShared, Rw!Goto
<1>4. ASSUME NEW t \in Threads, Rw!AcquireSRWLockExclusive(t) PROVE RwInv'
    <2>1. Rw!TypeOK' /\ RwCallsOK'
        BY <1>4 DEF Rw!AcquireSRWLockExclusive, Rw!Goto, RwCallsOK
    <2>2. lock[t] \notin misused' => LockMatches(lock[t])'
        <3>1. lock' = [lock EXCEPT ![t] = lock[t]] /\ misused' = misused
            BY <1>4 DEF Rw!AcquireSRWLockExclusive
        <3>2. holds[t][lock[t]] = "no" /\ lock[t] \in Locks
            BY <1>4 DEF Rw!AcquireSRWLockExclusive, RwCallsOK
        <3> QED
            BY <1>4, <3>1, <3>2, AcquireExclusiveMatches
               DEF Rw!AcquireSRWLockExclusive, Rw!Goto, Rw!ExclusiveFree
    <2>3. \A x \in Locks : OneWriter(x)'
        BY <1>4, InsideKeepsOneWriter
    <2> QED
        BY <1>2, <1>4, <2>1, <2>2, <2>3 DEF Rw!AcquireSRWLockExclusive, Rw!Goto
<1>5. ASSUME NEW t \in Threads, Rw!CountReader(t) PROVE RwInv'
    <2>1. Rw!TypeOK' /\ RwCallsOK' /\ misused' = misused
        BY <1>5 DEF Rw!CountReader, Rw!Goto, RwCallsOK
    <2>2. \A x \in Locks : OneWriter(x)'
        BY <1>5, InsideKeepsOneWriter
    <2> QED
        BY <1>2, <1>5, <2>1, <2>2, CountReaderMatches DEF Rw!CountReader, Rw!Goto
<1>6. ASSUME NEW t \in Threads, Rw!SetWriter(t) PROVE RwInv'
    <2> DEFINE l == lock[t]
    <2>1. Rw!TypeOK' /\ RwCallsOK'
        BY <1>6 DEF Rw!SetWriter, Rw!Goto, RwCallsOK
    <2>2. l \in Locks /\ holds[t][l] = "no" /\ misused' = misused
        BY <1>6 DEF Rw!SetWriter, RwCallsOK
    <2>3. \A u \in Threads : /\ HasShared(u, l)' <=> HasShared(u, l)
                             /\ HasExclusive(u, l)' <=> HasExclusive(u, l)
                             /\ CountedReader(u, l)' <=> CountedReader(u, l)
        BY <1>6, <2>2 DEF Rw!SetWriter, Rw!Goto, HasShared, HasExclusive, CountedReader
    <2>4. KnownWriter(t, l)' /\ writer'[l]
        BY <1>6, <2>2 DEF Rw!SetWriter, Rw!Goto, KnownWriter
    <2>5. SharedHolders(l)' = SharedHolders(l) /\ CountedReaders(l)' = CountedReaders(l)
        BY <2>3 DEF SharedHolders, CountedReaders
    <2>6. l \notin misused' => LockMatches(l)'
        BY <1>6, <2>2, <2>3, <2>4, <2>5 DEF Rw!SetWriter, LockMatches
    <2>7. \A x \in Locks : OneWriter(x)'
        BY <1>6, InsideKeepsOneWriter
    <2> QED
        BY <1>2, <1>6, <2>1, <2>2, <2>6, <2>7 DEF Rw!SetWriter, Rw!Goto
<1>7. ASSUME NEW t \in Threads, Rw!LoadReaders(t) PROVE RwInv'
    <2> DEFINE l == lock[t]
    <2>1. l \in Locks /\ holds[t][l] \in {"no", "read", "write"} /\ rwlock_pc[t] = "loadReaders"
        BY <1>7 DEF Rw!LoadReaders, RwCallsOK
    <2>2. /\ UNCHANGED <<shared, exclusive, readers, writer, lock, symbol>>
          /\ \/ /\ readers[l] # 0 /\ rwlock_pc' = [rwlock_pc EXCEPT ![t] = "subtractReader"] /\ holds' = holds
                /\ misused' = IF holds[t][l] = "no" THEN misused \cup {l} ELSE misused
             \/ /\ readers[l] = 0 /\ rwlock_pc' = [rwlock_pc EXCEPT ![t] = "guest"]
                /\ holds' = [holds EXCEPT ![t][l] = "no"] /\ misused' = misused
        BY <1>7 DEF Rw!LoadReaders, Rw!Goto, Rw!Misuse
    <2>3. l \notin misused' =>
              /\ l \notin misused /\ holds' = holds
              /\ \/ rwlock_pc'[t] = "subtractReader" /\ holds[t][l] = "read"
                 \/ rwlock_pc'[t] = "guest" /\ holds[t][l] = "no"
        <3> SUFFICES ASSUME l \notin misused'
                     PROVE  /\ l \notin misused /\ holds' = holds
                            /\ \/ rwlock_pc'[t] = "subtractReader" /\ holds[t][l] = "read"
                               \/ rwlock_pc'[t] = "guest" /\ holds[t][l] = "no"
            OBVIOUS
        <3>1. l \notin misused /\ holds[t][l] # "write"
            BY <2>1, <2>2 DEF RwCallsOK
        <3>2. holds[t][l] = "read" => readers[l] > 0
            BY <2>1, <3>1, ReadersAreCounted DEF CountedReader
        <3>3. CASE readers[l] # 0
            BY <2>1, <2>2, <3>1, <3>3
        <3>4. CASE readers[l] = 0
            <4>1. holds[t][l] = "no"
                BY <2>1, <3>1, <3>2, <3>4
            <4>2. holds' = holds
                BY <2>2, <3>4, <4>1
            <4> QED
                BY <2>2, <3>1, <3>4, <4>1, <4>2
        <3> QED
            BY <3>3, <3>4
    <2>4. /\ misused \subseteq misused' /\ misused' \subseteq misused \cup {l}
          /\ rwlock_pc' = [rwlock_pc EXCEPT ![t] = rwlock_pc'[t]]
          /\ rwlock_pc'[t] \in {"subtractReader", "guest"}
          /\ \A u \in Threads, x \in Locks : <<u, x>> # <<t, l>> => holds'[u][x] = holds[u][x]
        BY <2>1, <2>2
    <2>5. Rw!TypeOK' /\ RwCallsOK'
        <3>1. Rw!TypeOK'
            <4>1. holds' \in [Threads -> [Locks -> {"no", "read", "write"}]]
                <5>1. l \in Locks /\ holds \in [Threads -> [Locks -> {"no", "read", "write"}]]
                    BY <2>1
                <5>2. holds' = holds \/ holds' = [holds EXCEPT ![t][l] = "no"]
                    BY <2>2
                <5> HIDE DEF l, RwInv, Rw!TypeOK
                <5> QED
                    BY <5>1, <5>2
            <4>2. misused' \subseteq Locks
                BY <2>1, <2>4
            <4>3. rwlock_pc' \in [Threads -> {"guest", "acquireShared", "acquireExclusive", "countReader", "setWriter",
                       "loadReaders", "subtractReader", "releaseShared", "releaseExclusive", "undefined"}]
                BY <2>2
            <4> QED
                BY <2>2, <4>1, <4>2, <4>3
        <3>2. \A u \in Threads : u # t => rwlock_pc'[u] = rwlock_pc[u] /\ \A x \in Locks : holds'[u][x] = holds[u][x]
            BY <2>2, <2>4
        <3> QED
            BY <2>1, <2>2, <2>3, <2>4, <3>1, <3>2 DEF RwCallsOK
    <2>6. l \notin misused' => LockMatches(l)'
        <3> SUFFICES ASSUME l \notin misused' PROVE LockMatches(l)'
            OBVIOUS
        <3>1. \A u \in Threads : /\ HasShared(u, l)' <=> HasShared(u, l)
                                 /\ HasExclusive(u, l)' <=> HasExclusive(u, l)
                                 /\ CountedReader(u, l)' <=> CountedReader(u, l)
                                 /\ KnownWriter(u, l)' <=> KnownWriter(u, l)
            BY <2>1, <2>2, <2>3, <2>4 DEF HasShared, HasExclusive, CountedReader, KnownWriter
        <3> QED
            BY <2>1, <2>2, <2>3, <3>1, SameHoldersMatch
    <2>7. \A x \in Locks : OneWriter(x)'
        BY <1>7, InsideKeepsOneWriter
    <2> QED
        BY <1>2, <2>1, <2>2, <2>4, <2>5, <2>6, <2>7
<1>8. ASSUME NEW t \in Threads, Rw!SubtractReader(t) PROVE RwInv'
    <2>1. Rw!TypeOK' /\ RwCallsOK' /\ misused' = misused
        BY <1>8 DEF Rw!SubtractReader, Rw!Goto, RwCallsOK
    <2>2. \A x \in Locks : OneWriter(x)'
        BY <1>8, InsideKeepsOneWriter
    <2> QED
        BY <1>2, <1>8, <2>1, <2>2, SubtractReaderMatches DEF Rw!SubtractReader, Rw!Goto
<1>9. ASSUME NEW t \in Threads, Rw!Release(t) PROVE RwInv'
    <2>1. Rw!TypeOK' /\ RwCallsOK' /\ misused' = misused
        <3>1. lock[t] \in Locks
            BY <1>9 DEF Rw!Release, RwCallsOK
        <3>2. shared' \in [Locks -> Nat] /\ exclusive' \in [Locks -> BOOLEAN]
            <4>1. shared \in [Locks -> Nat] /\ exclusive \in [Locks -> BOOLEAN]
                OBVIOUS
            <4> HIDE DEF RwInv, Rw!TypeOK
            <4>2. \/ shared' = shared
                  \/ shared[lock[t]] > 0 /\ shared' = [shared EXCEPT ![lock[t]] = shared[lock[t]] - 1]
                BY <1>9 DEF Rw!Release
            <4>3. exclusive' = exclusive \/ exclusive' = [exclusive EXCEPT ![lock[t]] = FALSE]
                BY <1>9 DEF Rw!Release
            <4>4. shared[lock[t]] > 0 => shared[lock[t]] - 1 \in Nat
                BY <3>1, <4>1
            <4> QED
                BY <4>1, <4>2, <4>3, <4>4
        <3> QED
            BY <1>9, <3>1, <3>2 DEF Rw!Release, Rw!Goto, RwCallsOK
    <2>2. \A x \in Locks : OneWriter(x)'
        BY <1>9, InsideKeepsOneWriter
    <2> QED
        BY <1>2, <1>9, <2>1, <2>2, ReleaseMatches DEF Rw!Release, Rw!Goto
<1>10. ASSUME NEW t \in Threads, Rw!ReleaseOfNothing(t) PROVE RwInv'
    <2>1. /\ lock[t] \in Locks /\ rwlock_pc[t] = "releaseShared" /\ shared[lock[t]] = 0
          /\ rwlock_pc' = [rwlock_pc EXCEPT ![t] = "undefined"]
          /\ UNCHANGED <<shared, exclusive, readers, writer, lock, symbol, holds, misused>>
        BY <1>10 DEF Rw!ReleaseOfNothing, Rw!Goto, RwCallsOK
    <2>2. lock[t] \in misused
        BY <2>1, ReadersAreCounted DEF RwCallsOK, HasShared
    <2>3. Rw!TypeOK' /\ RwCallsOK'
        BY <2>1, <2>2 DEF RwCallsOK
    <2>4. \A x \in Locks : OneWriter(x)'
        BY <1>10, InsideKeepsOneWriter
    <2> QED
        BY <1>2, <2>1, <2>2, <2>3, <2>4
<1>11. ASSUME Rw!MisuseBlocks PROVE RwInv'
    <2>1. UNCHANGED <<shared, exclusive, readers, writer, rwlock_pc, lock, symbol, holds, misused>>
        BY <1>11 DEF Rw!MisuseBlocks, Rw!vars
    <2>2. ASSUME NEW l \in Locks \ misused PROVE LockMatches(l)'
        BY <2>1, SameHoldersMatch DEF HasShared, HasExclusive, CountedReader, KnownWriter
    <2>3. Rw!TypeOK' /\ RwCallsOK' /\ \A l \in Locks : OneWriter(l)'
        BY <2>1 DEF RwCallsOK, OneWriter, InExclusive
    <2> QED
        BY <2>1, <2>2, <2>3
<1> HIDE DEF RwInv
<1> QED
    BY <1>1, <1>3, <1>4, <1>5, <1>6, <1>7, <1>8, <1>9, <1>10, <1>11 DEF Rw!Next

LEMMA RwExcludes ==
    RwInv => /\ Rw!WriterExcludesAll /\ Rw!UnlockReleasesWhatWasAcquired
             /\ Rw!UnlockOfAFreeLockIsDropped /\ Rw!ExclusiveIsGivenBackOnce
<1> SUFFICES ASSUME RwInv PROVE /\ Rw!WriterExcludesAll /\ Rw!UnlockReleasesWhatWasAcquired
                                /\ Rw!UnlockOfAFreeLockIsDropped /\ Rw!ExclusiveIsGivenBackOnce
    OBVIOUS
<1>1. Rw!WriterExcludesAll
    <2> SUFFICES ASSUME NEW l \in Locks \ misused, NEW t \in Threads, NEW u \in Threads,
                        holds[t][l] = "write", holds[u][l] # "no"
                 PROVE  t = u
        BY DEF Rw!WriterExcludesAll
    <2>1. LockMatches(l) /\ HasExclusive(t, l) /\ holds[u][l] \in {"no", "read", "write"}
        BY DEF RwInv, Rw!TypeOK, HasExclusive
    <2>2. holds[u][l] # "read"
        BY <2>1 DEF LockMatches, SharedHolders, HasShared
    <2> QED
        BY <2>1, <2>2 DEF LockMatches, HasExclusive
<1>2. Rw!UnlockReleasesWhatWasAcquired
    BY ReadersAreCounted DEF RwInv, RwCallsOK, Rw!UnlockReleasesWhatWasAcquired, CountedReader
<1>3. Rw!UnlockOfAFreeLockIsDropped
    <2> SUFFICES ASSUME NEW l \in Locks \ misused, \A t \in Threads : holds[t][l] = "no"
                 PROVE  ~ writer[l] /\ readers[l] = 0
        BY DEF Rw!UnlockOfAFreeLockIsDropped
    <2>1. CountedReaders(l) = {} /\ \A t \in Threads : ~ KnownWriter(t, l)
        BY DEF CountedReaders, CountedReader, KnownWriter
    <2> QED
        BY <2>1, FS_EmptySet DEF RwInv, LockMatches
<1>4. Rw!ExclusiveIsGivenBackOnce
    <2> SUFFICES ASSUME NEW t \in Threads, rwlock_pc[t] = "releaseExclusive"
                 PROVE  /\ exclusive[lock[t]] /\ ~ writer[lock[t]]
                        /\ \A u \in Threads \ {t} : lock[u] = lock[t] => rwlock_pc[u] \notin {"setWriter", "releaseExclusive"}
        BY DEF Rw!ExclusiveIsGivenBackOnce
    <2>1. lock[t] \in Locks /\ OneWriter(lock[t]) /\ InExclusive(t, lock[t])
        BY DEF RwInv, RwCallsOK, InExclusive
    <2> QED
        BY <2>1 DEF OneWriter, InExclusive
<1> QED
    BY <1>1, <1>2, <1>3, <1>4

-----------------------------------------------------------------------------
(* Once-control variables and the guards of static variables. *)

\* The init routine was started for exactly the variables of g_once_done.
OnceInv == runs \in [Onces -> Nat] /\ \A o \in Onces : runs[o] = IF o \in done THEN 1 ELSE 0

LEMMA OnceInit == Once!Init => OnceInv
    BY DEF Once!Init, OnceInv

LEMMA OnceStep == OnceInv /\ Once!OnceNext => OnceInv'
<1> SUFFICES ASSUME OnceInv, Once!OnceNext PROVE OnceInv'
    OBVIOUS
<1> USE DEF OnceInv
<1>1. ASSUME NEW t \in Threads, Once!InitReturns(t) PROVE OnceInv'
    BY <1>1 DEF Once!InitReturns
<1>2. ASSUME NEW t \in Threads, NEW o \in Onces, Once!ScePthreadOnce(t, o) PROVE OnceInv'
    BY <1>2 DEF Once!ScePthreadOnce, Once!onceVars
<1> QED
    BY <1>1, <1>2 DEF Once!OnceNext

LEMMA OnceRunsOnce == OnceInv => Once!InitRunsAtMostOnce
    BY DEF OnceInv, Once!InitRunsAtMostOnce

GuardTypeOK ==
    /\ guard \subseteq Onces
    /\ g_guard_in_progress \in [Onces -> Threads \cup {NoThread}]
    /\ guard_pc \in [Threads -> {"guest", "waiting", "notify"}]
    /\ wants \in [Threads -> Seq(Onces)]
    /\ guard_asleep \subseteq {t \in Threads : guard_pc[t] = "waiting"}
    /\ guard_runs \in [Onces -> Nat]

\* The guards t initialises, the innermost first; a waiting thread waits for
\* the one at the head of wants.
Mine(t) == IF guard_pc[t] = "waiting" THEN Tail(wants[t]) ELSE wants[t]

Members(s) == {s[i] : i \in 1 .. Len(s)}
NoneTwice(s) == \A i, j \in 1 .. Len(s) : s[i] = s[j] => i = j

\* A guard under way is its thread's, once; a guard is complete when its byte is
\* set, and nobody initialises it then.
GuardsUnderWay ==
    /\ \A t \in Threads : guard_pc[t] = "waiting" => wants[t] # <<>>
    /\ \A t \in Threads : \A o \in Members(Mine(t)) : g_guard_in_progress[o] = t
    /\ \A t \in Threads : NoneTwice(Mine(t))

GuardsComplete ==
    /\ \A o \in Onces : guard_runs[o] = IF o \in guard THEN 1 ELSE 0
    /\ \A o \in guard : g_guard_in_progress[o] = NoThread

GuardInv == GuardTypeOK /\ GuardsUnderWay /\ GuardsComplete /\ Once!GuardSleeperIsWoken

LEMMA GuardInit == Once!Init => GuardInv
    BY DEF Once!Init, GuardInv, GuardTypeOK, GuardsUnderWay, Mine, Members, NoneTwice, GuardsComplete,
           Once!GuardSleeperIsWoken

\* Pushing a guard and popping it again.
LEMMA PushedGuards ==
    ASSUME NEW o \in Onces, NEW s \in Seq(Onces), NEW p \in Seq(Onces),
           Len(p) = Len(s) + 1, p[1] = o, Len(s) \in Nat,
           \A i \in 2 .. Len(s) + 1 : p[i] = s[i - 1] /\ i - 1 \in 1 .. Len(s)
    PROVE  /\ Members(p) = Members(s) \cup {o}
           /\ o \notin Members(s) /\ NoneTwice(s) => NoneTwice(p)
<1>1. Members(p) = Members(s) \cup {o}
    <2>1. \A i \in 1 .. Len(p) : i = 1 \/ i \in 2 .. Len(s) + 1
        OBVIOUS
    <2>2. \A i \in 1 .. Len(s) : i + 1 \in 2 .. Len(s) + 1 /\ i + 1 \in 1 .. Len(p) /\ p[i + 1] = s[i]
        OBVIOUS
    <2>3. 1 \in 1 .. Len(p)
        OBVIOUS
    <2> QED
        BY <2>1, <2>2, <2>3 DEF Members
<1>2. ASSUME o \notin Members(s), NoneTwice(s) PROVE NoneTwice(p)
    <2> SUFFICES ASSUME NEW i \in 1 .. Len(p), NEW j \in 1 .. Len(p), p[i] = p[j] PROVE i = j
        BY DEF NoneTwice
    <2>1. \A k \in 2 .. Len(s) + 1 : p[k] # o
        BY <1>2 DEF Members
    <2>2. CASE i = 1 \/ j = 1
        BY <2>1, <2>2
    <2>3. CASE i # 1 /\ j # 1
        <3>1. i \in 2 .. Len(s) + 1 /\ j \in 2 .. Len(s) + 1
            BY <2>3
        <3>2. i - 1 = j - 1
            BY <1>2, <3>1 DEF NoneTwice
        <3> QED
            BY <3>2
    <2> QED
        BY <2>2, <2>3
<1> QED
    BY <1>1, <1>2

LEMMA PushGuard ==
    ASSUME NEW o \in Onces, NEW s \in Seq(Onces), NEW p, p = <<o>> \o s
    PROVE  /\ p \in Seq(Onces) /\ p # <<>> /\ Head(p) = o /\ Tail(p) = s
           /\ Members(p) = Members(s) \cup {o}
           /\ o \notin Members(s) /\ NoneTwice(s) => NoneTwice(p)
<1>1. p \in Seq(Onces) /\ Len(p) = Len(s) + 1 /\ p[1] = o /\ Len(s) \in Nat
    OBVIOUS
<1>2. \A i \in 2 .. Len(s) + 1 : p[i] = s[i - 1] /\ i - 1 \in 1 .. Len(s)
    OBVIOUS
<1>3. Head(p) = o /\ p # <<>>
    BY <1>1
<1>4. Tail(p) = s
    <2>1. Tail(p) \in Seq(Onces) /\ Len(Tail(p)) = Len(s)
        BY <1>1, <1>3
    <2>2. \A i \in 1 .. Len(s) : Tail(p)[i] = s[i]
        BY <1>1, <1>2, <1>3
    <2> QED
        BY <2>1, <2>2, SeqEqual
<1>5. /\ Members(p) = Members(s) \cup {o}
      /\ o \notin Members(s) /\ NoneTwice(s) => NoneTwice(p)
    BY <1>1, <1>2, PushedGuards
<1> QED
    BY <1>1, <1>3, <1>4, <1>5

LEMMA PopGuard ==
    ASSUME NEW s \in Seq(Onces), s # <<>>
    PROVE  /\ Head(s) \in Onces /\ Tail(s) \in Seq(Onces) /\ s = <<Head(s)>> \o Tail(s)
           /\ Head(s) \in Members(s) /\ Members(Tail(s)) \subseteq Members(s)
           /\ NoneTwice(s) => Head(s) \notin Members(Tail(s)) /\ NoneTwice(Tail(s))
<1>1. /\ Head(s) \in Onces /\ Tail(s) \in Seq(Onces) /\ s = <<Head(s)>> \o Tail(s)
      /\ Len(s) = Len(Tail(s)) + 1 /\ Len(Tail(s)) \in Nat
      /\ \A i \in 1 .. Len(Tail(s)) : Tail(s)[i] = s[i + 1]
    BY HeadTailProperties
<1>2. \A i \in 1 .. Len(Tail(s)) : i + 1 \in 1 .. Len(s) /\ i + 1 # 1
    BY <1>1
<1>3. 1 \in 1 .. Len(s) /\ Head(s) = s[1]
    BY <1>1
<1>4. Head(s) \in Members(s) /\ Members(Tail(s)) \subseteq Members(s)
    BY <1>1, <1>2, <1>3 DEF Members
<1>5. NoneTwice(s) => Head(s) \notin Members(Tail(s))
    BY <1>1, <1>2, <1>3 DEF Members, NoneTwice
<1>6. NoneTwice(s) => NoneTwice(Tail(s))
    <2> SUFFICES ASSUME NoneTwice(s), NEW i \in 1 .. Len(Tail(s)), NEW j \in 1 .. Len(Tail(s)),
                        Tail(s)[i] = Tail(s)[j]
                 PROVE  i = j
        BY DEF NoneTwice
    <2>1. i + 1 = j + 1
        BY <1>1, <1>2 DEF NoneTwice
    <2> QED
        BY <2>1
<1> QED
    BY <1>1, <1>4, <1>5, <1>6

\* What a thread has asked for, typed.
LEMMA MineTyped ==
    ASSUME NEW t \in Threads, GuardTypeOK, GuardsUnderWay
    PROVE  Mine(t) \in Seq(Onces) /\ Members(Mine(t)) \subseteq Onces
<1>1. Mine(t) \in Seq(Onces)
    BY PopGuard DEF Mine, GuardTypeOK, GuardsUnderWay
<1> QED
    BY <1>1 DEF Members

\* A turn of the loop for the guard o: what the thread waits for, or asks for.
LEMMA TurnKeepsGuardInv ==
    ASSUME NEW t \in Threads, NEW o \in Onces, GuardInv, Once!AcquireTurn(t, o),
           UNCHANGED <<guard, guard_runs>>,
           \/ guard_pc[t] = "guest"
           \/ guard_pc[t] = "waiting" /\ t \notin guard_asleep /\ o = Head(wants[t])
    PROVE  GuardInv'
<1> USE SyncObjectsAssumption DEF GuardInv, GuardTypeOK
<1> DEFINE waits == guard_pc[t] = "waiting"
           pushed == <<o>> \o Mine(t)
<1>1. wants[t] \in Seq(Onces) /\ Mine(t) \in Seq(Onces) /\ (waits => wants[t] # <<>>)
    BY MineTyped DEF GuardsUnderWay
<1>2. waits => wants[t] = pushed
    BY <1>1, PopGuard DEF Mine
<1>3. /\ pushed \in Seq(Onces) /\ pushed # <<>> /\ Head(pushed) = o /\ Tail(pushed) = Mine(t)
      /\ Members(pushed) = Members(Mine(t)) \cup {o}
      /\ o \notin Members(Mine(t)) /\ NoneTwice(Mine(t)) => NoneTwice(pushed)
    BY <1>1, PushGuard
<1> HIDE DEF pushed
<1>4. CASE o \in guard \/ g_guard_in_progress[o] = t
    <2>1. /\ guard_pc' = [guard_pc EXCEPT ![t] = "guest"] /\ wants' = [wants EXCEPT ![t] = Mine(t)]
          /\ UNCHANGED <<guard, g_guard_in_progress, guard_asleep, guard_runs>>
        BY <1>4 DEF Once!AcquireTurn, Mine
    <2>2. GuardTypeOK'
        BY <1>1, <2>1
    <2>3. \A u \in Threads : Mine(u)' = Mine(u)
        BY <2>1 DEF Mine
    <2>4. GuardsUnderWay'
        BY <2>1, <2>3 DEF GuardsUnderWay
    <2>5. GuardsComplete' /\ Once!GuardSleeperIsWoken'
        BY <2>1 DEF GuardsComplete, Once!GuardSleeperIsWoken
    <2> QED
        BY <2>2, <2>4, <2>5
<1>5. CASE ~ (o \in guard \/ g_guard_in_progress[o] = t) /\ g_guard_in_progress[o] = NoThread
    <2>1. /\ guard_pc' = [guard_pc EXCEPT ![t] = "guest"] /\ wants' = [wants EXCEPT ![t] = pushed]
          /\ g_guard_in_progress' = [g_guard_in_progress EXCEPT ![o] = t]
          /\ UNCHANGED <<guard, guard_asleep, guard_runs>>
        BY <1>2, <1>5 DEF Once!AcquireTurn, Mine, pushed
    <2>2. GuardTypeOK'
        BY <1>3, <2>1
    <2>3. Mine(t)' = pushed /\ \A u \in Threads : u # t => Mine(u)' = Mine(u)
        BY <2>1 DEF Mine
    <2>4. ASSUME NEW u \in Threads, NEW x \in Members(Mine(u))
          PROVE  x # o /\ g_guard_in_progress'[x] = u
        <3>1. x \in Onces
            BY MineTyped
        <3>2. g_guard_in_progress[x] = u /\ u # NoThread
            BY DEF GuardsUnderWay
        <3> QED
            BY <1>5, <2>1, <3>1, <3>2
    <2>5. ASSUME NEW u \in Threads, NEW x \in Members(Mine(u)')
          PROVE  g_guard_in_progress'[x] = u
        <3>1. CASE u = t /\ x = o
            BY <2>1, <3>1
        <3>2. CASE ~ (u = t /\ x = o)
            BY <1>3, <2>3, <2>4, <3>2
        <3> QED
            BY <3>1, <3>2
    <2>6. ASSUME NEW u \in Threads PROVE NoneTwice(Mine(u)')
        <3>1. NoneTwice(Mine(u)) /\ NoneTwice(Mine(t))
            BY DEF GuardsUnderWay
        <3>2. o \notin Members(Mine(t))
            BY <2>4
        <3> QED
            BY <1>3, <2>3, <3>1, <3>2
    <2>7. GuardsUnderWay'
        <3>1. \A u \in Threads : guard_pc'[u] = "waiting" => wants'[u] # <<>>
            BY <2>1 DEF GuardsUnderWay
        <3> QED
            BY <2>5, <2>6, <3>1, Zenon DEF GuardsUnderWay, Members, NoneTwice
    <2>8. GuardsComplete'
        BY <1>5, <2>1 DEF GuardsComplete
    <2>9. Once!GuardSleeperIsWoken'
        <3> SUFFICES ASSUME NEW u \in guard_asleep
                     PROVE  \/ g_guard_in_progress'[Head(wants'[u])] \notin {u, NoThread}
                            \/ \E s \in Threads : guard_pc'[s] = "notify"
            BY <2>1 DEF Once!GuardSleeperIsWoken
        <3>1. u # t /\ u \in Threads /\ wants'[u] = wants[u] /\ Head(wants[u]) \in Onces
            BY <2>1, PopGuard DEF GuardsUnderWay
        <3> QED
            BY <2>1, <3>1 DEF Once!GuardSleeperIsWoken
    <2> QED
        BY <2>2, <2>7, <2>8, <2>9
<1>6. CASE ~ (o \in guard \/ g_guard_in_progress[o] = t) /\ g_guard_in_progress[o] # NoThread
    <2>1. /\ guard_pc' = [guard_pc EXCEPT ![t] = "waiting"] /\ wants' = [wants EXCEPT ![t] = pushed]
          /\ guard_asleep' = guard_asleep \cup {t}
          /\ UNCHANGED <<guard, g_guard_in_progress, guard_runs>>
        BY <1>2, <1>6 DEF Once!AcquireTurn, Mine, pushed
    <2>2. GuardTypeOK'
        BY <1>3, <2>1
    <2>3. \A u \in Threads : Mine(u)' = Mine(u)
        BY <1>3, <2>1 DEF Mine
    <2>4. \A u \in Threads : guard_pc'[u] = "waiting" => wants'[u] # <<>>
        BY <1>3, <2>1 DEF GuardsUnderWay
    <2>5. GuardsUnderWay' /\ GuardsComplete'
        BY <2>1, <2>3, <2>4 DEF GuardsUnderWay, GuardsComplete
    <2>6. Once!GuardSleeperIsWoken'
        <3> SUFFICES ASSUME NEW u \in guard_asleep'
                     PROVE  \/ g_guard_in_progress'[Head(wants'[u])] \notin {u, NoThread}
                            \/ \E s \in Threads : guard_pc'[s] = "notify"
            BY DEF Once!GuardSleeperIsWoken
        <3>1. CASE u = t
            BY <1>3, <1>6, <2>1, <3>1
        <3>2. CASE u # t
            <4>1. u \in guard_asleep /\ wants'[u] = wants[u]
                BY <2>1, <3>2
            <4>2. (\E s \in Threads : guard_pc[s] = "notify") => \E s \in Threads : guard_pc'[s] = "notify"
                BY <2>1
            <4> QED
                BY <2>1, <4>1, <4>2 DEF Once!GuardSleeperIsWoken
        <3> QED
            BY <3>1, <3>2
    <2> QED
        BY <2>2, <2>5, <2>6
<1> QED
    BY <1>4, <1>5, <1>6

\* The initialiser returns or throws: the guard was the thread's, and comes to its end once.
LEMMA EndKeepsGuardInv ==
    ASSUME NEW t \in Threads, NEW released \in BOOLEAN, GuardInv, Once!GuardEnds(t, released)
    PROVE  GuardInv'
<1> USE SyncObjectsAssumption DEF GuardInv, GuardTypeOK
<1> DEFINE o == Head(wants[t])
           w == Tail(wants[t])
<1>1. guard_pc[t] = "guest" /\ wants[t] \in Seq(Onces) /\ wants[t] # <<>> /\ Mine(t) = wants[t]
    BY DEF Once!GuardEnds, Mine
<1>2. /\ o \in Onces /\ w \in Seq(Onces) /\ o \in Members(Mine(t))
      /\ Members(w) \subseteq Members(Mine(t)) /\ o \notin Members(w) /\ NoneTwice(w)
    <2>1. NoneTwice(wants[t])
        BY <1>1 DEF GuardsUnderWay
    <2> QED
        BY <1>1, <2>1, PopGuard
<1>3. /\ guard' = (IF released THEN guard \cup {o} ELSE guard \ {o})
      /\ g_guard_in_progress' = [g_guard_in_progress EXCEPT ![o] = NoThread]
      /\ guard_runs' = [guard_runs EXCEPT ![o] = IF released THEN @ + 1 ELSE @]
      /\ wants' = [wants EXCEPT ![t] = w]
      /\ guard_pc' = [guard_pc EXCEPT ![t] = "notify"]
      /\ guard_asleep' = guard_asleep
    BY DEF Once!GuardEnds
<1>4. g_guard_in_progress[o] = t
    BY <1>1, <1>2 DEF GuardsUnderWay
<1> HIDE DEF o, w
<1>5. o \notin guard /\ guard_runs[o] = 0
    BY <1>2, <1>4 DEF GuardsComplete
<1>6. GuardTypeOK'
    <2>1. guard' \subseteq Onces /\ guard_runs' \in [Onces -> Nat]
        BY <1>2, <1>3, <1>5
    <2>2. guard_asleep' \subseteq {u \in Threads : guard_pc'[u] = "waiting"}
        BY <1>1, <1>3
    <2> QED
        BY <1>2, <1>3, <2>1, <2>2
<1>7. Mine(t)' = w /\ \A u \in Threads : u # t => Mine(u)' = Mine(u)
    BY <1>3 DEF Mine
<1>8. GuardsUnderWay'
    <2>1. ASSUME NEW u \in Threads PROVE guard_pc'[u] = "waiting" => wants'[u] # <<>>
        BY <1>1, <1>3 DEF GuardsUnderWay
    <2>2. \A u \in Threads : u # t => \A x \in Members(Mine(u)) : g_guard_in_progress'[x] = u
        BY <1>3, <1>4, MineTyped DEF GuardsUnderWay
    <2>3. \A x \in Members(w) : g_guard_in_progress'[x] = t
        BY <1>2, <1>3, MineTyped DEF GuardsUnderWay
    <2>4. ASSUME NEW u \in Threads
          PROVE  (\A x \in Members(Mine(u)') : g_guard_in_progress'[x] = u) /\ NoneTwice(Mine(u)')
        <3>1. CASE u = t
            BY <1>2, <1>7, <2>3, <3>1
        <3>2. CASE u # t
            BY <1>7, <2>2, <3>2 DEF GuardsUnderWay
        <3> QED
            BY <3>1, <3>2
    <2> QED
        BY <2>1, <2>4, Zenon DEF GuardsUnderWay, Members, NoneTwice
<1>9. GuardsComplete'
    BY <1>2, <1>3, <1>5 DEF GuardsComplete
<1>10. Once!GuardSleeperIsWoken'
    BY <1>3 DEF Once!GuardSleeperIsWoken
<1> QED
    BY <1>6, <1>8, <1>9, <1>10

LEMMA GuardStep == GuardInv /\ Once!GuardNext => GuardInv'
<1> SUFFICES ASSUME GuardInv, Once!GuardNext PROVE GuardInv'
    OBVIOUS
<1>1. ASSUME NEW t \in Threads, NEW o \in Onces, Once!CxaGuardAcquire(t, o) PROVE GuardInv'
    BY <1>1, TurnKeepsGuardInv DEF Once!CxaGuardAcquire
<1>2. ASSUME NEW t \in Threads, Once!GuardWakes(t) PROVE GuardInv'
    <2>1. wants[t] \in Seq(Onces) /\ wants[t] # <<>>
        BY <1>2 DEF GuardInv, GuardTypeOK, GuardsUnderWay, Once!GuardWakes
    <2>2. Head(wants[t]) \in Onces
        BY <2>1
    <2> QED
        BY <1>2, <2>2, TurnKeepsGuardInv DEF Once!GuardWakes
<1>3. ASSUME NEW t \in Threads, Once!SpuriousWake(t) \/ Once!GuardNotifies(t) PROVE GuardInv'
    <2> USE DEF Once!SpuriousWake, Once!GuardNotifies, GuardInv, GuardTypeOK
    <2>1. GuardTypeOK' /\ GuardsComplete'
        BY <1>3 DEF GuardsComplete
    <2>2. Once!GuardSleeperIsWoken'
        BY <1>3 DEF Once!GuardSleeperIsWoken
    <2>3. \A u \in Threads : Mine(u)' = Mine(u) /\ (guard_pc'[u] = "waiting" => guard_pc[u] = "waiting")
        BY <1>3 DEF Mine
    <2>4. UNCHANGED <<wants, g_guard_in_progress>>
        BY <1>3
    <2> QED
        BY <2>1, <2>2, <2>3, <2>4 DEF GuardsUnderWay
<1>4. ASSUME NEW t \in Threads, NEW released \in BOOLEAN, Once!GuardEnds(t, released) PROVE GuardInv'
    BY <1>4, EndKeepsGuardInv
<1> QED
    BY <1>1, <1>2, <1>3, <1>4 DEF Once!GuardNext

LEMMA GuardIsCompletedOnce == GuardInv => Once!GuardCompletesOnce
    BY DEF GuardInv, GuardsComplete, Once!GuardCompletesOnce

-----------------------------------------------------------------------------
(* Waiting on addresses. *)

\* Where a thread is says which of its fields name something.
AddressCallsOK ==
    /\ \A t \in Address!Callers : /\ address_pc[t] # "guest" => addr[t] \in Addrs
                                  /\ address_pc[t] \in {"entered", "waiting", "leaving", "waking"}
                                     => entry[t] \in Entries
    /\ \A t \in Waiters : address_pc[t] # "waking"
    /\ \A w \in Wakers : address_pc[w] \in {"guest", "waking"}
    /\ \A t \in address_asleep : address_pc[t] = "waiting"

WaitingOn(e) == {t \in Waiters : address_pc[t] = "waiting" /\ entry[t] = e}

CountIsRight(e) == counted[e] = Cardinality(WaitingOn(e)) \/ e \in Address!Fresh

AddressInv == Address!TypeOK /\ AddressCallsOK /\ \A e \in Entries : CountIsRight(e)

\* AddressWait counts with the Cardinality of its own instance of FiniteSets.
LEMMA AddressCardinality == \A S : Address!Cardinality(S) = Cardinality(S)
    BY Zenon DEF Address!Cardinality, Cardinality, Address!IsFiniteSet, IsFiniteSet

LEMMA AddressCounts == AddressInv => Address!CountedIsWaiting
    BY AddressCardinality, Zenon DEF AddressInv, CountIsRight, WaitingOn, Address!CountedIsWaiting

LEMMA AddressInit == Address!Init => AddressInv
<1> SUFFICES ASSUME Address!Init PROVE AddressInv
    OBVIOUS
<1> USE SyncObjectsAssumption DEF Address!Init, Address!Callers
<1>1. Address!TypeOK /\ AddressCallsOK
    BY DEF Address!TypeOK, AddressCallsOK
<1>2. \A e \in Entries : e \in Address!Fresh
    BY DEF Address!Fresh
<1> QED
    BY <1>1, <1>2 DEF AddressInv, CountIsRight

\* A step that gives no entry away and sets nobody waiting or moving on.
LEMMA CountStaysRight ==
    ASSUME \A e \in Entries : CountIsRight(e), counted' = counted,
           \A t \in Waiters : /\ address_pc'[t] = "waiting" <=> address_pc[t] = "waiting"
                              /\ address_pc[t] = "waiting" => entry'[t] = entry[t],
           \A t \in Address!Callers : entry'[t] = entry[t] \/ entry'[t] = NoEntry \/ \E a \in Addrs : entry'[t] = map[a],
           \A a \in Addrs : map'[a] = map[a] \/ map'[a] = NoEntry
    PROVE  \A e \in Entries : CountIsRight(e)'
<1> SUFFICES ASSUME NEW e \in Entries PROVE CountIsRight(e)'
    OBVIOUS
<1>1. WaitingOn(e)' = WaitingOn(e)
    BY DEF WaitingOn
<1>2. e \in Address!Fresh => e \in Address!Fresh'
    BY SyncObjectsAssumption DEF Address!Fresh
<1> QED
    BY <1>1, <1>2 DEF CountIsRight

LEMMA AddressStep == AddressInv /\ Address!Next => AddressInv'
<1> SUFFICES ASSUME AddressInv, Address!Next PROVE AddressInv'
    OBVIOUS
<1> USE SyncObjectsAssumption DEF AddressInv, Address!TypeOK, AddressCallsOK, Address!Callers
<1>1. ASSUME NEW w \in Wakers, NEW a \in Addrs, NEW v \in Values, Address!Store(w, a, v)
      PROVE  AddressInv'
    <2>1. Address!TypeOK' /\ AddressCallsOK'
        BY <1>1 DEF Address!Store
    <2> QED
        BY <1>1, <2>1, CountStaysRight DEF Address!Store
<1>2. ASSUME NEW t \in Waiters, NEW a \in Addrs, NEW v \in Values, NEW isT \in BOOLEAN,
             Address!Compare(t, a, v, isT)
      PROVE  AddressInv'
    <2>1. Address!TypeOK' /\ AddressCallsOK'
        BY <1>2 DEF Address!Compare
    <2> QED
        BY <1>2, <2>1, CountStaysRight DEF Address!Compare
<1>3. ASSUME NEW t \in Waiters, Address!GetSyncAddressEntry(t) PROVE AddressInv'
    <2> DEFINE a == addr[t]
    <2>1. /\ address_pc[t] = "compared" /\ a \in Addrs /\ address_pc' = [address_pc EXCEPT ![t] = "entered"]
          /\ UNCHANGED <<word, addr, isTimed, address_asleep, target>>
        BY <1>3 DEF Address!GetSyncAddressEntry
    <2>2. CASE map[a] # NoEntry
        <3>1. entry' = [entry EXCEPT ![t] = map[a]] /\ UNCHANGED <<map, counted>>
            BY <1>3, <2>2 DEF Address!GetSyncAddressEntry
        <3>2. Address!TypeOK' /\ AddressCallsOK'
            BY <2>1, <2>2, <3>1
        <3> QED
            BY <2>1, <3>1, <3>2, CountStaysRight
    <2>3. CASE map[a] = NoEntry
        <3>1. PICK e \in Address!Fresh : /\ map' = [map EXCEPT ![a] = e]
                                         /\ counted' = [counted EXCEPT ![e] = 0]
                                         /\ entry' = [entry EXCEPT ![t] = e]
            BY <1>3, <2>3 DEF Address!GetSyncAddressEntry
        <3>2. e \in Entries /\ (\A u \in Waiters : entry[u] # e)
            BY DEF Address!Fresh
        <3>3. Address!TypeOK' /\ AddressCallsOK'
            BY <2>1, <3>1, <3>2
        <3>4. CountIsRight(e)'
            <4>1. WaitingOn(e)' = {}
                BY <2>1, <3>1, <3>2 DEF WaitingOn
            <4> QED
                BY <3>1, <3>2, <4>1, FS_EmptySet DEF CountIsRight
        <3>5. ASSUME NEW x \in Entries, x # e PROVE CountIsRight(x)'
            <4>1. WaitingOn(x)' = WaitingOn(x)
                BY <2>1, <3>1, <3>2, <3>5 DEF WaitingOn
            <4>2. x \in Address!Fresh => x \in Address!Fresh'
                BY <2>1, <3>1, <3>5 DEF Address!Fresh
            <4>3. counted'[x] = counted[x]
                BY <3>1, <3>5
            <4> QED
                BY <4>1, <4>2, <4>3 DEF CountIsRight
        <3> QED
            BY <3>3, <3>4, <3>5
    <2> QED
        BY <2>2, <2>3
<1>4. ASSUME NEW t \in Waiters, Address!BeginWait(t) \/ Address!EndWait(t) PROVE AddressInv'
    <2> DEFINE e == entry[t]
               S == WaitingOn(e)
    <2>1. e \in Entries /\ e \notin Address!Fresh /\ counted[e] = Cardinality(S) /\ S \in SUBSET Waiters
          /\ UNCHANGED <<word, map, addr, entry, isTimed>>
        BY <1>4 DEF Address!BeginWait, Address!EndWait, Address!Fresh, CountIsRight, WaitingOn
    <2>2. \A x \in Entries : x \in Address!Fresh => x \in Address!Fresh'
        BY <2>1 DEF Address!Fresh
    <2>3. CASE Address!BeginWait(t)
        <3>1. /\ address_pc' = [address_pc EXCEPT ![t] = "waiting"] /\ t \notin S
              /\ counted' = [counted EXCEPT ![e] = counted[e] + 1]
              /\ address_asleep' = address_asleep \cup {t} /\ target' = target
            BY <2>3 DEF Address!BeginWait, WaitingOn
        <3>2. Address!TypeOK' /\ AddressCallsOK'
            <4>1. counted' \in [Entries -> Nat] /\ address_pc[t] = "entered" /\ addr[t] \in Addrs
                BY <2>1, <2>3, <3>1 DEF Address!BeginWait
            <4>2. Address!TypeOK'
                BY <2>1, <3>1, <4>1
            <4> QED
                BY <2>1, <3>1, <4>1, <4>2
        <3>3. S' = S \cup {t} /\ \A x \in Entries : x # e => WaitingOn(x)' = WaitingOn(x)
            BY <2>1, <3>1 DEF WaitingOn
        <3> HIDE DEF S
        <3>4. Cardinality(S \cup {t}) = Cardinality(S) + 1
            BY <2>1, <3>1, CountSubset
        <3>5. counted'[e] = Cardinality(WaitingOn(e)')
            BY <2>1, <3>1, <3>3, <3>4 DEF S
        <3>6. ASSUME NEW x \in Entries PROVE CountIsRight(x)'
            BY <2>1, <2>2, <3>1, <3>3, <3>5 DEF CountIsRight
        <3> QED
            BY <3>2, <3>6
    <2>4. CASE Address!EndWait(t)
        <3>1. /\ address_pc' = [address_pc EXCEPT ![t] = "leaving"] /\ t \in S
              /\ counted' = [counted EXCEPT ![e] = counted[e] - 1]
              /\ address_asleep' = address_asleep \ {t}
              /\ target' = [w \in Address!Callers |-> target[w] \ {t}]
            BY <2>4 DEF Address!EndWait, WaitingOn
        <3>2. S' = S \ {t} /\ \A x \in Entries : x # e => WaitingOn(x)' = WaitingOn(x)
            BY <2>1, <3>1 DEF WaitingOn
        <3> HIDE DEF S
        <3>3. Cardinality(S \ {t}) = Cardinality(S) - 1 /\ Cardinality(S \ {t}) \in Nat
            BY <2>1, <3>1, CountSubset
        <3>4. Address!TypeOK' /\ AddressCallsOK'
            <4>1. counted' \in [Entries -> Nat] /\ address_pc[t] = "waiting" /\ addr[t] \in Addrs
                BY <2>1, <2>4, <3>1, <3>3 DEF Address!EndWait
            <4>2. target' \in [Address!Callers -> SUBSET Waiters]
                BY <3>1
            <4>3. Address!TypeOK'
                BY <2>1, <3>1, <4>1, <4>2
            <4> QED
                BY <2>1, <3>1, <4>1, <4>3
        <3>5. counted'[e] = Cardinality(WaitingOn(e)')
            BY <2>1, <3>1, <3>2, <3>3 DEF S
        <3>6. ASSUME NEW x \in Entries PROVE CountIsRight(x)'
            BY <2>1, <2>2, <3>1, <3>2, <3>5 DEF CountIsRight
        <3> QED
            BY <3>4, <3>6
    <2> QED
        BY <1>4, <2>3, <2>4
<1>5. ASSUME NEW t \in Waiters, Address!CleanSyncAddressEntry(t) PROVE AddressInv'
    <2>1. Address!TypeOK' /\ AddressCallsOK'
        BY <1>5 DEF Address!CleanSyncAddressEntry
    <2> QED
        BY <1>5, <2>1, CountStaysRight DEF Address!CleanSyncAddressEntry
<1>6. ASSUME NEW t \in Waiters, Address!SpuriousWake(t) PROVE AddressInv'
    <2>1. Address!TypeOK' /\ AddressCallsOK'
        BY <1>6 DEF Address!SpuriousWake
    <2> QED
        BY <1>6, <2>1, CountStaysRight DEF Address!SpuriousWake
<1>7. ASSUME NEW w \in Wakers, NEW a \in Addrs, Address!FindEntry(w, a) PROVE AddressInv'
    <2>1. Address!TypeOK' /\ AddressCallsOK'
        BY <1>7 DEF Address!FindEntry, Address!SleepersAt
    <2> QED
        BY <1>7, <2>1, CountStaysRight DEF Address!FindEntry
<1>8. ASSUME NEW w \in Wakers, NEW count, Address!Notify(w, count) PROVE AddressInv'
    <2>1. address_asleep' \subseteq address_asleep
        BY <1>8 DEF Address!Notify
    <2>2. Address!TypeOK' /\ AddressCallsOK'
        BY <1>8, <2>1 DEF Address!Notify
    <2> QED
        BY <1>8, <2>2, CountStaysRight DEF Address!Notify
<1> HIDE DEF AddressInv
<1> QED
    BY <1>1, <1>2, <1>3, <1>4, <1>5, <1>6, <1>7, <1>8
       DEF Address!Next, Address!WaiterStep, Address!WakerStep


-----------------------------------------------------------------------------
(* Event queues. *)

Events == [key : Queue!Keys, pending : BOOLEAN]

\* The type invariant without its last conjunct, which EventsOnce states by places.
QueueTyped ==
    /\ equeues \subseteq queue_created /\ queue_created \subseteq Handles
    /\ events \in [Handles -> Seq(Events)]
    /\ queue_pc \in [Threads -> {"guest", "wait", "blocked", "adduser", "deleteuser", "addread", "post", "notify"}]
    /\ eq \in [Threads -> Handles \cup {NoHandle}]
    /\ \A t \in Threads : queue_pc[t] # "guest" => eq[t] \in queue_created
    /\ key \in [Threads -> Queue!Keys \cup {Queue!NoKey}]
    /\ slots \in [Threads -> 0 .. MaxSlots]
    /\ queue_timo \in [Threads -> {"none", "poll", "timed"}]
    /\ queue_asleep \subseteq {t \in Threads : queue_pc[t] = "blocked"}
    /\ queue_posts \in 0 .. MaxArms
    /\ queue_unspent \in [Handles -> [Queue!Keys -> Int]]
    /\ empty \subseteq Threads

\* A call about an event names one, and only read events are armed in silence.
QueueCallsOK ==
    \A t \in Threads :
        /\ queue_pc[t] \in {"adduser", "deleteuser", "addread", "post"} => key[t] \in Queue!Keys
        /\ queue_pc[t] = "addread" => key[t].filter = "read"

\* A vector w of events in which no two are about the same, and of which the
\* pending ones have been armed once more than delivered.
SoundVector(w, spent) ==
    /\ \A i, j \in 1 .. Len(w) : w[i].key = w[j].key => i = j
    /\ \A k \in Queue!Keys : spent[k] \in Int /\ spent[k] >= 0
    /\ \A i \in 1 .. Len(w) : w[i].pending => spent[w[i].key] >= 1

\* A vector that is worth a notify.
WorthNotify(w) == \E i \in 1 .. Len(w) : w[i].pending /\ w[i].key.filter # "read"

QueueInv ==
    /\ QueueTyped /\ QueueCallsOK
    /\ \A h \in Handles : SoundVector(events[h], queue_unspent[h])
    /\ Queue!SleeperHasNotifier
    /\ empty = {}

\* EventQueue counts with the Cardinality of its own instance of FiniteSets.
LEMMA QueueCardinality == \A S : Queue!Cardinality(S) = Cardinality(S)
    BY Zenon DEF Queue!Cardinality, Cardinality, Queue!IsFiniteSet, IsFiniteSet

LEMMA FunctionIsSeq ==
    ASSUME NEW S, NEW size \in Nat, NEW f \in [1 .. size -> S]
    PROVE  f \in Seq(S) /\ Len(f) = size
<1>1. f \in Seq(S)
    BY SeqDef
<1>2. 1 .. Len(f) = 1 .. size /\ Len(f) \in Nat
    BY <1>1, LenProperties
<1> QED
    BY <1>1, <1>2

\* A set with no two different members.
LEMMA AtMostOne ==
    ASSUME NEW S, \A x, y \in S : x = y
    PROVE  Cardinality(S) = IF S = {} THEN 0 ELSE 1
<1>1. CASE S = {}
    BY <1>1, FS_EmptySet
<1>2. CASE S # {}
    <2>1. PICK x : x \in S
        BY <1>2
    <2>2. S = {x}
        BY <2>1
    <2> QED
        BY <1>2, <2>2, FS_Singleton
<1> QED
    BY <1>1, <1>2

LEMMA QueueProperties ==
    QueueInv => Queue!TypeOK /\ Queue!DeliveredOncePerPost /\ Queue!UntimedWaitDelivers
<1> SUFFICES ASSUME QueueInv PROVE Queue!TypeOK /\ Queue!DeliveredOncePerPost /\ Queue!UntimedWaitDelivers
    OBVIOUS
<1>1. ASSUME NEW h \in Handles, NEW k \in Queue!Keys PROVE Queue!Cardinality(Queue!Places(h, k)) <= 1
    <2>1. \A i, j \in Queue!Places(h, k) : i = j
        BY DEF QueueInv, SoundVector, Queue!Places
    <2>2. Cardinality(Queue!Places(h, k)) <= 1
        BY <2>1, AtMostOne
    <2> QED
        BY <2>2, QueueCardinality
<1>2. Queue!TypeOK
    BY <1>1 DEF QueueInv, QueueTyped, Queue!TypeOK, Events
<1>3. Queue!DeliveredOncePerPost
    BY DEF QueueInv, SoundVector, Queue!DeliveredOncePerPost
<1> QED
    BY <1>2, <1>3 DEF QueueInv, Queue!UntimedWaitDelivers

LEMMA QueueInit == Queue!Init => QueueInv
    BY SyncObjectsAssumption
       DEF Queue!Init, QueueInv, QueueTyped, QueueCallsOK, SoundVector, Queue!SleeperHasNotifier

\* What is pending and fits is delivered: the first pending event always does.
LEMMA PendingIsDelivered ==
    ASSUME NEW h \in Handles, NEW m \in Nat \ {0}, events[h] \in Seq(Events), Queue!HasPending(h)
    PROVE  Queue!Delivered(h, m) # {}
<1> DEFINE P == {i \in 1 .. Len(events[h]) : events[h][i].pending}
<1>1. P # {} /\ P \subseteq Nat
    BY DEF Queue!HasPending
<1> HIDE DEF P
<1>2. PICK i \in P : \A j \in P : ~ (<<j, i>> \in OpToRel(<, Nat))
    BY <1>1, NatLessThanWellFounded, WFMin
<1>3. \A j \in P : j \in Nat /\ i \in Nat /\ ~ (j < i)
    BY <1>1, <1>2 DEF OpToRel
<1>4. {j \in P : j <= i} = {i}
    BY <1>3
<1>5. Queue!Cardinality({j \in P : j <= i}) <= m
    <2>1. Cardinality({j \in P : j <= i}) = 1
        BY <1>4, FS_Singleton
    <2>2. Queue!Cardinality({j \in P : j <= i}) = 1
        BY <2>1, QueueCardinality
    <2> HIDE DEF P
    <2>3. ASSUME NEW c, c = 1 PROVE c <= m
        BY <2>3
    <2> QED
        BY <2>2, <2>3
<1>6. Queue!Delivered(h, m) = {x \in P : Queue!Cardinality({j \in P : j <= x}) <= m}
    BY DEF Queue!Delivered, P
<1> QED
    BY <1>5, <1>6

\* A sleeper whose queue is worth no more keeps the thread that is to notify it.
LEMMA NotifiersStay ==
    ASSUME Queue!SleeperHasNotifier,
           \A u \in queue_asleep' : WorthNotify(events'[eq'[u]]) =>
               /\ u \in queue_asleep /\ eq'[u] = eq[u] /\ WorthNotify(events[eq[u]])
               /\ \A s \in Threads : queue_pc[s] = "notify" /\ eq[s] = eq[u]
                                     => queue_pc'[s] = "notify" /\ eq'[s] = eq[s]
    PROVE  Queue!SleeperHasNotifier'
    BY DEF Queue!SleeperHasNotifier, WorthNotify

\* The end of a wait: what was pending is no longer, each event paid for by one arming.
LEMMA DrainKeepsQueueInv ==
    ASSUME NEW t \in Threads, QueueInv, queue_pc[t] \in {"wait", "blocked"},
           Queue!HasPending(eq[t]) \/ queue_timo[t] # "none", Queue!DrainEqueueEvents(t)
    PROVE  QueueInv'
<1> USE SyncObjectsAssumption DEF QueueInv, QueueTyped
<1> DEFINE h == eq[t]
           out == Queue!Delivered(h, slots[t])
           old == events[h]
           after(i) == IF i \in out THEN [old[i] EXCEPT !.pending = FALSE] ELSE old[i]
           new == [i \in 1 .. Len(old) |-> after(i)]
           of(k) == {i \in out : old[i].key = k}
           left == [k \in Queue!Keys |-> queue_unspent[h][k] - Queue!Cardinality(of(k))]
<1>1. h \in Handles /\ old \in Seq(Events) /\ SoundVector(old, queue_unspent[h])
    OBVIOUS
<1>2. /\ events' = [events EXCEPT ![h] = new]
      /\ queue_unspent' = [queue_unspent EXCEPT ![h] = left]
      /\ empty' = IF out = {} /\ slots[t] > 0 /\ queue_timo[t] = "none" THEN empty \cup {t} ELSE empty
      /\ queue_asleep' = queue_asleep \ {t}
      /\ queue_pc' = [queue_pc EXCEPT ![t] = "guest"] /\ eq' = [eq EXCEPT ![t] = NoHandle]
      /\ key' = [key EXCEPT ![t] = Queue!NoKey] /\ slots' = [slots EXCEPT ![t] = 0]
      /\ queue_timo' = [queue_timo EXCEPT ![t] = "none"]
      /\ UNCHANGED <<equeues, queue_created, queue_posts>>
    BY DEF Queue!DrainEqueueEvents, Queue!Done
<1>3. \A i \in out : i \in 1 .. Len(old) /\ old[i].pending
    BY DEF Queue!Delivered
<1>4. slots[t] > 0 /\ queue_timo[t] = "none" => out # {}
    <2>1. slots[t] \in Nat
        OBVIOUS
    <2> QED
        BY <1>1, <2>1, PendingIsDelivered
<1> HIDE DEF out, old, of
<1>5. ASSUME NEW k \in Queue!Keys
      PROVE  Queue!Cardinality(of(k)) = IF of(k) = {} THEN 0 ELSE 1
    <2>1. \A i, j \in of(k) : i = j
        BY <1>1, <1>3 DEF of, SoundVector
    <2>2. Cardinality(of(k)) = IF of(k) = {} THEN 0 ELSE 1
        BY <2>1, AtMostOne
    <2> QED
        BY <2>2, QueueCardinality
<1>6. /\ new \in Seq(Events) /\ Len(new) = Len(old)
      /\ \A i \in 1 .. Len(old) : /\ new[i].key = old[i].key
                                  /\ new[i].pending <=> old[i].pending /\ i \notin out
    <2>1. ASSUME NEW i \in 1 .. Len(old)
          PROVE  /\ after(i) \in Events /\ after(i).key = old[i].key
                 /\ after(i).pending <=> old[i].pending /\ i \notin out
        <3>1. old[i] \in Events
            BY <1>1
        <3> QED
            BY <3>1 DEF Events
    <2> HIDE DEF after
    <2>2. Len(old) \in Nat /\ new \in [1 .. Len(old) -> Events]
        BY <1>1, <2>1
    <2> HIDE DEF new
    <2>3. new \in Seq(Events) /\ Len(new) = Len(old)
        BY <2>2, FunctionIsSeq
    <2> QED
        BY <2>1, <2>3 DEF new
<1> HIDE DEF new
<1>7. \A k \in Queue!Keys : left[k] \in Int /\ left[k] >= 0
    <2> SUFFICES ASSUME NEW k \in Queue!Keys PROVE left[k] \in Int /\ left[k] >= 0
        OBVIOUS
    <2>1. left[k] = queue_unspent[h][k] - (IF of(k) = {} THEN 0 ELSE 1)
        BY <1>5
    <2>2. ASSUME NEW i \in of(k) PROVE queue_unspent[h][k] >= 1
        <3>1. i \in out /\ old[i].key = k
            BY DEF of
        <3> QED
            BY <1>1, <1>3, <3>1 DEF SoundVector
    <2> QED
        BY <1>1, <2>1, <2>2 DEF SoundVector
<1>8. \A i \in 1 .. Len(new) : new[i].pending => left[new[i].key] >= 1
    <2> SUFFICES ASSUME NEW i \in 1 .. Len(old), old[i].pending, i \notin out PROVE left[old[i].key] >= 1
        BY <1>6
    <2>1. old[i] \in Events
        BY <1>1
    <2>1a. old[i].key \in Queue!Keys
        BY <2>1 DEF Events
    <2>2. of(old[i].key) = {}
        BY <1>1, <1>3 DEF of, SoundVector
    <2>3. left[old[i].key] = queue_unspent[h][old[i].key] - 0
        BY <1>5, <2>1a, <2>2
    <2> QED
        BY <1>1, <2>1a, <2>3 DEF SoundVector
<1> HIDE DEF left
<1>9. SoundVector(new, left)
    BY <1>1, <1>6, <1>7, <1>8 DEF SoundVector
<1>10. left \in [Queue!Keys -> Int]
    BY <1>7 DEF left
<1>11. QueueTyped' /\ empty' = {}
    <2>1. empty' = {}
        BY <1>2, <1>4
    <2>2. events' \in [Handles -> Seq(Events)] /\ queue_unspent' \in [Handles -> [Queue!Keys -> Int]]
        BY <1>1, <1>2, <1>6, <1>10
    <2> HIDE DEF QueueInv
    <2>3. QueueTyped
        BY DEF QueueInv
    <2>4. /\ queue_pc' \in [Threads -> {"guest", "wait", "blocked", "adduser", "deleteuser", "addread", "post", "notify"}]
          /\ \A u \in Threads : queue_pc'[u] # "guest" => queue_pc'[u] = queue_pc[u] /\ eq'[u] = eq[u] /\ u # t
        BY <1>2, <2>3
    <2>5. /\ eq' \in [Threads -> Handles \cup {NoHandle}]
          /\ key' \in [Threads -> Queue!Keys \cup {Queue!NoKey}]
        BY <1>2, <2>3
    <2>6. slots' \in [Threads -> 0 .. MaxSlots] /\ queue_timo' \in [Threads -> {"none", "poll", "timed"}]
        BY <1>2, <2>3
    <2>7. queue_asleep' \subseteq {u \in Threads : queue_pc'[u] = "blocked"}
        BY <1>2, <2>3
    <2> QED
        BY <1>2, <2>1, <2>2, <2>3, <2>4, <2>5, <2>6, <2>7
<1>12. QueueCallsOK'
    BY <1>2 DEF QueueCallsOK
<1>13. \A x \in Handles : SoundVector(events'[x], queue_unspent'[x])
    BY <1>1, <1>2, <1>9
<1>14. Queue!SleeperHasNotifier'
    <2>1. WorthNotify(new) => WorthNotify(old)
        BY <1>6 DEF WorthNotify
    <2>2. \A u \in queue_asleep' : WorthNotify(events'[eq'[u]]) =>
               /\ u \in queue_asleep /\ eq'[u] = eq[u] /\ WorthNotify(events[eq[u]])
               /\ \A s \in Threads : queue_pc[s] = "notify" /\ eq[s] = eq[u]
                                     => queue_pc'[s] = "notify" /\ eq'[s] = eq[s]
        BY <1>1, <1>2, <2>1 DEF old
    <2> QED
        BY <2>2, NotifiersStay
<1> QED
    BY <1>11, <1>12, <1>13, <1>14

\* An action that leaves the events and what is owed for them alone.
LEMMA EventsUntouched ==
    ASSUME QueueInv, UNCHANGED <<events, queue_unspent, empty>>, QueueTyped', QueueCallsOK',
           \A u \in queue_asleep' : WorthNotify(events[eq'[u]]) =>
               /\ u \in queue_asleep /\ eq'[u] = eq[u]
               /\ \A s \in Threads : queue_pc[s] = "notify" /\ eq[s] = eq[u]
                                     => queue_pc'[s] = "notify" /\ eq'[s] = eq[s]
    PROVE  QueueInv'
<1>1. Queue!SleeperHasNotifier'
    BY NotifiersStay DEF QueueInv
<1>2. \A h \in Handles : SoundVector(events[h], queue_unspent[h])'
    BY DEF QueueInv, SoundVector
<1> QED
    BY <1>1, <1>2 DEF QueueInv

\* The handles.
LEMMA QueueHandleStep ==
    ASSUME NEW h \in Handles, QueueInv, Queue!SceKernelCreateEqueue(h) \/ Queue!SceKernelDeleteEqueue(h)
    PROVE  QueueInv'
<1>1. /\ UNCHANGED <<events, queue_pc, eq, key, slots, queue_timo, queue_asleep, queue_posts,
                     queue_unspent, empty>>
      /\ queue_created' \in {queue_created, queue_created \cup {h}}
      /\ equeues' \in {equeues \cup {h}, equeues \ {h}} /\ equeues' \subseteq queue_created'
    BY DEF Queue!SceKernelCreateEqueue, Queue!SceKernelDeleteEqueue, QueueInv, QueueTyped
<1>2. QueueTyped'
    BY <1>1 DEF QueueInv, QueueTyped
<1>3. QueueCallsOK'
    BY <1>1 DEF QueueInv, QueueCallsOK
<1> QED
    BY <1>1, <1>2, <1>3, EventsUntouched

\* The first half of a call.
LEMMA FindEqueueStep ==
    ASSUME NEW t \in Threads, NEW h \in Handles, QueueInv,
           NEW operation \in {"wait", "adduser", "deleteuser", "addread", "post"},
           NEW k \in Queue!Keys \cup {Queue!NoKey}, NEW m \in 0 .. MaxSlots,
           NEW w \in {"none", "poll", "timed"},
           operation # "wait" => k \in Queue!Keys, operation = "addread" => k.filter = "read",
           Queue!FindEqueue(t, h, operation, k, m, w)
    PROVE  QueueInv'
<1>1. /\ queue_pc[t] = "guest" /\ h \in equeues
      /\ queue_pc' = [queue_pc EXCEPT ![t] = operation] /\ eq' = [eq EXCEPT ![t] = h]
      /\ key' = [key EXCEPT ![t] = k] /\ slots' = [slots EXCEPT ![t] = m]
      /\ queue_timo' = [queue_timo EXCEPT ![t] = w]
      /\ UNCHANGED <<equeues, queue_created, events, queue_asleep, queue_posts, queue_unspent, empty>>
    BY DEF Queue!FindEqueue
<1>2. QueueTyped /\ QueueCallsOK
    BY DEF QueueInv
<1>3. QueueTyped'
    BY <1>1, <1>2 DEF QueueTyped
<1>4. QueueCallsOK'
    BY <1>1, <1>2 DEF QueueTyped, QueueCallsOK
<1>5. \A u \in queue_asleep : u # t /\ eq'[u] = eq[u] /\ queue_pc[u] = "blocked"
    BY <1>1, <1>2 DEF QueueTyped
<1>6. \A s \in Threads : queue_pc[s] = "notify" => queue_pc'[s] = "notify" /\ eq'[s] = eq[s]
    BY <1>1, <1>2 DEF QueueTyped
<1> QED
    BY <1>1, <1>3, <1>4, <1>5, <1>6, EventsUntouched

\* Falling asleep with nothing pending, again or for the first time, and waking
\* up for nothing.
LEMMA QueueSleepStep ==
    ASSUME NEW t \in Threads, QueueInv,
           Queue!StartToWait(t) \/ Queue!SleepAgain(t) \/ Queue!SpuriousWake(t)
    PROVE  QueueInv'
<1>1. /\ UNCHANGED <<equeues, queue_created, events, eq, key, slots, queue_timo, queue_posts,
                     queue_unspent, empty>>
      /\ queue_pc[t] \in {"wait", "blocked"} /\ queue_pc' = [queue_pc EXCEPT ![t] = "blocked"]
      /\ \/ queue_asleep' = queue_asleep \cup {t} /\ ~ Queue!HasPending(eq[t])
         \/ queue_asleep' = queue_asleep \ {t}
    <2>1. QueueTyped
        BY DEF QueueInv
    <2>2. queue_pc[t] = "blocked" => queue_pc = [queue_pc EXCEPT ![t] = "blocked"]
        BY <2>1 DEF QueueTyped
    <2> QED
        BY <2>1, <2>2 DEF Queue!StartToWait, Queue!SleepAgain, Queue!SpuriousWake, QueueTyped
<1>2. QueueTyped /\ QueueCallsOK
    BY DEF QueueInv
<1>3. QueueTyped'
    BY <1>1, <1>2 DEF QueueTyped
<1>4. QueueCallsOK'
    BY <1>1, <1>2 DEF QueueTyped, QueueCallsOK
<1>5. \A u \in queue_asleep' : WorthNotify(events[eq[u]]) => u \in queue_asleep
    BY <1>1 DEF WorthNotify, Queue!HasPending
<1>6. \A s \in Threads : queue_pc[s] = "notify" => queue_pc'[s] = "notify"
    BY <1>1, <1>2 DEF QueueTyped
<1> QED
    BY <1>1, <1>3, <1>4, <1>5, <1>6, EventsUntouched

\* The notify: no sleeper of this queue is left, and those of the others keep
\* their notifiers.
LEMMA NotifyAllStep ==
    ASSUME NEW t \in Threads, QueueInv, Queue!NotifyAll(t)
    PROVE  QueueInv'
<1>1. /\ queue_pc[t] = "notify"
      /\ queue_asleep' = queue_asleep \ {u \in Threads : eq[u] = eq[t]}
      /\ queue_pc' = [queue_pc EXCEPT ![t] = "guest"] /\ eq' = [eq EXCEPT ![t] = NoHandle]
      /\ key' = [key EXCEPT ![t] = Queue!NoKey] /\ slots' = [slots EXCEPT ![t] = 0]
      /\ queue_timo' = [queue_timo EXCEPT ![t] = "none"]
      /\ UNCHANGED <<equeues, queue_created, events, queue_posts, queue_unspent, empty>>
    BY DEF Queue!NotifyAll, Queue!Done
<1>2. QueueTyped /\ QueueCallsOK
    BY DEF QueueInv
<1>3. QueueTyped'
    BY <1>1, <1>2, SyncObjectsAssumption DEF QueueTyped
<1>4. QueueCallsOK'
    BY <1>1, <1>2 DEF QueueTyped, QueueCallsOK
<1>5. \A u \in queue_asleep' : u \in queue_asleep /\ u # t /\ eq'[u] = eq[u] /\ eq[u] # eq[t]
    BY <1>1, <1>2 DEF QueueTyped
<1>6. \A s \in Threads : s # t => queue_pc'[s] = queue_pc[s] /\ eq'[s] = eq[s]
    BY <1>1, <1>2 DEF QueueTyped
<1> QED
    BY <1>1, <1>3, <1>4, <1>5, <1>6, EventsUntouched

\* An event for a key that has none goes to the end of the vector.
LEMMA AppendSound ==
    ASSUME NEW w \in Seq(Events), NEW spent \in [Queue!Keys -> Int], SoundVector(w, spent),
           NEW k \in Queue!Keys, \A i \in 1 .. Len(w) : w[i].key # k,
           NEW b \in BOOLEAN, NEW c \in Nat, b => c >= 1
    PROVE  LET new == Append(w, [key |-> k, pending |-> b])
           IN  /\ new \in Seq(Events)
               /\ SoundVector(new, [spent EXCEPT ![k] = c])
               /\ WorthNotify(new) => WorthNotify(w) \/ (b /\ k.filter # "read")
<1> DEFINE e == [key |-> k, pending |-> b]
           new == Append(w, e)
           left == [spent EXCEPT ![k] = c]
<1>1. e \in Events /\ e.key = k /\ e.pending = b
    BY DEF Events
<1> HIDE DEF e
<1>2. /\ new \in Seq(Events) /\ Len(new) = Len(w) + 1 /\ Len(w) \in Nat
      /\ \A i \in 1 .. Len(w) : new[i] = w[i]
      /\ new[Len(w) + 1] = e
    BY <1>1
<1>3. \A i \in 1 .. Len(new) : i \in 1 .. Len(w) \/ i = Len(w) + 1
    BY <1>2
<1> HIDE DEF new
<1>4. \A i \in 1 .. Len(new) : new[i] = IF i = Len(w) + 1 THEN e ELSE w[i]
    BY <1>2, <1>3
<1>5. ASSUME NEW i \in 1 .. Len(w) PROVE w[i] \in Events /\ w[i].key \in Queue!Keys
    <2>1. w[i] \in Events
        OBVIOUS
    <2> QED
        BY <2>1 DEF Events
<1>6. \A i, j \in 1 .. Len(new) : new[i].key = new[j].key => i = j
    BY <1>1, <1>2, <1>3, <1>4 DEF SoundVector
<1>7. \A x \in Queue!Keys : left[x] \in Int /\ left[x] >= 0
    BY DEF SoundVector
<1>8. \A i \in 1 .. Len(new) : new[i].pending => left[new[i].key] >= 1
    BY <1>1, <1>2, <1>3, <1>4, <1>5 DEF SoundVector
<1>9. WorthNotify(new) => WorthNotify(w) \/ (b /\ k.filter # "read")
    BY <1>1, <1>3, <1>4 DEF WorthNotify
<1> QED
    BY <1>2, <1>6, <1>7, <1>8, <1>9 DEF SoundVector, new, e

\* Arming an event that is there changes nothing but its flag.
LEMMA ArmSound ==
    ASSUME NEW w \in Seq(Events), NEW spent \in [Queue!Keys -> Int], SoundVector(w, spent),
           NEW k \in Queue!Keys, NEW P, P = {i \in 1 .. Len(w) : w[i].key = k}
    PROVE  LET new == [i \in 1 .. Len(w) |-> IF i \in P THEN [w[i] EXCEPT !.pending = TRUE] ELSE w[i]]
           IN  /\ new \in Seq(Events)
               /\ SoundVector(new, [spent EXCEPT ![k] = @ + 1])
<1> DEFINE after(i) == IF i \in P THEN [w[i] EXCEPT !.pending = TRUE] ELSE w[i]
           new == [i \in 1 .. Len(w) |-> after(i)]
           left == [spent EXCEPT ![k] = @ + 1]
<1>1. ASSUME NEW i \in 1 .. Len(w)
      PROVE  /\ after(i) \in Events /\ after(i).key = w[i].key /\ w[i].key \in Queue!Keys
             /\ after(i).pending => w[i].pending \/ w[i].key = k
    <2>1. w[i] \in Events
        OBVIOUS
    <2> QED
        BY <2>1 DEF Events
<1> HIDE DEF after
<1>2. Len(w) \in Nat /\ new \in [1 .. Len(w) -> Events]
    BY <1>1
<1>3. \A i \in 1 .. Len(w) : new[i] = after(i)
    OBVIOUS
<1> HIDE DEF new
<1>4. new \in Seq(Events) /\ Len(new) = Len(w)
    BY <1>2, FunctionIsSeq
<1>5. \A i, j \in 1 .. Len(new) : new[i].key = new[j].key => i = j
    BY <1>1, <1>3, <1>4 DEF SoundVector
<1>6. \A x \in Queue!Keys : left[x] \in Int /\ left[x] >= spent[x] /\ (x = k => left[x] >= 1) /\ left[x] >= 0
    BY DEF SoundVector
<1> HIDE DEF left
<1>7. \A i \in 1 .. Len(new) : new[i].pending => left[new[i].key] >= 1
    <2> SUFFICES ASSUME NEW i \in 1 .. Len(w), new[i].pending PROVE left[new[i].key] >= 1
        BY <1>4
    <2>1. new[i].key = w[i].key /\ w[i].key \in Queue!Keys /\ (w[i].pending \/ w[i].key = k)
        BY <1>1, <1>3
    <2>2. w[i].pending => spent[w[i].key] >= 1
        BY DEF SoundVector
    <2> QED
        BY <1>6, <2>1, <2>2
<1> QED
    BY <1>4, <1>5, <1>6, <1>7 DEF SoundVector, new, after, left

\* Erasing position i shortens the sequence by one and shifts what follows.
LEMMA EraseAt ==
    ASSUME NEW S, NEW w \in Seq(S), NEW i \in 1 .. Len(w)
    PROVE  /\ Queue!Erase(w, i) \in Seq(S)
           /\ Len(Queue!Erase(w, i)) = Len(w) - 1
           /\ \A j \in 1 .. Len(w) - 1 :
                 Queue!Erase(w, i)[j] = IF j < i THEN w[j] ELSE w[j + 1]
<1> DEFINE a == SubSeq(w, 1, i - 1)
           b == SubSeq(w, i + 1, Len(w))
<1>1. Len(w) \in Nat /\ \A j \in 1 .. Len(w) : w[j] \in S
    BY LenProperties, ElementOfSeq
<1>2. /\ a \in Seq(S)
      /\ Len(a) = i - 1
      /\ \A j \in 1 .. i - 1 : a[j] = w[j]
    <2>1. \A j \in 1 .. i - 1 : w[j] \in S
        BY <1>1
    <2> QED
        BY <1>1, <2>1, SubSeqProperties
<1>3. /\ b \in Seq(S)
      /\ Len(b) = Len(w) - i
      /\ \A j \in 1 .. Len(w) - i : b[j] = w[i + j]
    <2>1. \A j \in i + 1 .. Len(w) : w[j] \in S
        BY <1>1
    <2>2. /\ b \in Seq(S)
          /\ Len(b) = IF i + 1 <= Len(w) THEN Len(w) - (i + 1) + 1 ELSE 0
          /\ \A j \in 1 .. Len(w) - (i + 1) + 1 : b[j] = w[i + 1 + j - 1]
        BY <1>1, <2>1, SubSeqProperties
    <2> QED
        BY <1>1, <2>2
<1>4. /\ a \o b \in Seq(S)
      /\ Len(a \o b) = (i - 1) + (Len(w) - i)
      /\ \A j \in 1 .. (i - 1) + (Len(w) - i) :
            (a \o b)[j] = IF j <= i - 1 THEN a[j] ELSE b[j - (i - 1)]
    <2> HIDE DEF a, b
    <2>1. /\ a \o b \in Seq(S)
          /\ Len(a \o b) = Len(a) + Len(b)
          /\ \A j \in 1 .. Len(a) + Len(b) :
                (a \o b)[j] = IF j <= Len(a) THEN a[j] ELSE b[j - Len(a)]
        <3>1. a \in Seq(S) /\ b \in Seq(S)
            BY <1>2, <1>3
        <3> QED
            BY <3>1, ConcatProperties, Zenon
    <2>2. Len(a) = i - 1 /\ Len(b) = Len(w) - i
        BY <1>2, <1>3
    <2> QED
        BY <2>1, <2>2
<1>5. Queue!Erase(w, i) = a \o b
    BY DEF Queue!Erase
<1> HIDE DEF a, b
<1>6. ASSUME NEW j \in 1 .. Len(w) - 1
      PROVE  (a \o b)[j] = IF j < i THEN w[j] ELSE w[j + 1]
    <2>1. CASE j < i
        BY <1>1, <1>2, <1>4, <2>1
    <2>2. CASE ~ (j < i)
        <3>1. j - (i - 1) \in 1 .. Len(w) - i
            BY <1>1, <2>2
        <3>2. (a \o b)[j] = b[j - (i - 1)]
            BY <1>1, <1>4, <2>2
        <3> QED
            BY <1>1, <1>3, <2>2, <3>1, <3>2
    <2> QED
        BY <2>1, <2>2
<1> QED
    BY <1>1, <1>4, <1>5, <1>6

\* The vector without its only event for k, of which nothing is owed any more.
LEMMA EraseSound ==
    ASSUME NEW w \in Seq(Events), NEW spent \in [Queue!Keys -> Int], SoundVector(w, spent),
           NEW k \in Queue!Keys, NEW p \in 1 .. Len(w), w[p].key = k
    PROVE  LET new == Queue!Erase(w, p)
           IN  /\ new \in Seq(Events)
               /\ SoundVector(new, [spent EXCEPT ![k] = 0])
               /\ WorthNotify(new) => WorthNotify(w)
<1> DEFINE new == Queue!Erase(w, p)
           left == [spent EXCEPT ![k] = 0]
           from(j) == IF j < p THEN j ELSE j + 1
<1>1. /\ new \in Seq(Events) /\ Len(new) = Len(w) - 1 /\ Len(w) \in Nat
      /\ \A j \in 1 .. Len(w) - 1 : new[j] = IF j < p THEN w[j] ELSE w[j + 1]
    BY EraseAt, LenProperties
<1> HIDE DEF new
<1>2. \A j \in 1 .. Len(new) : /\ from(j) \in 1 .. Len(w) /\ from(j) # p /\ new[j] = w[from(j)]
                               /\ \A i \in 1 .. Len(new) : from(i) = from(j) => i = j
    BY <1>1
<1> HIDE DEF from
<1>3. ASSUME NEW i \in 1 .. Len(w) PROVE w[i] \in Events /\ w[i].key \in Queue!Keys
    <2>1. w[i] \in Events
        OBVIOUS
    <2> QED
        BY <2>1 DEF Events
<1>4. \A j \in 1 .. Len(new) : new[j].key # k /\ new[j].key \in Queue!Keys
    BY <1>2, <1>3 DEF SoundVector
<1>5. \A i, j \in 1 .. Len(new) : new[i].key = new[j].key => i = j
    BY <1>2 DEF SoundVector
<1>6. \A x \in Queue!Keys : left[x] \in Int /\ left[x] >= 0
    BY DEF SoundVector
<1>7. \A j \in 1 .. Len(new) : new[j].pending => left[new[j].key] >= 1
    BY <1>2, <1>4 DEF SoundVector
<1>8. WorthNotify(new) => WorthNotify(w)
    BY <1>2 DEF WorthNotify
<1> QED
    BY <1>1, <1>5, <1>6, <1>7, <1>8 DEF SoundVector, new

\* The second half of a call that changes the vector of its queue: it ends here
\* without a new reason to notify, or goes on to the notify.
LEMMA VectorChange ==
    ASSUME NEW t \in Threads, QueueInv, queue_pc[t] \in {"adduser", "deleteuser", "addread", "post"},
           NEW new \in Seq(Events), NEW left \in [Queue!Keys -> Int], SoundVector(new, left),
           events' = [events EXCEPT ![eq[t]] = new],
           queue_unspent' = [queue_unspent EXCEPT ![eq[t]] = left],
           queue_posts' \in 0 .. MaxArms,
           UNCHANGED <<equeues, queue_created, queue_asleep, empty>>,
           \/ Queue!Done(t) /\ (WorthNotify(new) => WorthNotify(events[eq[t]]))
           \/ /\ queue_pc' = [queue_pc EXCEPT ![t] = "notify"]
              /\ UNCHANGED <<eq, key, slots, queue_timo>>
    PROVE  QueueInv'
<1> DEFINE h == eq[t]
<1>1. QueueTyped /\ QueueCallsOK /\ h \in Handles /\ (\A x \in Handles : SoundVector(events[x], queue_unspent[x]))
    BY DEF QueueInv, QueueTyped
<1>2. events' \in [Handles -> Seq(Events)] /\ queue_unspent' \in [Handles -> [Queue!Keys -> Int]]
    BY <1>1 DEF QueueTyped
<1>3. \A x \in Handles : SoundVector(events'[x], queue_unspent'[x])
    BY <1>1 DEF QueueTyped
<1>4. \A u \in queue_asleep : u \in Threads /\ queue_pc[u] = "blocked" /\ u # t
    BY <1>1 DEF QueueTyped
<1>5. CASE Queue!Done(t) /\ (WorthNotify(new) => WorthNotify(events[h]))
    <2>1. /\ queue_pc' = [queue_pc EXCEPT ![t] = "guest"] /\ eq' = [eq EXCEPT ![t] = NoHandle]
          /\ key' = [key EXCEPT ![t] = Queue!NoKey] /\ slots' = [slots EXCEPT ![t] = 0]
          /\ queue_timo' = [queue_timo EXCEPT ![t] = "none"]
        BY <1>5 DEF Queue!Done
    <2>2. QueueTyped'
        <3>1. /\ queue_pc' \in [Threads -> {"guest", "wait", "blocked", "adduser", "deleteuser", "addread", "post", "notify"}]
              /\ \A u \in Threads : queue_pc'[u] # "guest" => eq'[u] \in queue_created
            BY <1>1, <2>1 DEF QueueTyped
        <3>2. /\ eq' \in [Threads -> Handles \cup {NoHandle}]
              /\ key' \in [Threads -> Queue!Keys \cup {Queue!NoKey}]
            BY <1>1, <2>1 DEF QueueTyped
        <3>3. slots' \in [Threads -> 0 .. MaxSlots] /\ queue_timo' \in [Threads -> {"none", "poll", "timed"}]
            BY <1>1, <2>1, SyncObjectsAssumption DEF QueueTyped
        <3>4. queue_asleep' \subseteq {u \in Threads : queue_pc'[u] = "blocked"}
            BY <1>1, <1>4, <2>1 DEF QueueTyped
        <3> QED
            BY <1>1, <1>2, <3>1, <3>2, <3>3, <3>4 DEF QueueTyped
    <2>3. QueueCallsOK'
        BY <1>1, <2>1 DEF QueueTyped, QueueCallsOK
    <2>4. \A s \in Threads : queue_pc[s] = "notify" => queue_pc'[s] = "notify" /\ eq'[s] = eq[s]
        BY <1>1, <2>1 DEF QueueTyped
    <2>5. \A u \in queue_asleep : eq'[u] = eq[u] /\ (WorthNotify(events'[eq[u]]) => WorthNotify(events[eq[u]]))
        BY <1>1, <1>4, <1>5, <2>1 DEF QueueTyped
    <2>6. Queue!SleeperHasNotifier'
        BY <2>4, <2>5, NotifiersStay DEF QueueInv
    <2> QED
        BY <1>3, <2>2, <2>3, <2>6 DEF QueueInv
<1>6. CASE /\ queue_pc' = [queue_pc EXCEPT ![t] = "notify"]
           /\ UNCHANGED <<eq, key, slots, queue_timo>>
    <2>1. QueueTyped'
        <3>1. /\ queue_pc' \in [Threads -> {"guest", "wait", "blocked", "adduser", "deleteuser", "addread", "post", "notify"}]
              /\ \A u \in Threads : queue_pc'[u] # "guest" => eq'[u] \in queue_created
            BY <1>1, <1>6 DEF QueueTyped
        <3>2. queue_asleep' \subseteq {u \in Threads : queue_pc'[u] = "blocked"}
            BY <1>1, <1>4, <1>6 DEF QueueTyped
        <3> QED
            BY <1>1, <1>2, <1>6, <3>1, <3>2 DEF QueueTyped
    <2>2. QueueCallsOK'
        BY <1>1, <1>6 DEF QueueTyped, QueueCallsOK
    <2>3. \A s \in Threads : queue_pc[s] = "notify" => queue_pc'[s] = "notify"
        BY <1>1, <1>6 DEF QueueTyped
    <2>4. queue_pc'[t] = "notify" /\ eq' = eq
        BY <1>1, <1>6 DEF QueueTyped
    <2>5. ASSUME NEW u \in queue_asleep, WorthNotify(events'[eq[u]])
          PROVE  \E s \in Threads : queue_pc'[s] = "notify" /\ eq[s] = eq[u]
        <3>1. CASE eq[u] = h
            BY <2>4, <3>1
        <3>2. CASE eq[u] # h
            <4>1. WorthNotify(events[eq[u]])
                BY <1>1, <1>4, <2>5, <3>2 DEF QueueTyped
            <4> QED
                BY <2>3, <4>1 DEF QueueInv, Queue!SleeperHasNotifier, WorthNotify
        <3> QED
            BY <3>1, <3>2
    <2>6. Queue!SleeperHasNotifier'
        BY <2>4, <2>5 DEF Queue!SleeperHasNotifier, WorthNotify
    <2> QED
        BY <1>3, <2>1, <2>2, <2>6 DEF QueueInv
<1> QED
    BY <1>5, <1>6

\* The events a queue has for a key.
LEMMA PlacesOf ==
    ASSUME NEW t \in Threads, QueueInv, queue_pc[t] \in {"adduser", "deleteuser", "addread", "post"}
    PROVE  /\ eq[t] \in Handles /\ key[t] \in Queue!Keys
           /\ events[eq[t]] \in Seq(Events) /\ queue_unspent[eq[t]] \in [Queue!Keys -> Int]
           /\ SoundVector(events[eq[t]], queue_unspent[eq[t]])
           /\ Queue!Places(eq[t], key[t]) = {i \in 1 .. Len(events[eq[t]]) : events[eq[t]][i].key = key[t]}
           /\ queue_unspent[eq[t]][key[t]] \in Nat
<1>1. eq[t] \in Handles /\ key[t] \in Queue!Keys
    BY DEF QueueInv, QueueTyped, QueueCallsOK
<1>2. /\ events[eq[t]] \in Seq(Events) /\ queue_unspent[eq[t]] \in [Queue!Keys -> Int]
      /\ SoundVector(events[eq[t]], queue_unspent[eq[t]])
    BY <1>1 DEF QueueInv, QueueTyped
<1> QED
    BY <1>1, <1>2 DEF Queue!Places, SoundVector

LEMMA AddUserEventStep ==
    ASSUME NEW t \in Threads, QueueInv, Queue!AddUserEvent(t)
    PROVE  QueueInv'
<1> DEFINE h == eq[t]
           k == key[t]
           old == events[h]
           spent == queue_unspent[h]
<1>1. queue_pc[t] = "adduser"
    BY DEF Queue!AddUserEvent
<1>2. /\ h \in Handles /\ k \in Queue!Keys /\ old \in Seq(Events) /\ spent \in [Queue!Keys -> Int]
      /\ SoundVector(old, spent) /\ spent[k] \in Nat
      /\ Queue!Places(h, k) = {i \in 1 .. Len(old) : old[i].key = k}
    BY <1>1, PlacesOf
<1>3. /\ Queue!Done(t)
      /\ UNCHANGED <<equeues, queue_created, queue_asleep, queue_posts, queue_unspent, empty>>
      /\ events' = IF Queue!Places(h, k) # {} THEN events
                   ELSE [events EXCEPT ![h] = Append(old, [key |-> k, pending |-> FALSE])]
    BY DEF Queue!AddUserEvent
<1>4. QueueTyped
    BY DEF QueueInv
<1>5. events = [events EXCEPT ![h] = old] /\ queue_unspent = [queue_unspent EXCEPT ![h] = spent]
      /\ queue_posts \in 0 .. MaxArms /\ spent = [spent EXCEPT ![k] = spent[k]]
    BY <1>2, <1>4 DEF QueueTyped
<1>6. CASE Queue!Places(h, k) # {}
    BY <1>1, <1>2, <1>3, <1>5, <1>6, VectorChange
<1>7. CASE Queue!Places(h, k) = {}
    <2> DEFINE new == Append(old, [key |-> k, pending |-> FALSE])
    <2>1. \A i \in 1 .. Len(old) : old[i].key # k
        BY <1>2, <1>7
    <2>2. new \in Seq(Events) /\ SoundVector(new, spent) /\ (WorthNotify(new) => WorthNotify(old))
        <3> HIDE DEF old, spent, k
        <3>1. /\ new \in Seq(Events) /\ SoundVector(new, [spent EXCEPT ![k] = spent[k]])
              /\ WorthNotify(new) => WorthNotify(old) \/ (FALSE /\ k.filter # "read")
            BY <1>2, <2>1, AppendSound, Zenon
        <3>2. [spent EXCEPT ![k] = spent[k]] = spent
            BY <1>2
        <3> QED
            BY <3>1, <3>2
    <2>3. events' = [events EXCEPT ![h] = new]
        BY <1>3, <1>7
    <2> HIDE DEF new
    <2> QED
        BY <1>1, <1>2, <1>3, <1>5, <2>2, <2>3, VectorChange
<1> QED
    BY <1>6, <1>7

LEMMA DeleteUserEventStep ==
    ASSUME NEW t \in Threads, QueueInv, Queue!DeleteUserEvent(t)
    PROVE  QueueInv'
<1> DEFINE h == eq[t]
           k == key[t]
           p == Queue!FirstPlace(h, k)
           old == events[h]
           spent == queue_unspent[h]
           left == [spent EXCEPT ![k] = 0]
<1>1. queue_pc[t] = "deleteuser"
    BY DEF Queue!DeleteUserEvent
<1>2. /\ h \in Handles /\ k \in Queue!Keys /\ old \in Seq(Events) /\ spent \in [Queue!Keys -> Int]
      /\ SoundVector(old, spent)
      /\ Queue!Places(h, k) = {i \in 1 .. Len(old) : old[i].key = k}
    BY <1>1, PlacesOf
<1>4. QueueTyped
    BY DEF QueueInv
<1>3. /\ Queue!Done(t)
      /\ UNCHANGED <<equeues, queue_created, queue_asleep, queue_posts, empty>>
      /\ queue_unspent' = [queue_unspent EXCEPT ![h] = left]
      /\ events' = IF Queue!Places(h, k) = {} THEN events
                   ELSE [events EXCEPT ![h] = Queue!Erase(old, p)]
    BY <1>2, <1>4 DEF Queue!DeleteUserEvent, QueueTyped
<1>5. events = [events EXCEPT ![h] = old] /\ queue_posts \in 0 .. MaxArms /\ left \in [Queue!Keys -> Int]
    BY <1>2, <1>4 DEF QueueTyped
<1>6. CASE Queue!Places(h, k) = {}
    <2>1. \A i \in 1 .. Len(old) : old[i].key # k
        BY <1>2, <1>6
    <2>2. \A i \in 1 .. Len(old) : old[i].pending => left[old[i].key] = spent[old[i].key]
        BY <1>2, <2>1
    <2>3. SoundVector(old, left)
        BY <1>2, <2>2 DEF SoundVector
    <2> HIDE DEF left
    <2> QED
        BY <1>1, <1>2, <1>3, <1>5, <1>6, <2>3, VectorChange
<1>7. CASE Queue!Places(h, k) # {}
    <2> DEFINE new == Queue!Erase(old, p)
    <2>1. p \in 1 .. Len(old) /\ old[p].key = k
        <3>1. PICK i \in Queue!Places(h, k) : TRUE
            BY <1>7
        <3>2. Queue!Places(h, k) = {i}
            BY <1>2 DEF SoundVector
        <3>3. \A j \in Queue!Places(h, k) : i <= j
            BY <1>2, <3>2
        <3>4. p \in Queue!Places(h, k)
            BY <3>1, <3>3 DEF Queue!FirstPlace
        <3> QED
            BY <1>2, <3>4
    <2> HIDE DEF p
    <2>2. new \in Seq(Events) /\ SoundVector(new, left) /\ (WorthNotify(new) => WorthNotify(old))
        BY <1>2, <2>1, EraseSound
    <2>3. events' = [events EXCEPT ![h] = new]
        BY <1>3, <1>7
    <2> HIDE DEF new, left
    <2> QED
        BY <1>1, <1>2, <1>3, <1>5, <2>2, <2>3, VectorChange
<1> QED
    BY <1>6, <1>7

\* Arming under the mutex: one more is owed for the event, which is there and pending.
LEMMA ArmVector ==
    ASSUME NEW t \in Threads, QueueInv, queue_pc[t] \in {"addread", "post"}, Queue!Arm(eq[t], key[t]),
           queue_pc[t] = "addread" => Queue!Places(eq[t], key[t]) = {}
    PROVE  \E new \in Seq(Events), left \in [Queue!Keys -> Int] :
               /\ SoundVector(new, left)
               /\ events' = [events EXCEPT ![eq[t]] = new]
               /\ queue_unspent' = [queue_unspent EXCEPT ![eq[t]] = left]
               /\ queue_posts' \in 0 .. MaxArms
               /\ queue_pc[t] = "addread" => (WorthNotify(new) => WorthNotify(events[eq[t]]))
<1> DEFINE h == eq[t]
           k == key[t]
           old == events[h]
           spent == queue_unspent[h]
           left == [spent EXCEPT ![k] = @ + 1]
<1>1. /\ h \in Handles /\ k \in Queue!Keys /\ old \in Seq(Events) /\ spent \in [Queue!Keys -> Int]
      /\ SoundVector(old, spent) /\ spent[k] \in Nat
      /\ Queue!Places(h, k) = {i \in 1 .. Len(old) : old[i].key = k}
    BY PlacesOf
<1>2. QueueTyped /\ (queue_pc[t] = "addread" => k.filter = "read")
    BY DEF QueueInv, QueueCallsOK
<1>3. queue_unspent' = [queue_unspent EXCEPT ![h] = left] /\ left \in [Queue!Keys -> Int]
    BY <1>1, <1>2 DEF Queue!Arm, QueueTyped
<1>4. queue_posts' \in 0 .. MaxArms
    BY <1>2, SyncObjectsAssumption DEF Queue!Arm, QueueTyped
<1>5. CASE Queue!Places(h, k) = {}
    <2> DEFINE new == Append(old, [key |-> k, pending |-> TRUE])
    <2>1. \A i \in 1 .. Len(old) : old[i].key # k
        BY <1>1, <1>5
    <2>2. events' = [events EXCEPT ![h] = new]
        BY <1>5 DEF Queue!Arm
    <2>3. /\ new \in Seq(Events) /\ SoundVector(new, [spent EXCEPT ![k] = spent[k] + 1])
          /\ WorthNotify(new) => WorthNotify(old) \/ (TRUE /\ k.filter # "read")
        <3>1. spent[k] + 1 \in Nat /\ spent[k] + 1 >= 1
            BY <1>1
        <3> HIDE DEF old, spent, k
        <3> QED
            BY <1>1, <2>1, <3>1, AppendSound
    <2> HIDE DEF new
    <2> QED
        BY <1>2, <1>3, <1>4, <2>2, <2>3
<1>6. CASE Queue!Places(h, k) # {}
    <2> DEFINE new == [i \in 1 .. Len(old) |-> IF i \in Queue!Places(h, k)
                                                THEN [old[i] EXCEPT !.pending = TRUE] ELSE old[i]]
    <2>1. events' = [events EXCEPT ![h] = new]
        BY <1>6 DEF Queue!Arm
    <2>2. new \in Seq(Events) /\ SoundVector(new, left)
        <3> HIDE DEF old, spent, k
        <3> QED
            BY <1>1, ArmSound
    <2>3. queue_pc[t] # "addread"
        BY <1>6
    <2> HIDE DEF new, left
    <2> QED
        BY <1>3, <1>4, <2>1, <2>2, <2>3
<1> QED
    BY <1>5, <1>6

LEMMA AddReadEventStep ==
    ASSUME NEW t \in Threads, QueueInv, Queue!AddReadEvent(t)
    PROVE  QueueInv'
<1>1. /\ queue_pc[t] = "addread" /\ Queue!Done(t)
      /\ UNCHANGED <<equeues, queue_created, queue_asleep, empty>>
      /\ IF Queue!Places(eq[t], key[t]) # {} THEN UNCHANGED <<events, queue_posts, queue_unspent>>
                                              ELSE Queue!Arm(eq[t], key[t])
    BY DEF Queue!AddReadEvent
<1>2. CASE Queue!Places(eq[t], key[t]) # {}
    <2>1. /\ eq[t] \in Handles /\ events[eq[t]] \in Seq(Events)
          /\ queue_unspent[eq[t]] \in [Queue!Keys -> Int]
          /\ SoundVector(events[eq[t]], queue_unspent[eq[t]])
        BY <1>1, PlacesOf
    <2>2. /\ events = [events EXCEPT ![eq[t]] = events[eq[t]]]
          /\ queue_unspent = [queue_unspent EXCEPT ![eq[t]] = queue_unspent[eq[t]]]
          /\ queue_posts \in 0 .. MaxArms
        BY <2>1 DEF QueueInv, QueueTyped
    <2> QED
        BY <1>1, <1>2, <2>1, <2>2, VectorChange
<1>3. CASE Queue!Places(eq[t], key[t]) = {}
    <2>1. PICK new \in Seq(Events), left \in [Queue!Keys -> Int] :
               /\ SoundVector(new, left)
               /\ events' = [events EXCEPT ![eq[t]] = new]
               /\ queue_unspent' = [queue_unspent EXCEPT ![eq[t]] = left]
               /\ queue_posts' \in 0 .. MaxArms
               /\ WorthNotify(new) => WorthNotify(events[eq[t]])
        BY <1>1, <1>3, ArmVector
    <2> QED
        BY <1>1, <2>1, VectorChange
<1> QED
    BY <1>2, <1>3

LEMMA PostStep ==
    ASSUME NEW t \in Threads, QueueInv, Queue!Post(t)
    PROVE  QueueInv'
<1>1. /\ queue_pc[t] = "post" /\ Queue!Arm(eq[t], key[t])
      /\ queue_pc' = [queue_pc EXCEPT ![t] = "notify"]
      /\ UNCHANGED <<equeues, queue_created, eq, key, slots, queue_timo, queue_asleep, empty>>
    BY DEF Queue!Post
<1>2. PICK new \in Seq(Events), left \in [Queue!Keys -> Int] :
           /\ SoundVector(new, left)
           /\ events' = [events EXCEPT ![eq[t]] = new]
           /\ queue_unspent' = [queue_unspent EXCEPT ![eq[t]] = left]
           /\ queue_posts' \in 0 .. MaxArms
    BY <1>1, ArmVector
<1> QED
    BY <1>1, <1>2, VectorChange

LEMMA QueueCallStep ==
    ASSUME NEW t \in Threads, NEW h \in Handles, QueueInv, Queue!Calls(t, h)
    PROVE  QueueInv'
<1>1. ASSUME NEW m \in 0 .. MaxSlots, NEW w \in Waits, Queue!FindEqueue(t, h, "wait", Queue!NoKey, m, w)
      PROVE  QueueInv'
    BY <1>1, FindEqueueStep, SyncObjectsAssumption
<1>2. ASSUME NEW k \in Queue!Keys, NEW operation \in {"adduser", "deleteuser", "addread", "post"},
             operation = "addread" => k.filter = "read", Queue!FindEqueue(t, h, operation, k, 0, "none")
      PROVE  QueueInv'
    <2>1. 0 \in 0 .. MaxSlots
        BY SyncObjectsAssumption
    <2> QED
        BY <1>2, <2>1, FindEqueueStep
<1>3. ASSUME NEW k \in Queue!Keys,
             \/ k.filter = "user" /\ Queue!FindEqueue(t, h, "adduser", k, 0, "none")
             \/ k.filter = "user" /\ Queue!FindEqueue(t, h, "deleteuser", k, 0, "none")
             \/ k.filter = "read" /\ Queue!FindEqueue(t, h, "addread", k, 0, "none")
             \/ k.filter # "read" /\ Queue!FindEqueue(t, h, "post", k, 0, "none")
      PROVE  QueueInv'
    BY <1>2, <1>3
<1> QED
    BY <1>1, <1>3 DEF Queue!Calls

LEMMA QueueStep ==
    ASSUME QueueInv, Queue!Next PROVE QueueInv'
<1>1. ASSUME NEW t \in Threads, Queue!WaitAtOnce(t) \/ Queue!WaitEnds(t) PROVE QueueInv'
    BY <1>1, DrainKeepsQueueInv DEF Queue!WaitAtOnce, Queue!WaitEnds
<1>2. ASSUME NEW t \in Threads, Queue!ThreadStep(t) PROVE QueueInv'
    <2> HIDE DEF QueueInv
    <2> QED
        BY <1>1, <1>2, QueueCallStep, QueueSleepStep, NotifyAllStep, AddUserEventStep,
           DeleteUserEventStep, AddReadEventStep, PostStep DEF Queue!ThreadStep
<1> QED
    BY <1>2, QueueHandleStep DEF Queue!Next

-----------------------------------------------------------------------------
(* Kernel mutexes. *)

\* What is proved about the kernel mutexes on their own.
KernelMutexes == INSTANCE MutexCallsProofs
                     WITH Modes <- {"lock", "try"}, Types <- {"Recursive"}, word <- mutex_word

LEMMA KernelMutexesAssumption ==
    KernelMutexes!GuestMutexAssumption /\ KernelMutexes!KernelCallsAssumption
    BY SyncObjectsAssumption
       DEF KernelMutexes!GuestMutexAssumption, KernelMutexes!AllModes, KernelMutexes!MutexTypes,
           KernelMutexes!KernelCallsAssumption

\* Kmutex and KernelMutexes instantiate the same module.
LEMMA SameLock ==
    ASSUME NEW t, NEW o, NEW mode
    PROVE  /\ Kmutex!MutexLockImpl(t, o, mode) <=> KernelMutexes!MutexLockImpl(t, o, mode)
           /\ Kmutex!MutexUnlockImpl(t, o) <=> KernelMutexes!MutexUnlockImpl(t, o)
           /\ Kmutex!Ready(t) <=> KernelMutexes!Ready(t)
    BY Zenon
       DEF Kmutex!MutexLockImpl, Kmutex!LockAgain, Kmutex!LockFree, Kmutex!LockBusy, Kmutex!MayTake,
           Kmutex!Queue, Kmutex!CountsRelock, Kmutex!MutexAcquireLocked,
           KernelMutexes!MutexLockImpl, KernelMutexes!LockAgain, KernelMutexes!LockFree,
           KernelMutexes!LockBusy, KernelMutexes!MayTake, KernelMutexes!Queue,
           KernelMutexes!CountsRelock, KernelMutexes!MutexAcquireLocked,
           Kmutex!MutexUnlockImpl, Kmutex!MutexHandoffLocked, Kmutex!mutexVars, Kmutex!Ready,
           KernelMutexes!MutexUnlockImpl, KernelMutexes!MutexHandoffLocked, KernelMutexes!mutexVars,
           KernelMutexes!Ready

LEMMA SameKernelStep ==
    /\ Kmutex!KernelMutexInit <=> KernelMutexes!KernelMutexInit
    /\ Kmutex!KernelMutexNext <=> KernelMutexes!KernelMutexNext
    /\ Kmutex!KernelMutexTypeOK <=> KernelMutexes!KernelMutexTypeOK
<1>1. Kmutex!KernelMutexInit <=> KernelMutexes!KernelMutexInit
    BY Zenon DEF Kmutex!KernelMutexInit, Kmutex!GuestMutexInit,
                 KernelMutexes!KernelMutexInit, KernelMutexes!GuestMutexInit
<1>2. Kmutex!KernelMutexTypeOK <=> KernelMutexes!KernelMutexTypeOK
    BY Zenon DEF Kmutex!KernelMutexTypeOK, Kmutex!GuestMutexTypeOK,
                 KernelMutexes!KernelMutexTypeOK, KernelMutexes!GuestMutexTypeOK
<1>3. ASSUME NEW t \in Threads
      PROVE  /\ Kmutex!LockRound(t) <=> KernelMutexes!LockRound(t)
             /\ Kmutex!PollRound(t) <=> KernelMutexes!PollRound(t)
             /\ Kmutex!UnlockRound(t) <=> KernelMutexes!UnlockRound(t)
    BY SameLock, Zenon
       DEF Kmutex!LockRound, Kmutex!PollRound, Kmutex!UnlockRound, Kmutex!Count, Kmutex!callVars,
           KernelMutexes!LockRound, KernelMutexes!PollRound, KernelMutexes!UnlockRound,
           KernelMutexes!Count, KernelMutexes!callVars
<1>4. ASSUME NEW t \in Threads
      PROVE  /\ Kmutex!RoundGranted(t) <=> KernelMutexes!RoundGranted(t)
             /\ Kmutex!BlockedStep(t) <=> KernelMutexes!BlockedStep(t)
             /\ Kmutex!Deadline(t) <=> KernelMutexes!Deadline(t)
             /\ Kmutex!Return(t) <=> KernelMutexes!Return(t)
    BY SameLock, Zenon
       DEF Kmutex!RoundGranted, Kmutex!LockGranted, Kmutex!Count, Kmutex!BlockedStep, Kmutex!SleepAgain,
           Kmutex!SpuriousWake, Kmutex!Deadline, Kmutex!Return, Kmutex!callVars, Kmutex!mutexVars,
           KernelMutexes!RoundGranted, KernelMutexes!LockGranted, KernelMutexes!Count,
           KernelMutexes!BlockedStep, KernelMutexes!SleepAgain, KernelMutexes!SpuriousWake,
           KernelMutexes!Deadline, KernelMutexes!Return, KernelMutexes!callVars, KernelMutexes!mutexVars
<1>5. ASSUME NEW t \in Threads, NEW o, NEW call_kind, NEW levels
      PROVE  Kmutex!Begin(t, o, call_kind, levels) <=> KernelMutexes!Begin(t, o, call_kind, levels)
    BY Zenon DEF Kmutex!Begin, KernelMutexes!Begin, Kmutex!mutexVars, KernelMutexes!mutexVars
<1>6. Kmutex!KernelMutexNext <=> KernelMutexes!KernelMutexNext
    BY <1>3, <1>4, <1>5 DEF Kmutex!KernelMutexNext, KernelMutexes!KernelMutexNext
<1> QED
    BY <1>1, <1>2, <1>6

KernelInv == KernelMutexes!KernelMutexInv

LEMMA KernelInit == Kmutex!KernelMutexInit => KernelInv
    BY SameKernelStep, KernelMutexesAssumption, KernelMutexes!KernelInitEstablishesInv, Zenon DEF KernelInv

LEMMA KernelStep ==
    KernelInv /\ (Kmutex!KernelMutexNext \/ UNCHANGED kmutexVars) => KernelInv'
<1>1. UNCHANGED kmutexVars => UNCHANGED KernelMutexes!kernelVars
    BY DEF kmutexVars, KernelMutexes!kernelVars, KernelMutexes!mutexVars, KernelMutexes!callVars
<1> QED
    BY <1>1, SameKernelStep, KernelMutexesAssumption, KernelMutexes!KernelStepKeepsInv, Zenon DEF KernelInv

LEMMA KernelTyped == KernelInv => Kmutex!KernelMutexTypeOK
    BY SameKernelStep, Zenon DEF KernelInv, KernelMutexes!KernelMutexInv

\* A lock call takes all of its levels or, timed out, none.
LEMMA KernelAllOrNothing ==
    KernelInv /\ (Kmutex!KernelMutexNext \/ UNCHANGED kmutexVars) =>
        [\A t \in Threads : call[t] \in {"lock", "poll", "backout"} /\ call'[t] = "none" =>
            LET levels == held'[t][handle[t]] - before[t]
            IN  IF call[t] = "lock" THEN levels > 0 /\ levels = taken[t]
                                    ELSE levels \in {0, taken[t] + wanted[t]}]_(Kmutex!kernelVars)
<1>1. UNCHANGED kmutexVars => UNCHANGED KernelMutexes!kernelVars
    BY DEF kmutexVars, KernelMutexes!kernelVars, KernelMutexes!mutexVars, KernelMutexes!callVars
<1> SUFFICES ASSUME KernelInv, [KernelMutexes!KernelMutexNext]_(KernelMutexes!kernelVars),
                    NEW t \in Threads, call[t] \in {"lock", "poll", "backout"}, call'[t] = "none"
             PROVE  LET levels == held'[t][handle[t]] - before[t]
                    IN  IF call[t] = "lock" THEN levels > 0 /\ levels = taken[t]
                                            ELSE levels \in {0, taken[t] + wanted[t]}
    BY <1>1, SameKernelStep
<1> QED
    BY KernelMutexesAssumption, KernelMutexes!ReturnIsAllOrNothing, Zenon DEF KernelInv

-----------------------------------------------------------------------------
(* Mutex variables. *)

\* What is proved about the mutex variables on their own.
MutexVars == INSTANCE MutexCallsProofs
                 WITH Objs <- MutexObjs, Modes <- {"lock", "timed"}, Types <- {"ErrorCheck", "AdaptiveNp"},
                      MaxRecursion <- 1, word <- mutex_word, owner <- mutex_owner,
                      recursion <- mutex_recursion, mtype <- mutex_type, waiters <- mutex_waiters,
                      held <- mutex_held, blocked <- mutex_blocked, timed <- mutex_timed,
                      sleeping <- mutex_sleeping

LEMMA MutexVarsAssumption ==
    MutexVars!GuestMutexAssumption /\ MutexVars!VariablesAssumption
    BY SyncObjectsAssumption
       DEF MutexVars!GuestMutexAssumption, MutexVars!AllModes, MutexVars!MutexTypes,
           MutexVars!VariablesAssumption

\* Variable and MutexVars instantiate the same module.
LEMMA SameVariableStep ==
    /\ Variable!MutexVariablesInit <=> MutexVars!MutexVariablesInit
    /\ Variable!MutexVariablesNext <=> MutexVars!MutexVariablesNext
<1>1. Variable!MutexVariablesInit <=> MutexVars!MutexVariablesInit
    BY Zenon DEF Variable!MutexVariablesInit, Variable!GuestMutexInit,
                 MutexVars!MutexVariablesInit, MutexVars!GuestMutexInit
<1>2. ASSUME NEW t \in Threads
      PROVE  /\ Variable!LockGranted(t) <=> MutexVars!LockGranted(t)
             /\ Variable!LockTimedOut(t) <=> MutexVars!LockTimedOut(t)
             /\ Variable!SleepAgain(t) <=> MutexVars!SleepAgain(t)
             /\ Variable!SpuriousWake(t) <=> MutexVars!SpuriousWake(t)
    BY Zenon DEF Variable!LockGranted, Variable!LockTimedOut, Variable!PositionOf, Variable!RemoveAt,
                 Variable!SleepAgain, Variable!SpuriousWake,
                 MutexVars!LockGranted, MutexVars!LockTimedOut, MutexVars!PositionOf, MutexVars!RemoveAt,
                 MutexVars!SleepAgain, MutexVars!SpuriousWake
<1>3. ASSUME NEW t, NEW o, NEW mode
      PROVE  /\ Variable!MutexLockImpl(t, o, mode) <=> MutexVars!MutexLockImpl(t, o, mode)
             /\ Variable!MutexUnlockImpl(t, o) <=> MutexVars!MutexUnlockImpl(t, o)
             /\ Variable!Ready(t) <=> MutexVars!Ready(t)
    BY Zenon
       DEF Variable!MutexLockImpl, Variable!LockAgain, Variable!LockFree, Variable!LockBusy,
           Variable!MayTake, Variable!Queue, Variable!CountsRelock, Variable!MutexAcquireLocked,
           MutexVars!MutexLockImpl, MutexVars!LockAgain, MutexVars!LockFree, MutexVars!LockBusy,
           MutexVars!MayTake, MutexVars!Queue, MutexVars!CountsRelock, MutexVars!MutexAcquireLocked,
           Variable!MutexUnlockImpl, Variable!MutexHandoffLocked, Variable!mutexVars, Variable!Ready,
           MutexVars!MutexUnlockImpl, MutexVars!MutexHandoffLocked, MutexVars!mutexVars, MutexVars!Ready
<1>4. ASSUME NEW o, NEW v, NEW type
      PROVE  Variable!NewMutex(o, v, type) <=> MutexVars!NewMutex(o, v, type)
    BY Zenon DEF Variable!NewMutex, Variable!FreeObjs, MutexVars!NewMutex, MutexVars!FreeObjs
<1>5. ASSUME NEW t \in Threads
      PROVE  /\ Variable!FindToken(t) <=> MutexVars!FindToken(t)
             /\ Variable!CreateMutex(t) <=> MutexVars!CreateMutex(t)
             /\ Variable!Perform(t) <=> MutexVars!Perform(t)
    BY <1>3, <1>4, Zenon
       DEF Variable!FindToken, Variable!CreateMutex, Variable!Perform, Variable!StaticType,
           Variable!FreeObjs, Variable!mutexVars,
           MutexVars!FindToken, MutexVars!CreateMutex, MutexVars!Perform, MutexVars!StaticType,
           MutexVars!FreeObjs, MutexVars!mutexVars
<1>6. ASSUME NEW t \in Threads, NEW v \in Vars, NEW c
      PROVE  Variable!ReadToken(t, v, c) <=> MutexVars!ReadToken(t, v, c)
    BY <1>3, Zenon DEF Variable!ReadToken, MutexVars!ReadToken, Variable!mutexVars, MutexVars!mutexVars
<1>7. ASSUME NEW v \in Vars
      PROVE  /\ \A type : Variable!ScePthreadMutexInit(v, type) <=> MutexVars!ScePthreadMutexInit(v, type)
             /\ Variable!ScePthreadMutexDestroy(v) <=> MutexVars!ScePthreadMutexDestroy(v)
    BY <1>4, Zenon
       DEF Variable!ScePthreadMutexInit, Variable!ScePthreadMutexDestroy, Variable!Unused,
           Variable!FreeObjs, Variable!mutexVars,
           MutexVars!ScePthreadMutexInit, MutexVars!ScePthreadMutexDestroy, MutexVars!Unused,
           MutexVars!FreeObjs, MutexVars!mutexVars
<1>8. Variable!BlockedInLock <=> MutexVars!BlockedInLock
    BY <1>2, Zenon DEF Variable!BlockedInLock, Variable!lookupVars, MutexVars!BlockedInLock, MutexVars!lookupVars
<1>9. Variable!MutexVariablesNext <=> MutexVars!MutexVariablesNext
    BY <1>5, <1>6, <1>7, <1>8
       DEF Variable!MutexVariablesNext, Variable!Calls, MutexVars!MutexVariablesNext, MutexVars!Calls
<1> QED
    BY <1>1, <1>9

VariableInv == MutexVars!MutexVariablesInv

LEMMA VariableInit == Variable!MutexVariablesInit => VariableInv
    BY SameVariableStep, MutexVarsAssumption, MutexVars!VariablesInitEstablishesInv, Zenon DEF VariableInv

LEMMA VariableBox ==
    Variable!MutexVariablesNext \/ UNCHANGED variableVars => [MutexVars!MutexVariablesNext]_(MutexVars!variableVars)
<1>1. UNCHANGED variableVars => UNCHANGED MutexVars!variableVars
    BY DEF variableVars, MutexVars!variableVars, MutexVars!mutexVars, MutexVars!lookupVars
<1> QED
    BY <1>1, SameVariableStep

LEMMA VariableStep ==
    VariableInv /\ (Variable!MutexVariablesNext \/ UNCHANGED variableVars) => VariableInv'
    BY VariableBox, MutexVarsAssumption, MutexVars!VariablesStepKeepsInv, Zenon DEF VariableInv

LEMMA VariableProperties ==
    VariableInv => Variable!MutexVariablesTypeOK /\ Variable!OneObjectPerVariable /\ Variable!NoUseAfterDestroy
<1> SUFFICES ASSUME VariableInv
             PROVE  Variable!MutexVariablesTypeOK /\ Variable!OneObjectPerVariable /\ Variable!NoUseAfterDestroy
    OBVIOUS
<1>1. MutexVars!MutexVariablesTypeOK /\ MutexVars!OneObjectPerVariable /\ MutexVars!NoUseAfterDestroy
    BY MutexVars!NothingOfTheFreed, MutexVarsAssumption, Zenon DEF VariableInv, MutexVars!MutexVariablesInv
<1>2. Variable!MutexVariablesTypeOK
    BY <1>1, Zenon
       DEF Variable!MutexVariablesTypeOK, Variable!GuestMutexTypeOK, Variable!Calls,
           MutexVars!MutexVariablesTypeOK, MutexVars!GuestMutexTypeOK, MutexVars!Calls
<1>3. Variable!OneObjectPerVariable /\ Variable!NoUseAfterDestroy
    BY <1>1, Zenon DEF Variable!OneObjectPerVariable, Variable!NoUseAfterDestroy,
                       MutexVars!OneObjectPerVariable, MutexVars!NoUseAfterDestroy
<1> QED
    BY <1>2, <1>3

\* The queue in which VariablesAreFifoLocks sees a variable.
LEMMA SameVariableQueue == Variable!VariableQueue = MutexVars!VariableQueue
    BY Zenon DEF Variable!VariableQueue, Variable!LockQueue, MutexVars!VariableQueue, MutexVars!LockQueue

LEMMA VariableFifoInit == Variable!MutexVariablesInit => Variable!VariableFifo!FifoInit
<1> SUFFICES ASSUME Variable!MutexVariablesInit PROVE Variable!VariableFifo!FifoInit
    OBVIOUS
<1>1. mutexes = {}
    BY DEF Variable!MutexVariablesInit
<1> QED
    BY <1>1 DEF Variable!VariableFifo!FifoInit, Variable!VariableQueue

LEMMA VariableFifoStep ==
    VariableInv /\ (Variable!MutexVariablesNext \/ UNCHANGED variableVars) =>
        [Variable!VariableFifo!FifoNext]_(Variable!VariableQueue)
<1> SUFFICES ASSUME VariableInv, Variable!MutexVariablesNext \/ UNCHANGED variableVars
             PROVE  [Variable!VariableFifo!FifoNext]_(Variable!VariableQueue)
    OBVIOUS
<1>1. [MutexVars!VariableFifo!FifoNext]_(MutexVars!VariableQueue)
    BY VariableBox, VariableStep, MutexVarsAssumption, MutexVars!VariableStepMapsToFifoStep, Zenon DEF VariableInv
<1>2. Variable!VariableQueue' = MutexVars!VariableQueue'
    BY Zenon DEF Variable!VariableQueue, Variable!LockQueue, MutexVars!VariableQueue, MutexVars!LockQueue
<1>3. MutexVars!VariableFifo!FifoNext <=> Variable!VariableFifo!FifoNext
    BY SameVariableQueue, <1>2, Zenon
       DEF MutexVars!VariableFifo!FifoNext, MutexVars!VariableFifo!Enter, MutexVars!VariableFifo!Leave,
           MutexVars!VariableFifo!GiveUp, MutexVars!VariableFifo!RemoveAt,
           Variable!VariableFifo!FifoNext, Variable!VariableFifo!Enter, Variable!VariableFifo!Leave,
           Variable!VariableFifo!GiveUp, Variable!VariableFifo!RemoveAt
<1> QED
    BY <1>1, <1>2, <1>3, SameVariableQueue

-----------------------------------------------------------------------------
(* All kinds together. *)

\* A step is a step of the kind in use, and of every other kind no step.
LEMMA StepByKind ==
    [Next]_vars =>
        /\ Sema!Next \/ UNCHANGED semaVars
        /\ Posix!Next \/ UNCHANGED posixsemVars
        /\ Flag!Next \/ UNCHANGED flagVars
        /\ Queue!Next \/ UNCHANGED queueVars
        /\ Rw!Next \/ UNCHANGED rwlockVars
        /\ Once!OnceNext \/ Once!GuardNext \/ UNCHANGED onceVars
        /\ Address!Next \/ UNCHANGED addressVars
        /\ Kmutex!KernelMutexNext \/ UNCHANGED kmutexVars
        /\ Variable!MutexVariablesNext \/ UNCHANGED variableVars
    BY Zenon DEF Next, vars

SyncObjectsInv ==
    /\ SemaInv /\ PosixInv /\ FlagInv /\ QueueInv /\ RwInv
    /\ OnceInv /\ GuardInv /\ AddressInv /\ KernelInv /\ VariableInv

LEMMA SyncObjectsInitInv == Init => SyncObjectsInv
    BY SemaInit, PosixInit, FlagInit, QueueInit, RwInit, OnceInit, GuardInit, AddressInit, KernelInit,
       VariableInit, Zenon
       DEF Init, SyncObjectsInv

LEMMA SemaKept == SemaInv /\ (Sema!Next \/ UNCHANGED semaVars) => SemaInv'
<1>1. SemaInv /\ UNCHANGED semaVars => SemaInv'
    BY DEF semaVars, SemaInv, SemaCallsOK, Sema!TypeOK, Sema!SleeperHasSignaller, Sema!Satisfied, Sema!Amounts
<1> QED
    BY <1>1, SemaStep

LEMMA PosixKept == PosixInv /\ (Posix!Next \/ UNCHANGED posixsemVars) => PosixInv'
<1>1. PosixInv /\ UNCHANGED posixsemVars => PosixInv'
    BY DEF posixsemVars, PosixInv, PosixCallsOK, Posix!TypeOK, Posix!Calls, Posix!EveryPermitHasATaker,
           Posix!BlockedOn
<1> QED
    BY <1>1, PosixStep

LEMMA FlagKept == FlagInv /\ (Flag!Next \/ UNCHANGED flagVars) => FlagInv'
<1>1. FlagInv /\ UNCHANGED flagVars => FlagInv'
    BY DEF flagVars, FlagInv, RaisedIsUnspent, Flag!TypeOK, Flag!SleeperHasSetter, Flag!Satisfied
<1> QED
    BY <1>1, FlagStep

LEMMA QueueKept == QueueInv /\ (Queue!Next \/ UNCHANGED queueVars) => QueueInv'
<1>1. QueueInv /\ UNCHANGED queueVars => QueueInv'
    <2> SUFFICES ASSUME QueueInv, UNCHANGED queueVars PROVE QueueInv'
        OBVIOUS
    <2>1. UNCHANGED <<equeues, queue_created, events, queue_pc, eq, key, slots, queue_timo,
                      queue_asleep, queue_posts, queue_unspent, empty>>
        BY DEF queueVars
    <2>2. QueueTyped' /\ QueueCallsOK'
        BY <2>1 DEF QueueInv, QueueTyped, QueueCallsOK
    <2> QED
        BY <2>1, <2>2, EventsUntouched DEF QueueInv, Queue!SleeperHasNotifier, WorthNotify
<1> QED
    BY <1>1, QueueStep

LEMMA RwKept == RwInv /\ (Rw!Next \/ UNCHANGED rwlockVars) => RwInv'
<1>1. RwInv /\ UNCHANGED rwlockVars => RwInv'
    <2> SUFFICES ASSUME RwInv, UNCHANGED rwlockVars PROVE RwInv'
        OBVIOUS
    <2>1. UNCHANGED <<shared, exclusive, readers, writer, rwlock_pc, lock, symbol, holds, misused>>
        BY DEF rwlockVars
    <2>2. Rw!TypeOK' /\ RwCallsOK'
        BY <2>1 DEF RwInv, RwCallsOK, Rw!TypeOK
    <2>4. ASSUME NEW l \in Locks PROVE OneWriter(l)'
        BY <2>1 DEF RwInv, OneWriter, InExclusive
    <2>3. ASSUME NEW l \in Locks \ misused PROVE LockMatches(l)'
        BY <2>1, SameHoldersMatch DEF RwInv, HasShared, HasExclusive, CountedReader, KnownWriter
    <2> QED
        BY <2>1, <2>2, <2>3, <2>4 DEF RwInv
<1> QED
    BY <1>1, RwStep

LEMMA OnceKept ==
    OnceInv /\ (Once!OnceNext \/ Once!GuardNext \/ UNCHANGED onceVars) => OnceInv'
<1>1. Once!GuardNext \/ UNCHANGED onceVars => UNCHANGED <<done, runs>>
    BY DEF Once!GuardNext, Once!onceVars, onceVars
<1>2. OnceInv /\ UNCHANGED <<done, runs>> => OnceInv'
    BY DEF OnceInv
<1> QED
    BY <1>1, <1>2, OnceStep

LEMMA GuardKept ==
    GuardInv /\ (Once!OnceNext \/ Once!GuardNext \/ UNCHANGED onceVars) => GuardInv'
<1>1. Once!OnceNext \/ UNCHANGED onceVars => UNCHANGED <<guard, g_guard_in_progress, guard_pc, wants,
                                                         guard_asleep, guard_runs>>
    BY DEF Once!OnceNext, Once!guardVars, onceVars
<1>2. GuardInv /\ UNCHANGED <<guard, g_guard_in_progress, guard_pc, wants, guard_asleep, guard_runs>> => GuardInv'
    <2> SUFFICES ASSUME GuardInv,
                        UNCHANGED <<guard, g_guard_in_progress, guard_pc, wants, guard_asleep, guard_runs>>
                 PROVE  GuardInv'
        OBVIOUS
    <2>1. GuardTypeOK' /\ GuardsComplete' /\ Once!GuardSleeperIsWoken'
        BY DEF GuardInv, GuardTypeOK, GuardsComplete, Once!GuardSleeperIsWoken
    <2>2. GuardsUnderWay'
        <3>1. ASSUME NEW t \in Threads
              PROVE  Mine(t)' = Mine(t) /\ Members(Mine(t))' = Members(Mine(t)) /\ (NoneTwice(Mine(t))' <=> NoneTwice(Mine(t)))
            BY DEF Mine, Members, NoneTwice
        <3> QED
            BY <3>1 DEF GuardInv, GuardsUnderWay
    <2> QED
        BY <2>1, <2>2 DEF GuardInv
<1> QED
    BY <1>1, <1>2, GuardStep

LEMMA AddressKept == AddressInv /\ (Address!Next \/ UNCHANGED addressVars) => AddressInv'
<1>1. AddressInv /\ UNCHANGED addressVars => AddressInv'
    BY DEF addressVars, AddressInv, AddressCallsOK, CountIsRight, WaitingOn, Address!TypeOK, Address!Fresh, Address!Callers
<1> QED
    BY <1>1, AddressStep

LEMMA SyncObjectsStepInv == SyncObjectsInv /\ [Next]_vars => SyncObjectsInv'
    BY StepByKind, SemaKept, PosixKept, FlagKept, QueueKept, RwKept, OnceKept, GuardKept, AddressKept,
       KernelStep, VariableStep, Zenon
       DEF SyncObjectsInv

\* The inductive invariants of all kinds hold in every reachable state.
THEOREM SyncInvariantHolds == Spec => []SyncObjectsInv
    BY SyncObjectsInitInv, SyncObjectsStepInv, PTL DEF Spec

-----------------------------------------------------------------------------
(* What follows for every reachable state. *)

\* Every object and every call under way is well typed; in particular a count
\* never passes the maximum of its semaphore or zero, and a queue never has two
\* events for one filter and identifier.
THEOREM SyncTypeCorrect == Spec => []SyncObjectsTypeOK
<1>1. SyncObjectsInv => SyncObjectsTypeOK
    BY QueueProperties, KernelTyped, VariableProperties, Zenon
       DEF SyncObjectsInv, SyncObjectsTypeOK, SemaInv, PosixInv, FlagInv, RwInv, AddressInv
<1> QED
    BY <1>1, SyncInvariantHolds, PTL

\* No sleeper of any kind is left without the one who is to wake it, although
\* every object is changed in one step and its waiters are notified in a later one.
THEOREM NoWakeupIsEverLost == Spec => []NoWakeupIsLost
<1>1. SyncObjectsInv => NoWakeupIsLost
    BY AddressCounts, Zenon
       DEF SyncObjectsInv, NoWakeupIsLost, SemaInv, PosixInv, FlagInv, QueueInv, GuardInv
<1> QED
    BY <1>1, SyncInvariantHolds, PTL

\* A bit raised once satisfies one clearing wait, an event armed once is
\* delivered once, with any number of waiters awake at the same time.
THEOREM PostsServeOneWait == Spec => []EachPostServesOneWait
<1>1. SyncObjectsInv => EachPostServesOneWait
    BY FlagSpendsOnce, QueueProperties, Zenon DEF SyncObjectsInv, EachPostServesOneWait
<1> QED
    BY <1>1, SyncInvariantHolds, PTL

\* An untimed wait on an event queue comes back with an event.
THEOREM UntimedWaitsDeliver == Spec => []UntimedWaitDelivers
<1>1. SyncObjectsInv => UntimedWaitDelivers
    BY QueueProperties, Zenon DEF SyncObjectsInv, UntimedWaitDelivers
<1> QED
    BY <1>1, SyncInvariantHolds, PTL

\* A writer excludes everybody else, and the mode which unlock guesses from the
\* two atomics is the mode in which its thread holds the lock, until a thread takes
\* from a lock what others hold; unlocks of a lock that nobody holds are dropped,
\* and no sequence of unlocks gives a writer's lock back twice.
THEOREM ReadersAndWriterAreApart == Spec => []ReadersAndWriterStayApart
<1>1. SyncObjectsInv => ReadersAndWriterStayApart
    BY RwExcludes, Zenon DEF SyncObjectsInv, ReadersAndWriterStayApart
<1> QED
    BY <1>1, SyncInvariantHolds, PTL

\* A once routine is started once, and a guarded static is completed once,
\* whichever initialisers throw and however their guards nest.
THEOREM InitRunsOnce == Spec => []InitRunsAtMostOnce
<1>1. SyncObjectsInv => InitRunsAtMostOnce
    BY OnceRunsOnce, GuardIsCompletedOnce, Zenon DEF SyncObjectsInv, InitRunsAtMostOnce
<1> QED
    BY <1>1, SyncInvariantHolds, PTL

\* A counted kernel lock takes all its levels or none, whoever unlocks, waits
\* and polls between its rounds.
THEOREM KernelLockIsAllOrNothing == Spec => LockIsAllOrNothing
<1>1. SyncObjectsInv /\ [Next]_vars =>
          [\A t \in Threads : call[t] \in {"lock", "poll", "backout"} /\ call'[t] = "none" =>
              LET levels == held'[t][handle[t]] - before[t]
              IN  IF call[t] = "lock" THEN levels > 0 /\ levels = taken[t]
                                      ELSE levels \in {0, taken[t] + wanted[t]}]_(Kmutex!kernelVars)
    BY StepByKind, KernelAllOrNothing, Zenon DEF SyncObjectsInv
<1> QED
    BY <1>1, SyncInvariantHolds, PTL DEF Spec, LockIsAllOrNothing, Kmutex!LockIsAllOrNothing

\* One object stands behind a mutex variable, no other variable shares it, and
\* nobody uses an object that has been freed.
THEOREM OneObjectStandsBehindAVariable == Spec => []OneObjectPerVariable
<1>1. SyncObjectsInv => OneObjectPerVariable
    BY VariableProperties, Zenon DEF SyncObjectsInv, OneObjectPerVariable
<1> QED
    BY <1>1, SyncInvariantHolds, PTL

\* A mutex variable implements the FIFO lock of FifoLock through promotions,
\* initialisations and destructions.
THEOREM VariablesRefineFifoLocks == Spec => VariablesAreFifoLocks
<1>1. Init => Variable!VariableFifo!FifoInit
    BY VariableFifoInit, Zenon DEF Init
<1>2. SyncObjectsInv /\ [Next]_vars => [Variable!VariableFifo!FifoNext]_(Variable!VariableQueue)
    BY StepByKind, VariableFifoStep, Zenon DEF SyncObjectsInv
<1> QED
    BY <1>1, <1>2, SyncInvariantHolds, PTL
       DEF Spec, VariablesAreFifoLocks, Variable!VariablesAreFifoLocks, Variable!VariableFifo!FifoSpec
=============================================================================
