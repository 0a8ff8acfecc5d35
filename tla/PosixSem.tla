------------------------------ MODULE PosixSem ------------------------------
(***************************************************************************)
(* POSIX semaphores (sem_t) of src/hle/libkernel_sync.cpp.  The object of  *)
(* a variable is looked up, or made with a count of 0, under the map lock; *)
(* the call then works on it under the object's own mutex, and a post      *)
(* notifies one waiter before it releases that mutex.                      *)
(***************************************************************************)
EXTENDS Integers, FiniteSets

CONSTANTS Threads, Vars, NoVar,
          MaxCount,  \* bound: the value of sem_init
          MaxPosts   \* bound: posts in one behaviour

VARIABLES sems,   \* variables that have an object in g_posix_sems
          count,  \* PosixSem::count
          pc,     \* "guest", "wait", "trywait" or "post" (object found), "blocked"
          sem,    \* the object the call works on
          asleep, \* threads inside cv.wait that no notify has reached
          posts   \* posts so far

vars == <<sems, count, pc, sem, asleep, posts>>

Calls == {"wait", "trywait", "post"}

BlockedOn(v) == {t \in Threads : pc[t] = "blocked" /\ sem[t] = v}

Done(t) ==
    /\ pc' = [pc EXCEPT ![t] = "guest"]
    /\ sem' = [sem EXCEPT ![t] = NoVar]

-----------------------------------------------------------------------------
\* sem_init gives a value to a variable without an object, and does nothing to
\* one that has an object already.
ScePthreadSemInit(v, value) ==
    /\ sems' = sems \cup {v}
    /\ count' = IF v \in sems THEN count ELSE [count EXCEPT ![v] = value]
    /\ UNCHANGED <<pc, sem, asleep, posts>>

\* sem_destroy of a semaphore no call is using, as POSIX asks of the guest.
ScePthreadSemDestroy(v) ==
    /\ \A t \in Threads : sem[t] # v
    /\ sems' = sems \ {v}
    /\ UNCHANGED <<count, pc, sem, asleep, posts>>

\* LookupOrCreatePosixSem under the map lock: the first half of every call.
LookupOrCreatePosixSem(t, v, call) ==
    /\ pc[t] = "guest"
    /\ sems' = sems \cup {v}
    /\ count' = IF v \in sems THEN count ELSE [count EXCEPT ![v] = 0]
    /\ pc' = [pc EXCEPT ![t] = call]
    /\ sem' = [sem EXCEPT ![t] = v]
    /\ UNCHANGED <<asleep, posts>>

\* wait and trywait with a permit there.
TakePermit(t) ==
    /\ pc[t] \in {"wait", "trywait"} /\ count[sem[t]] > 0
    /\ count' = [count EXCEPT ![sem[t]] = @ - 1]
    /\ Done(t)
    /\ UNCHANGED <<sems, asleep, posts>>

\* trywait returns EBUSY, wait starts to wait.
NoPermit(t) ==
    /\ pc[t] \in {"wait", "trywait"} /\ count[sem[t]] <= 0
    /\ \/ pc[t] = "trywait" /\ Done(t) /\ UNCHANGED asleep
       \/ /\ pc[t] = "wait"
          /\ pc' = [pc EXCEPT ![t] = "blocked"]
          /\ asleep' = asleep \cup {t}
          /\ UNCHANGED sem
    /\ UNCHANGED <<sems, count, posts>>

\* A woken waiter looks at the count again.
WakeTests(t) ==
    /\ pc[t] = "blocked" /\ t \notin asleep
    /\ IF count[sem[t]] > 0
       THEN /\ count' = [count EXCEPT ![sem[t]] = @ - 1]
            /\ Done(t)
            /\ UNCHANGED asleep
       ELSE /\ asleep' = asleep \cup {t}
            /\ UNCHANGED <<count, pc, sem>>
    /\ UNCHANGED <<sems, posts>>

SpuriousWake(t) ==
    /\ t \in asleep
    /\ asleep' = asleep \ {t}
    /\ UNCHANGED <<sems, count, pc, sem, posts>>

\* Variant for the mutant runs: a waiter is only notified when the count was 0.
PostNotifiesAtZero(t) ==
    /\ pc[t] = "post" /\ posts < MaxPosts
    /\ count' = [count EXCEPT ![sem[t]] = @ + 1]
    /\ LET on == asleep \cap BlockedOn(sem[t])
       IN  \/ count[sem[t]] = 0 /\ \E u \in on : asleep' = asleep \ {u}
           \/ (count[sem[t]] > 0 \/ on = {}) /\ UNCHANGED asleep
    /\ posts' = posts + 1
    /\ Done(t)
    /\ UNCHANGED sems

\* The count is raised and one waiter notified in one critical section.
ScePthreadSemPost(t) ==
    /\ pc[t] = "post" /\ posts < MaxPosts
    /\ count' = [count EXCEPT ![sem[t]] = @ + 1]
    /\ LET on == asleep \cap BlockedOn(sem[t])
       IN  \/ \E u \in on : asleep' = asleep \ {u}
           \/ on = {} /\ UNCHANGED asleep
    /\ posts' = posts + 1
    /\ Done(t)
    /\ UNCHANGED sems

-----------------------------------------------------------------------------
Init ==
    /\ sems = {}
    /\ count = [v \in Vars |-> 0]
    /\ pc = [t \in Threads |-> "guest"]
    /\ sem = [t \in Threads |-> NoVar]
    /\ asleep = {}
    /\ posts = 0

ThreadStep(t) ==
    \/ \E v \in Vars, call \in Calls : LookupOrCreatePosixSem(t, v, call)
    \/ TakePermit(t) \/ NoPermit(t)
    \/ WakeTests(t) \/ SpuriousWake(t)
    \/ ScePthreadSemPost(t)

Next ==
    \/ \E t \in Threads : ThreadStep(t)
    \/ \E v \in Vars :
          \/ \E value \in 0 .. MaxCount : ScePthreadSemInit(v, value)
          \/ ScePthreadSemDestroy(v)

Spec == Init /\ [][Next]_vars

-----------------------------------------------------------------------------
(* Properties. *)

\* The type invariant; the count never goes below zero.
TypeOK ==
    /\ sems \in SUBSET Vars
    /\ count \in [Vars -> Nat]
    /\ pc \in [Threads -> {"guest", "blocked"} \cup Calls]
    /\ sem \in [Threads -> Vars \cup {NoVar}]
    /\ asleep \in SUBSET Threads
    /\ posts \in Nat

\* Notifying one waiter per post is enough: while somebody sleeps on a
\* semaphore, as many woken waiters as it has permits are on their way, however
\* many posts, new waits, trywaits and spurious wakes come in between.
EveryPermitHasATaker ==
    \A v \in Vars :
        asleep \cap BlockedOn(v) # {} => count[v] <= Cardinality(BlockedOn(v) \ asleep)
=============================================================================
