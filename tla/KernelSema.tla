----------------------------- MODULE KernelSema -----------------------------
(***************************************************************************)
(* sceKernel counting semaphores of src/hle/libkernel_sync.cpp.  A handle  *)
(* leads to a shared object under g_sema_lock; the object's own mutex      *)
(* guards its count; a signal raises the count under that mutex and        *)
(* notifies after it is released, when the object may already be out of    *)
(* the map.  Handles are never given out twice, so Handles stands for the  *)
(* objects as well.                                                        *)
(***************************************************************************)
EXTENDS Naturals, FiniteSets

CONSTANTS Threads, Handles, NoHandle,
          Kinds,     \* how the guest waits: among "none" (no timeout), "poll", "timed"
          MaxCount,  \* bound: max_count of a semaphore
          MaxNeed,   \* bound: permits asked for or given in one call
          MaxLife    \* bound: calls that raise the count

VARIABLES semas,    \* g_semas: the handles in the map
          created,  \* the handles given out so far
          count, max_count,
          pc,       \* "guest", "wait" or "signal" (object found), "blocked", "notify"
          sema,     \* the shared_ptr a call holds
          n,        \* need, or signal
          timo,     \* "none", "poll" or "timed"
          asleep,   \* threads inside cv.wait that no notify has reached
          signals   \* signals so far

vars == <<semas, created, count, max_count, pc, sema, n, timo, asleep, signals>>

Amounts == 1 .. MaxNeed

Done(t) ==
    /\ pc' = [pc EXCEPT ![t] = "guest"]
    /\ sema' = [sema EXCEPT ![t] = NoHandle]

Satisfied(t) == count[sema[t]] >= n[t]

Take(t) == count' = [count EXCEPT ![sema[t]] = @ - n[t]]

-----------------------------------------------------------------------------
\* A handle from the atomic counter, then the object enters the map.
SceKernelCreateSema(h, init, max) ==
    /\ h \in Handles \ created /\ init <= max
    /\ created' = created \cup {h}
    /\ semas' = semas \cup {h}
    /\ count' = [count EXCEPT ![h] = init]
    /\ max_count' = [max_count EXCEPT ![h] = max]
    /\ UNCHANGED <<pc, sema, n, timo, asleep, signals>>

SceKernelDeleteSema(h) ==
    /\ semas' = semas \ {h}
    /\ UNCHANGED <<created, count, max_count, pc, sema, n, timo, asleep, signals>>

\* FindSema, the first half of wait, poll and signal; EINVAL without an object.
FindSema(t, h, call, amount, kind) ==
    /\ pc[t] = "guest"
    /\ h \in semas
    /\ pc' = [pc EXCEPT ![t] = call]
    /\ sema' = [sema EXCEPT ![t] = h]
    /\ n' = [n EXCEPT ![t] = amount]
    /\ timo' = [timo EXCEPT ![t] = kind]
    /\ UNCHANGED <<semas, created, count, max_count, asleep, signals>>

\* WaitSemaImpl under sema->m: take, give up at once, or start to wait.
WaitSemaImpl(t) ==
    /\ pc[t] = "wait"
    /\ \/ Satisfied(t) /\ Take(t) /\ Done(t) /\ UNCHANGED asleep
       \/ ~ Satisfied(t) /\ timo[t] = "poll" /\ Done(t) /\ UNCHANGED <<count, asleep>>
       \/ /\ ~ Satisfied(t) /\ timo[t] # "poll"
          /\ pc' = [pc EXCEPT ![t] = "blocked"]
          /\ asleep' = asleep \cup {t}
          /\ UNCHANGED <<count, sema>>
    /\ UNCHANGED <<semas, created, max_count, n, timo, signals>>

\* Awake or out of time, with the predicate true: the permits are taken.
WaitSatisfied(t) ==
    /\ pc[t] = "blocked"
    /\ t \notin asleep \/ timo[t] = "timed"
    /\ Satisfied(t)
    /\ Take(t)
    /\ Done(t)
    /\ asleep' = asleep \ {t}
    /\ UNCHANGED <<semas, created, max_count, n, timo, signals>>

WaitTimedOut(t) ==
    /\ pc[t] = "blocked" /\ timo[t] = "timed" /\ ~ Satisfied(t)
    /\ Done(t)
    /\ asleep' = asleep \ {t}
    /\ UNCHANGED <<semas, created, count, max_count, n, timo, signals>>

\* Woken, possibly for nothing, while too few permits are there.
SleepAgain(t) ==
    /\ pc[t] = "blocked" /\ t \notin asleep /\ ~ Satisfied(t)
    /\ asleep' = asleep \cup {t}
    /\ UNCHANGED <<semas, created, count, max_count, pc, sema, n, timo, signals>>

SpuriousWake(t) ==
    /\ t \in asleep
    /\ asleep' = asleep \ {t}
    /\ UNCHANGED <<semas, created, count, max_count, pc, sema, n, timo, signals>>

\* Variant for the mutant runs: the count is not clamped.
SignalUnclamped(t) ==
    /\ pc[t] = "signal" /\ signals < MaxLife
    /\ count' = [count EXCEPT ![sema[t]] = @ + n[t]]
    /\ pc' = [pc EXCEPT ![t] = "notify"]
    /\ signals' = signals + 1
    /\ UNCHANGED <<semas, created, max_count, sema, n, timo, asleep>>

\* The count is raised under sema->m, never above max_count ...
SignalSema(t) ==
    LET h == sema[t]
        next == count[h] + n[t]
    IN  /\ pc[t] = "signal" /\ signals < MaxLife
        /\ count' = [count EXCEPT ![h] = IF next > max_count[h] THEN max_count[h] ELSE next]
        /\ pc' = [pc EXCEPT ![t] = "notify"]
        /\ signals' = signals + 1
        /\ UNCHANGED <<semas, created, max_count, sema, n, timo, asleep>>

\* Variant for the mutant runs: one waiter is woken, perhaps one that needs more.
NotifyOne(t) ==
    LET on == {u \in asleep : sema[u] = sema[t]}
    IN  /\ pc[t] = "notify"
        /\ \/ \E u \in on : asleep' = asleep \ {u}
           \/ on = {} /\ UNCHANGED asleep
        /\ Done(t)
        /\ UNCHANGED <<semas, created, count, max_count, n, timo, signals>>

\* ... and every waiter of the object is woken, with no lock held.
NotifyAll(t) ==
    /\ pc[t] = "notify"
    /\ asleep' = asleep \ {u \in Threads : sema[u] = sema[t]}
    /\ Done(t)
    /\ UNCHANGED <<semas, created, count, max_count, n, timo, signals>>

-----------------------------------------------------------------------------
Init ==
    /\ semas = {} /\ created = {}
    /\ count = [h \in Handles |-> 0]
    /\ max_count = [h \in Handles |-> MaxCount]
    /\ pc = [t \in Threads |-> "guest"]
    /\ sema = [t \in Threads |-> NoHandle]
    /\ n = [t \in Threads |-> 1]
    /\ timo = [t \in Threads |-> "none"]
    /\ asleep = {}
    /\ signals = 0

Next ==
    \/ \E h \in Handles :
          \/ \E max \in 1 .. MaxCount, init \in 0 .. MaxCount : SceKernelCreateSema(h, init, max)
          \/ SceKernelDeleteSema(h)
    \/ \E t \in Threads :
          \/ \E h \in Handles, amount \in Amounts :
                \/ \E kind \in Kinds : FindSema(t, h, "wait", amount, kind)
                \/ FindSema(t, h, "signal", amount, "none")
          \/ WaitSemaImpl(t) \/ WaitSatisfied(t) \/ WaitTimedOut(t)
          \/ SleepAgain(t) \/ SpuriousWake(t)
          \/ SignalSema(t) \/ NotifyAll(t)

Spec == Init /\ [][Next]_vars

-----------------------------------------------------------------------------
(* Properties. *)

\* The type invariant; count stays between 0 and the semaphore's max_count.
TypeOK ==
    /\ semas \subseteq created /\ created \subseteq Handles
    /\ max_count \in [Handles -> 1 .. MaxCount]
    /\ count \in [Handles -> 0 .. MaxCount]
    /\ \A h \in Handles : count[h] <= max_count[h]
    /\ pc \in [Threads -> {"guest", "wait", "signal", "blocked", "notify"}]
    /\ sema \in [Threads -> Handles \cup {NoHandle}]
    /\ n \in [Threads -> Amounts]
    /\ timo \in [Threads -> {"none", "poll", "timed"}]
    /\ asleep \subseteq Threads
    /\ signals \in 0 .. MaxLife

\* No signal is lost in the gap between the count and the notify: a thread that
\* sleeps although its permits are there has a signaller on its way to wake it.
SleeperHasSignaller ==
    \A t \in asleep : Satisfied(t) =>
        \E s \in Threads : pc[s] = "notify" /\ sema[s] = sema[t]
=============================================================================
