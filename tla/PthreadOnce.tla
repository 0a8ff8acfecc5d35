---------------------------- MODULE PthreadOnce ----------------------------
(***************************************************************************)
(* scePthreadOnce of src/hle/libkernel_sync.cpp.  The control variable is  *)
(* put into g_once_done under g_once_lock and the guest's init routine is  *)
(* invoked after the lock is dropped; the routine may itself call          *)
(* scePthreadOnce.  And __cxa_guard_* of src/hle/liblibc.cpp, with which   *)
(* compiled code initialises its static variables: under g_guard_mutex,    *)
(* and one condition variable for the guards of the whole program.         *)
(***************************************************************************)
EXTENDS Naturals, Sequences

CONSTANTS Threads, NoThread, Onces  \* guest threads; once-control variables and guards

VARIABLES done,      \* g_once_done
          stack,     \* per thread, the control variables whose init it is running
          runs,      \* how many times the init of a variable was started
          completed, \* variables whose init has returned (the word set to 1)
          guard,     \* the guards whose byte is 1
          g_guard_in_progress, \* per guard, the thread that initialises, or NoThread
          guard_pc,  \* "guest", "waiting" in acquire, "notify" after release or abort
          wants,     \* per thread, the guards it asked for: under way, and the last awaited
          guard_asleep, \* threads in g_guard_cv.wait that no notify has reached
          guard_runs \* history: initialisations of a guard that came to their end

onceVars == <<done, stack, runs, completed>>
guardVars == <<guard, g_guard_in_progress, guard_pc, wants, guard_asleep, guard_runs>>

-----------------------------------------------------------------------------
\* Variant for the mutant runs: the test and the insert are apart, so the
\* insert is only made when the init routine has returned.
OnceInsertsLate(t, o) ==
    IF o \in completed
    THEN UNCHANGED onceVars
    ELSE /\ stack' = [stack EXCEPT ![t] = <<o>> \o @]
         /\ runs' = [runs EXCEPT ![o] = @ + 1]
         /\ UNCHANGED <<done, completed>>

\* The critical section, and the call of init_fn when it is the first.
ScePthreadOnce(t, o) ==
    IF o \in done
    THEN UNCHANGED onceVars
    ELSE /\ done' = done \cup {o}
         /\ stack' = [stack EXCEPT ![t] = <<o>> \o @]
         /\ runs' = [runs EXCEPT ![o] = @ + 1]
         /\ UNCHANGED completed

\* InvokeGuestFunction returns, the word is set and the call returns 0.
InitReturns(t) ==
    /\ stack[t] # <<>>
    /\ completed' = completed \cup {Head(stack[t])}
    /\ stack' = [stack EXCEPT ![t] = Tail(@)]
    /\ UNCHANGED <<done, runs>>

-----------------------------------------------------------------------------
\* A turn of the loop of CxaGuardAcquireImpl: the variable is initialised or the
\* thread's own (0), or free (1), or the thread waits.
AcquireTurn(t, o) ==
    IF o \in guard \/ g_guard_in_progress[o] = t
    THEN /\ guard_pc' = [guard_pc EXCEPT ![t] = "guest"]
         /\ wants' = [wants EXCEPT ![t] = IF guard_pc[t] = "waiting" THEN Tail(@) ELSE @]
         /\ UNCHANGED <<g_guard_in_progress, guard_asleep>>
    ELSE /\ wants' = [wants EXCEPT ![t] = IF guard_pc[t] = "waiting" THEN @ ELSE <<o>> \o @]
         /\ IF g_guard_in_progress[o] = NoThread
            THEN /\ g_guard_in_progress' = [g_guard_in_progress EXCEPT ![o] = t]
                 /\ guard_pc' = [guard_pc EXCEPT ![t] = "guest"]
                 /\ UNCHANGED guard_asleep
            ELSE /\ guard_pc' = [guard_pc EXCEPT ![t] = "waiting"]
                 /\ guard_asleep' = guard_asleep \cup {t}
                 /\ UNCHANGED g_guard_in_progress

CxaGuardAcquire(t, o) ==
    /\ guard_pc[t] = "guest"
    /\ AcquireTurn(t, o)
    /\ UNCHANGED <<guard, guard_runs>>

\* Variant for the mutant runs: who was woken takes the guard without looking again.
WakesWithoutTest(t) ==
    /\ guard_pc[t] = "waiting" /\ t \notin guard_asleep
    /\ g_guard_in_progress' = [g_guard_in_progress EXCEPT ![Head(wants[t])] = t]
    /\ guard_pc' = [guard_pc EXCEPT ![t] = "guest"]
    /\ UNCHANGED <<guard, wants, guard_asleep, guard_runs>>

\* Notified, the thread goes round the loop.
GuardWakes(t) ==
    /\ guard_pc[t] = "waiting" /\ t \notin guard_asleep
    /\ AcquireTurn(t, Head(wants[t]))
    /\ UNCHANGED <<guard, guard_runs>>

SpuriousWake(t) ==
    /\ t \in guard_asleep /\ guard_asleep' = guard_asleep \ {t}
    /\ UNCHANGED <<guard, g_guard_in_progress, guard_pc, wants, guard_runs>>

\* The initialiser of the innermost variable returns, or an exception leaves it.
GuardEnds(t, released) ==
    /\ guard_pc[t] = "guest" /\ wants[t] # <<>>
    /\ LET o == Head(wants[t]) IN
       /\ guard' = IF released THEN guard \cup {o} ELSE guard \ {o}
       /\ g_guard_in_progress' = [g_guard_in_progress EXCEPT ![o] = NoThread]
       /\ guard_runs' = [guard_runs EXCEPT ![o] = IF released THEN @ + 1 ELSE @]
    /\ wants' = [wants EXCEPT ![t] = Tail(@)]
    /\ guard_pc' = [guard_pc EXCEPT ![t] = "notify"]
    /\ UNCHANGED guard_asleep

\* Variant for the mutant runs: one thread is woken, whichever guard it waits for.
GuardNotifiesOne(t) ==
    /\ guard_pc[t] = "notify" /\ guard_pc' = [guard_pc EXCEPT ![t] = "guest"]
    /\ \/ guard_asleep = {} /\ UNCHANGED guard_asleep
       \/ \E u \in guard_asleep : guard_asleep' = guard_asleep \ {u}
    /\ UNCHANGED <<guard, g_guard_in_progress, wants, guard_runs>>

\* notify_all, with the mutex released.
GuardNotifies(t) ==
    /\ guard_pc[t] = "notify" /\ guard_pc' = [guard_pc EXCEPT ![t] = "guest"]
    /\ guard_asleep' = {}
    /\ UNCHANGED <<guard, g_guard_in_progress, wants, guard_runs>>

GuardNext ==
    /\ \E t \in Threads :
          \/ \E o \in Onces : CxaGuardAcquire(t, o)
          \/ GuardWakes(t) \/ SpuriousWake(t) \/ GuardNotifies(t)
          \/ \E released \in BOOLEAN : GuardEnds(t, released)
    /\ UNCHANGED onceVars

-----------------------------------------------------------------------------
Init ==
    /\ done = {}
    /\ stack = [t \in Threads |-> <<>>]
    /\ runs = [o \in Onces |-> 0]
    /\ completed = {}
    /\ guard = {}
    /\ g_guard_in_progress = [o \in Onces |-> NoThread]
    /\ guard_pc = [t \in Threads |-> "guest"]
    /\ wants = [t \in Threads |-> <<>>]
    /\ guard_asleep = {}
    /\ guard_runs = [o \in Onces |-> 0]

OnceNext ==
    /\ \E t \in Threads :
          \/ InitReturns(t)
          \/ \E o \in Onces : ScePthreadOnce(t, o)
    /\ UNCHANGED guardVars

Spec == Init /\ [][OnceNext \/ GuardNext]_<<onceVars, guardVars>>

-----------------------------------------------------------------------------
(* Properties. *)

\* Whatever the interleaving of callers and of nested init routines, the init
\* routine of a variable is started once at most.
InitRunsAtMostOnce == \A o \in Onces : runs[o] <= 1

\* Whoever waits for a static variable, however often its initialiser threw, it is
\* initialised to the end once at most.
GuardCompletesOnce == \A o \in Onces : guard_runs[o] <= 1

\* A thread asleep in acquire waits for a variable that another thread initialises,
\* or a notify of the one condition variable is still to come.
GuardSleeperIsWoken ==
    \A t \in guard_asleep :
        \/ g_guard_in_progress[Head(wants[t])] \notin {t, NoThread}
        \/ \E u \in Threads : guard_pc[u] = "notify"
=============================================================================
