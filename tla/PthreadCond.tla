---------------------------- MODULE PthreadCond ----------------------------
(***************************************************************************)
(* Guest condition variables of src/hle/libkernel_sync.cpp on top of the   *)
(* guest mutex.  A GuestCond is a sequence number, advanced by every       *)
(* signal under g_cond_map_lock, and a std::condition_variable that is     *)
(* notified after that lock is dropped.  CondWaitImpl samples the          *)
(* sequence, releases the guest mutex and starts to wait without giving up *)
(* g_cond_map_lock, waits until the sequence has moved, and takes the      *)
(* guest mutex back through its FIFO.                                      *)
(***************************************************************************)
EXTENDS GuestMutex, FiniteSets

CONSTANTS Conds,       \* GuestCond objects
          NoCond,      \* "not inside CondWaitImpl"
          Notifies,    \* which of "one" (signal) and "all" (broadcast, signalto) the guest uses
          MaxSequence  \* bound: signals and broadcasts on one variable

ASSUME PthreadCondAssumption ==
    /\ NoCond \notin Conds
    /\ Notifies \subseteq {"one", "all"}
    /\ MaxSequence \in Nat

VARIABLES sequence,    \* GuestCond::sequence
          cwait,       \* the condition variable the thread waits on, or NoCond
          cmutex,      \* the mutex it gives up meanwhile
          csample,     \* seq: the sequence number it sampled
          ctimed,      \* the wait is a wait_for
          casleep,     \* threads inside cv.wait that no notify has reached
          reacquiring, \* out of the wait, about to take the mutex back
          notifying,   \* a signaller between the increment and the notify
          ncond,       \* ... and its condition variable
          due          \* history: who was waiting when it incremented

condVars == <<sequence, cwait, cmutex, csample, ctimed, casleep,
              reacquiring, notifying, ncond, due>>
allVars  == <<mutexVars, condVars>>

\* The thread is in guest code and may make a call.
InGuest(t) ==
    /\ Ready(t)
    /\ cwait[t] = NoCond
    /\ t \notin reacquiring
    /\ notifying[t] = "none"

WaitersOn(c) == {t \in Threads : cwait[t] = c}

-----------------------------------------------------------------------------
\* Variant for the mutant runs: a mutex held twice is only unlocked once
\* before the wait begins.
CondWaitUnlocksOnce(t, c, o, isTimed) ==
    /\ InGuest(t)
    /\ IF owner[o] = t
       THEN /\ IF recursion[o] = 1
               THEN MutexHandoffLocked(o)
               ELSE /\ recursion' = [recursion EXCEPT ![o] = @ - 1]
                    /\ UNCHANGED <<owner, waiters, sleeping>>
            /\ held' = [held EXCEPT ![t][o] = @ - 1]
            /\ cwait' = [cwait EXCEPT ![t] = c]
            /\ cmutex' = [cmutex EXCEPT ![t] = o]
            /\ csample' = [csample EXCEPT ![t] = sequence[c]]
            /\ ctimed' = [ctimed EXCEPT ![t] = isTimed]
            /\ casleep' = casleep \cup {t}
            /\ UNCHANGED <<mtype, blocked, timed, sequence, reacquiring, notifying, ncond, due>>
       ELSE UNCHANGED allVars

\* The sequence is sampled, a mutex nobody holds is adopted, the mutex must
\* then be held exactly once (else EINVAL, nothing changed), and it is handed
\* over; g_cond_map_lock is held from the sample until the wait has begun.
CondWait(t, c, o, isTimed) ==
    /\ InGuest(t)
    /\ IF owner[o] = NoThread \/ (owner[o] = t /\ recursion[o] = 1)
       THEN /\ MutexHandoffLocked(o)
            /\ held' = [held EXCEPT ![t][o] = 0]
            /\ cwait' = [cwait EXCEPT ![t] = c]
            /\ cmutex' = [cmutex EXCEPT ![t] = o]
            /\ csample' = [csample EXCEPT ![t] = sequence[c]]
            /\ ctimed' = [ctimed EXCEPT ![t] = isTimed]
            /\ casleep' = casleep \cup {t}
            /\ UNCHANGED <<mtype, blocked, timed, sequence, reacquiring, notifying, ncond, due>>
       ELSE UNCHANGED allVars

Signalled(t) == sequence[cwait[t]] # csample[t]

\* Awake, the predicate holds (ok = true); or wait_for has expired, and ok is
\* whatever the predicate says.  Leaving the scope drops g_cond_map_lock.
CondWaitEnds(t) ==
    /\ cwait[t] # NoCond
    /\ ctimed[t] \/ (t \notin casleep /\ Signalled(t))
    /\ cwait' = [cwait EXCEPT ![t] = NoCond]
    /\ ctimed' = [ctimed EXCEPT ![t] = FALSE]
    /\ casleep' = casleep \ {t}
    /\ reacquiring' = reacquiring \cup {t}
    /\ due' = [u \in Threads |-> due[u] \ {t}]
    /\ UNCHANGED <<mutexVars, sequence, cmutex, csample, notifying, ncond>>

CondSleepAgain(t) ==
    /\ cwait[t] # NoCond
    /\ t \notin casleep
    /\ ~ Signalled(t)
    /\ casleep' = casleep \cup {t}
    /\ UNCHANGED <<mutexVars, sequence, cwait, cmutex, csample, ctimed, reacquiring, notifying, ncond, due>>

CondSpuriousWake(t) ==
    /\ t \in casleep
    /\ casleep' = casleep \ {t}
    /\ UNCHANGED <<mutexVars, sequence, cwait, cmutex, csample, ctimed, reacquiring, notifying, ncond, due>>

\* Variant for the mutant runs: the mutex is taken back past the FIFO.
ReacquirePastQueue(t) ==
    LET o == cmutex[t]
    IN  /\ t \in reacquiring
        /\ reacquiring' = reacquiring \ {t}
        /\ MutexAcquireLocked(o, t)
        /\ held' = [held EXCEPT ![t][o] = 1]
        /\ UNCHANGED <<mtype, waiters, blocked, timed, sleeping>>
        /\ UNCHANGED <<sequence, cwait, cmutex, csample, ctimed, casleep, notifying, ncond, due>>

\* Take the guest mutex back: at once when it is free and nobody queues,
\* otherwise at the end of its FIFO, where LockGranted finishes the call.
CondReacquire(t) ==
    LET o == cmutex[t]
    IN  /\ t \in reacquiring
        /\ reacquiring' = reacquiring \ {t}
        /\ \/ /\ owner[o] = NoThread /\ waiters[o] = <<>>
              /\ MutexAcquireLocked(o, t)
              /\ held' = [held EXCEPT ![t][o] = 1]
              /\ UNCHANGED <<mtype, waiters, blocked, timed, sleeping>>
           \/ /\ ~ (owner[o] = NoThread /\ waiters[o] = <<>>)
              /\ owner[o] # t
              /\ Queue(t, o, FALSE)
              /\ UNCHANGED <<owner, recursion, mtype, held>>
        /\ UNCHANGED <<sequence, cwait, cmutex, csample, ctimed, casleep, notifying, ncond, due>>

\* sequence++ under g_cond_map_lock ...
CondSignal(t, c, kind) ==
    /\ InGuest(t)
    /\ sequence[c] < MaxSequence
    /\ sequence' = [sequence EXCEPT ![c] = @ + 1]
    /\ notifying' = [notifying EXCEPT ![t] = kind]
    /\ ncond' = [ncond EXCEPT ![t] = c]
    /\ due' = [due EXCEPT ![t] = WaitersOn(c)]
    /\ UNCHANGED <<mutexVars, cwait, cmutex, csample, ctimed, casleep, reacquiring>>

\* Variant for the mutant runs: broadcast notifies a single waiter.
NotifyOneOnly(t) ==
    /\ notifying[t] # "none"
    /\ LET asleep == casleep \cap WaitersOn(ncond[t])
       IN  \/ \E u \in asleep : casleep' = casleep \ {u}
           \/ asleep = {} /\ UNCHANGED casleep
    /\ notifying' = [notifying EXCEPT ![t] = "none"]
    /\ UNCHANGED <<mutexVars, sequence, cwait, cmutex, csample, ctimed, reacquiring, ncond, due>>

\* ... and notify_one or notify_all with no lock held: it reaches whoever
\* waits by then, not whoever waited when the sequence moved.
CondNotify(t) ==
    /\ notifying[t] # "none"
    /\ LET asleep == casleep \cap WaitersOn(ncond[t])
       IN  \/ notifying[t] = "all" /\ casleep' = casleep \ asleep
           \/ notifying[t] = "one" /\ \E u \in asleep : casleep' = casleep \ {u}
           \/ notifying[t] = "one" /\ asleep = {} /\ UNCHANGED casleep
    /\ notifying' = [notifying EXCEPT ![t] = "none"]
    /\ UNCHANGED <<mutexVars, sequence, cwait, cmutex, csample, ctimed, reacquiring, ncond, due>>

-----------------------------------------------------------------------------
PthreadCondInit ==
    /\ GuestMutexInit
    /\ sequence = [c \in Conds |-> 0]
    /\ cwait = [t \in Threads |-> NoCond]
    /\ cmutex = [t \in Threads |-> NoObj]
    /\ csample = [t \in Threads |-> 0]
    /\ ctimed = [t \in Threads |-> FALSE]
    /\ casleep = {}
    /\ reacquiring = {}
    /\ notifying = [t \in Threads |-> "none"]
    /\ ncond = [t \in Threads |-> NoCond]
    /\ due = [t \in Threads |-> {}]

\* The mutex calls of the guest, and the threads blocked inside them.
MutexStep ==
    /\ \E t \in Threads :
          \/ InGuest(t) /\ \E o \in Objs : Unlock(t, o) \/ \E mode \in Modes : Lock(t, o, mode)
          \/ LockGranted(t)
          \/ LockTimedOut(t)
          \/ SleepAgain(t)
          \/ SpuriousWake(t)
    /\ UNCHANGED condVars

PthreadCondNext ==
    \/ MutexStep
    \/ \E t \in Threads :
          \/ \E c \in Conds, o \in Objs, isTimed \in BOOLEAN : CondWait(t, c, o, isTimed)
          \/ \E c \in Conds, kind \in Notifies : CondSignal(t, c, kind)
          \/ CondNotify(t)
          \/ CondWaitEnds(t)
          \/ CondSleepAgain(t)
          \/ CondSpuriousWake(t)
          \/ CondReacquire(t)

PthreadCondSpec == PthreadCondInit /\ [][PthreadCondNext]_allVars

\* A signaller that has incremented goes on to notify, a wait_for expires, a woken waiter runs, a
\* mutex holder unlocks, a granted or reacquiring thread proceeds.  Nothing
\* makes the guest signal, and nothing makes a wake-up without a notify happen.
PthreadCondFairness ==
    \A t \in Threads :
        /\ WF_allVars(CondNotify(t))
        /\ WF_allVars(CondWaitEnds(t))
        /\ WF_allVars(CondReacquire(t))
        /\ WF_allVars(LockGranted(t) /\ UNCHANGED condVars)
        /\ \A o \in Objs :
              WF_allVars(InGuest(t) /\ held[t][o] > 0 /\ Unlock(t, o) /\ UNCHANGED condVars)

PthreadCondFairSpec == PthreadCondSpec /\ PthreadCondFairness

-----------------------------------------------------------------------------
(* Properties. *)

\* The type invariant of the condition variables and of their waiters.
PthreadCondTypeOK ==
    /\ GuestMutexTypeOK
    /\ sequence \in [Conds -> Nat]
    /\ cwait \in [Threads -> Conds \cup {NoCond}]
    /\ cmutex \in [Threads -> Objs \cup {NoObj}]
    /\ csample \in [Threads -> Nat]
    /\ ctimed \in [Threads -> BOOLEAN]
    /\ casleep \in SUBSET Threads
    /\ reacquiring \in SUBSET Threads
    /\ notifying \in [Threads -> {"none", "one", "all"}]
    /\ ncond \in [Threads -> Conds \cup {NoCond}]
    /\ due \in [Threads -> SUBSET Threads]

\* A thread inside CondWaitImpl neither holds nor queues for any mutex it
\* locked once, until it comes back for it: waiting never blocks the others.
WaiterHoldsNothing ==
    \A t \in Threads : cwait[t] # NoCond \/ t \in reacquiring =>
        /\ blocked[t] = NoObj
        /\ held[t][cmutex[t]] = 0
        /\ owner[cmutex[t]] # t

\* No signal is missed by the thread that stands alone before it.  The comments
\* of GuestCond and of CondWaitImpl promise it: "a signal it did not observe is
\* detectable after the fact rather than being lost", "there is no window in
\* which it can be missed".
SignalReachesWaiter ==
    \A s, t \in Threads :
        notifying[s] = "one" /\ due[s] = {t} /\ ~ ctimed[t] ~> cwait[t] = NoCond

\* With broadcasts only, a thread that waits when the sequence moves comes back
\* from CondWaitImpl holding its mutex, while every holder unlocks.
BroadcastWaiterReturns ==
    \A s, t \in Threads :
        notifying[s] = "all" /\ t \in due[s] ~> InGuest(t)

-----------------------------------------------------------------------------
\* For TLC: threads are interchangeable in the safety instance.
CondSymmetry == Permutations(Threads)
=============================================================================
