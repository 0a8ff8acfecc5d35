----------------------------- MODULE MutexCalls -----------------------------
(***************************************************************************)
(* The calls that are built from MutexLockImpl and MutexUnlockImpl.        *)
(*                                                                         *)
(* sceKernelLockMutex and sceKernelUnlockMutex count. A lock of count n    *)
(* without a timeout is n blocking locks; with one it is n rounds of       *)
(* polling trylock that back out at the deadline; an unlock of count n is  *)
(* n unlocks whose results are ignored. Other threads run between any two  *)
(* of them. The objects, made Recursive, are the Objs of GuestMutex.       *)
(*                                                                         *)
(* scePthreadMutex* work on addresses of mutex variables. A variable holds *)
(* a token, the address of a 128-byte block of the guest heap, and         *)
(* g_mutexes maps the token to the host object. A variable that was        *)
(* statically initialised has no object: the first call that needs one     *)
(* promotes it. LookupOrCreateMutex reads the guest word with no lock,     *)
(* looks the token up under g_mutex_map_lock, and takes that lock once     *)
(* more to create an object after looking again. Tokens and objects are    *)
(* born and freed together: Objs stands for both.                          *)
(***************************************************************************)
EXTENDS GuestMutex, FiniteSets

(* Kernel mutexes. *)

CONSTANT MaxLevels   \* bound: the count of one call

VARIABLES call,      \* "none", "lock", "poll", "backout" or "unlock"
          handle,    \* the object of the call
          wanted,    \* levels still to take or to give back
          taken,     \* i: levels this call has taken
          before     \* history: levels held when the call began

callVars == <<call, handle, wanted, taken, before>>
kernelVars == <<mutexVars, callVars>>

\* The lock calls before this one took all their levels, and the unlocks gave
\* back those they could: what the thread holds between calls.
Begin(t, o, kind, n) ==
    /\ call[t] = "none"
    /\ kind # "unlock" => held[t][o] + n <= MaxRecursion
    /\ call' = [call EXCEPT ![t] = kind]
    /\ handle' = [handle EXCEPT ![t] = o]
    /\ wanted' = [wanted EXCEPT ![t] = n]
    /\ taken' = [taken EXCEPT ![t] = 0]
    /\ before' = [before EXCEPT ![t] = held[t][o]]
    /\ UNCHANGED mutexVars

\* All rounds are done: the call returns.
Return(t) ==
    /\ call[t] # "none" /\ wanted[t] = 0 /\ Ready(t)
    /\ call' = [call EXCEPT ![t] = "none"]
    /\ UNCHANGED <<mutexVars, handle, wanted, taken, before>>

\* One round that took a level.
Count(t) ==
    /\ wanted' = [wanted EXCEPT ![t] = @ - 1]
    /\ taken' = [taken EXCEPT ![t] = @ + 1]
    /\ UNCHANGED <<call, handle, before>>

\* A round of the untimed lock: it takes a level, or blocks inside it.
LockRound(t) ==
    /\ call[t] = "lock" /\ wanted[t] > 0 /\ Ready(t)
    /\ MutexLockImpl(t, handle[t], "lock")
    /\ IF blocked'[t] = NoObj THEN Count(t) ELSE UNCHANGED callVars

\* The blocked round is granted.
RoundGranted(t) == LockGranted(t) /\ Count(t)

\* A round of the timed lock: a trylock that finds the mutex free or its own.
PollRound(t) ==
    /\ call[t] = "poll" /\ wanted[t] > 0
    /\ MutexLockImpl(t, handle[t], "try")
    /\ IF held'[t][handle[t]] > held[t][handle[t]] THEN Count(t) ELSE UNCHANGED callVars

\* Variant for the mutant runs: the deadline is tested before the trylock of
\* every round, and the levels taken so far are kept.
DeadlineKeepsLevels(t) ==
    /\ call[t] = "poll" /\ wanted[t] > 0
    /\ call' = [call EXCEPT ![t] = "none"]
    /\ wanted' = [wanted EXCEPT ![t] = 0]
    /\ UNCHANGED <<mutexVars, handle, taken, before>>

\* EBUSY at the deadline: give back what this call has taken, then ETIMEDOUT.
Deadline(t) ==
    /\ call[t] = "poll" /\ wanted[t] > 0
    /\ owner[handle[t]] \notin {t, NoThread}
    /\ call' = [call EXCEPT ![t] = "backout"]
    /\ wanted' = [wanted EXCEPT ![t] = taken[t]]
    /\ UNCHANGED <<mutexVars, handle, taken, before>>

\* One unlock of an unlock call or of the back-out.
UnlockRound(t) ==
    /\ call[t] \in {"unlock", "backout"} /\ wanted[t] > 0
    /\ MutexUnlockImpl(t, handle[t])
    /\ wanted' = [wanted EXCEPT ![t] = @ - 1]
    /\ UNCHANGED <<call, handle, taken, before>>

BlockedStep(t) == (SleepAgain(t) \/ SpuriousWake(t)) /\ UNCHANGED callVars

-----------------------------------------------------------------------------
KernelMutexInit ==
    /\ GuestMutexInit
    /\ call = [t \in Threads |-> "none"]
    /\ handle = [t \in Threads |-> NoObj]
    /\ wanted = [t \in Threads |-> 0]
    /\ taken = [t \in Threads |-> 0]
    /\ before = [t \in Threads |-> 0]

KernelMutexNext ==
    \E t \in Threads :
        \/ \E o \in Objs, kind \in {"lock", "poll", "unlock"}, n \in 1 .. MaxLevels : Begin(t, o, kind, n)
        \/ LockRound(t) \/ RoundGranted(t) \/ BlockedStep(t)
        \/ PollRound(t) \/ Deadline(t) \/ UnlockRound(t)
        \/ Return(t)

KernelMutexSpec == KernelMutexInit /\ [][KernelMutexNext]_kernelVars

-----------------------------------------------------------------------------
(* Properties. *)

\* The type invariant of the calls under way.
KernelMutexTypeOK ==
    /\ GuestMutexTypeOK
    /\ call \in [Threads -> {"none", "lock", "poll", "backout", "unlock"}]
    /\ handle \in [Threads -> Objs \cup {NoObj}]
    /\ wanted \in [Threads -> 0 .. MaxLevels]
    /\ taken \in [Threads -> 0 .. MaxLevels]
    /\ before \in [Threads -> 0 .. MaxRecursion]

\* A lock call takes all of its levels or, timed out, none: when it returns
\* the thread holds what it held before and the whole count or nothing.
LockIsAllOrNothing ==
    [][\A t \in Threads : call[t] \in {"lock", "poll", "backout"} /\ call'[t] = "none" =>
          LET n == held'[t][handle[t]] - before[t]
          IN  IF call[t] = "lock" THEN n > 0 /\ n = taken[t] ELSE n \in {0, taken[t] + wanted[t]}]_kernelVars

-----------------------------------------------------------------------------
(* Mutex variables. *)

CONSTANTS Vars, NoVar,    \* addresses of mutex variables; the thread is in no call
          Zero, Adaptive  \* the static initialisers 0 and 1

VARIABLES word,      \* the guest word at each variable: an initialiser or a token
          mutexes,   \* the keys of g_mutexes
          var,       \* the variable a thread's call is about
          op,        \* the call: a mode of lock, or "unlock"
          step,      \* "guest", then "find", "create" or "found" inside the lookup
          token      \* the token it read, the object it found

lookupVars == <<word, mutexes, var, op, step, token>>
variableVars == <<mutexVars, lookupVars>>

Calls == Modes \cup {"unlock"}

\* Heap blocks that are not in use.
FreeObjs == Objs \ mutexes

-----------------------------------------------------------------------------
\* The call begins: the word is read with no lock held; an initialiser skips
\* the first search of the map, and unlock, which never creates, then fails.
ReadToken(t, v, c) ==
    /\ Ready(t) /\ step[t] = "guest"
    /\ token' = [token EXCEPT ![t] = word[v]]
    /\ IF word[v] \notin Objs /\ c = "unlock"
       THEN UNCHANGED <<var, op, step>>
       ELSE /\ var' = [var EXCEPT ![t] = v]
            /\ op' = [op EXCEPT ![t] = c]
            /\ step' = [step EXCEPT ![t] = IF word[v] \in Objs THEN "find" ELSE "create"]
    /\ UNCHANGED <<mutexVars, word, mutexes>>

\* The token is looked up under g_mutex_map_lock.
FindToken(t) ==
    /\ step[t] = "find"
    /\ \/ /\ token[t] \in mutexes
          /\ step' = [step EXCEPT ![t] = "found"]
          /\ UNCHANGED var
       \/ /\ token[t] \notin mutexes /\ op[t] # "unlock"
          /\ step' = [step EXCEPT ![t] = "create"]
          /\ UNCHANGED var
       \/ /\ token[t] \notin mutexes /\ op[t] = "unlock"
          /\ step' = [step EXCEPT ![t] = "guest"]
          /\ var' = [var EXCEPT ![t] = NoVar]
    /\ UNCHANGED <<mutexVars, word, mutexes, op, token>>

\* A new object for v in the block o: its word names it from now on.
NewMutex(o, v, type) ==
    /\ o \in FreeObjs
    /\ mutexes' = mutexes \cup {o}
    /\ word' = [word EXCEPT ![v] = o]
    /\ owner' = [owner EXCEPT ![o] = NoThread]
    /\ recursion' = [recursion EXCEPT ![o] = 0]
    /\ mtype' = [mtype EXCEPT ![o] = type]
    /\ waiters' = [waiters EXCEPT ![o] = <<>>]

StaticType(w) == IF w = Adaptive THEN "AdaptiveNp" ELSE "ErrorCheck"

\* Variant for the mutant runs: the second look at the word is missing.
CreateMutexUnchecked(t) ==
    /\ step[t] = "create"
    /\ step' = [step EXCEPT ![t] = "found"]
    /\ \E o \in FreeObjs :
          /\ NewMutex(o, var[t], StaticType(token[t]))
          /\ token' = [token EXCEPT ![t] = o]
    /\ UNCHANGED <<var, op, blocked, timed, sleeping, held>>

\* "Double check after acquiring lock": somebody may have promoted the
\* variable meanwhile; otherwise a new object is made for it.
CreateMutex(t) ==
    LET v == var[t]
    IN  /\ step[t] = "create"
        /\ step' = [step EXCEPT ![t] = "found"]
        /\ IF word[v] \in mutexes
           THEN /\ token' = [token EXCEPT ![t] = word[v]]
                /\ UNCHANGED <<mutexVars, word, mutexes>>
           ELSE \E o \in FreeObjs :
                   /\ NewMutex(o, v, StaticType(word[v]))
                   /\ token' = [token EXCEPT ![t] = o]
                   /\ UNCHANGED <<blocked, timed, sleeping, held>>
        /\ UNCHANGED <<var, op>>

\* The call proper, on the object that was found.
Perform(t) ==
    /\ step[t] = "found"
    /\ IF op[t] = "unlock" THEN MutexUnlockImpl(t, token[t])
                           ELSE MutexLockImpl(t, token[t], op[t])
    /\ step' = [step EXCEPT ![t] = "guest"]
    /\ var' = [var EXCEPT ![t] = NoVar]
    /\ UNCHANGED <<word, mutexes, op, token>>

\* Nobody is in a call on the variable and nobody holds or waits for its mutex:
\* what POSIX asks of the guest before init and destroy.
Unused(v) ==
    /\ \A t \in Threads : var[t] # v
    /\ word[v] \in mutexes =>
          /\ owner[word[v]] = NoThread /\ waiters[word[v]] = <<>>
          /\ \A t \in Threads : blocked[t] # word[v]

\* scePthreadMutexInit, with the type of the attribute.
ScePthreadMutexInit(v, type) ==
    /\ Unused(v) /\ word[v] \notin mutexes
    /\ \E o \in FreeObjs : NewMutex(o, v, type)
    /\ UNCHANGED <<var, op, step, token, blocked, timed, sleeping, held>>

\* Variant for the mutant runs: the word is zeroed but the object stays in the map.
DestroyKeepsObject(v) ==
    /\ Unused(v)
    /\ word' = [word EXCEPT ![v] = Zero]
    /\ UNCHANGED <<mutexVars, mutexes, var, op, step, token>>

\* scePthreadMutexDestroy frees the object and the block and zeroes the word.
ScePthreadMutexDestroy(v) ==
    /\ Unused(v)
    /\ mutexes' = mutexes \ {word[v]}
    /\ word' = [word EXCEPT ![v] = Zero]
    /\ UNCHANGED <<mutexVars, var, op, step, token>>

\* The threads blocked inside MutexLockImpl.
BlockedInLock ==
    /\ \E t \in Threads : LockGranted(t) \/ LockTimedOut(t) \/ SleepAgain(t) \/ SpuriousWake(t)
    /\ UNCHANGED lookupVars

-----------------------------------------------------------------------------
MutexVariablesInit ==
    /\ GuestMutexInit
    /\ word \in [Vars -> {Zero, Adaptive}]
    /\ mutexes = {}
    /\ var = [t \in Threads |-> NoVar]
    /\ op = [t \in Threads |-> "unlock"]
    /\ step = [t \in Threads |-> "guest"]
    /\ token = [t \in Threads |-> Zero]

MutexVariablesNext ==
    \/ \E t \in Threads :
          \/ \E v \in Vars, c \in Calls : ReadToken(t, v, c)
          \/ FindToken(t)
          \/ CreateMutex(t)
          \/ Perform(t)
    \/ \E v \in Vars :
          \/ \E type \in Types : ScePthreadMutexInit(v, type)
          \/ ScePthreadMutexDestroy(v)
    \/ BlockedInLock

MutexVariablesSpec == MutexVariablesInit /\ [][MutexVariablesNext]_variableVars

-----------------------------------------------------------------------------
(* Properties. *)

\* The type invariant of the variables and of the lookups under way.
MutexVariablesTypeOK ==
    /\ GuestMutexTypeOK
    /\ word \in [Vars -> Objs \cup {Zero, Adaptive}]
    /\ mutexes \in SUBSET Objs
    /\ var \in [Threads -> Vars \cup {NoVar}]
    /\ op \in [Threads -> Calls]
    /\ step \in [Threads -> {"guest", "find", "create", "found"}]
    /\ token \in [Threads -> Objs \cup {Zero, Adaptive}]

\* However many threads make the first call on a statically initialised
\* variable at once, one object is made for it: no object is in the map that
\* no variable names, and no two variables share one.
OneObjectPerVariable ==
    /\ mutexes = {word[v] : v \in {x \in Vars : word[x] \in Objs}}
    /\ \A v, x \in Vars : word[v] \in mutexes /\ word[v] = word[x] => v = x

\* Nobody holds or waits for an object that has been freed.
NoUseAfterDestroy ==
    \A t \in Threads, o \in Objs \ mutexes : held[t][o] = 0 /\ blocked[t] # o

\* A variable is a FIFO lock from its first use to its destruction, whichever
\* object stands behind it at the time.
VariableQueue == [v \in Vars |-> IF word[v] \in mutexes THEN LockQueue[word[v]] ELSE <<>>]

VariableFifo == INSTANCE FifoLock WITH Locks <- Vars, queue <- VariableQueue

VariablesAreFifoLocks == VariableFifo!FifoSpec
=============================================================================
