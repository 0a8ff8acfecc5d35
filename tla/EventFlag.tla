----------------------------- MODULE EventFlag -----------------------------
(***************************************************************************)
(* sceKernel event flags of src/hle/libkernel_sync.cpp: a word of bits, a  *)
(* mutex and a condition variable behind a handle.  Set raises bits under  *)
(* the mutex and notifies after it; a wait returns when any or all bits of *)
(* its pattern are set, and clears the pattern, the word, or nothing, in   *)
(* the same critical section.                                              *)
(***************************************************************************)
EXTENDS Integers, FiniteSets

CONSTANTS Threads, Handles, NoHandle,
          Bits,      \* the bits of the word the guest uses
          WaitArgs,  \* the arguments of the waits: records like NoArg
          MaxSets    \* bound: calls of set

VARIABLES eflags,   \* g_eflags: the handles in the map
          created,  \* the handles given out so far
          bits,     \* GuestEventFlag::bits
          pc,       \* "guest", "wait", "set" or "clear" (object found), "blocked", "notify"
          flag,     \* the shared_ptr a call holds
          arg,      \* the arguments of the call: pattern, test, clear and timo
          asleep,   \* threads inside cv.wait that no notify has reached
          sets,     \* calls of set so far
          unspent   \* history: per flag and bit, how often it was raised less how
                    \* often a wait that clears it returned on it

vars == <<eflags, created, bits, pc, flag, arg, asleep, sets, unspent>>

NoArg == [pattern |-> {}, test |-> "and", clear |-> "keep", timo |-> "none"]

Patterns == SUBSET Bits \ {{}}

Done(t) ==
    /\ pc' = [pc EXCEPT ![t] = "guest"]
    /\ flag' = [flag EXCEPT ![t] = NoHandle]
    /\ arg' = [arg EXCEPT ![t] = NoArg]

Satisfied(t) ==
    IF arg[t].test = "or" THEN bits[flag[t]] \cap arg[t].pattern # {}
                      ELSE arg[t].pattern \subseteq bits[flag[t]]

\* What the wait of t leaves of the word.
Cleared(t) ==
    CASE arg[t].clear = "pattern" -> bits[flag[t]] \ arg[t].pattern
      [] arg[t].clear = "all"     -> {}
      [] arg[t].clear = "keep"    -> bits[flag[t]]

\* The bits the wait of t returned on and cleared.
SpentBy(t) == IF arg[t].clear = "keep" THEN {} ELSE bits[flag[t]] \cap arg[t].pattern

-----------------------------------------------------------------------------
SceKernelCreateEventFlag(h, init) ==
    /\ h \in Handles \ created
    /\ created' = created \cup {h}
    /\ eflags' = eflags \cup {h}
    /\ bits' = [bits EXCEPT ![h] = init]
    /\ unspent' = [unspent EXCEPT ![h] = [b \in Bits |-> IF b \in init THEN 1 ELSE 0]]
    /\ UNCHANGED <<pc, flag, arg, asleep, sets>>

SceKernelDeleteEventFlag(h) ==
    /\ eflags' = eflags \ {h}
    /\ UNCHANGED <<created, bits, pc, flag, arg, asleep, sets, unspent>>

\* FindEventFlag under g_eflag_lock; EINVAL without an object, and for a wait
\* with an empty pattern.
FindEventFlag(t, h, kind, a) ==
    /\ pc[t] = "guest" /\ h \in eflags
    /\ pc' = [pc EXCEPT ![t] = kind]
    /\ flag' = [flag EXCEPT ![t] = h]
    /\ arg' = [arg EXCEPT ![t] = a]
    /\ UNCHANGED <<eflags, created, bits, asleep, sets, unspent>>

\* Variant for the mutant runs: the bits are cleared for nobody.
ReturnKeepsBits(t) ==
    /\ unspent' = [unspent EXCEPT ![flag[t]] = [b \in Bits |-> IF b \in SpentBy(t) THEN @[b] - 1 ELSE @[b]]]
    /\ asleep' = asleep \ {t}
    /\ Done(t)
    /\ UNCHANGED <<bits, eflags, created, sets>>

\* The end of a successful wait, in the critical section of its test.
ReturnFromWait(t) ==
    /\ bits' = [bits EXCEPT ![flag[t]] = Cleared(t)]
    /\ unspent' = [unspent EXCEPT ![flag[t]] = [b \in Bits |-> IF b \in SpentBy(t) THEN @[b] - 1 ELSE @[b]]]
    /\ asleep' = asleep \ {t}
    /\ Done(t)
    /\ UNCHANGED <<eflags, created, sets>>

\* WaitEventFlagImpl: return at once, give up at once, or start to wait.
WaitAtOnce(t) == pc[t] = "wait" /\ Satisfied(t) /\ ReturnFromWait(t)

PollFails(t) ==
    /\ pc[t] = "wait" /\ ~ Satisfied(t) /\ arg[t].timo = "poll"
    /\ Done(t)
    /\ UNCHANGED <<eflags, created, bits, asleep, sets, unspent>>

StartToWait(t) ==
    /\ pc[t] = "wait" /\ ~ Satisfied(t) /\ arg[t].timo # "poll"
    /\ pc' = [pc EXCEPT ![t] = "blocked"]
    /\ asleep' = asleep \cup {t}
    /\ UNCHANGED <<eflags, created, bits, flag, arg, sets, unspent>>

\* Awake or out of time, with the predicate true.
WaitSatisfied(t) ==
    /\ pc[t] = "blocked"
    /\ t \notin asleep \/ arg[t].timo = "timed"
    /\ Satisfied(t)
    /\ ReturnFromWait(t)

WaitTimedOut(t) ==
    /\ pc[t] = "blocked" /\ arg[t].timo = "timed" /\ ~ Satisfied(t)
    /\ asleep' = asleep \ {t}
    /\ Done(t)
    /\ UNCHANGED <<eflags, created, bits, sets, unspent>>

SleepAgain(t) ==
    /\ pc[t] = "blocked" /\ t \notin asleep /\ ~ Satisfied(t)
    /\ asleep' = asleep \cup {t}
    /\ UNCHANGED <<eflags, created, bits, pc, flag, arg, sets, unspent>>

SpuriousWake(t) ==
    /\ t \in asleep
    /\ asleep' = asleep \ {t}
    /\ UNCHANGED <<eflags, created, bits, pc, flag, arg, sets, unspent>>

\* The bits are raised under ef->m ...
SetBits(t) ==
    /\ pc[t] = "set" /\ sets < MaxSets
    /\ bits' = [bits EXCEPT ![flag[t]] = @ \cup arg[t].pattern]
    /\ unspent' = [unspent EXCEPT ![flag[t]] = [b \in Bits |-> IF b \in arg[t].pattern THEN @[b] + 1 ELSE @[b]]]
    /\ sets' = sets + 1
    /\ pc' = [pc EXCEPT ![t] = "notify"]
    /\ UNCHANGED <<eflags, created, flag, arg, asleep>>

\* Variant for the mutant runs: one waiter is notified.
NotifyOne(t) ==
    LET on == {u \in asleep : flag[u] = flag[t]}
    IN  /\ pc[t] = "notify"
        /\ \/ \E u \in on : asleep' = asleep \ {u}
           \/ on = {} /\ UNCHANGED asleep
        /\ Done(t)
        /\ UNCHANGED <<eflags, created, bits, sets, unspent>>

\* ... and all waiters are notified with no lock held.
NotifyAll(t) ==
    /\ pc[t] = "notify"
    /\ asleep' = asleep \ {u \in Threads : flag[u] = flag[t]}
    /\ Done(t)
    /\ UNCHANGED <<eflags, created, bits, sets, unspent>>

ClearBits(t) ==
    /\ pc[t] = "clear"
    /\ bits' = [bits EXCEPT ![flag[t]] = @ \ arg[t].pattern]
    /\ Done(t)
    /\ UNCHANGED <<eflags, created, asleep, sets, unspent>>

-----------------------------------------------------------------------------
Init ==
    /\ eflags = {} /\ created = {}
    /\ bits = [h \in Handles |-> {}]
    /\ pc = [t \in Threads |-> "guest"]
    /\ flag = [t \in Threads |-> NoHandle]
    /\ arg = [t \in Threads |-> NoArg]
    /\ asleep = {}
    /\ sets = 0
    /\ unspent = [h \in Handles |-> [b \in Bits |-> 0]]

ThreadStep(t) ==
    \/ \E h \in Handles :
          \/ \E a \in WaitArgs : FindEventFlag(t, h, "wait", a)
          \/ \E p \in Patterns, kind \in {"set", "clear"} :
                FindEventFlag(t, h, kind, [NoArg EXCEPT !.pattern = p])
    \/ WaitAtOnce(t) \/ PollFails(t) \/ StartToWait(t)
    \/ WaitSatisfied(t) \/ WaitTimedOut(t) \/ SleepAgain(t) \/ SpuriousWake(t)
    \/ SetBits(t) \/ NotifyAll(t) \/ ClearBits(t)

Next ==
    \/ \E t \in Threads : ThreadStep(t)
    \/ \E h \in Handles :
          SceKernelDeleteEventFlag(h) \/ \E init \in SUBSET Bits : SceKernelCreateEventFlag(h, init)

Spec == Init /\ [][Next]_vars

-----------------------------------------------------------------------------
(* Properties. *)

\* The type invariant of the flags and of the calls under way.
TypeOK ==
    /\ eflags \subseteq created /\ created \subseteq Handles
    /\ bits \in [Handles -> SUBSET Bits]
    /\ pc \in [Threads -> {"guest", "wait", "set", "clear", "blocked", "notify"}]
    /\ flag \in [Threads -> Handles \cup {NoHandle}]
    /\ \A t \in Threads : pc[t] # "guest" => flag[t] \in created
    /\ arg \in [Threads -> [pattern : SUBSET Bits, test : {"and", "or"},
                           clear : {"keep", "pattern", "all"}, timo : {"none", "poll", "timed"}]]
    /\ asleep \subseteq {t \in Threads : pc[t] = "blocked"}
    /\ sets \in 0 .. MaxSets

\* No set is lost in the gap between raising the bits and the notify.
SleeperHasSetter ==
    \A t \in asleep : Satisfied(t) =>
        \E s \in Threads : pc[s] = "notify" /\ flag[s] = flag[t]

\* Raising a bit once releases at most one of the waits that clear it, however
\* many threads the notify wakes.
BitReleasesOneClearingWait ==
    \A h \in Handles, b \in Bits : unspent[h][b] >= 0
=============================================================================
