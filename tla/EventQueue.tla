----------------------------- MODULE EventQueue -----------------------------
(***************************************************************************)
(* sceKernel event queues of src/hle/libkernel_sync.cpp, which the guest   *)
(* waits on and to which libSceVideoOut posts flip and vblank events.      *)
(* Behind a handle there is a vector of events, each pending or not, a     *)
(* mutex and a condition variable.  An event is armed under the mutex; the *)
(* waiters are notified after it, except for read events, which are armed  *)
(* and not notified at all.  No caller sets EV_ONESHOT, so an event stays  *)
(* in the vector when it has been delivered.                               *)
(***************************************************************************)
EXTENDS Integers, Sequences, FiniteSets

CONSTANTS Threads, Handles, NoHandle,
          Idents,    \* event identifiers
          Filters,   \* among "user", "read" and "video" (what SceKernelPostEvent passes)
          Kinds,     \* among "none" (no timeout), "poll", "timed"
          MaxSlots,  \* bound: kevents the guest buffer takes in one wait
          MaxPosts   \* bound: times an event is armed

VARIABLES equeues,  \* g_equeues: the handles in the map
          created,  \* the handles given out so far
          events,   \* GuestEqueue::events
          pc,       \* "guest", an operation whose object was found, "blocked" or "notify"
          eq,       \* the shared_ptr a call holds
          key,      \* the event a call is about
          slots, timo, \* the arguments of a wait
          asleep,   \* threads inside cv.wait that no notify has reached
          posts,    \* times an event was armed
          unspent,  \* history: per queue and event, armed less delivered
          empty     \* history: threads whose untimed wait has returned no event

vars == <<equeues, created, events, pc, eq, key, slots, timo, asleep, posts, unspent, empty>>

Keys == [ident : Idents, filter : Filters]
NoKey == [ident |-> "none", filter |-> "none"]

Places(h, k) == {i \in 1 .. Len(events[h]) : events[h][i].key = k}
HasPending(h) == \E i \in 1 .. Len(events[h]) : events[h][i].pending

Done(t) ==
    /\ pc' = [pc EXCEPT ![t] = "guest"]
    /\ eq' = [eq EXCEPT ![t] = NoHandle]
    /\ key' = [key EXCEPT ![t] = NoKey]
    /\ slots' = [slots EXCEPT ![t] = 0]
    /\ timo' = [timo EXCEPT ![t] = "none"]

-----------------------------------------------------------------------------
SceKernelCreateEqueue(h) ==
    /\ h \in Handles \ created
    /\ created' = created \cup {h}
    /\ equeues' = equeues \cup {h}
    /\ UNCHANGED <<events, pc, eq, key, slots, timo, asleep, posts, unspent, empty>>

SceKernelDeleteEqueue(h) ==
    /\ equeues' = equeues \ {h}
    /\ UNCHANGED <<created, events, pc, eq, key, slots, timo, asleep, posts, unspent, empty>>

\* FindEqueue under g_equeue_lock: the first half of every call on a handle.
FindEqueue(t, h, operation, k, n, kind) ==
    /\ pc[t] = "guest" /\ h \in equeues
    /\ pc' = [pc EXCEPT ![t] = operation]
    /\ eq' = [eq EXCEPT ![t] = h]
    /\ key' = [key EXCEPT ![t] = k]
    /\ slots' = [slots EXCEPT ![t] = n]
    /\ timo' = [timo EXCEPT ![t] = kind]
    /\ UNCHANGED <<equeues, created, events, asleep, posts, unspent, empty>>

\* The positions DrainEqueueEvents delivers: the first pending ones the buffer
\* takes; a buffer that faults takes fewer than its capacity.
Delivered(h, n) ==
    LET pending == {i \in 1 .. Len(events[h]) : events[h][i].pending}
    IN  {i \in pending : Cardinality({j \in pending : j <= i}) <= n}

\* Variant for the mutant runs: delivered events stay pending.
DrainKeepsPending(t) ==
    LET h == eq[t]
        out == Delivered(h, slots[t])
    IN  /\ unspent' = [unspent EXCEPT ![h] =
               [k \in Keys |-> @[k] - Cardinality({i \in out : events[h][i].key = k})]]
        /\ empty' = IF out = {} /\ slots[t] > 0 /\ timo[t] = "none" THEN empty \cup {t} ELSE empty
        /\ asleep' = asleep \ {t}
        /\ Done(t)
        /\ UNCHANGED <<events, equeues, created, posts>>

\* The end of a wait: deliver under eq->m and return.
DrainEqueueEvents(t) ==
    LET h == eq[t]
        out == Delivered(h, slots[t])
    IN  /\ events' = [events EXCEPT ![h] =
               [i \in 1 .. Len(@) |-> IF i \in out THEN [@[i] EXCEPT !.pending = FALSE] ELSE @[i]]]
        /\ unspent' = [unspent EXCEPT ![h] =
               [k \in Keys |-> @[k] - Cardinality({i \in out : events[h][i].key = k})]]
        /\ empty' = IF out = {} /\ slots[t] > 0 /\ timo[t] = "none" THEN empty \cup {t} ELSE empty
        /\ asleep' = asleep \ {t}
        /\ Done(t)
        /\ UNCHANGED <<equeues, created, posts>>

WaitAtOnce(t) ==
    /\ pc[t] = "wait"
    /\ HasPending(eq[t]) \/ timo[t] = "poll"
    /\ DrainEqueueEvents(t)

StartToWait(t) ==
    /\ pc[t] = "wait"
    /\ ~ HasPending(eq[t]) /\ timo[t] # "poll"
    /\ pc' = [pc EXCEPT ![t] = "blocked"]
    /\ asleep' = asleep \cup {t}
    /\ UNCHANGED <<equeues, created, events, eq, key, slots, timo, posts, unspent, empty>>

\* Variant for the mutant runs: a woken waiter does not look whether another
\* one has taken the events.
WaitEndsUntested(t) ==
    /\ pc[t] = "blocked"
    /\ t \notin asleep \/ timo[t] = "timed"
    /\ DrainEqueueEvents(t)

\* Awake with an event pending, or out of time with whatever is pending.
WaitEnds(t) ==
    /\ pc[t] = "blocked"
    /\ (t \notin asleep /\ HasPending(eq[t])) \/ timo[t] = "timed"
    /\ DrainEqueueEvents(t)

SleepAgain(t) ==
    /\ pc[t] = "blocked" /\ t \notin asleep /\ ~ HasPending(eq[t])
    /\ asleep' = asleep \cup {t}
    /\ UNCHANGED <<equeues, created, events, pc, eq, key, slots, timo, posts, unspent, empty>>

SpuriousWake(t) ==
    /\ t \in asleep
    /\ asleep' = asleep \ {t}
    /\ UNCHANGED <<equeues, created, events, pc, eq, key, slots, timo, posts, unspent, empty>>

\* AddUserEvent: idle, and only if there is none for the identifier.
AddUserEvent(t) ==
    /\ pc[t] = "adduser"
    /\ events' = IF Places(eq[t], key[t]) # {} THEN events
                 ELSE [events EXCEPT ![eq[t]] = Append(@, [key |-> key[t], pending |-> FALSE])]
    /\ Done(t)
    /\ UNCHANGED <<equeues, created, asleep, posts, unspent, empty>>

\* The first place of the event the call is about.
FirstPlace(h, k) == CHOOSE i \in Places(h, k) : \A j \in Places(h, k) : i <= j

\* The erase of a vector.
Erase(w, i) == SubSeq(w, 1, i - 1) \o SubSeq(w, i + 1, Len(w))

\* DeleteUserEvent erases the first one it finds, pending or not.
DeleteUserEvent(t) ==
    /\ pc[t] = "deleteuser"
    /\ events' = IF Places(eq[t], key[t]) = {} THEN events
                 ELSE [events EXCEPT ![eq[t]] = Erase(@, FirstPlace(eq[t], key[t]))]
    /\ unspent' = [unspent EXCEPT ![eq[t]][key[t]] = 0]
    /\ Done(t)
    /\ UNCHANGED <<equeues, created, asleep, posts, empty>>

Arm(h, k) ==
    /\ posts < MaxPosts
    /\ posts' = posts + 1
    /\ unspent' = [unspent EXCEPT ![h][k] = @ + 1]
    /\ events' = IF Places(h, k) = {}
                 THEN [events EXCEPT ![h] = Append(@, [key |-> k, pending |-> TRUE])]
                 ELSE [events EXCEPT ![h] = [i \in 1 .. Len(@) |-> IF i \in Places(h, k)
                                                 THEN [@[i] EXCEPT !.pending = TRUE] ELSE @[i]]]

\* AddReadEvent: armed once if it is new; the condition variable is not notified.
AddReadEvent(t) ==
    /\ pc[t] = "addread"
    /\ IF Places(eq[t], key[t]) # {} THEN UNCHANGED <<events, posts, unspent>> ELSE Arm(eq[t], key[t])
    /\ Done(t)
    /\ UNCHANGED <<equeues, created, asleep, empty>>

\* TriggerUserEvent and SceKernelPostEvent: the event is added if it is missing
\* and armed, under eq->m ...
Post(t) ==
    /\ pc[t] = "post"
    /\ Arm(eq[t], key[t])
    /\ pc' = [pc EXCEPT ![t] = "notify"]
    /\ UNCHANGED <<equeues, created, eq, key, slots, timo, asleep, empty>>

\* Variant for the mutant runs: nobody is notified.
NotifyNobody(t) ==
    /\ pc[t] = "notify"
    /\ Done(t)
    /\ UNCHANGED <<equeues, created, events, asleep, posts, unspent, empty>>

\* ... and every waiter is notified with no lock held.
NotifyAll(t) ==
    /\ pc[t] = "notify"
    /\ asleep' = asleep \ {u \in Threads : eq[u] = eq[t]}
    /\ Done(t)
    /\ UNCHANGED <<equeues, created, events, posts, unspent, empty>>

-----------------------------------------------------------------------------
Init ==
    /\ equeues = {} /\ created = {}
    /\ events = [h \in Handles |-> <<>>]
    /\ pc = [t \in Threads |-> "guest"]
    /\ eq = [t \in Threads |-> NoHandle]
    /\ key = [t \in Threads |-> NoKey]
    /\ slots = [t \in Threads |-> 0]
    /\ timo = [t \in Threads |-> "none"]
    /\ asleep = {} /\ posts = 0
    /\ unspent = [h \in Handles |-> [k \in Keys |-> 0]]
    /\ empty = {}

Calls(t, h) ==
    \/ \E n \in 0 .. MaxSlots, kind \in Kinds : FindEqueue(t, h, "wait", NoKey, n, kind)
    \/ \E k \in Keys :
          \/ k.filter = "user" /\ FindEqueue(t, h, "adduser", k, 0, "none")
          \/ k.filter = "user" /\ FindEqueue(t, h, "deleteuser", k, 0, "none")
          \/ k.filter = "read" /\ FindEqueue(t, h, "addread", k, 0, "none")
          \/ k.filter # "read" /\ FindEqueue(t, h, "post", k, 0, "none")

ThreadStep(t) ==
    \/ \E h \in Handles : Calls(t, h)
    \/ WaitAtOnce(t) \/ StartToWait(t) \/ WaitEnds(t) \/ SleepAgain(t) \/ SpuriousWake(t)
    \/ AddUserEvent(t) \/ DeleteUserEvent(t) \/ AddReadEvent(t) \/ Post(t) \/ NotifyAll(t)

Next ==
    \/ \E t \in Threads : ThreadStep(t)
    \/ \E h \in Handles : SceKernelCreateEqueue(h) \/ SceKernelDeleteEqueue(h)

Spec == Init /\ [][Next]_vars

-----------------------------------------------------------------------------
(* Properties. *)

\* The type invariant of the queues and of the calls under way; a queue has one
\* event per filter and identifier.
TypeOK ==
    /\ equeues \subseteq created /\ created \subseteq Handles
    /\ events \in [Handles -> Seq([key : Keys, pending : BOOLEAN])]
    /\ pc \in [Threads -> {"guest", "wait", "blocked", "adduser", "deleteuser", "addread", "post", "notify"}]
    /\ eq \in [Threads -> Handles \cup {NoHandle}]
    /\ \A t \in Threads : pc[t] # "guest" => eq[t] \in created
    /\ key \in [Threads -> Keys \cup {NoKey}]
    /\ slots \in [Threads -> 0 .. MaxSlots]
    /\ timo \in [Threads -> {"none", "poll", "timed"}]
    /\ asleep \subseteq {t \in Threads : pc[t] = "blocked"}
    /\ posts \in 0 .. MaxPosts
    /\ unspent \in [Handles -> [Keys -> Int]]
    /\ empty \subseteq Threads
    /\ \A h \in Handles, k \in Keys : Cardinality(Places(h, k)) <= 1

\* Arming an event once delivers it once at most, to one of the waiters woken.
DeliveredOncePerPost == \A h \in Handles, k \in Keys : unspent[h][k] >= 0

\* A wait without a timeout never comes back with no event: another waiter may
\* have been served between the notify and the return.
UntimedWaitDelivers == empty = {}

\* No post or trigger is lost in the gap before its notify.
SleeperHasNotifier ==
    \A t \in asleep :
        (\E i \in 1 .. Len(events[eq[t]]) : events[eq[t]][i].pending /\ events[eq[t]][i].key.filter # "read")
        => \E s \in Threads : pc[s] = "notify" /\ eq[s] = eq[t]
=============================================================================
