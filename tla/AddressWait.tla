---------------------------- MODULE AddressWait ----------------------------
(***************************************************************************)
(* sceKernelSyncOnAddressWait and Wake of src/hle/libkernel_sync.cpp: a    *)
(* futex built from a map of entries.  g_sync_addr_lock guards the map and *)
(* the entry's own mutex guards the waiting, so the value test, the lookup *)
(* of the entry, the wait and the clean-up of the entry are four steps.    *)
(* An entry lives as long as the map or some thread has a shared_ptr to    *)
(* it; Entries are the blocks the allocator hands out and takes back.      *)
(***************************************************************************)
EXTENDS Naturals, FiniteSets

CONSTANTS Waiters, Wakers,  \* guest threads that wait, and that store and wake
          Addrs,            \* guest addresses
          Values,           \* values of the word compared, 0 among them
          Entries, NoEntry, \* SyncAddressEntry objects; null
          NoAddr            \* the thread is in no call

Callers == Waiters \cup Wakers

VARIABLES word,     \* the guest memory word at each address
          map,      \* g_sync_addr_map
          counted,  \* SyncAddressEntry::waiters
          pc, addr, \* where a thread is in its call, and for which address
          entry,    \* the shared_ptr it holds
          isTimed,  \* it waits with wait_for
          asleep,   \* threads in cv.wait that no notify has reached
          target    \* history: who was asleep on the address when Wake was called

vars == <<word, map, counted, pc, addr, entry, isTimed, asleep, target>>

Fresh == {e \in Entries : (\A a \in Addrs : map[a] # e) /\ (\A t \in Callers : entry[t] # e)}

SleepersAt(a) == {t \in asleep : addr[t] = a}

-----------------------------------------------------------------------------
\* The guest stores to the word without any call.
Store(t, a, v) ==
    /\ pc[t] = "guest"
    /\ word' = [word EXCEPT ![a] = v]
    /\ UNCHANGED <<map, counted, pc, addr, entry, isTimed, asleep, target>>

\* Wait: the word is compared with no lock held; a mismatch returns EBUSY.
Compare(t, a, expected, timed) ==
    /\ pc[t] = "guest"
    /\ word[a] = expected
    /\ pc' = [pc EXCEPT ![t] = "compared"]
    /\ addr' = [addr EXCEPT ![t] = a]
    /\ isTimed' = [isTimed EXCEPT ![t] = timed]
    /\ UNCHANGED <<word, map, counted, entry, asleep, target>>

\* GetSyncAddressEntry: the entry of the map, or a new one with no waiters.
GetSyncAddressEntry(t) ==
    /\ pc[t] = "compared"
    /\ pc' = [pc EXCEPT ![t] = "entered"]
    /\ IF map[addr[t]] # NoEntry
       THEN /\ entry' = [entry EXCEPT ![t] = map[addr[t]]]
            /\ UNCHANGED <<map, counted>>
       ELSE \E e \in Fresh :
               /\ map' = [map EXCEPT ![addr[t]] = e]
               /\ counted' = [counted EXCEPT ![e] = 0]
               /\ entry' = [entry EXCEPT ![t] = e]
    /\ UNCHANGED <<word, addr, isTimed, asleep, target>>

\* entry->waiters++ and the wait begins, under entry->m.
BeginWait(t) ==
    /\ pc[t] = "entered"
    /\ pc' = [pc EXCEPT ![t] = "waiting"]
    /\ counted' = [counted EXCEPT ![entry[t]] = @ + 1]
    /\ asleep' = asleep \cup {t}
    /\ UNCHANGED <<word, map, addr, entry, isTimed, target>>

\* Variant for the mutant runs: a timed-out waiter stays counted.
EndWaitUncounted(t) ==
    /\ pc[t] = "waiting"
    /\ t \notin asleep \/ isTimed[t]
    /\ pc' = [pc EXCEPT ![t] = "leaving"]
    /\ counted' = [counted EXCEPT ![entry[t]] = IF t \in asleep THEN @ ELSE @ - 1]
    /\ asleep' = asleep \ {t}
    /\ target' = [w \in Callers |-> target[w] \ {t}]
    /\ UNCHANGED <<word, map, addr, entry, isTimed>>

\* Notified, or timed out: no predicate is evaluated, entry->waiters--.
EndWait(t) ==
    /\ pc[t] = "waiting"
    /\ t \notin asleep \/ isTimed[t]
    /\ pc' = [pc EXCEPT ![t] = "leaving"]
    /\ counted' = [counted EXCEPT ![entry[t]] = @ - 1]
    /\ asleep' = asleep \ {t}
    /\ target' = [w \in Callers |-> target[w] \ {t}]
    /\ UNCHANGED <<word, map, addr, entry, isTimed>>

\* CleanSyncAddressEntry: the count is read without entry->m, and the address
\* is erased whichever entry the map has by now.
CleanSyncAddressEntry(t) ==
    /\ pc[t] = "leaving"
    /\ map' = IF counted[entry[t]] = 0 THEN [map EXCEPT ![addr[t]] = NoEntry] ELSE map
    /\ pc' = [pc EXCEPT ![t] = "guest"]
    /\ addr' = [addr EXCEPT ![t] = NoAddr]
    /\ entry' = [entry EXCEPT ![t] = NoEntry]
    /\ isTimed' = [isTimed EXCEPT ![t] = FALSE]
    /\ UNCHANGED <<word, counted, asleep, target>>

\* Wake: the entry is looked up; without one the call returns 0 at once.
FindEntry(w, a) ==
    /\ pc[w] = "guest"
    /\ target' = [target EXCEPT ![w] = SleepersAt(a)]
    /\ IF map[a] = NoEntry
       THEN UNCHANGED <<pc, addr, entry>>
       ELSE /\ pc' = [pc EXCEPT ![w] = "waking"]
            /\ addr' = [addr EXCEPT ![w] = a]
            /\ entry' = [entry EXCEPT ![w] = map[a]]
    /\ UNCHANGED <<word, map, counted, isTimed, asleep>>

\* Under entry->m: everybody on the entry when count <= 0 or count covers the
\* waiters, else count times notify_one.
Notify(w, count) ==
    /\ pc[w] = "waking"
    /\ LET on == {t \in asleep : entry[t] = entry[w]}
       IN  IF count = 0 \/ count >= counted[entry[w]]
           THEN asleep' = asleep \ on
           ELSE \E woken \in SUBSET on :
                   /\ Cardinality(woken) = IF count <= Cardinality(on) THEN count
                                                                      ELSE Cardinality(on)
                   /\ asleep' = asleep \ woken
    /\ pc' = [pc EXCEPT ![w] = "guest"]
    /\ addr' = [addr EXCEPT ![w] = NoAddr]
    /\ entry' = [entry EXCEPT ![w] = NoEntry]
    /\ UNCHANGED <<word, map, counted, isTimed, target>>

\* std::condition_variable may wake a waiter without a notify.
SpuriousWake(t) ==
    /\ t \in asleep
    /\ asleep' = asleep \ {t}
    /\ UNCHANGED <<word, map, counted, pc, addr, entry, isTimed, target>>

-----------------------------------------------------------------------------
Init ==
    /\ word = [a \in Addrs |-> 0]
    /\ map = [a \in Addrs |-> NoEntry]
    /\ counted = [e \in Entries |-> 0]
    /\ pc = [t \in Callers |-> "guest"]
    /\ addr = [t \in Callers |-> NoAddr]
    /\ entry = [t \in Callers |-> NoEntry]
    /\ isTimed = [t \in Callers |-> FALSE]
    /\ asleep = {}
    /\ target = [t \in Callers |-> {}]

WaiterStep(t) ==
    \/ \E a \in Addrs, v \in Values, timed \in BOOLEAN : Compare(t, a, v, timed)
    \/ GetSyncAddressEntry(t)
    \/ BeginWait(t)
    \/ EndWait(t)
    \/ CleanSyncAddressEntry(t)
    \/ SpuriousWake(t)

WakerStep(w) ==
    \/ \E a \in Addrs, v \in Values : Store(w, a, v)
    \/ \E a \in Addrs : FindEntry(w, a)
    \/ \E count \in 0 .. Cardinality(Waiters) : Notify(w, count)

Next == (\E t \in Waiters : WaiterStep(t)) \/ (\E w \in Wakers : WakerStep(w))

Spec == Init /\ [][Next]_vars

\* Threads inside the two calls run; a wake of all is always possible next.
Fairness ==
    /\ \A t \in Waiters :
          /\ WF_vars(GetSyncAddressEntry(t)) /\ WF_vars(BeginWait(t))
          /\ WF_vars(EndWait(t)) /\ WF_vars(CleanSyncAddressEntry(t))
    /\ \A w \in Wakers : WF_vars(Notify(w, 0))

FairSpec == Spec /\ Fairness

-----------------------------------------------------------------------------
(* Properties. *)

\* The type invariant of the map, the entries and the threads.
TypeOK ==
    /\ word \in [Addrs -> Values]
    /\ map \in [Addrs -> Entries \cup {NoEntry}]
    /\ counted \in [Entries -> Nat]
    /\ pc \in [Callers -> {"guest", "compared", "entered", "waiting", "leaving", "waking"}]
    /\ addr \in [Callers -> Addrs \cup {NoAddr}]
    /\ entry \in [Callers -> Entries \cup {NoEntry}]
    /\ isTimed \in [Callers -> BOOLEAN]
    /\ asleep \subseteq Waiters
    /\ target \in [Callers -> SUBSET Waiters]

\* The counter of an entry is the number of threads waiting on it, across
\* timeouts, clean-ups and the reuse of the block: wake(count) trusts it.
CountedIsWaiting ==
    \A e \in Entries : counted[e] = Cardinality({t \in Waiters : pc[t] = "waiting" /\ entry[t] = e})
        \/ e \in Fresh

\* A thread that is asleep when a wake is called for its address and the wake
\* is for everybody comes out of its wait.  TestSyncOnAddress expects it:
\* "Waiter woke up successfully".
WokenWaiterReturns ==
    \A w \in Wakers, t \in Waiters : t \in target[w] ~> pc[t] # "waiting"
=============================================================================
