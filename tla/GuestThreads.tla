---------------------------- MODULE GuestThreads ----------------------------
(***************************************************************************)
(* The guest-thread registry of src/cpu/cpu.cpp: g_threads maps a thread   *)
(* id to a GuestThread, and each guest thread is a host thread.  The       *)
(* registry is guarded by g_registry_mutex, but CreateThread starts the    *)
(* host thread and fills in its handle and is_running without it, join     *)
(* waits without it, and terminate and wake use a handle they read under   *)
(* it after they have let it go.  An id is never used twice.               *)
(***************************************************************************)
EXTENDS Naturals, FiniteSets

CONSTANTS Ids,         \* guest thread ids
          kMaxThreads, \* size limit of the registry
          Kills        \* the guest uses thr_kill on other threads

ASSUME GuestThreadsAssumption == kMaxThreads \in Nat /\ Kills \in BOOLEAN

VARIABLES threads,     \* g_threads: the ids that have an entry (and a live GuestThread)
          host_thread, \* the field: "none" or "open" (a handle that is not closed)
          is_running, is_joined, detached,  \* the flags of the entries
          wake_event,  \* ids whose wake event exists
          memory,      \* ids whose guest stack and TLS are allocated
          host,        \* the host thread: "none", "running" guest code, "left" it, "ended"
          kernel,      \* the host's handle to it: "none", "open" or "closed"
          creator,     \* CreateThread: "none", "starting", "handle", "flag", "done"
          joiner,      \* JoinThread: "none", "waiting", "closed"
          killer       \* TerminateThread between the registry and the host call

vars == <<threads, host_thread, is_running, is_joined, detached, wake_event, memory,
          host, kernel, creator, joiner, killer>>
flags == <<is_running, is_joined, detached>>

\* The id can be in the hands of guest code: created by a call that returned,
\* or running already.
Known(i) == creator[i] = "done" \/ host[i] # "none"

-----------------------------------------------------------------------------
(* CreateThread. *)

\* Variant for the mutant runs: the size test admits one entry too many.
AddEntryPastLimit(i) ==
    /\ creator[i] = "none"
    /\ Cardinality(threads) <= kMaxThreads
    /\ threads' = threads \cup {i}
    /\ wake_event' = wake_event \cup {i}
    /\ memory' = memory \cup {i}
    /\ creator' = [creator EXCEPT ![i] = "starting"]
    /\ UNCHANGED <<host_thread, flags, host, kernel, joiner, killer>>

\* The entry is made under the lock, if there is room for it.
AddEntry(i) ==
    /\ creator[i] = "none"
    /\ Cardinality(threads) < kMaxThreads
    /\ threads' = threads \cup {i}
    /\ wake_event' = wake_event \cup {i}
    /\ memory' = memory \cup {i}
    /\ creator' = [creator EXCEPT ![i] = "starting"]
    /\ UNCHANGED <<host_thread, flags, host, kernel, joiner, killer>>

\* The host thread is created and runs at once.
StartHostThread(i) ==
    /\ creator[i] = "starting"
    /\ creator' = [creator EXCEPT ![i] = "handle"]
    /\ host' = [host EXCEPT ![i] = "running"]
    /\ kernel' = [kernel EXCEPT ![i] = "open"]
    /\ UNCHANGED <<threads, host_thread, flags, wake_event, memory, joiner, killer>>

\* The host refuses; the caller, told so, frees the stack and TLS it made.
StartFails(i) ==
    /\ creator[i] = "starting"
    /\ creator' = [creator EXCEPT ![i] = "done"]
    /\ threads' = threads \ {i}
    /\ wake_event' = wake_event \ {i}
    /\ memory' = memory \ {i}
    /\ UNCHANGED <<host_thread, flags, host, kernel, joiner, killer>>

\* raw->host_thread = handle, then raw->is_running = true, with no lock held.
\* A write to an entry that is gone is undefined; nothing is modelled of it.
PublishHandle(i) ==
    /\ creator[i] = "handle"
    /\ creator' = [creator EXCEPT ![i] = "flag"]
    /\ host_thread' = IF i \in threads THEN [host_thread EXCEPT ![i] = "open"] ELSE host_thread
    /\ UNCHANGED <<threads, flags, wake_event, memory, host, kernel, joiner, killer>>

PublishRunning(i) ==
    /\ creator[i] = "flag"
    /\ creator' = [creator EXCEPT ![i] = "done"]
    /\ is_running' = IF i \in threads THEN is_running \cup {i} ELSE is_running
    /\ UNCHANGED <<threads, host_thread, is_joined, detached, wake_event, memory, host, kernel, joiner, killer>>

-----------------------------------------------------------------------------
(* The end of a thread. *)

Erase(i) ==
    /\ threads' = threads \ {i}
    /\ is_running' = is_running \ {i}
    /\ is_joined' = is_joined \ {i}
    /\ detached' = detached \ {i}
    /\ host_thread' = [host_thread EXCEPT ![i] = "none"]
    /\ memory' = memory \ {i}

\* HandleThreadExit, called by the thread itself when its guest code is over;
\* a detached thread frees its stack and TLS and its own entry.
HandleThreadExit(i) ==
    /\ host[i] = "running"
    /\ host' = [host EXCEPT ![i] = "left"]
    /\ wake_event' = wake_event \ {i}
    /\ IF i \in detached
       THEN Erase(i)
       ELSE /\ is_running' = is_running \ {i}
            /\ UNCHANGED <<threads, is_joined, detached, host_thread, memory>>
    /\ UNCHANGED <<kernel, creator, joiner, killer>>

HostThreadEnds(i) ==
    /\ host[i] = "left"
    /\ host' = [host EXCEPT ![i] = "ended"]
    /\ UNCHANGED <<threads, host_thread, flags, wake_event, memory, kernel, creator, joiner, killer>>

-----------------------------------------------------------------------------
(* Join, detach and terminate, by any guest thread that knows the id. *)

\* The entry is marked; without a handle yet the call then fails all the same.
JoinThread(i) ==
    /\ Known(i) /\ i \in threads \ (detached \cup is_joined)
    /\ is_joined' = is_joined \cup {i}
    /\ joiner' = [joiner EXCEPT ![i] = IF host_thread[i] = "open" THEN "waiting" ELSE @]
    /\ UNCHANGED <<threads, host_thread, is_running, detached, wake_event, memory, host, kernel, creator, killer>>

\* The host thread has ended: its handle is closed, then the entry is freed.
JoinCloses(i) ==
    /\ joiner[i] = "waiting" /\ host[i] = "ended"
    /\ joiner' = [joiner EXCEPT ![i] = "closed"]
    /\ kernel' = [kernel EXCEPT ![i] = "closed"]
    /\ UNCHANGED <<threads, host_thread, flags, wake_event, memory, host, creator, killer>>

\* Variant for the mutant runs: the joiner frees without waiting for the end.
JoinFreesEarly(i) ==
    /\ joiner[i] = "waiting"
    /\ joiner' = [joiner EXCEPT ![i] = "none"]
    /\ kernel' = [kernel EXCEPT ![i] = "closed"]
    /\ Erase(i)
    /\ UNCHANGED <<wake_event, host, creator, killer>>

\* Variant for the mutant runs: the joiner leaves the entry where it is.
JoinKeepsEntry(i) ==
    /\ joiner[i] = "closed"
    /\ joiner' = [joiner EXCEPT ![i] = "none"]
    /\ UNCHANGED <<threads, host_thread, flags, wake_event, memory, host, kernel, creator, killer>>

JoinFrees(i) ==
    /\ joiner[i] = "closed"
    /\ joiner' = [joiner EXCEPT ![i] = "none"]
    /\ Erase(i)
    /\ UNCHANGED <<wake_event, host, kernel, creator, killer>>

\* Variant for the mutant runs: a thread that is being joined can be detached.
DetachJoined(i) ==
    /\ Known(i) /\ i \in threads
    /\ detached' = detached \cup {i}
    /\ host_thread' = [host_thread EXCEPT ![i] = "none"]
    /\ kernel' = [kernel EXCEPT ![i] = IF host_thread[i] = "open" THEN "closed" ELSE @]
    /\ UNCHANGED <<threads, is_running, is_joined, wake_event, memory, host, creator, joiner, killer>>

DetachThread(i) ==
    /\ Known(i) /\ i \in threads \ is_joined
    /\ detached' = detached \cup {i}
    /\ host_thread' = [host_thread EXCEPT ![i] = "none"]
    /\ kernel' = [kernel EXCEPT ![i] = IF host_thread[i] = "open" THEN "closed" ELSE @]
    /\ UNCHANGED <<threads, is_running, is_joined, wake_event, memory, host, creator, joiner, killer>>

\* The registry half of terminate ...
TerminateThread(i) ==
    /\ Kills /\ i \in threads \cap is_running
    /\ is_running' = is_running \ {i}
    /\ wake_event' = wake_event \ {i}
    /\ killer' = IF host_thread[i] = "open" THEN killer \cup {i} ELSE killer
    /\ UNCHANGED <<threads, host_thread, is_joined, detached, memory, host, kernel, creator, joiner>>

\* ... and the host call, which ends the thread wherever it is; a handle that
\* was closed meanwhile makes it fail.
HostTerminates(i) ==
    /\ i \in killer
    /\ killer' = killer \ {i}
    /\ host' = IF kernel[i] = "open" THEN [host EXCEPT ![i] = "ended"] ELSE host
    /\ UNCHANGED <<threads, host_thread, flags, wake_event, memory, kernel, creator, joiner>>

-----------------------------------------------------------------------------
Init ==
    /\ threads = {} /\ is_running = {} /\ is_joined = {} /\ detached = {}
    /\ wake_event = {} /\ memory = {} /\ killer = {}
    /\ host_thread = [i \in Ids |-> "none"]
    /\ host = [i \in Ids |-> "none"]
    /\ kernel = [i \in Ids |-> "none"]
    /\ creator = [i \in Ids |-> "none"]
    /\ joiner = [i \in Ids |-> "none"]

Next ==
    \E i \in Ids :
        \/ AddEntry(i) \/ StartHostThread(i) \/ StartFails(i) \/ PublishHandle(i) \/ PublishRunning(i)
        \/ HandleThreadExit(i) \/ HostThreadEnds(i)
        \/ JoinThread(i) \/ JoinCloses(i) \/ JoinFrees(i)
        \/ DetachThread(i)
        \/ TerminateThread(i) \/ HostTerminates(i)

Spec == Init /\ [][Next]_vars

\* CreateThread and join go on, and a thread that left its guest code ends.
Fairness ==
    \A i \in Ids :
        /\ WF_vars(StartHostThread(i) \/ StartFails(i)) /\ WF_vars(PublishHandle(i)) /\ WF_vars(PublishRunning(i))
        /\ WF_vars(HostThreadEnds(i)) /\ WF_vars(JoinCloses(i)) /\ WF_vars(JoinFrees(i))

FairSpec == Spec /\ Fairness

-----------------------------------------------------------------------------
(* Properties. *)

\* The type invariant of the registry and of the host threads.
TypeOK ==
    /\ threads \subseteq Ids
    /\ is_running \subseteq threads /\ is_joined \subseteq threads /\ detached \subseteq threads
    /\ host_thread \in [Ids -> {"none", "open"}]
    /\ wake_event \subseteq threads /\ memory \subseteq Ids /\ killer \subseteq Ids
    /\ host \in [Ids -> {"none", "running", "left", "ended"}]
    /\ kernel \in [Ids -> {"none", "open", "closed"}]
    /\ creator \in [Ids -> {"none", "starting", "handle", "flag", "done"}]
    /\ joiner \in [Ids -> {"none", "waiting", "closed"}]
    /\ Cardinality(threads) <= kMaxThreads

\* The guest stack and TLS of a thread are there while it runs guest code:
\* exit, join and detach in any order never free them under it.
MemoryOutlivesGuestCode == \A i \in Ids : host[i] = "running" => i \in memory

\* The one who joins is the one who frees: from the wait of a join to its end
\* the entry and its memory stay, and the thread is not detached.
JoinedStaysUntilFreed ==
    \A i \in Ids : joiner[i] # "none" => i \in threads /\ i \in memory /\ i \notin detached

\* A join that found a handle returns once the thread is through.
JoinReturns == \A i \in Ids : joiner[i] # "none" /\ host[i] = "ended" ~> i \notin threads
=============================================================================
