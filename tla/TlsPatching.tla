---------------------------- MODULE TlsPatching ----------------------------
(***************************************************************************)
(* Guest accesses to thread-local storage (src/kernel/tls_patch.cpp and    *)
(* VectoredExceptionHandler of src/kernel/kernel.cpp).  An access through  *)
(* fs faults, is emulated, and its site is rewritten once into a jump to a *)
(* stub that makes the access natively.  Threads reach a site before,      *)
(* while and after it is rewritten; a stub that faults has its site        *)
(* restored for good.  A rewrite is two steps under PatchMutex, between    *)
(* which the bytes are torn: fetching them faults at the site.             *)
(***************************************************************************)
EXTENDS Naturals, Sequences, SequencesExt, FiniteSets

CONSTANTS Threads,
          Unbound,      \* the threads of the host that reach guest code by themselves
          Sites,
          StubRoom, kMaxRetries,
          Shared,       \* the thread pointer of the main thread, the fallback
          Fragile,      \* the blocks of which one may be out of reach
          Nobody

Original == 0
Torn     == StubRoom + 1   \* a site that is patched holds the number of its stub

VARIABLES g_enabled,
          code, patches, blacklist, stubs,
          PatchMutex,
          thread,       \* [pc, site, stub], stub: the one the thread is in
          slot, t_tls_base, g_threads,   \* three places for a thread pointer
          readable,     \* the blocks whose memory can be accessed
          landed        \* history: the last access made, <<block, site>>

patchVars  == <<code, patches, blacklist, stubs, PatchMutex>>
threadVars == <<slot, t_tls_base, g_threads>>
tlsVars    == <<g_enabled, patchVars, thread, threadVars, readable, landed>>

NoPatch == [stub |-> 0, retries |-> [t \in Threads |-> 0]]

Goto(t, pc)  == thread' = [thread EXCEPT ![t].pc = pc]
At(t, pc)    == thread[t].pc = pc
Crash(t)     == Goto(t, "crashed")   \* SetGuestCrashed, at the end of the handler
Site(t)      == thread[t].site
Free         == PatchMutex = Nobody

-----------------------------------------------------------------------------
(* Thread pointers. *)

Fallback(tp) == IF tp = Nobody THEN Shared ELSE tp

\* ResolveGuestThreadPointer: what is registered, else the block of the main thread.
ResolveGuestThreadPointer(t) == Fallback(g_threads[t])

\* Variant for the mutant runs: the slot is bound to the block of the creator.
BindAnyway(t, own) == slot' = [slot EXCEPT ![t] = Shared]

\* BindCurrentThread with the resolved pointer, after RegisterThread.
BindCurrentThread(t, own) ==
    slot' = IF g_enabled THEN [slot EXCEPT ![t] = Fallback(own)] ELSE slot

\* ThreadEntrypoint registers, resolves and binds before it runs guest code; a
\* thread may have no block of its own.
Enter(t) ==
    /\ At(t, "outside") /\ Goto(t, "guest")
    /\ \/ /\ t \in Unbound /\ UNCHANGED threadVars
       \/ /\ t \notin Unbound
          /\ \E own \in {t, Nobody} :
                /\ g_threads' = [g_threads EXCEPT ![t] = own]
                /\ t_tls_base' = [t_tls_base EXCEPT ![t] = own]
                /\ BindCurrentThread(t, own)
    /\ landed' = [landed EXCEPT ![t] = <<>>]
    /\ UNCHANGED <<g_enabled, patchVars, readable>>

\* The handler: the cached pointer, then the registered one, then the shared one.
EmulatedPointer(t) == IF t_tls_base[t] # Nobody THEN t_tls_base[t] ELSE ResolveGuestThreadPointer(t)

\* The stub: the slot, then the fallback it was emitted with.
StubPointer(t) == Fallback(slot[t])

\* The block that belongs to a thread: what it was registered with, if anything.
BlockOf(t) == Fallback(g_threads[t])

-----------------------------------------------------------------------------
(* Guest code. *)

\* The processor fetches a site as it is: a new one, or that of a retry.
FetchSite(t, s) ==
    /\ thread' = [thread EXCEPT ![t] = IF code[s] \in 1 .. StubRoom
                                       THEN [pc |-> "stub", site |-> s, stub |-> code[s]]
                                       ELSE [pc |-> "fault", site |-> s, stub |-> 0]]
    /\ UNCHANGED <<g_enabled, patchVars, threadVars, readable, landed>>

Fetch(t) == \/ At(t, "guest") /\ \E s \in Sites : FetchSite(t, s)
            \/ At(t, "at") /\ FetchSite(t, Site(t))

\* A stub makes the access of the site it was emitted for.
RunStub(t) ==
    /\ At(t, "stub")
    /\ IF StubPointer(t) \in readable
       THEN /\ thread' = [thread EXCEPT ![t].pc = "guest", ![t].stub = 0]
            /\ landed' = [landed EXCEPT ![t] = <<StubPointer(t), stubs[thread[t].stub]>>]
       ELSE Goto(t, "stub fault") /\ UNCHANGED landed
    /\ UNCHANGED <<g_enabled, patchVars, threadVars, readable>>

-----------------------------------------------------------------------------
(* The handler, in its order. *)

\* HandleStubFault: the bytes are put back, unless the pages cannot be written, or
\* another thread's fault has put them back already.
HandleStubFault(t) == \E written \in BOOLEAN :
    /\ At(t, "stub fault") /\ Free
    /\ LET of == { s \in Sites : patches[s].stub = thread[t].stub } IN
       IF written /\ of # {}
       THEN \E s \in of :
            /\ code' = [code EXCEPT ![s] = Torn] /\ PatchMutex' = t
            /\ thread' = [thread EXCEPT ![t].pc = "restoring", ![t].site = s]
       ELSE Crash(t) /\ UNCHANGED <<code, PatchMutex>>
    /\ UNCHANGED <<g_enabled, patches, blacklist, stubs, threadVars, readable, landed>>

\* Variant for the mutant runs: the record stays, and a patched site is never forgotten.
RestoredKeepsRecord(t) ==
    /\ At(t, "restoring") /\ Goto(t, "at")
    /\ code' = [code EXCEPT ![Site(t)] = Original] /\ PatchMutex' = Nobody
    /\ blacklist' = blacklist \cup {Site(t)}
    /\ UNCHANGED <<g_enabled, patches, stubs, threadVars, readable, landed>>

Restored(t) ==
    /\ At(t, "restoring") /\ Goto(t, "at")
    /\ code' = [code EXCEPT ![Site(t)] = Original] /\ PatchMutex' = Nobody
    /\ blacklist' = blacklist \cup {Site(t)} /\ patches' = [patches EXCEPT ![Site(t)] = NoPatch]
    /\ UNCHANGED <<g_enabled, stubs, threadVars, readable, landed>>

\* Variant for the mutant runs: the retries of a site are those of all its threads.
AnyRetriesLeft(t) == \A u \in Threads : patches[Site(t)].retries[u] < kMaxRetries

RetriesLeft(t) == patches[Site(t)].retries[t] < kMaxRetries

\* ShouldRetry: the site is patched by now, and this thread has retries left.
ShouldRetry(t) == patches[Site(t)].stub # 0 /\ RetriesLeft(t)

Retry(t, otherwise) ==
    IF ShouldRetry(t)
    THEN Goto(t, "at") /\ patches' = [patches EXCEPT ![Site(t)].retries[t] = @ + 1]
    ELSE Goto(t, otherwise) /\ UNCHANGED patches

RetryBeforeDecoding(t) ==
    /\ At(t, "fault") /\ Free /\ Retry(t, "decode")
    /\ UNCHANGED <<g_enabled, code, blacklist, stubs, PatchMutex, threadVars, readable, landed>>

\* Variant for the mutant runs: the bytes are decoded as they are.
ReadLive(t) == TRUE

\* ReadInstruction copies the bytes under the lock.
ReadInstruction(t) == Free

\* An access is made with guarded copies; one that fails ends the thread.
Emulate(t) ==
    IF EmulatedPointer(t) \in readable
    THEN Goto(t, "emulated") /\ landed' = [landed EXCEPT ![t] = <<EmulatedPointer(t), Site(t)>>]
    ELSE Crash(t) /\ UNCHANGED landed

\* Of a patched site nothing can be decoded: of its bytes only E8 would be retried,
\* and a stub is entered with E9; the address of the fault is not of the guest, so
\* it is not committed on demand.
Decode(t) ==
    /\ At(t, "decode") /\ ReadInstruction(t)
    /\ \/ code[Site(t)] = Original /\ Emulate(t)
       \/ code[Site(t)] = Torn /\ Crash(t) /\ UNCHANGED landed   \* a displacement of NOPs
       \/ code[Site(t)] \in 1 .. StubRoom /\ Goto(t, "missed") /\ UNCHANGED landed
    /\ UNCHANGED <<g_enabled, patchVars, threadVars, readable>>

\* Variant for the mutant runs: no second look at the patches.
LastChanceTaken(t) ==
    /\ At(t, "missed") /\ Crash(t)
    /\ UNCHANGED <<g_enabled, patchVars, threadVars, readable, landed>>

\* "Last chance before declaring a guest crash": the site may be patched by now.
LastChance(t) ==
    /\ At(t, "missed") /\ Free /\ Retry(t, "crashed")
    /\ UNCHANGED <<g_enabled, code, blacklist, stubs, PatchMutex, threadVars, readable, landed>>

\* TryPatchSite, after the emulation.  It stays emulated when it is of another form,
\* of rsp, too short or cannot be written.
TryPatchSite(t) ==
    /\ At(t, "emulated")
    /\ \/ /\ g_enabled /\ Free
          /\ patches[Site(t)].stub = 0 /\ Site(t) \notin blacklist /\ Len(stubs) < StubRoom
          /\ stubs' = Append(stubs, Site(t)) /\ code' = [code EXCEPT ![Site(t)] = Torn]
          /\ PatchMutex' = t /\ Goto(t, "patching")
          /\ UNCHANGED <<patches, blacklist>>
       \/ Goto(t, "guest") /\ UNCHANGED patchVars
    /\ UNCHANGED <<g_enabled, threadVars, readable, landed>>

Patched(t) ==
    /\ At(t, "patching") /\ Goto(t, "guest")
    /\ code' = [code EXCEPT ![Site(t)] = Len(stubs)]
    /\ patches' = [patches EXCEPT ![Site(t)] = [NoPatch EXCEPT !.stub = Len(stubs)]]
    /\ PatchMutex' = Nobody
    /\ UNCHANGED <<g_enabled, blacklist, stubs, threadVars, readable, landed>>

\* InvalidateAll, at shutdown: no thread is left in guest code.
Shutdown ==
    /\ g_enabled /\ \A t \in Threads : thread[t].pc \in {"outside", "crashed"}
    /\ g_enabled' = FALSE
    /\ code' = [s \in Sites |-> IF patches[s].stub # 0 THEN Original ELSE code[s]]
    /\ patches' = [s \in Sites |-> NoPatch] /\ blacklist' = {} /\ stubs' = <<>>
    /\ UNCHANGED <<PatchMutex, thread, threadVars, readable, landed>>

Leave(t) ==
    /\ At(t, "guest") /\ Goto(t, "outside")
    /\ UNCHANGED <<g_enabled, patchVars, threadVars, readable, landed>>

-----------------------------------------------------------------------------
Init ==
    /\ g_enabled \in BOOLEAN
    /\ code = [s \in Sites |-> Original] /\ patches = [s \in Sites |-> NoPatch]
    /\ blacklist = {} /\ stubs = <<>> /\ PatchMutex = Nobody
    /\ thread = [t \in Threads |-> [pc |-> "outside", site |-> CHOOSE s \in Sites : TRUE, stub |-> 0]]
    /\ slot = [t \in Threads |-> Nobody]
    /\ t_tls_base = [t \in Threads |-> Nobody] /\ g_threads = [t \in Threads |-> Nobody]
    /\ readable \in { (Threads \cup {Shared}) \ bad : bad \in {{}} \cup { {b} : b \in Fragile } }
    /\ landed = [t \in Threads |-> <<>>]

Idle == Init /\ ~ g_enabled /\ readable = Threads \cup {Shared}

Next ==
    \/ \E t \in Threads :
         \/ Enter(t) \/ Fetch(t) \/ RunStub(t) \/ Leave(t)
         \/ HandleStubFault(t) \/ Restored(t) \/ RetryBeforeDecoding(t) \/ Decode(t)
         \/ LastChance(t) \/ TryPatchSite(t) \/ Patched(t)
    \/ Shutdown

Spec == Init /\ [][Next]_tlsVars

-----------------------------------------------------------------------------
(* Properties. *)

\* A thread whose block can be accessed is never taken for crashed because of what
\* other threads did to the site it was at, unless one of them had it restored.
RacesAreSurvived ==
    \A t \in Threads :
        g_enabled /\ At(t, "crashed") => BlockOf(t) \notin readable \/ Site(t) \in blacklist

\* Emulated or by a stub, an access goes to the block of its own thread and is the
\* access of its own site.
AccessesLandInOwnBlock ==
    \A t \in Threads : At(t, "guest") /\ landed[t] # <<>> => landed[t] = <<BlockOf(t), Site(t)>>

\* Outside the lock a site is whole, jumps to the stub of its own record or to none,
\* and one that was restored stays as it was.
PatchesAreWhole ==
    Free => \A s \in Sites :
        /\ code[s] = patches[s].stub
        /\ s \in blacklist => code[s] = Original
        /\ patches[s].stub # 0 => stubs[patches[s].stub] = s
=============================================================================
