--------------------------- MODULE GuestResources ---------------------------
(***************************************************************************)
(* What the emulator hands out to the guest, side by side: memory of the   *)
(* pool and outside it, direct memory, blocks of the libc heap, file       *)
(* descriptors, exceptions, and the guarded accesses and the page cache    *)
(* through which handlers reach guest memory.  Each has tables and a lock  *)
(* of its own and no call uses two, so kind picks the one the guest uses.  *)
(***************************************************************************)
EXTENDS Naturals, FiniteSets, Sequences, TLC

CONSTANTS PoolPages, WindowPages, MaxSize,  \* the guest memory manager; see GuestMemory
          Readers, Mutators, CachedPages, MaxGeneration,
          Callers, MAX_FDS, FileHandles, Sockets, NoFile, MaxOffset,
          PageSize, LastPage, Sizes, Lengths,
          AddressSpace, kHeaderSize, kHeapChunkSize, SplitAt, Chunks, AllocSizes, Aligns, MaxLive,
          Exceptions, NoException, Types, AnyType, MaxDepth,
          PHYS_POOL_SIZE, PHYS_COMMIT_CHUNK, FirstOffset, DirectSizes, DirectAligns,
          MaxHeld, MaxBoots,
          Threads, Unbound, Sites, StubRoom, kMaxRetries, Shared, Fragile, Nobody  \* see TlsPatching

ASSUME GuestResourcesAssumption ==
    /\ MAX_FDS \in Nat /\ FileHandles \cap Sockets = {}
    /\ "none" \notin CachedPages
    /\ StubRoom \in Nat /\ kMaxRetries \in Nat \ {0}
    /\ Sites # {} /\ Nobody \notin Threads
    /\ PoolPages \in Nat /\ WindowPages \in Nat /\ MaxSize \in Nat
    /\ MaxDepth \in Nat \ {0}

VARIABLES kind,  \* the resource the guest program uses
          regions, pool_used, pool_free, host, allocs, dirty, pending, blocks, raced, stuck,
          generation, state, change, entry, asking, answer,
          in_use, type, file, offset, g_next_fd, open_files, call, moved, disturbed,
          page, mem, orig, op, dst, src, size, done, phase, found_null, result, rearmed,
          g_heap_free, g_heap_bump, g_heap_end, mapped, live, moving, heap_outcome,
          stack, exception, g_caught, g_phase2, g_uncaught_exceptions, ended, rethrown,
          g_phys_pool_base, g_phys_pool_offset, g_phys_pool_committed, g_phys_blocks,
          pages, direct, boot,
          g_enabled, code, patches, blacklist, stubs, PatchMutex, thread, slot, t_tls_base,
          g_threads, readable, landed

memoryVars  == <<regions, pool_used, pool_free, host, allocs, dirty, pending, blocks, raced, stuck>>
cacheVars   == <<generation, state, change, entry, asking, answer>>
fdVars      == <<in_use, type, file, offset, g_next_fd, open_files, call, moved, disturbed>>
guardedVars == <<page, mem, orig, op, dst, src, size, done, phase, found_null, result, rearmed>>
heapVars    == <<g_heap_free, g_heap_bump, g_heap_end, mapped, live, moving, heap_outcome>>
cxaVars     == <<stack, exception, g_caught, g_phase2, g_uncaught_exceptions, ended, rethrown>>
directVars  == <<g_phys_pool_base, g_phys_pool_offset, g_phys_pool_committed, g_phys_blocks,
                 pages, direct, boot>>
tlsVars     == <<g_enabled, code, patches, blacklist, stubs, PatchMutex, thread, slot, t_tls_base,
                 g_threads, readable, landed>>
vars == <<kind, memoryVars, cacheVars, fdVars, guardedVars, heapVars, cxaVars, directVars, tlsVars>>

Pool    == INSTANCE GuestMemory WITH PoolSize <- PoolPages, WindowSize <- 0, MaxPending <- 1
Window  == INSTANCE GuestMemory WITH PoolSize <- 0, WindowSize <- WindowPages, MaxPending <- 2
Access  == INSTANCE GuestAccess
Fd      == INSTANCE FdTable
Libc    == INSTANCE LibcRuntime
Direct  == INSTANCE DirectMemory
Tls     == INSTANCE TlsPatching

ASSUME ComponentsAssumption == Direct!DirectAssumption /\ Libc!HeapAssumption /\ Access!AccessAssumption

-----------------------------------------------------------------------------
Init ==
    /\ kind \in {"pool", "window", "cache", "fd", "guarded", "heap", "cxa", "direct", "tls"}
    /\ IF kind = "window" THEN Window!Init ELSE Pool!Init
    /\ IF kind = "guarded" THEN Access!Init ELSE Access!NoAccess
    /\ Access!CacheInit /\ Fd!Init /\ Libc!HeapInit /\ Libc!CxaInit /\ Direct!DirectInit
    /\ IF kind = "tls" THEN Tls!Init ELSE Tls!Idle

Next ==
    \/ /\ kind = "pool" /\ Pool!Next
       /\ UNCHANGED <<kind, cacheVars, fdVars, guardedVars, heapVars, cxaVars, directVars, tlsVars>>
    \/ /\ kind = "window" /\ Window!Next
       /\ UNCHANGED <<kind, cacheVars, fdVars, guardedVars, heapVars, cxaVars, directVars, tlsVars>>
    \/ /\ kind = "cache" /\ Access!CacheNext
       /\ UNCHANGED <<kind, memoryVars, fdVars, guardedVars, heapVars, cxaVars, directVars, tlsVars>>
    \/ /\ kind = "fd" /\ Fd!Next
       /\ UNCHANGED <<kind, memoryVars, cacheVars, guardedVars, heapVars, cxaVars, directVars, tlsVars>>
    \/ /\ kind = "guarded" /\ Access!Next
       /\ UNCHANGED <<kind, memoryVars, cacheVars, fdVars, heapVars, cxaVars, directVars, tlsVars>>
    \/ /\ kind = "heap" /\ Libc!HeapNext
       /\ UNCHANGED <<kind, memoryVars, cacheVars, fdVars, guardedVars, cxaVars, directVars, tlsVars>>
    \/ /\ kind = "cxa" /\ Libc!CxaNext
       /\ UNCHANGED <<kind, memoryVars, cacheVars, fdVars, guardedVars, heapVars, directVars, tlsVars>>
    \/ /\ kind = "direct" /\ Direct!DirectNext
       /\ UNCHANGED <<kind, memoryVars, cacheVars, fdVars, guardedVars, heapVars, cxaVars, tlsVars>>
    \/ /\ kind = "tls" /\ Tls!Next
       /\ UNCHANGED <<kind, memoryVars, cacheVars, fdVars, guardedVars, heapVars, cxaVars, directVars>>

Spec == Init /\ [][Next]_vars

-----------------------------------------------------------------------------
(* Properties. *)

\* The type invariants of the tables.
ResourcesTypeOK ==
    /\ kind = "pool" => Pool!TypeOK
    /\ kind = "window" => Window!TypeOK
    /\ kind = "cxa" => Libc!CxaTypeOK
    /\ kind = "direct" => Direct!DirectTypeOK

\* Nothing is handed out twice, whatever calls are under way: blocks of guest
\* memory, of direct memory and of the libc heap overlap neither one another nor
\* what is free, and a host handle belongs to one descriptor.
NothingIsHandedOutTwice ==
    /\ kind = "pool" => Pool!BlocksDisjoint
    /\ kind = "window" => Window!BlocksDisjoint
    /\ kind = "direct" => Direct!DirectBlocksApart
    /\ kind = "heap" => Libc!BlocksAreApart
    /\ kind = "fd" => Fd!HandleHasOneOwner

\* A block is as the guest expects it when it arrives: mapped memory is zero,
\* whoever used its pages before, and direct memory is committed to its end.
BlocksArriveReady ==
    /\ kind = "pool" => Pool!MappedIsZero
    /\ kind = "window" => Window!MappedIsZero
    /\ kind = "direct" => Direct!DirectBlocksCommitted

\* The tables follow what the host grants: a block the guest holds is in the
\* region table unless it was mapped where an unmap of a block of the same address
\* and size was half done, which may take the new region for its own; and Query
\* tells every page that is held, and of the pool's no other.
TablesFollowTheHost ==
    /\ kind = "pool" => Pool!HeldIsTracked /\ Pool!QueryTellsHeldFromFree
    /\ kind = "window" => Window!HeldIsTracked /\ Window!QueryTellsHeldFromFree

\* A guarded access in pages does what memmove, memset, strcpy, strcmp and the
\* like do on the part that is mapped, and stops short only where it must.
AccessesMatchReference ==
    kind = "guarded" => /\ Access!CopiesLikeMemmove
                        /\ Access!StringsMatchReference
                        /\ Access!StopsOnlyAtAFault

\* What other threads do between two steps is survived.  Descriptors are looked up
\* again at each step of a call, and what goes wrong with an offset or an entry takes
\* a close in between.  A cached answer about a page is out of date only when it was
\* asked for inside a call that had advanced the generation and not the page.  A
\* thread at a site that others patch is not taken for crashed unless the site was
\* restored for good; its access, emulated or by a stub, is the one the site makes
\* and goes to its own block; and outside the lock a site is whole.
RacesAreSurvived ==
    /\ kind = "fd" => Fd!OffsetFollowsTransfers /\ Fd!CrashNeedsAClose
    /\ kind = "cache" => Access!StaleOnlyFromAnUnfinishedCall
    /\ kind = "tls" => Tls!RacesAreSurvived /\ Tls!AccessesLandInOwnBlock /\ Tls!PatchesAreWhole

\* An exception lives until its last handler ends, the unwinder's records agree
\* with the guest's stack, and unwinding runs every destructor and ends every
\* clause on its way.
ExceptionsLiveUntilHandled ==
    /\ [](kind = "cxa" => Libc!LivesUntilHandled /\ Libc!RecordsAgreeWithStack)
    /\ Libc!EveryPadIsLandedOn

-----------------------------------------------------------------------------
\* For TLC: callers of system calls are interchangeable, and so are exceptions.
ResourceSymmetry == Permutations(Callers) \cup Permutations(Exceptions) \cup Permutations(Mutators)
=============================================================================
