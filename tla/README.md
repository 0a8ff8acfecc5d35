# PCSX5: TLA+ models, checks and proofs

PCSX5 runs PlayStation 5 programs on a Windows host. Guest code runs natively,
guest threads are host threads, and every library or system call of the guest
ends in a C++ handler of the emulator (HLE, high-level emulation). This
directory models the logic of the emulator that is hard to test: where threads
meet, where state outlives the lock it was read under, where a long sequence of
legal calls matters, and where a process may end between two writes. Paths below
are those of the repository; the emulator is in its `src/` directory.

| section | contents |
|---|---|
| 1 | the system: components, state, operations, interactions |
| 2 | the modules and how their state and actions correspond to the code |
| 3 | the runs: instances, bounds, fairness, what each shows |
| 4 | the proofs: theorems, assumptions, inductive invariants |
| 5 | where the code and its comments disagree |
| 6 | what is not modelled and what stays with TLC |

`PROJECT.json` lists the components, maps every definition to the lines it
stands for, and names the hazards with the properties that cover them.

## 1. The system

### Components

Each entry names the state, the operations that change it, and what would make
the component correct. The module that models it is in section 2.

**Guest mutexes and condition variables** (`hle/libkernel_sync.cpp`). A mutex
variable of the guest holds a token; `g_mutexes` maps the token to a host
`GuestMutex` {owner, recursion, type, FIFO of waiters, one condition variable}.
Lock, trylock, timed lock, unlock, init, destroy; a statically initialised
variable is promoted to an object by the first call on it. An unlock hands the
mutex to the head waiter before that waiter runs. A `GuestCond` is a sequence
number and a condition variable. Correct: exclusion, FIFO service, nobody granted
a mutex who will not return with it, one object per variable, no signal lost.

**Other synchronisation objects** (same file; guards of static variables in
`hle/liblibc.cpp`). Kernel semaphores, `sem_t`, event flags, event queues,
read-write locks, once variables and guards, address waits (a futex), kernel
mutexes with counted locks. Each kind has a map, a map lock and a lock per
object. Correct: no wake-up is lost although most notifies come after the lock
is dropped; what is posted once is consumed once; a writer excludes everybody;
an initialiser runs once.

**Guest-thread registry** (`cpu/cpu.cpp`). `g_threads` maps an id to {host
handle, wake event, is_running, is_joined, detached, stack, TLS} under
`g_registry_mutex`. Create, exit, join, detach, terminate, suspend, wake,
shutdown. Correct: a stack is freed once and never under guest code; a join
returns.

**Guest memory** (`memory/memory.cpp`). The region table, the direct-mapped pool,
resource ranges, the page-state cache of each thread with the map generation,
and the guarded accesses of HLE handlers. Map, Commit, Unmap, Protect, Query,
Guarded{Read, Write, Copy, Fill, strings}. Correct: nothing is handed out twice,
what arrives is zero, the table follows the host, a guarded copy moves what
memmove would and reports it.

**Write tracking and the texture cache** (`memory/memory.cpp`, `gpu/vk_draw.cpp`).
Pages of textures are made read-only so that the first store is noticed and
advances a generation; a draw uploads a texture again when the generation moved.
Two vectored exception handlers are installed. Correct: an image taken as it is
shows guest memory as it is.

**Direct memory** (`hle/libkernel.cpp`). One reservation with a bump offset,
committed in chunks, a list of blocks released and reused, a reset between
boots. Correct: blocks apart, committed to their end.

**File descriptors and system calls** (`kernel/fd_table.cpp`,
`kernel/syscalls.cpp`). The table under `g_fd_mutex`; calls use several table
functions and keep pointers into it. Correct: a handle belongs to one
descriptor, an offset follows the transfers.

**Guest files** (`hle/libkernel.cpp`, `hle/liblibc.cpp`). `g_guest_fds` and the
map of FILE structs over the descriptors of the host's C library. Correct: a
descriptor means one file from open to close.

**libc heap and C++ runtime** (`hle/liblibc.cpp`). Chunks, a bump pointer and a
first-fit free list under `g_heap_mutex`; `__cxa_*` and `_Unwind_*` with the
thread's stack of caught exceptions. Correct: no byte is handed out twice; an
exception lives until its last handler ends; every destructor runs.

**Kernel boot and module start; module graph and resolver; executable loader**
(`kernel/kernel.cpp`, `loader/`). Images are mapped segment by segment, linked
against modules and HLE symbols, protected, and initialised in the order of
their needs. Correct: loaded once, bound to what defines the import, a shared
page keeps its bytes and every right, initialised after what it needs.

**HLE dispatch** (`hle/hle.cpp`). Registry of symbols and thunks, NIDs with
suffixes, stubs for unknown names, stop and crash flags. Correct: a thunk leads to
the handler of the name it was resolved for.

**TLS and code patching** (`kernel/tls_patch.cpp`, `kernel/kernel.cpp`). Accesses
through fs fault, are emulated, and their site is rewritten into a jump to a
stub. Sites, records with retries per thread, blacklist, stub pages, under one
mutex; three places for a thread pointer. Correct: a thread never goes wrong
because another one rewrites the site it is at, and reaches its own block.

**Video out** (`hle/libvideoout.cpp`). Ports, registered event queues and
buffers, a vblank pump started on demand and joined at reset, flips. **Audio
out** (`hle/libaudioout.cpp`, `hle/audio/`). Ports over waveOut, XAudio2 and
WASAPI back ends: buffers given back by the device's thread, a lock-free ring.
**Sound preview player** (`ui/snd_player.cpp`). A worker with generations, a
loop thread joined under the lock. Correct: edges reach who waits for them, one
pump ticks, a buffer in flight is not filled, blocks play in order, Stop returns.

**Graphics command processor** (`hle/libagc.cpp`), **shader translation**
(`gpu/shader/`), **Vulkan draws and presentation** (`gpu/vk_draw.cpp`,
`gpu/vk_present.cpp`). Packets are built in guest memory and walked under a
submit lock; draws without target are deferred to a flip; shaders are decoded,
evaluated on the CPU to find what to bind, and translated; draws are recorded in
batches over rings; frames go through one fence. Correct: each draw runs once
with its own module and data, the evaluator and the emitted code agree, what was
bound is intact when the GPU runs it, the screen does not go back.

**Core API and process lifecycle** (`core_api.cpp`, `lua/lua_init.cpp`). Ordered
start of subsystems, reverse teardown, run, pause, stop, forced stop, crash,
exit. Correct: a subsystem outlives its users, a stop ends the run.

**Configuration** (`config/`), **compatibility database** (`compat/`), **save data
and trophies** (`hle/libsavedata.cpp`, `hle/libnp.cpp`). Files written as a
whole, truncated first; images of saves with keys; caches in memory. Correct:
what was saved comes back, also after a crash elsewhere and with other settings.

**Not modelled**: Vulkan context and register decoding, input devices, the other
guest libraries, media decoders, IPC, logging and reports, the C# front end; see
section 6.

### How they interact

- Guest threads call HLE handlers directly; a handler blocks the guest thread
  that called it, so every lock of a handler is taken by several guest threads.
- Video out posts into event queues, which guest threads wait on; a flip packet
  of a command buffer and a call of the guest flip from different threads.
- A draw reads guest memory through the memory manager while guest threads
  write it. A store to a tracked page raises a host exception that passes the
  kernel's handler (which also emulates TLS accesses and commits pages on
  demand) and the tracker's.
- A thread that exits or is joined gives stack and TLS back to the memory manager.
- The linker binds imports to thunks of the HLE registry; `sceKernelDlsym` and
  late loads do so from guest threads while others run.
- Stop, crash and exit are flags that a guest thread sees when it dispatches its
  next import.

### What is hard

Notifies after unlock; locks dropped between a look-up and the use of what was
found; hand-over of a mutex to a thread that may be timing out; fields published
by the creator of a thread that already runs; code patched under the threads
that execute it; generations captured apart from what they describe; rings and
pools that run out in the middle of an operation; joins under locks; files
written in two steps. PROJECT.json "hazards" has each at its line, with the
properties that cover it or the reason why none does.

## 2. The modules

A *specification* has Init, Next and its properties. A *composition* puts
specifications that share no variable and no lock side by side; its variable
`kind` picks the one the program uses, so an invariant of each alone is an
invariant of all together, and one run (and one theorem) speaks of all. Model
values, initial files and the like for TLC are definitions at the end of the
module a run names.

| module | models | abstracts |
|---|---|---|
| `FifoLock` | what a mutex promises: a queue of threads whose head holds it | everything else |
| `GuestMutex` | `MutexLockImpl`, `MutexUnlockImpl`, `MutexHandoffLocked` | return codes: an error changes nothing |
| `PthreadCond` | `CondWaitImpl`, signal, broadcast, over `GuestMutex` | time: a set time-out may expire whenever |
| `MutexCalls` | counted kernel locks; mutex variables, tokens, `LookupOrCreateMutex`, init, destroy, static initialisers | heap addresses: a token is its object |
| `KernelSema`, `PosixSem`, `EventFlag`, `EventQueue`, `Rwlock`, `PthreadOnce`, `AddressWait` | one kind of object each (`PthreadOnce`: also guards) | event payloads; a pattern is a set of bits |
| `SyncObjects` | composition of these and `MutexCalls` | |
| `GuestThreads` | the thread registry | exit codes, priorities, names |
| `GuestMemory` | pool, Map, Commit, Unmap, Protect, Query, region table | contents: cleared or dirty; a page is a unit |
| `GuestAccess` | page-state cache and generation; guarded accesses page by page | bytes are small numbers |
| `DirectMemory` | the physical pool of libkernel, committed in chunks of which the host may refuse some | contents |
| `FdTable` | descriptor table and the calls over it | file contents: offsets only |
| `LibcRuntime` | libc heap and its reset; exceptions of one thread | contents; host frames |
| `TlsPatching` | TLS accesses, patches, stubs, faults in stubs | encodings of instructions and stubs |
| `GuestResources` | composition of `GuestMemory` (twice: pool, window) to `TlsPatching` | |
| `TextureCache` | tracked ranges, both exception handlers, texture uploads, guest stores | texels: which were missed |
| `AgcCommands` | builders, packet walk, shadow registers, destinations of draws, deferred draws, program caches | layouts of packets; index buffers |
| `ShaderWalk` | decoding in blocks, the evaluator's walk, the dispatcher loop | vector arithmetic |
| `ScalarAlu` | the scalar instructions, evaluated and emitted | words of W bits instead of 32 |
| `VulkanFrames` | batches, rings, retired objects; the presenter's fence, semaphores, swapchain | pipelines, formats |
| `Graphics` | composition of the graphics stages | |
| `CoreSession` | session of the core API, subsystem registry, stop, crash, exit | configuration contents |
| `ModuleLoader` | loading of needed modules, graph, order of initialisers; symbols, thunks, NIDs, stubs | image contents; argument passing |
| `ElfImage` | mapping, linking and protecting images | the file format |
| `GuestFiles` | descriptors, FILE structs, seek, read, lines | bytes are lines and counts |
| `VideoOut` | ports, queues, vblank pump; flips | timing: every wait may time out |
| `AudioPort` | waveOut and XAudio2 buffers, WASAPI ring | samples: blocks are numbered |
| `SoundPlayer` | worker, loop thread, two engines | decoding |
| `JsonText` | writer and parser of the two JSON copies | numbers and keywords are one character |
| `ConfigStore`, `CompatStore`, `SaveData` | files, caches, images, crashes between writes | five sections of eleven; cryptography |
| `Services` | composition of `CoreSession` to `CompatStore` | |
| `MutexCallsProofs`, `SyncObjectsProofs`, `GuestThreadsProofs`, `GuestMemoryProofs`, `GuestAccessProofs`, `GuestResourcesProofs`, `ServicePartsProofs`, `ServicesProofs` | proofs, section 4 | |

**Atomicity.** A critical section is one action; what the code does outside it
is another. A condition variable is modelled as C++ defines it: a waiter is
asleep until a notify reaches it, may wake for no reason, and then tests its
predicate again; a notify reaches whoever is asleep when it happens. So
`MutexLockImpl` is one action when it does not block, and `LockGranted`,
`LockTimedOut`, `SleepAgain` are its second half. `CondWaitImpl` keeps
`g_cond_map_lock` from sampling the sequence to the beginning of the wait, hence
`CondWait` is one action; the signal's increment and its notify are two
(`CondSignal`, `CondNotify`). The address wait compares, looks up, waits and
cleans up in four critical sections and so in four actions. `Rwlock` steps
through each access to its atomics. A memory call is a host call and a later
update of the tables, with the call `pending` in between. A guarded access tests,
repairs, tests again and moves, a step each. A descriptor call validates, looks
up, transfers and advances in steps of its own. A patch is torn and finished in
two steps under `PatchMutex`, between which other threads execute and decode.
Calls that hold one mutex from end to end (draws, the heap, direct memory) are
one step on their record of state.

**State that is not in the code.** History variables exist only for properties:
`held` (what the guest believes it holds), `due`, `target` (who waited when a
signal came), `unspent` (raised less consumed), `delivered`, `empty`, `before`,
`moved` and `disturbed` (what descriptor calls transferred, which descriptors
were closed under a call), `misused` (read-write locks whose holders lost them to
the unlock of another thread), `overlapped` (whether the last reset met a call that
looks after the vblank pump), `raced` (blocks mapped where the same block is being
unmapped), `landed` (the last TLS access), `dirty`, `missed`
(texels stored to since they were copied), `armed`, `done`, `shown`, `torn` and
the like; each is marked "history" where it is declared or explained there.

**Guest programs** call any handler in any order with any argument of the small
sets, with these limits, which the headers of the modules name: a thread makes
one call at a time; a mutex variable is not destroyed while a thread holds the
mutex (POSIX leaves that undefined); memory is released exactly as it was given
and a file closed once (`GuestMemory`, `GuestFiles`); a thread does not lock a
read-write lock that it holds, though it may unlock one that it does not; `TextureCache` has one
storing thread; a session's guest reaches imports, which is where a stop is seen.

**Variants.** Definitions marked "Variant for the mutant runs" are plausible
mistakes (a dropped test, a notify to one instead of all). Each property is
known to fail when one of them replaces the definition it mutates.

## 3. The runs

Seven runs pass and five find the counterexamples of section 5.

| run | instance | states | shows |
|---|---|---|---|
| `cond` | 3 threads, 1 mutex of each of 4 types, recursion 2, 1 condition variable, 2 signals or broadcasts | 359k | exclusion, hand-over and FIFO hold when waits, signals and time-outs interleave; the mutex implements `FifoLock` |
| `cond_liveness` | the same, broadcast only | 24k | a waiter present at a broadcast comes back with its mutex |
| `sync_objects` | 3 threads, 1 object of each kind (2 for once and guards), 2 address waiters against 1 waker | 409k | no lost wake-up, single consumption, writer exclusion with unlocks by anybody, once, all-or-nothing counted locks, one object per mutex variable, a variable is a FIFO lock |
| `threads` | 3 ids, room for 2 | 285k | stacks outlive guest code; a join owns the entry until it frees it; a join returns |
| `resources` | pool of 4 pages, window of 2, 2 mutators, 1 reader, 2 callers on 2 descriptors, heap of 64 addresses, 3 threads on 1 patched site, ... | 728k | nothing is handed out twice, blocks arrive ready, tables follow the host, guarded accesses match their reference, exceptions live until handled, races of descriptors, page cache and patched sites are survived |
| `services` | 2 sessions, 3 modules, 2 files, 2 clients, 3 tracks, 2 titles, ... | 677k | ordered start and teardown, a stop ends the run, modules come up linked, the display and sound serve their clients, files keep their owner, saved state returns |
| `graphics` | 3 draws and flips (at most 2 flips, to 2 buffers), programs of up to 7 words, W = 8, batches of 2, 4 textures, 3 frames, ... | 1.29M | draws reach their target, evaluator and emitted code agree, snapshots survive, texture copies are current, frames come in order |
| `cond_signal_lost`, `address_wait_orphan`, `stale_texture`, `tracked_store`, `player_stop_hangs` | small | | counterexamples |

**Why these bounds.** Three threads are a holder, a waiter that is served and
one that overtakes, times out or signals; a fourth only adds a second of one
of these roles. Recursion 2 separates "the last unlock" from the others. Two
signals allow one that is old when a thread begins to wait. Two heap blocks let
a block be freed and taken again. For semaphores a maximum of 2 and requests of
up to 2 make signals that clamp and that serve one of two waiters. Two bits and
four kinds of wait make waits compete. Room for 2 threads among 3 ids makes
creation fail and reuse the place of an ended one.

In `resources` a pool of 4 pages with blocks of up to 2 gives holes, splits,
exact fits and exhaustion; an address space of 64 makes sums of the heap wrap, chunks of
16 and 40 make a request larger than a chunk; 2 callers and 2 free descriptors
make a closed number come back under a call; `StubRoom` 1 and one retry make both
run out, two guest threads and one of the host share a site; exceptions of depth
4 nest a throw in a handler in a cleanup. In `services` cycles and aliases among
4 names need 3 modules; images have segments that share pages (`PageWords` 2);
3 starts of the settings see a crash, a repair and a change. In `graphics` every
ring and cache holds 2 or 3 entries and a draw may need more than is left; words
of 8 bits contain every constant of the scalar instructions scaled (sign, shift
counts, halves). Three draws with room for two deferred ones (`kMaxPendingTargetless`, 4096
in the code) reach the limit, and two flips separate the first flip after a draw from
a later one. One queue is enough: the shadow of a queue is its own, a submission is
walked to its end under one lock, and what queues share, the caches of programs, is
read and written by any draw. A shader that writes an image and one without textures
give a draw every destination it may have. The presenter is initialised, resized and
shut down any number of times around its three frames. Programs have a loop entered at its test, forward and backward
branches into the middle of instructions. `PAGE_SIZE` 2 with textures of 1 to 3
texels gives sharing of a page and a texture that starts inside a page; a cache
of 1 is evicted. Counters that would grow for ever (`MaxSequence`, `MaxSignals`,
`MaxPosts`, `MaxSets`, `MaxArms`, `MaxGeneration`, `MaxOffset`, `MaxRuns`, ...)
are bounded; the state between two increments does not depend on their size.

**Deadlock** is checked except where the system may stop: threads that all
ended, a lost signal, a process that crashed or ended, a table whose bound is
used up.

**Fairness.** Weak fairness of steps inside the emulator that no guest decision
can stop, because the host schedules every runnable thread: a signaller that has
advanced the sequence goes on to notify (`CondNotify`), a woken or expired wait
returns, a thread that was granted a mutex runs (`PthreadCondFairness`), a host
thread that left guest code ends, `CreateThread` and `JoinThread` go on
(`GuestThreads`); a guest that dispatches an import sees the stop flag, the timer
of the forced stop expires, the loop ends (`CoreSession!Fairness`); a Stop that
has the player's lock and the loop thread go on (`SoundPlayer!Fairness`);
the steps of an address wait and its notify (`AddressWait!Fairness`).
`cond_liveness` adds that a holder of a mutex eventually unlocks it: a property of
the guest without which no lock returns. Nothing assumes that the guest signals,
or that a wake-up without a notify ever happens.

## 4. The proofs

Every theorem holds for all values of the constants that satisfy the ASSUME of its
module. These assumptions say that null values are not members of their sets,
that bounds are natural numbers (positive where the code divides or counts by
them), that sets of threads are finite where the code counts threads, which
modes and types exist, and of the allocators (`ComponentsAssumption`) what the
constants of the code satisfy: alignments are powers of two, the chunks the host
gives to the heap are apart and end before the address space does, and one of the
lengths of guarded accesses is the longest. `ServicesAssumption` takes four of the
components' together: of saves, that null values are apart and configurations are
pairs of a directory and keys; of files, that 0 is no descriptor and no struct and
that the content of a file is a sequence; of audio, that threads are finitely many
and a port has at least one buffer; of the preview player, that no track is the
null value. TLC evaluates each in a run.

| module | theorem | states |
|---|---|---|
| `MutexCallsProofs` | `TypeCorrect` | the mutex by itself is well typed |
| | `MutualExclusionHolds` | two threads never both believe they hold a mutex |
| | `NeverFreeWithWaiterHolds` | a mutex without owner has no waiter |
| | `GrantReachesCallerHolds` | an owner believes it holds the mutex or is on its way out of the lock call |
| | `WaitersAreQueuedOnceHolds` | a blocked thread is queued exactly once, or owns the mutex |
| | `RefinesFifoLock` | `GuestMutexSpec => ImplementsFifoLock` |
| `GuestThreadsProofs` | `CondTypeCorrect`, `CondMutualExclusion`, `CondNeverFreeWithWaiter`, `CondGrantReachesCaller`, `CondRefinesFifoLock` | the same with waits, time-outs and signals |
| | `WaiterHoldsNothingHolds` | a thread inside a wait holds no mutex and queues for none |
| | `RegistryTypeCorrect`, `MemoryOutlivesGuestCodeHolds`, `JoinedStaysUntilFreedHolds` | the registry |
| `SyncObjectsProofs` | `SyncTypeCorrect` | all kinds of object are well typed |
| | `NoWakeupIsEverLost` | no sleeper is left without the one who is to wake it |
| | `PostsServeOneWait`, `UntimedWaitsDeliver` | what is set or posted once is consumed once; an untimed wait returns an event |
| | `ReadersAndWriterAreApart` | whoever unlocks: nothing is taken from a lock nobody holds, and a writer's lock is given back once; until a holder loses its lock to another thread, a writer excludes everybody and unlock releases the mode that was acquired |
| | `InitRunsOnce` | once routines and guarded statics |
| | `KernelLockIsAllOrNothing` | a counted lock takes all its levels or none |
| | `OneObjectStandsBehindAVariable`, `VariablesRefineFifoLocks` | mutex variables under promotion, init and destruction |
| `GuestResourcesProofs` | `RacesSurvived` | descriptors, page cache and patched sites under other threads' steps |
| | `NothingHandedOutTwice` | blocks of the pool, outside it, of direct memory and of the heap overlap neither one another nor what is free; a handle belongs to one descriptor or one call |
| | `BlocksAreReady` | mapped memory is zero, direct memory committed to its end |
| | `TablesFollow` | the region table has every block held but those mapped where an unmap of the same block was half done; Query tells of every page held |
| | `ExceptionsLive` | an exception is allocated while it is under way or caught, the unwinder's records agree with the stack, no destructor or clause is jumped over |
| | `AccessesMatch` | guarded accesses do what memmove, memset and the string functions do, and stop short only where they must |
| | `ResourcesTyped` | tables of the memory manager, direct memory, stack and exceptions |
| `GuestMemoryProofs` | `MemoryInvHolds` | the inductive invariant of the memory manager by itself |
| `ServicesProofs` | `SubsystemsOutlive` | a subsystem is up only with all it depends on; all are up while the guest runs |
| | `DisplayServes` | one vblank pump, which the next reset joins; it runs while a port is open and nobody joins it under its lock, unless the last reset overlapped a caller; its edges reach their queues; the last flip is shown, and reported to who was registered before it |
| | `FilesKeepOwner` | a file the guest holds keeps its descriptor and struct; calls are served on it and move its position as they say |
| | `SoundPlays` | audio buffers are in one place each, blocks are played once and in order, a sleeper is woken; the player caches a track's own samples and has one engine |

`CondInvariantHolds` and `SyncInvariantHolds` are the inductive invariants they
rest on. `MutexCallsProofs` also holds the lemmas about mutexes that
`SyncObjectsProofs` uses, `GuestMemoryProofs` and `GuestAccessProofs` those that
`GuestResourcesProofs` uses, `ServicePartsProofs` (files, audio ports, preview
player) those that `ServicesProofs` uses. None of the properties is inductive as it
stands; what each needs:

**Mutex.** Exclusion is about what the guest believes (`held`), which changes in
three places; it needs that the belief equals the recursion count of the object
for its owner and is zero for others (`HeldIsRecursion`). The hand-over takes the
head of the FIFO, so that head must be a blocked thread that is not the owner
(`QueuedAreBlocked`), must not be left in the FIFO a second time (`QueuedOnce`)
and must be awake afterwards (`GrantedIsAwake`); a time-out removes a thread, so
every blocked thread must be found there (`BlockedAreQueued`). With `FreeIsUnused`
and the types these make `GuestMutexInv`. The refinement maps owner and FIFO to
one sequence: a lock appends to it, the last unlock takes its head off, a
time-out removes from the middle, the rest stutters.

**Condition variables.** Seen from the mutex every step is a step of the mutex or
none: a wait begins with the last unlock (`WaitIsUnlock`), and its return is a
lock. So `GuestMutexInv` carries over; what is added is that a thread inside a
wait is out of reach of every mutex (`InsideIsDetached`) and awake when it asks
for it again (`ReacquiringIsAwake`).

**Counted locks and mutex variables** are again steps of the mutex or none. For
the counted lock the levels must add up in the middle of a call: what is held is
what was held before plus what was taken (`LevelsAddUp`), and only an untimed
lock blocks (`CallIsRounds`). For a variable a thread between two steps of a
look-up must still have the token the word holds (`LookupIsCurrent`), because
destruction of a variable in use is excluded, and a block that is not in the map
must be nobody's mutex (`FreeIsNobodys`), so that a new object there starts free.

**Wake-ups.** For kernel semaphores, event flags and event queues the property
itself is nearly inductive: a sleeper whose condition holds has a thread that is
about to notify. It needs that a call under way names an object that exists and
that fewer permits or bits satisfy fewer waits. For POSIX semaphores, where a post
notifies one, it is a counting argument (`EveryPermitHasATaker`): the awake waiters
number at least the permits, or nobody sleeps. A bit that is up was raised once
more than it was spent (`RaisedIsUnspent`); of the events of a queue no two are
about the same source and a pending one was armed once more than delivered
(`SoundVector`). For addresses the count of an entry is the number of its waiters
unless the entry is fresh (`CountIsRight`).

**Read-write locks.** The atomics are written after the SRW lock is taken and
before it is released, so neither describes the holders between two steps. The
invariant describes both by who is where (`LockMatches`): the SRW lock's shared
count is the number of `SharedHolders`, `readers` that of `CountedReaders`, and a
thread in unlock holds the mode that it guessed (`RwCallsOK`). Unlock does not ask
whether its caller holds the lock, so the description ends for a lock (`misused`) when
an unlock finds something to take that its thread did not acquire. What is left then is
about the exclusive mode alone, and holds because the flag is taken by an exchange: of
the threads about to set it and about to release there is at most one.

**Guards.** The guards under way of a thread are a stack, each in progress for that
thread and none twice (`GuardsUnderWay`), and a completed one is in progress for
nobody (`GuardsComplete`).

**Threads.** A stack goes with its entry (`EntryOwnsMemory`), and an entry is freed
by a thread that exits detached, by a join that has closed the handle, and by a
failed creation. `RegistryInv` says why none of these hits running guest code:
before the host thread is started nobody but the creator acts on the id
(`UnknownBeforeStart`); joined and detached exclude each other, and a join in
progress has set its mark (`JoinExcludesDetach`); a closed join means an ended
host thread (`EndedBeforeClosed`).

**Descriptors.** A descriptor nobody disturbed has at most one call, and that call
found it (`CallsAlone`); its offset equals what was transferred, except between
the transfer and the update, where it is one behind (`OffsetsAgree`,
`OffsetsBehind`). A handle has one owner across the moment between the opening of
a host file and the allocation of its descriptor (`EntriesOwn`, `CallsOwn`,
`OpenHasOwner`). That the allocator finds a free slot (`SlotIsFree`) is the least
element of a set of naturals (`FirstIsMember`).

**Page cache.** No entry is of a later generation than the map's, and one of the
current generation that is read while a call has advanced the generation and not
yet the page is marked as overlapped: for the entry, for the query under way,
and for its answer (`EntryOK`, `AskingOK`, `AnswerOK`, `SlotOK`).

**Patched sites.** Who rewrites holds the lock and nobody else does (`LockOK`); a
site nobody rewrites holds exactly what its record says (`SiteOK`). The heart is
`FaultOK`: a thread that faulted at a site has not used a retry of it, unless the
site is being restored at this moment, after which it is blacklisted; this is what
makes the bounded number of retries enough, and it holds because a record and its
retries are made and dropped as one with the bytes. For the place of an access
the three copies of a thread pointer agree whenever patching is on (`PointerOK`).

**Guest memory manager.** Between a host call and the update of the table a block is known
to the host, to the free list or to the caller alone, so the invariant speaks of
all of them at once (`MemoryInv`). What is held, what a pending call works on and
what is on the free list are apart (`BlocksDisjoint`); pages held outside the pool
are not free at the host (`WindowBacked`), and the calls that bypass the pool are
about such pages (`OutsidePool`); the pool is committed as a
prefix, and dirty only where it is committed, so a page past the bump pointer that
is cleared or new is zero (`PoolTouched`, `MappedIsZero`). A block that is held is
in the table unless it was mapped while an unmap of a block of the same address
and size was under way, which is marked and only happens outside the pool (`HeldIsTracked`, `RacesMarked`,
`PoolRegionsHeld`). A pending change lies inside the block it changes
(`ChangesInBlocks`).

**Direct memory.** What was carved since the start is placed, committed to its end
and apart (`CarvedIsPlaced`, `CarvedIsApart`). A reset keeps the records of older
runs, and these come first in the list (`OldRecordsFirst`): a release that matches
an old record takes that one and frees nothing of this run. Rounding up is
monotone, and a chunk that the host refused ends the commitment before the offset
moves.

**libc heap.** The extents of blocks with their headers, the free blocks and what
lies behind the bump pointer are inside chunks and clear of one another
(`HeapInChunks`, `HeapApart`). A block taken from a free one may lose padding at its
start and its end, which is then in no extent at all. A size that wraps around the address
space ends the program, which the invariant excludes by the outcome.

**Exceptions.** The stack of frames, the thread's list of caught exceptions, the
handler counts and the unwinder's records describe one situation four times
(`CxaSound`). A pad that calls nothing is the innermost frame's (`PadsOnTop`); two
pads under way belong to two exceptions (`FlightsAreDistinct`); a pad under way has
the record of the frame that will catch, with no pad under way between
(`RecordsMatchPads`); the clauses on the stack are, in order, the entries of
`g_caught` (`ClausesMatchCaught`), from which the handler counts follow but for
exceptions that were rethrown (`HandlersCount`). That no frame with a destructor is
jumped over is a fact about the search of the second phase, which raise and resume
share (`PadsAreKept`).

**Guarded accesses.** What memmove or strcpy does on the whole range is said of the
part that has been handled: the bytes moved so far hold what the source held at the
start, whichever end the copy began at (`Copying`); a text has no end (`RunsTo`) and
a comparison no difference (`EqualTo`) before the current offset; strncpy has written
a prefix and then zeros (`Padding`). The next chunk lies on one page of each range
(`ChunkOnOnePage`), so that one test of its first page answers for all of it, and
its source has not been overwritten yet: with overlapping ranges this is what the
direction is for. A page that was repaired stays usable until another thread
arms it again (`Repairing`), which is why an access fails at the second test only
at a page that cannot be repaired, or after such a race.

**Core session.** That the dependencies of what is up are up is not inductive: taking
the last one down could leave one that needs it. It needs the order: every
subsystem stands in the list once, behind all it depends on (`UpInOrder`), so that
the last is nobody's dependency. From the end of `pcsx5_init` to `pcsx5_shutdown` all
are up and the main thread is inside `pcsx5_run` only (`SessionInv`).

**Video out.** Flips that never overlap leave frame, report and display in one
state (`Settled`), where a queue has heard of the last flip only if one came since it
was registered (`Heard`), or the one flip under way is the last and only its own event
may be missing (`Flips`). That no two pumps tick needs no such condition: a pump is
started only after the one of the handle has ended, and the handle is cleared only
after a join (`OwnPump`). That one runs does need it. The start flag, the stop flag, the handle of the pump and the
clients are in one of three situations: no pump and nobody starting one while
any open port still has its caller on the way to it (`Down`), one client between
winning the exchange and publishing the pump (`ComingUp`), or a pump that runs
(`Running`); between the steps of a reset nobody calls and what it cleared stays
cleared (`Resetting`). A reset that meets no call restores this after one that did. What an edge owes is on ports that are still to be
signalled (`DuesAreToCome`).

**Guest files.** Between the runtime's close and the end of `fclose` three tables name a
descriptor that may already be another file's. A descriptor is of one opening
(`CrtIsOneToOne`), which either the guest holds once and only its users call on
(`HeldIsOpen`, `UsersHold`) or one call owns (`OwnersOwn`); a call that has closed it
and has yet to untrack it put the next owner on record (`EndedCross`); all others are
in `g_guest_fds` (`Tracked`), and an entry of a struct is of a file that is held or
being closed (`StructsNamed`). A call that is alone on its file moves it as it says
because the position is where the call has come (`Progress`): of `fgets`, that what it
has is the content since its start and no shorter piece was a line.

**Audio ports.** As long as no close has overtaken an output, every buffer of a port is
free, at the device or with the one thread that fills it (`Places`), so that the
three numbers add up to the pool and `in_flight` counts the last two (`Counts`).
Which calls a thread can be in follows from the back end (`Phases`). What was
submitted is what was played followed by what the device holds (`Queued`), where a
buffer being filled already has its thread's block (`Fills`), or by what the ring
holds between `head` and `tail` (`InRing`); on the ring the thread that pushes still
sees the `tail` it read, with a slot to spare (`Pushes`), which holds for one thread
only. A thread sleeps because all buffers are out, and the sleepers are fewer
than the threads, so one is at the device (`Sleepers`): the attempt to prove this
without a bound failed, and rightly so, see section 5.

**Preview player.** The worker's request, its wav and the cached wav are each of the
path they stand beside, through both places that discard a request and both that
start one (`SoundShapes`). `OneEngine` is then inductive, because who joins the loop
thread keeps the lock until it has set every flag anew.

**Compositions.** `SyncObjects` and `GuestResources` keep the conjunction of their
parts' invariants, since a step of one kind leaves the variables of the others
alone (`StepByKind`, `StepOfOne`). The memory manager is in `GuestResources` twice,
with and without a pool: `GuestMemoryProofs` is instantiated for each, and its
operators agree with those of the composition by definition.

## 5. Where the code and its comments disagree

Each is a run whose property states the comment, and TLC's counterexample is a
behaviour of the code. PROJECT.json "findings" quotes the lines.

- **cond_signal_lost.** A signal advances the sequence, drops the lock, and only
  then notifies one thread. A thread that begins to wait in between samples the
  new sequence, takes the notify, and sleeps again; the thread the signal was
  for sleeps on.
- **address_wait_orphan.** The last waiter of an address erases its entry after
  another thread has looked it up: that thread waits on an entry no wake finds.
- **stale_texture.** Tracking and reading the generation are two critical
  sections. A store in between is noticed, and its generation is captured as
  that of the upload, with the range disarmed: later stores are not noticed.
  `ArmedCaptureIsCurrent` says that this window is the only way for ranges that lie
  apart; coalesced neighbours are below, under "Memory".
- **tracked_store.** The handler of the kernel is installed last and first in
  line, and claims write faults on tracked pages because the page is committed.
- **player_stop_hangs.** Stop joins the loop thread with the lock held that the
  loop thread takes after its sleep.

### Seen while modelling

Behaviours met on the way, without a run of their own. Where a property would
fail because of one of them, the property names the exception.

*Synchronisation.* The try-locks of read-write locks are bound to the blocking
handlers as well; two overlapping unlocks of a reader's lock, one of them by a thread
that holds nothing, may both see the last reader, take the counter below zero and
release an SRW lock that is not acquired, and an unlock by a stranger may leave one
acquired that nobody can give back; deleting a semaphore, flag or queue strands its waiters;
`AddReadEvent` never notifies; events are drained before the guest's buffer is
known to be writable; a failed `LibcHeapAlloc` stores token 0 in a mutex variable.
`CreateThread` writes `is_running` after the thread may have ended; Wake and
Suspend use the event handle after the lock is dropped.

*Memory.* `Unmap` releases the pages before it removes the region (`memory.cpp` 623):
who maps the same block in between loses its new region. `PoolAlloc` clears read-only pages with `g_regions_mutex` held;
`PoolFreeLocked` accepts any address and size; Query ignores mixed protection in
the pool; `Unmap` of the head of a fixed mapping releases the whole allocation;
`AllocGuestMemory` frees the block it returns when it falls back for alignment;
`ReleaseRange` takes its lock twice for pool memory; `g_free_ranges` is never
consulted; a backward `GuardedCopy` that stops early reports the length of a
copied tail. Coalesced tracked ranges that are tracked again overlap, and the
fault handler looks at the first; a texture tracked again with a smaller size
loses its tail. The heap never coalesces, keeps its magic after a free, and loses
alignment padding; huge sizes crash or hang with the heap mutex held. A rethrown
exception may be freed in flight. A partial release of direct memory frees the
whole block, and a reset keeps `g_phys_blocks`.

*Descriptors and files.* Sockets are never closed at the host. `fclose` closes
the host descriptor before it forgets it, so an open that gets the number in
between loses it; `fopen` "w" keeps old contents; `fread` on a bad descriptor
returns a huge count; `lseek`, `fseek`, `fgets` and `feof` do not look at
`g_guest_fds`; `sceKernelMunmap` does nothing.

*Patching and loading.* A thread that decoded patched bytes crashes at its last
chance when another one's stub fault has restored the site meanwhile; the second
of two threads that fault in one stub finds no record; `HandleStubFault` leaves
what the stub pushed; retries are per thread although `tls_patch.h` says per
site; emulation and stub differ in the upper half of 32-bit reads and in the
extension of immediates. The first PRX loaded counts as the main module for TLS,
since PRX modules are registered before the program (`kernel.cpp` 537-580); the TLS
template is copied before it is relocated; in strict mode every RELATIVE
relocation fails the link (`kernel.cpp` 1026-1029); a module asked for under two
names loses its order edge for the second; a module loaded late is loaded again
even if it is there and never initialised; a failed load leaks its reservation.
`Resolve` releases its lock between search and registration; `ResolveAny` may
answer with another module's stub.

*Sessions.* A stop kills the process when a worker or an initialiser sees it
(`core_api.h` 68-70 says otherwise); a pause hides a stop and persists to the next
session; a forced stop can leave `g_hle_mutex` locked; IPC shutdown joins a reader
that is blocked in ReadFile.

*Video, audio, player.* After a reset that overlaps a call which looks after the vblank
pump, a caller may join a running pump with `g_vblank_mtx` held, for which that pump
waits. Flips with a variable rate notify the pump without making
it tick; `WaitVblank` posts an extra edge; two flips from two threads may leave the
display on the older frame; waveOut buffers keep the size of their first block;
an XAudio2 output asleep during Close sleeps for ever; a buffer that waveOut refuses
wakes nobody, so with more threads than buffers one may sleep beside a free buffer
(`SubmitToBackend`; `SleeperIsWoken` excludes it by its premise); two outputs on the
WASAPI ring lose blocks; the player's worker samples the generation after it dropped its
lock, and Stop joins under it.

*Graphics.* The offset of `DRAW_INDEX_OFFSET_2` is applied one draw late and
sticks; `ResetQueue` drops deferred draws uncounted; deferred composites run after
clears submitted later; decoded programs are cached by address for ever;
`WAIT_REG_MEM`, `RELEASE_MEM` and `WRITE_DATA` are never executed. A draw that is
rotated in its middle uses its old slot and index offset; `VkDispatchExecute`
records into a closed buffer; a failed submit loses its batch. The presenter fills
its staging buffer before it waits for the fence, and a refused submission leaves
the fence unsignalled, so that the next present waits for ever (`FenceIsComing` says
that nothing else does); `done_sems` is sized once, by `CreateSyncAndCommands`, so a
swapchain made anew with more images indexes beyond it (the model keeps their number). Evaluator and
emitted code differ in the condition code of `S_MOV_B64` and `S_WQM_B64`, in
`S_FF1` of 0, in `S_GETPC`, and in instructions only one of them has. Code after
the first `S_ENDPGM` is never decoded; what follows a backward branch in a
supplemental path stays unbound.

*Files of the emulator.* A per-title file overlays whole sections with defaults,
though `config.h` 135-137 says untouched fields fall back; a global file that
cannot be parsed is overwritten by the next save; files are truncated and then
written. Mounting a flat save removes other users' directories and rolls trophies
back to the last commit; enabling encryption again brings an old image back over
newer saves. The compatibility database writes `\u` escapes its parser refuses;
`compat.h` and the code differ in what `Remove` and `UpdateAuto` return for an absent
title. In packages, PS5 entries whose size is not a multiple of 16 lose their last
block; in the file system of packages a file that shrinks keeps its indirect block,
which a remount gives to another file.

## 6. Limits

**Not modelled.** Calls into drivers and data transformation (Vulkan context,
register decoding, vector instructions, decryption, media, text), which have no
state of their own; input devices, whose state is the host's; guest libraries
that answer success; IPC, logging and reports with one lock each; the C# front
end. Package formats and the instruction emulator of the exception handler are
sequential and left out so far. PROJECT.json gives the reason for each component.

**Left out on purpose, and what that costs.** A variable is not destroyed while a call
on it is under way (`MutexCalls!Unused`), so a look-up that another thread's destroy
overtakes is not seen. Only the main thread of the guest counts as a user of the
subsystems (`CoreSession`). Buffers of draws are copied, never imported
(`Importable` is empty), since an imported one is the guest's own memory; a draw that
is rotated in its middle or whose submission fails is exempt from `SnapshotsSurvive`.
Sampling of a page during an unfinished call may keep a stale answer
(`RacesAreSurvived`). `KnownToDiffer` exempts `S_MOV_B64`, `S_WQM_B64`, `S_FF1`,
operands in EXEC and the saveexec forms from the comparison of evaluator and emitted
code. `SnapshotsSurvive`, `OnePump`, `HeldIsTracked` and the rest name their exceptions
beside their definitions.

**Only model-checked, and why.**

- Liveness (`BroadcastWaiterReturns`, `JoinReturns`, `StopEndsTheRun`): fairness and ENABLED are beyond the proof system.
- What a fold or a recursive function computes for every input (text of
  `JsonText`, walks of `ShaderWalk`): induction over data is beyond the installed
  provers.
- `ModulesComeUpLinked` rests on the order that a walk over the modules computes, and
  `SavedStateReturns` on what the parser of `JsonText` makes of what its writer
  wrote: induction over data again.
- The properties of `Graphics`: it reaches the `Bitwise` operators of `ScalarAlu`, so no
  theorem can be stated about it as it is.
