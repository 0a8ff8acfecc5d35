---------------------------- MODULE TextureCache ----------------------------
(***************************************************************************)
(* The texture cache of src/gpu/vk_draw.cpp over the guest write tracker.  *)
(* Draws run one at a time (the submit lock) and re-upload a texture when  *)
(* the write generation of its address is not the one it was uploaded at.  *)
(* Meanwhile a guest thread stores to guest memory: a native store faults  *)
(* on a read-only page and goes through the exception handlers; an HLE     *)
(* write (GuardedWrite) tests the page first and releases the range.       *)
(*                                                                         *)
(* Memory contents are not kept: `missed' holds the addresses of a texture *)
(* stored to since the cached copy of them was read, and `armed', which    *)
(* the code does not keep either, says whether the range was still armed   *)
(* when the generation was captured.                                       *)
(***************************************************************************)
EXTENDS Integers, SequencesExt

CONSTANTS
  PAGE_SIZE,            \* addresses of one guest page
  Textures,             \* the textures drawn: [addr, size] records
  Stores,               \* the addresses guest code stores to
  CacheLimit,           \* textures cached before everything is evicted
  PhysPool,             \* addresses inside the direct-memory pool of libkernel
  KernelStates,         \* whether Kernel::Initialize may have run
  MaxGeneration         \* bound: stores stop when the generations sum to that

VARIABLES
  ranges,               \* g_write_ranges, in the order of the vector
  readOnly,             \* the addresses whose page the host has read-only
  cache,                \* g_ds.textures: texture -> [generation, missed, armed]
  draw,                 \* the draw under way
  writer,               \* the guest thread that stores
  kernelInitialised     \* Kernel::Initialize put its handler in front

vars == <<ranges, readOnly, cache, draw, writer, kernelInitialised>>

(* The guest write tracker of src/memory/memory.cpp.  A tracked range is   *)
(* armed by making its pages read-only; the first store to it faults, and  *)
(* the handler restores write access and advances the generation of the    *)
(* range.  Every operation holds g_regions_mutex for its whole body, so    *)
(* each is one step.  VirtualProtect succeeds: tracked memory is committed.*)

rangeVars == <<ranges, readOnly>>

Span(r) == r.start .. (r.start + r.length - 1)

Indices(P(_)) == {i \in DOMAIN ranges : P(ranges[i])}

(* The first range, in vector order, for which P holds; 0 when none does. *)
FirstIndex(P(_)) == IF Indices(P) = {} THEN 0 ELSE Min(Indices(P))

RangeOf(address) == FirstIndex(LAMBDA r : r.base = address)
RangeCovering(address) == FirstIndex(LAMBDA r : address \in Span(r))

(* The page-aligned span TrackGuestWrites protects for byteCount bytes. *)
NewRange(address, byteCount, generation) ==
  LET start == address - (address % PAGE_SIZE)
      end   == address + byteCount + PAGE_SIZE - 1
  IN [base |-> address, start |-> start,
      length |-> (end - (end % PAGE_SIZE)) - start,
      generation |-> generation, armed |-> TRUE]

Released(r) == IF r.armed THEN readOnly \ Span(r) ELSE readOnly

(* The address is tracked already: arm it again, over a new span when the  *)
(* size differs, and keep its generation.                                  *)
Retrack(address, byteCount) ==
  LET i == RangeOf(address)
      r == ranges[i]
      fresh == NewRange(address, byteCount, r.generation)
      same == fresh.start = r.start /\ fresh.length = r.length
  IN /\ i # 0
     /\ ranges' = [ranges EXCEPT ![i] = fresh]
     /\ readOnly' = (IF same THEN readOnly ELSE Released(r)) \cup Span(fresh)

Touches(r, fresh) ==
  r.start + r.length = fresh.start \/ fresh.start + fresh.length = r.start

(* The span touches one already tracked: that range grows over it, keeps   *)
(* its own base and is protected over the new part only if it is armed.    *)
Coalesce(address, byteCount) ==
  LET fresh == NewRange(address, byteCount, 0)
      i == FirstIndex(LAMBDA r : Touches(r, fresh))
      grown == [ranges[i] EXCEPT !.start = Min({@, fresh.start}),
                                 !.length = @ + fresh.length]
  IN /\ RangeOf(address) = 0
     /\ i # 0
     /\ ranges' = [ranges EXCEPT ![i] = grown]
     /\ readOnly' = IF grown.armed THEN readOnly \cup Span(grown) ELSE readOnly

TrackFresh(address, byteCount) ==
  LET fresh == NewRange(address, byteCount, 0)
  IN /\ RangeOf(address) = 0
     /\ Indices(LAMBDA r : Touches(r, fresh)) = {}
     /\ ranges' = Append(ranges, fresh)
     /\ readOnly' = readOnly \cup Span(fresh)

TrackGuestWrites(address, byteCount) ==
  \/ Retrack(address, byteCount)
  \/ Coalesce(address, byteCount)
  \/ TrackFresh(address, byteCount)

(* The generation of a tracked address, -1 when it is not tracked. *)
TryGetGuestWriteGeneration(address) ==
  IF RangeOf(address) = 0 THEN -1 ELSE ranges[RangeOf(address)].generation

(* Only the first range that covers the address is looked at. *)
WriteClaimed(address) ==
  RangeCovering(address) # 0 /\ ranges[RangeCovering(address)].armed

\* Variant for the mutant runs: the generation stays.
DisarmSilently(address) ==
  LET i == RangeCovering(address)
  IN IF WriteClaimed(address)
     THEN /\ ranges' = [ranges EXCEPT ![i].armed = FALSE]
          /\ readOnly' = readOnly \ Span(ranges[i])
     ELSE UNCHANGED rangeVars

\* Variant for the mutant runs: write access is restored for one address.
DisarmOneAddress(address) ==
  LET i == RangeCovering(address)
  IN IF WriteClaimed(address)
     THEN /\ ranges' = [ranges EXCEPT ![i].armed = FALSE, ![i].generation = @ + 1]
          /\ readOnly' = readOnly \ {address}
     ELSE UNCHANGED rangeVars

HandleTrackedWriteFault(address) ==
  LET i == RangeCovering(address)
  IN IF WriteClaimed(address)
     THEN /\ ranges' = [ranges EXCEPT ![i].armed = FALSE, ![i].generation = @ + 1]
          /\ readOnly' = readOnly \ Span(ranges[i])
     ELSE UNCHANGED rangeVars

-----------------------------------------------------------------------------
Texels(t) == t.addr .. (t.addr + t.size - 1)
Idle == [pc |-> "idle"]
Cached == DOMAIN cache

TypeOK ==
  /\ ranges \in Seq([base : Nat, start : Nat, length : Nat \ {0},
                     generation : 0 .. MaxGeneration, armed : BOOLEAN])
  /\ readOnly \subseteq UNION {Span(ranges[i]) : i \in DOMAIN ranges}
  /\ \A t \in Cached : /\ t \in Textures
                       /\ cache[t].generation \in -1 .. MaxGeneration
                       /\ cache[t].missed \subseteq Texels(t)
                       /\ cache[t].armed \in BOOLEAN
  /\ Cardinality(Cached) <= CacheLimit + 1
  /\ draw.pc \in {"idle", "track", "capture", "read"}
  /\ writer.pc \in {"idle", "storing", "faulted", "recheck", "crashed"}

-----------------------------------------------------------------------------
(* Draws *)

(* The cached image is taken as it is. *)
Fresh(t) == /\ t \in Cached
            /\ cache[t].generation >= 0
            /\ cache[t].generation = TryGetGuestWriteGeneration(t.addr)

NewEntry(t) == t :> [generation |-> -1, missed |-> Texels(t), armed |-> FALSE]

\* Variant for the mutant runs: nothing is ever evicted.
EnsureTextureUnbounded(t) ==
  cache' = IF t \in Cached THEN cache ELSE NewEntry(t) @@ cache

(* A texture seen for the first time gets an entry, and so many of them    *)
(* make the cache start over.                                              *)
EnsureTexture(t) ==
  cache' = IF t \in Cached THEN cache
           ELSE IF Cardinality(Cached) > CacheLimit THEN NewEntry(t)
           ELSE NewEntry(t) @@ cache

Draw(t) ==
  /\ draw = Idle
  /\ EnsureTexture(t)
  /\ ~Fresh(t)
  /\ draw' = [pc |-> "track", texture |-> t]
  /\ UNCHANGED <<rangeVars, writer, kernelInitialised>>

(* The source is tracked before it is read, *)
TrackSource ==
  /\ draw.pc = "track"
  /\ TrackGuestWrites(draw.texture.addr, draw.texture.size)
  /\ draw' = [draw EXCEPT !.pc = "capture"]
  /\ UNCHANGED <<cache, writer, kernelInitialised>>

(* and so is the generation the upload will be recorded with. *)
CaptureGeneration ==
  /\ draw.pc = "capture"
  /\ draw' = [pc |-> "read", texture |-> draw.texture,
              generation |-> TryGetGuestWriteGeneration(draw.texture.addr),
              armed |-> RangeOf(draw.texture.addr) # 0
                          /\ ranges[RangeOf(draw.texture.addr)].armed,
              toRead |-> Texels(draw.texture), missed |-> {}]
  /\ UNCHANGED <<rangeVars, cache, writer, kernelInitialised>>

ReadTexel ==
  /\ draw.pc = "read" /\ draw.toRead # {}
  /\ draw' = [draw EXCEPT !.toRead = @ \ {Min(@)}]
  /\ UNCHANGED <<rangeVars, cache, writer, kernelInitialised>>

\* Variant for the mutant runs: the generation is taken after the copy.
UploadedAtLatest ==
  /\ draw.pc = "read" /\ draw.toRead = {}
  /\ cache' = [cache EXCEPT ![draw.texture] =
                 [generation |-> TryGetGuestWriteGeneration(draw.texture.addr),
                  missed |-> draw.missed, armed |-> draw.armed]]
  /\ draw' = Idle
  /\ UNCHANGED <<rangeVars, writer, kernelInitialised>>

Uploaded ==
  /\ draw.pc = "read" /\ draw.toRead = {}
  /\ cache' = [cache EXCEPT ![draw.texture] =
                 [generation |-> draw.generation, missed |-> draw.missed,
                  armed |-> draw.armed]]
  /\ draw' = Idle
  /\ UNCHANGED <<rangeVars, writer, kernelInitialised>>

(* The staging ring is full or the source cannot be read: the image and    *)
(* its recorded generation stay what they were.                            *)
UploadFails ==
  /\ draw.pc = "read"
  /\ draw' = Idle
  /\ UNCHANGED <<rangeVars, cache, writer, kernelInitialised>>

-----------------------------------------------------------------------------
(* Guest stores *)

GenerationsLeft ==
  FoldLeft(LAMBDA n, r : n + r.generation, 0, ranges) < MaxGeneration

NativeStore(a) ==
  /\ writer = Idle /\ GenerationsLeft
  /\ writer' = [pc |-> "storing", address |-> a]
  /\ UNCHANGED <<rangeVars, cache, draw, kernelInitialised>>

(* What was copied of the address before the store is out of date. *)
Missing(missed, t, toRead) ==
  IF writer.address \in Texels(t) \ toRead THEN missed \cup {writer.address} ELSE missed

StoreLands ==
  /\ writer.pc = "storing" /\ writer.address \notin readOnly
  /\ cache' = [t \in Cached |-> [cache[t] EXCEPT !.missed = Missing(@, t, {})]]
  /\ draw' = IF draw.pc # "read" THEN draw
             ELSE [draw EXCEPT !.missed = Missing(@, draw.texture, draw.toRead)]
  /\ writer' = Idle
  /\ UNCHANGED <<rangeVars, kernelInitialised>>

StoreFaults ==
  /\ writer.pc = "storing" /\ writer.address \in readOnly /\ GenerationsLeft
  /\ writer' = [writer EXCEPT !.pc = "faulted"]
  /\ UNCHANGED <<rangeVars, cache, draw, kernelInitialised>>

(* GuestFaultVeh, with no demand-commit handler registered: a write it     *)
(* does not claim kills the process.                                       *)
GuestFaultVeh ==
  /\ writer.pc = "faulted" /\ ~kernelInitialised
  /\ HandleTrackedWriteFault(writer.address)
  /\ writer' = [writer EXCEPT !.pc = IF WriteClaimed(writer.address)
                                   THEN "storing" ELSE "crashed"]
  /\ UNCHANGED <<cache, draw, kernelInitialised>>

(* The handler of the kernel is called before the one of the tracker.  It  *)
(* asks the demand-commit handler, which finds the page committed: it      *)
(* commits a page of the direct-memory pool again, which may or may not    *)
(* make it writable, and claims any other page without doing anything.     *)
VectoredExceptionHandler ==
  /\ writer.pc = "faulted" /\ kernelInitialised
  /\ \/ UNCHANGED readOnly
     \/ /\ writer.address \in PhysPool
        /\ readOnly' = readOnly \ PhysPool
  /\ writer' = [writer EXCEPT !.pc = "storing"]
  /\ UNCHANGED <<ranges, cache, draw, kernelInitialised>>

(* GuardedWrite of one address: write, or release its range first, *)
GuardedWrite(a) ==
  /\ writer = Idle /\ GenerationsLeft
  /\ IF a \in readOnly
     THEN /\ HandleTrackedWriteFault(a)
          /\ writer' = [pc |-> "recheck", address |-> a]
     ELSE /\ UNCHANGED rangeVars
          /\ writer' = [pc |-> "storing", address |-> a]
  /\ UNCHANGED <<cache, draw, kernelInitialised>>

(* and give up when it is not writable after that. *)
WriteRechecked ==
  /\ writer.pc = "recheck"
  /\ writer' = IF writer.address \in readOnly THEN Idle ELSE [writer EXCEPT !.pc = "storing"]
  /\ UNCHANGED <<rangeVars, cache, draw, kernelInitialised>>

-----------------------------------------------------------------------------
Init == /\ ranges = <<>> /\ readOnly = {}
        /\ cache = [t \in {} |-> 0]
        /\ draw = Idle
        /\ writer = Idle
        /\ kernelInitialised \in KernelStates

DrawStep == \/ \E t \in Textures : Draw(t)
            \/ TrackSource \/ CaptureGeneration \/ ReadTexel \/ Uploaded \/ UploadFails

WriterStep == \/ \E a \in Stores : NativeStore(a) \/ GuardedWrite(a)
              \/ StoreLands \/ StoreFaults \/ GuestFaultVeh
              \/ VectoredExceptionHandler \/ WriteRechecked

Next == writer.pc # "crashed" /\ (DrawStep \/ WriterStep)
Spec == Init /\ [][Next]_vars

-----------------------------------------------------------------------------
(* A cached image the next draw takes as it is shows guest memory as it is: *)
(* a store after the copy advances the generation and forces a refresh     *)
(* (the comment in UploadTexture).                                         *)
NoStaleImage ==
  \A t \in Textures : (Fresh(t) /\ draw.pc # "read") => cache[t].missed = {}

(* No other texture starts at the address of t or has a page that touches  *)
(* a page of t.                                                            *)
Apart(t) ==
  \A u \in Textures \ {t} :
    LET r == NewRange(t.addr, t.size, 0)
        q == NewRange(u.addr, u.size, 0)
    IN q.start > r.start + r.length \/ r.start > q.start + q.length

(* It does for a texture apart from the others when no store was noticed   *)
(* between TrackGuestWrites and the capture of the generation, whatever    *)
(* stores and other draws come during the copy and after it (UploadTexture *)
(* and the generation skip of the draw).                                   *)
ArmedCaptureIsCurrent ==
  \A t \in Textures : (Apart(t) /\ Fresh(t) /\ cache[t].armed /\ draw.pc # "read")
                        => cache[t].missed = {}

(* The tracker can clear each page of such a texture it made read-only:    *)
(* the first range that covers it is armed.  Otherwise a store to the page *)
(* would fault for ever (HandleTrackedWriteFaultLocked).                   *)
ReadOnlyIsClaimed ==
  \A t \in Textures : Apart(t) =>
    \A a \in Span(NewRange(t.addr, t.size, 0)) \cap readOnly : WriteClaimed(a)

(* A store that faulted on an armed range is resumed by the tracker, which *)
(* advances its generation: the demand-commit handler never gets to see it *)
(* (the comment in GuestFaultVeh).                                         *)
TrackedWriteBumps ==
  [][writer.pc = "faulted" /\ writer'.pc = "storing" /\ WriteClaimed(writer.address)
       => ranges'[RangeCovering(writer.address)].generation
            = ranges[RangeCovering(writer.address)].generation + 1]_vars
=============================================================================
