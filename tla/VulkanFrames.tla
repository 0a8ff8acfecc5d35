---------------------------- MODULE VulkanFrames ----------------------------
(***************************************************************************)
(* From draws to the screen: the recording of guest draws                  *)
(* (src/gpu/vk_draw.cpp) and the presenter (src/gpu/vk_present.cpp). The   *)
(* two share the device and nothing else: draws are recorded under         *)
(* g_draw_mutex, frames are presented under g_present_mutex.               *)
(*                                                                         *)
(* VkDrawExecute records into one command buffer per batch, submitted at   *)
(* the flip and not awaited; the fence is awaited when the rings, the      *)
(* descriptor pool and the retired buffers of a batch are used again. A    *)
(* batch that runs out of a ring is rotated in the middle of a draw. Each  *)
(* call is one step on the record g_ds; the device runs a submitted batch  *)
(* at any time before its fence is awaited, and the guest writes memory    *)
(* meanwhile. Rings hold the number of the draw they serve, buffers and    *)
(* images the version of guest memory they were filled from.               *)
(*                                                                         *)
(* Frames of the guest go to the swapchain through one command buffer, one *)
(* fence, one semaphore for the acquire and one for each image. One        *)
(* present is under way at a time; the GPU and the presentation engine     *)
(* work on their own. Frames are numbered as they are handed over.         *)
(***************************************************************************)
EXTENDS Naturals, Sequences, SequencesExt, FiniteSets, FiniteSetsExt

CONSTANTS DrawCalls,     \* [target, textures, buffers, indexed]: shapes of a draw
          Textures, Bases,
          Importable,    \* the bases whose pages the device can import
          kBatchDraws, kIndexRing, kStagingRing, kMaxSets,
          kMaxTextures, kMaxGuestBuffers, \* cached before everything is evicted
          MaxDrawn, MaxWrites,
          Images,     \* swapchain images, 1 .. n
          Extents,    \* sizes of framebuffers and of the window
          MaxFrames   \* bound

VARIABLES g_ds,
          memory,        \* version of the guest memory that draws read
          drawn,         \* draws and dispatches submitted by the guest
          swapchain,   \* g_ps.swapchain # VK_NULL_HANDLE
          window,      \* g_ps.extent
          fence,       \* "signalled", "unsignalled"
          acquire_sem, done_sems, \* "free", "signalled", "waited" (by what is queued)
          staging,     \* [extent, frame]: the upload buffer and its texture
          encode_extent, \* of the sRGB image, 0 if there is none
          readback,    \* readback_fn is set
          readable,    \* the frame in the readback buffer
          delivered,   \* history: the last <<frame presented, frame read back>>
          call,        \* [at, source, frame, image]: the call that holds g_present_mutex
          submitted,   \* the submission the GPU works on, or NoSubmission
          presents,    \* images at the presentation engine, in order
          content,     \* by image: the frame it holds
          shown,       \* history: the frames that reached the screen, in order
          frames,
          lost,        \* history: a submission was refused since the fence was made
          torn         \* history: the upload buffer was replaced under the submission

batchVars == <<g_ds, memory, drawn>>

NoBatch == [recording |-> FALSE, in_flight |-> FALSE, draw_slot |-> 0,
            staging_off |-> 0, index_off |-> 0, sets |-> 0,
            cmd |-> <<>>, submitted |-> <<>>,   \* submitted: not yet run
            staging |-> [o \in 0 .. kStagingRing - 1 |-> 0],
            scalar_ring |-> [k \in 0 .. kBatchDraws - 1 |-> 0],
            index_ring |-> [o \in 0 .. kIndexRing - 1 |-> 0],
            buffers |-> <<>>, images |-> <<>>,  \* by handle: [live, data]
            guest_buffers |-> [b \in Bases |-> 0], textures |-> [t \in Textures |-> 0],
            render_targets |-> {}, retired |-> {}, uploaded_bases |-> {},
            rotated |-> FALSE,                  \* while a draw is recorded: rotated under it
            lost |-> FALSE,                     \* history: a batch could not be submitted
            done |-> {}]                        \* history: [id, intact, rotated] of the draws run

-----------------------------------------------------------------------------
(* The device. *)

Contents(handles, pool) == [i \in DOMAIN handles |-> IF pool[handles[i]].live THEN pool[handles[i]].data ELSE 0]

\* A draw reads its buffers, slots and images as they are when it runs; an
\* imported window is the guest's own memory.
RunDraw(s, c) ==
    [s EXCEPT !.done = @ \cup {[id |-> c.id, rotated |-> c.rotated \/ s.lost,
        intact |-> /\ Contents(c.buffers, s.buffers) = [i \in DOMAIN c.buffers |-> c.version]
                   /\ Contents(c.images, s.images) = c.texels
                   /\ s.scalar_ring[c.slot] = c.id
                   /\ c.index # kIndexRing => s.index_ring[c.index] = c.id]}]

RunCopy(s, c) == IF s.images[c.image].live
                 THEN [s EXCEPT !.images[c.image].data = s.staging[c.from]] ELSE s

Run(s) == [FoldLeft(LAMBDA t, c : IF c.op = "copy" THEN RunCopy(t, c) ELSE RunDraw(t, c), s, s.submitted)
              EXCEPT !.submitted = <<>>]

-----------------------------------------------------------------------------
(* Batches. *)

\* data: what the device has; staged: what it has once the recorded copies ran.
NewImage == [live |-> TRUE, data |-> 0, staged |-> 0]

Destroyed(pool, handles) == [h \in DOMAIN pool |-> IF h \in handles THEN [pool[h] EXCEPT !.live = FALSE] ELSE pool[h]]

\* Variant for the mutant runs: the fence is not awaited.
AwaitNothing(s) == [s EXCEPT !.in_flight = FALSE, !.retired = {}, !.sets = 0,
                             !.buffers = Destroyed(@, s.retired)]

\* The wait for the fence, and what it allows.
AwaitBatch(s) == LET t == Run(s) IN
                 [t EXCEPT !.in_flight = FALSE, !.retired = {}, !.sets = 0,
                           !.buffers = Destroyed(@, s.retired)]

BeginBatch(s) ==
    [(IF s.in_flight THEN AwaitBatch(s) ELSE s)
        EXCEPT !.draw_slot = 0, !.staging_off = 0, !.index_off = 0,
               !.uploaded_bases = {}, !.cmd = <<>>, !.recording = TRUE]

\* vkQueueSubmit may fail: the draws of the batch are lost.
FlushBatch(s, ok) ==
    IF ~s.recording THEN s
    ELSE IF ok THEN [s EXCEPT !.recording = FALSE, !.in_flight = TRUE, !.submitted = s.cmd, !.cmd = <<>>]
    ELSE [s EXCEPT !.recording = FALSE, !.cmd = <<>>, !.lost = TRUE]

RotateBatch(s) == [BeginBatch(FlushBatch(s, TRUE)) EXCEPT !.rotated = TRUE]

\* Rings are counted in uploads; a full one rotates the batch.
StagingAlloc(s) == IF s.staging_off = kStagingRing THEN RotateBatch(s) ELSE s
IndexAlloc(s)   == IF s.index_off = kIndexRing THEN RotateBatch(s) ELSE s

\* WriteHostBuffer into the staging ring, then StageIntoImage.
WriteStaging(t, image) ==
    [t EXCEPT !.staging[t.staging_off] = memory, !.staging_off = @ + 1,
              !.images[image].staged = memory,
              !.cmd = Append(@, [op |-> "copy", image |-> image, from |-> t.staging_off])]

StageIntoImage(s, image) == WriteStaging(StagingAlloc(s), image)

-----------------------------------------------------------------------------
(* The parts of a draw, in the order of VkDrawExecute. *)

Recording(s)     == IF ~s.recording THEN BeginBatch(s) ELSE s
RoomForADraw(s)  == IF s.draw_slot >= kBatchDraws THEN RotateBatch(s) ELSE s
TakeSlot(s) == [RoomForADraw(Recording(s)) EXCEPT !.draw_slot = @ + 1, !.rotated = FALSE]

\* A target is seeded from guest memory once; its image is not read by name here.
EnsureRenderTarget(s, base) ==
    IF base \in s.render_targets THEN s
    ELSE [StageIntoImage([s EXCEPT !.images = Append(@, NewImage)], Len(s.images) + 1)
             EXCEPT !.render_targets = @ \cup {base}]

Cached(f) == { x \in DOMAIN f : f[x] # 0 }

DropTextures(r) == [r EXCEPT !.images = Destroyed(@, { r.textures[x] : x \in Cached(r.textures) }),
                             !.textures = [x \in Textures |-> 0]]

\* A full cache is emptied, after the batch that may use it was awaited.
RoomForATexture(s) ==
    IF Cardinality(Cached(s.textures)) > kMaxTextures THEN DropTextures(RotateBatch(s)) ELSE s

NewTexture(s, t) == [s EXCEPT !.images = Append(@, NewImage), !.textures[t] = Len(s.images) + 1]

EnsureTexture(s, t) == IF s.textures[t] # 0 THEN s ELSE NewTexture(RoomForATexture(s), t)

\* EnsureTexture and, unless it is fresh, UploadTexture; TextureCache has the test.
\* A draw under way is [s, slot, textures, buffers, index]: what it is bound to so far.
UploadUnlessFresh(d, e, image, fresh) ==
    [d EXCEPT !.s = IF fresh /\ e.images[image].staged # 0 THEN e ELSE StageIntoImage(e, image),
              !.textures = Append(@, image)]

Textured(d, e, t, fresh) == UploadUnlessFresh(d, e, e.textures[t], fresh)

BindTexture(d, t, fresh) == Textured(d, EnsureTexture(d.s, t), t, fresh)

NewBuffer(s, b, data) == [s EXCEPT !.buffers = Append(@, [live |-> TRUE, data |-> data]),
                                   !.guest_buffers[b] = Len(s.buffers) + 1]

\* A buffer of the cache; a full cache retires every buffer.
EnsureGuestBuffer(s, b) ==
    IF s.guest_buffers[b] # 0 THEN s
    ELSE NewBuffer(IF Cardinality(Cached(s.guest_buffers)) <= kMaxGuestBuffers THEN s
                   ELSE [s EXCEPT !.retired = @ \cup { s.guest_buffers[x] : x \in Cached(s.guest_buffers) },
                                  !.guest_buffers = [x \in Bases |-> 0]], b, memory)

\* Variant for the mutant runs: every upload goes to the cached buffer.
SnapshotInPlace(s, b) == EnsureGuestBuffer(s, b)

\* A base that an earlier draw of the batch has uploaded gets a fresh buffer.
SnapshotBuffer(s, b) ==
    IF b \in s.uploaded_bases
    THEN NewBuffer([s EXCEPT !.retired = @ \cup ({s.guest_buffers[b]} \ {0})], b, memory)
    ELSE EnsureGuestBuffer(s, b)

FillBuffer(d, s, b) ==
    [d EXCEPT !.s = [s EXCEPT !.uploaded_bases = @ \cup {b}, !.buffers[s.guest_buffers[b]].data = memory],
              !.buffers = Append(@, s.guest_buffers[b])]

\* ImportGuestRange, or a snapshot.  An imported buffer holds nothing of its own.
BindBuffer(d, b) == IF b \in Importable THEN d ELSE FillBuffer(d, SnapshotBuffer(d.s, b), b)

\* Descriptor sets come back when the batch was awaited.
AllocateDescriptorSet(s) ==
    [(IF s.sets = kMaxSets THEN RotateBatch(s) ELSE s) EXCEPT !.sets = @ + 1]

PutIndices(d, s) ==
    [d EXCEPT !.s = [s EXCEPT !.index_ring[s.index_off] = drawn + 1, !.index_off = @ + 1],
              !.index = s.index_off]

WriteIndices(d, indexed) == IF indexed THEN PutIndices(d, IndexAlloc(d.s)) ELSE d

-----------------------------------------------------------------------------
(* Calls. *)

Slotted(s) == [s |-> s, slot |-> s.draw_slot - 1, textures |-> <<>>, buffers |-> <<>>, index |-> kIndexRing]

WriteScalars(d) == [d EXCEPT !.s.scalar_ring[d.slot] = drawn + 1]

BindResources(shape, fresh) ==
    WriteScalars(FoldLeft(BindBuffer,
        FoldLeft(LAMBDA d, t : BindTexture(d, t, fresh),
            [Slotted(TakeSlot(g_ds)) EXCEPT !.s = EnsureRenderTarget(@, shape.target)],
            shape.textures),
        shape.buffers))

RecordDraw(d, s) ==
    [s EXCEPT !.cmd = Append(@,
        [op |-> "draw", id |-> drawn + 1, slot |-> d.slot, index |-> d.index,
         rotated |-> s.rotated, version |-> memory, buffers |-> d.buffers, images |-> d.textures,
         texels |-> [i \in DOMAIN d.textures |-> s.images[d.textures[i]].staged]])]

FinishDraw(d) == RecordDraw(d, AllocateDescriptorSet(d.s))

\* A guest range that cannot be read drops the draw.
VkDrawExecute(shape) ==
    \E fresh \in BOOLEAN, granted \in BOOLEAN :
        /\ drawn < MaxDrawn /\ drawn' = drawn + 1
        /\ g_ds' = IF granted THEN FinishDraw(WriteIndices(BindResources(shape, fresh), shape.indexed))
                   ELSE BindResources(shape, fresh).s
        /\ UNCHANGED memory

\* VkDrawFlush, VkDrawLookupRenderTarget: the flip.
VkDrawFlush(ok) == /\ g_ds' = FlushBatch(g_ds, ok) /\ g_ds' # g_ds
                   /\ UNCHANGED <<memory, drawn>>

DispatchUpload(t) == [t EXCEPT !.staging[t.staging_off] = memory, !.staging_off = @ + 1,
                               !.sets = IF @ < kMaxSets THEN @ + 1 ELSE @]

\* VkDispatchExecute flushes the draws before it and records into the buffer it
\* has just closed, unless its own upload rotates the batch: else it is lost.
VkDispatchExecute ==
    /\ g_ds.recording /\ drawn < MaxDrawn /\ drawn' = drawn + 1
    /\ g_ds' = DispatchUpload(StagingAlloc(IF g_ds.draw_slot > 0 THEN FlushBatch(g_ds, TRUE) ELSE g_ds))
    /\ UNCHANGED memory

\* The device, and the guest.
RunBatch == /\ g_ds.submitted # <<>> /\ g_ds' = Run(g_ds) /\ UNCHANGED <<memory, drawn>>

WriteMemory == /\ memory <= MaxWrites /\ memory' = memory + 1 /\ UNCHANGED <<g_ds, drawn>>

-----------------------------------------------------------------------------
BatchInit == g_ds = NoBatch /\ memory = 1 /\ drawn = 0

BatchNext ==
    \/ \E shape \in DrawCalls : VkDrawExecute(shape)
    \/ \E ok \in BOOLEAN : VkDrawFlush(ok)
    \/ VkDispatchExecute \/ RunBatch \/ WriteMemory

-----------------------------------------------------------------------------
(* The presenter. *)

presentVars == <<swapchain, window, fence, acquire_sem, done_sems, staging, encode_extent, readback,
                 readable, delivered, call, submitted, presents, content, shown, frames, lost, torn>>
sync == <<fence, acquire_sem, done_sems>>
screen == <<presents, content, shown>>
resources == <<staging, encode_extent, readback, readable, delivered>>
history == <<lost, torn>>

NoSubmission == [source |-> "none", frame |-> 0, image |-> 0]
Idle == [at |-> "idle", source |-> "none", frame |-> 0, image |-> 0]

-----------------------------------------------------------------------------
(* The device and the calls that set it up. *)

\* VkPresentInitialize: CreateSwapchain, CreateSyncAndCommands.  The fence starts
\* signalled, after a VkPresentShutdown as the first time.
Initialize(w) ==
    /\ ~swapchain /\ call = Idle /\ window = 0 /\ frames < MaxFrames
    /\ swapchain' = TRUE /\ window' = w
    /\ fence' = "signalled" /\ acquire_sem' = "free" /\ done_sems' = [i \in Images |-> "free"]
    /\ lost' = FALSE
    /\ UNCHANGED <<resources, call, submitted, screen, frames, torn>>

\* A swapchain made anew holds none of its images; the semaphores and the fence stay.
\* If it cannot be made, presents fail until the end.
Remade(w, ok) ==
    /\ swapchain' = ok /\ window' = IF ok THEN w ELSE window
    /\ presents' = <<>> /\ content' = [i \in Images |-> 0]
    /\ UNCHANGED <<sync, resources, call, submitted, shown, frames, history>>

\* Variant for the mutant runs: the device is not awaited.
ResizeAtOnce(w, ok) == swapchain /\ call = Idle /\ w # window /\ Remade(w, ok)

\* VkPresentResize waits for the device (DeviceWaitIdle).
Resize(w, ok) ==
    /\ swapchain /\ call = Idle /\ w # window
    /\ submitted = NoSubmission /\ presents = <<>>
    /\ Remade(w, ok)

\* VkPresentShutdown: everything is destroyed, and g_ps is as it was at first.
Shutdown ==
    /\ window # 0 /\ call = Idle /\ submitted = NoSubmission /\ presents = <<>>
    /\ swapchain' = FALSE /\ window' = 0 /\ encode_extent' = 0 /\ readback' = FALSE
    /\ staging' = [extent |-> 0, frame |-> 0] /\ content' = [i \in Images |-> 0]
    /\ UNCHANGED <<sync, readable, delivered, call, submitted, presents, shown, frames, history>>

SetReadbackHook(on) ==
    /\ call = Idle /\ readback # on /\ frames < MaxFrames
    /\ readback' = on
    /\ UNCHANGED <<swapchain, window, sync, staging, encode_extent, readable, delivered, call,
                   submitted, screen, frames, history>>

-----------------------------------------------------------------------------
(* A present. *)

Begin(source) ==
    /\ swapchain /\ call = Idle /\ frames < MaxFrames
    /\ frames' = frames + 1
    /\ call' = [at |-> "wait", source |-> source, frame |-> frames + 1, image |-> 0]
    /\ UNCHANGED <<swapchain, window, sync, readback, readable, delivered, submitted, screen, lost>>

\* VkPresentFrame: EnsureUploadResources and the memcpy come before the fence.
PresentFrame(extent) ==
    /\ Begin("staging")
    /\ torn' = (torn \/ (staging.extent # extent /\ submitted.source = "staging"))
    /\ staging' = [extent |-> extent, frame |-> frames + 1]
    /\ UNCHANGED encode_extent

\* VkPresentFromImage: a float image goes through an sRGB image of the window's size.
PresentFromImage(float) ==
    /\ Begin(IF float THEN "encoded" ELSE "image")
    /\ encode_extent' = IF float THEN window ELSE encode_extent
    /\ UNCHANGED <<staging, torn>>

PresentClearColor == Begin("clear") /\ UNCHANGED <<staging, encode_extent, torn>>

\* Variant for the mutant runs: the fence is reset before the acquire.
WaitAndReset ==
    /\ call.at = "wait" /\ fence = "signalled"
    /\ call' = [call EXCEPT !.at = "acquire"] /\ fence' = "unsignalled"
    /\ UNCHANGED <<swapchain, window, acquire_sem, done_sems, resources, submitted, screen, frames, history>>

\* Variant for the mutant runs: the wait is left to the next step.
AcquireAtOnce ==
    /\ call.at = "wait"
    /\ call' = [call EXCEPT !.at = "acquire"]
    /\ UNCHANGED <<swapchain, window, sync, resources, submitted, screen, frames, history>>

\* AcquireRecordPresent: the previous submission is drained first.
WaitForFence ==
    /\ call.at = "wait" /\ fence = "signalled"
    /\ call' = [call EXCEPT !.at = "acquire"]
    /\ UNCHANGED <<swapchain, window, sync, resources, submitted, screen, frames, history>>

\* An image that the presentation engine does not hold; its semaphore's wait is over.
Acquire(i) ==
    /\ call.at = "acquire" /\ i \notin ToSet(presents)
    /\ acquire_sem' = "signalled"
    /\ fence' = "unsignalled"
    /\ call' = [call EXCEPT !.at = "submit", !.image = i]
    /\ UNCHANGED <<swapchain, window, done_sems, resources, submitted, screen, frames, history>>

\* Out of date, or another error: the frame is given up.
AcquireFails ==
    /\ call.at = "acquire" /\ call' = Idle
    /\ UNCHANGED <<swapchain, window, sync, resources, submitted, screen, frames, history>>

Submit ==
    /\ call.at = "submit"
    /\ submitted' = [source |-> call.source, frame |-> call.frame, image |-> call.image]
    /\ acquire_sem' = "waited" /\ done_sems' = [done_sems EXCEPT ![call.image] = "signalled"]
    /\ call' = [call EXCEPT !.at = "present"]
    /\ UNCHANGED <<swapchain, window, fence, resources, screen, frames, history>>

SubmitFails ==
    /\ call.at = "submit" /\ call' = Idle /\ lost' = TRUE
    /\ UNCHANGED <<swapchain, window, sync, resources, submitted, screen, frames, torn>>

\* QueuePresent; an error is reported, and the image is given back all the same.
QueuePresent(ok) ==
    /\ call.at = "present"
    /\ presents' = Append(presents, call.image)
    /\ done_sems' = [done_sems EXCEPT ![call.image] = "waited"]
    /\ call' = IF ok /\ readback THEN [call EXCEPT !.at = "deliver"] ELSE Idle
    /\ UNCHANGED <<swapchain, window, fence, acquire_sem, resources, submitted, content, shown,
                   frames, history>>

\* Variant for the mutant runs: the buffer is mapped without waiting.
DeliverAtOnce ==
    /\ call.at = "deliver"
    /\ delivered' = <<call.frame, IF call.source = "clear" THEN call.frame ELSE readable>>
    /\ call' = Idle
    /\ UNCHANGED <<swapchain, window, sync, staging, encode_extent, readback, readable, submitted, screen,
                   frames, history>>

\* DeliverReadback waits for the submission; a clear hands over its own pixels.
DeliverReadback ==
    /\ call.at = "deliver" /\ (call.source # "clear" => fence = "signalled")
    /\ delivered' = <<call.frame, IF call.source = "clear" THEN call.frame ELSE readable>>
    /\ call' = Idle
    /\ UNCHANGED <<swapchain, window, sync, staging, encode_extent, readback, readable, submitted, screen,
                   frames, history>>

-----------------------------------------------------------------------------
(* The GPU and the presentation engine, as Vulkan orders them. *)

\* The commands run: what they read is what the source holds now, which is no
\* frame (0) if the upload buffer they name is gone.
GpuRuns ==
    LET s == submitted
        f == IF torn THEN 0 ELSE IF s.source = "staging" THEN staging.frame ELSE s.frame IN
    /\ s # NoSubmission
    /\ content' = [content EXCEPT ![s.image] = f]
    /\ readable' = IF readback THEN f ELSE readable
    /\ fence' = "signalled" /\ acquire_sem' = "free"
    /\ submitted' = NoSubmission /\ torn' = FALSE
    /\ UNCHANGED <<swapchain, window, done_sems, staging, encode_extent, readback, delivered, call,
                   presents, shown, frames, lost>>

\* An image is shown once its semaphore is signalled, the one before it first.
Show ==
    LET i == Head(presents) IN
    /\ presents # <<>> /\ submitted.image # i
    /\ presents' = Tail(presents) /\ shown' = Append(shown, content[i])
    /\ done_sems' = [done_sems EXCEPT ![i] = "free"]
    /\ UNCHANGED <<swapchain, window, fence, acquire_sem, resources, call, submitted, content, frames,
                   history>>

-----------------------------------------------------------------------------
PresentInit ==
    /\ swapchain = FALSE /\ window = 0 /\ fence = "signalled" /\ acquire_sem = "free"
    /\ done_sems = [i \in Images |-> "free"]
    /\ staging = [extent |-> 0, frame |-> 0] /\ encode_extent = 0 /\ readback = FALSE
    /\ readable = 0 /\ delivered = <<0, 0>> /\ call = Idle /\ submitted = NoSubmission
    /\ presents = <<>> /\ content = [i \in Images |-> 0] /\ shown = <<>>
    /\ frames = 0 /\ lost = FALSE /\ torn = FALSE

PresentNext ==
    \/ \E w \in Extents : Initialize(w) \/ PresentFrame(w) \/ \E ok \in BOOLEAN : Resize(w, ok)
    \/ \E on \in BOOLEAN : SetReadbackHook(on) \/ PresentFromImage(on) \/ QueuePresent(on)
    \/ Shutdown \/ PresentClearColor \/ WaitForFence
    \/ \E i \in Images : Acquire(i)
    \/ AcquireFails \/ Submit \/ SubmitFails \/ DeliverReadback
    \/ GpuRuns \/ Show

-----------------------------------------------------------------------------
(* Properties. *)

\* A draw that no rotation split runs with what it was recorded with: its slot,
\* its indices, its buffers and its textures, none of them destroyed.
SnapshotsSurvive == \A d \in g_ds.done : d.rotated \/ d.intact

\* "Draining it before acquiring again is what makes the semaphore free of pending
\* operations": an acquire finds its semaphore free, a submission that of its image.
SemaphoresAreFree ==
    /\ call.at = "acquire" => acquire_sem = "free"
    /\ call.at = "submit" => done_sems[call.image] = "free"

\* "the fence signalled, which is the state the next frame expects" holds of every
\* return but one: a refused submission, and no other call, leaves the fence reset
\* with nothing to signal it, and the next present waits for good.
FenceIsComing ==
    call.at = "wait" => (~lost <=> fence = "signalled" \/ submitted # NoSubmission)

\* The screen never goes back to an older frame, whatever the swapchain went through,
\* and a frame that is read back is the one that was presented.
ShownNeverGoesBack ==
    /\ \A i, j \in 1 .. Len(shown) : i < j /\ shown[j] # 0 => shown[i] <= shown[j]
    /\ delivered[1] = delivered[2]
=============================================================================
