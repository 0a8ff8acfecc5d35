------------------------------ MODULE Graphics ------------------------------
(***************************************************************************)
(* The way of a frame: the command buffers of the guest (AgcCommands), its *)
(* shaders from their words to their run (ShaderWalk, ScalarAlu), the      *)
(* copies of their textures (TextureCache), the recording of draws and the *)
(* presenter (VulkanFrames).  The stages meet through calls that carry     *)
(* values; each has a lock and state of its own, and kind picks the one    *)
(* that is at work.                                                        *)
(***************************************************************************)
EXTENDS Naturals, FiniteSets, Sequences, TLC

CONSTANTS Queues, Shaders, BadShaders, StoringShaders, PlainShaders, Layouts, Displays,
          kMaxPendingTargetless, MaxDraws, MaxFlips, MaxWork, MaxRewrites, None, \* see AgcCommands
          Programs, UserData, Descriptors, kMaxInstructions, MaxSteps,  \* see ShaderWalk
          W, Seeds, Immediates,                                         \* see ScalarAlu
          DrawCalls, Textures, Bases, Importable, kBatchDraws, kIndexRing, kStagingRing,
          kMaxSets, kMaxTextures, kMaxGuestBuffers, MaxDrawn, MaxWrites, \* see VulkanFrames
          PAGE_SIZE, CachedTextures, Stores, CacheLimit, PhysPool, KernelStates,
          MaxGeneration,                                                 \* see TextureCache
          Images, Extents, MaxFrames                                     \* see VulkanFrames

VARIABLES kind,  \* the stage that is at work
          cb, walking, shadow, g_agc_program_cache, g_agc_draw_programs, code, log, discarded, skipped,
          words, user, instructions, stage, pending, visited, buffers, images, seen, blocks,
          run, pc, straight, steps,
          evaluator, shader, executed,
          g_ds, memory, drawn,
          ranges, readOnly, cache, draw, writer, kernelInitialised,
          swapchain, window, fence, acquire_sem, done_sems, staging, encode_extent, readback,
          readable, delivered, call, submitted, presents, content, shown, frames, lost, torn

agcVars     == <<cb, walking, shadow, g_agc_program_cache, g_agc_draw_programs, code, log, discarded, skipped>>
walkVars    == <<words, user, instructions, stage, pending, visited, buffers, images, seen, blocks,
                 run, pc, straight, steps>>
aluVars     == <<evaluator, shader, executed>>
batchVars   == <<g_ds, memory, drawn>>
textureVars == <<ranges, readOnly, cache, draw, writer, kernelInitialised>>
presentVars == <<swapchain, window, fence, acquire_sem, done_sems, staging, encode_extent, readback,
                 readable, delivered, call, submitted, presents, content, shown, frames, lost, torn>>
vars == <<kind, agcVars, walkVars, aluVars, batchVars, textureVars, presentVars>>

Agc     == INSTANCE AgcCommands
Walk    == INSTANCE ShaderWalk WITH Bodies <- Programs, Memory <- Descriptors, code <- words
Alu     == INSTANCE ScalarAlu
Vulkan  == INSTANCE VulkanFrames
Texture == INSTANCE TextureCache WITH Textures <- CachedTextures

-----------------------------------------------------------------------------
Init ==
    /\ kind \in {"agc", "walk", "alu", "batches", "texture", "present"}
    /\ IF kind = "walk" THEN Walk!Init ELSE Walk!Idle
    /\ IF kind = "alu" THEN Alu!Init ELSE Alu!Idle
    /\ Agc!Init /\ Vulkan!BatchInit /\ Texture!Init /\ Vulkan!PresentInit
    \* of a tracker that is not used one initial state is enough
    /\ kind # "texture" => kernelInitialised = TRUE

Next ==
    \/ /\ kind = "agc" /\ Agc!Next
       /\ UNCHANGED <<kind, walkVars, aluVars, batchVars, textureVars, presentVars>>
    \/ /\ kind = "walk" /\ Walk!Next
       /\ UNCHANGED <<kind, agcVars, aluVars, batchVars, textureVars, presentVars>>
    \/ /\ kind = "alu" /\ Alu!Next
       /\ UNCHANGED <<kind, agcVars, walkVars, batchVars, textureVars, presentVars>>
    \/ /\ kind = "batches" /\ Vulkan!BatchNext
       /\ UNCHANGED <<kind, agcVars, walkVars, aluVars, textureVars, presentVars>>
    \/ /\ kind = "texture" /\ Texture!Next
       /\ UNCHANGED <<kind, agcVars, walkVars, aluVars, batchVars, presentVars>>
    \/ /\ kind = "present" /\ Vulkan!PresentNext
       /\ UNCHANGED <<kind, agcVars, walkVars, aluVars, batchVars, textureVars>>

Spec == Init /\ [][Next]_vars

-----------------------------------------------------------------------------
(* Properties. *)

\* Every draw of a command buffer is executed once, deferred or dropped for a
\* reason that is counted, with a module of its own layout; those executed at once,
\* into a bound target or the image they write, never overtake a deferred one that
\* is executed later, which goes to the buffer of the first flip after it.
DrawsReachTheirTarget ==
    kind = "agc" => Agc!DrawsAreAccounted /\ Agc!CompositesReachTheirFlip /\ Agc!DrawsGetTheirModule

\* The dispatcher loop of the emitted code follows the program, and a run that goes
\* the evaluator's way reads what the evaluator bound.
ShaderRunsAsEvaluated ==
    kind = "walk" => Walk!BlocksFollowProgram /\ Walk!BoundToWhatItReads

\* The evaluator and the emitted code compute the same scalar registers and condition
\* code, for the instructions that are not in KnownToDiffer.
EvaluatorMatchesShader == kind = "alu" => Alu!EvaluatorMatchesShader

\* What a recorded draw has bound and copied is intact when the GPU runs it.
SnapshotsSurvive == kind = "batches" => Vulkan!SnapshotsSurvive

\* A cached image that the next draw takes as it is is what guest memory holds,
\* unless a store was noticed between the tracking of its range and the capture of
\* the generation; and a page is left read-only where a store can clear it.
TextureCopiesAreCurrent ==
    kind = "texture" => Texture!TypeOK /\ Texture!ArmedCaptureIsCurrent /\ Texture!ReadOnlyIsClaimed

\* Semaphores and the fence are in the state each call expects, and the screen
\* never goes back to an older frame.
FramesArePresentedInOrder ==
    kind = "present" => Vulkan!SemaphoresAreFree /\ Vulkan!FenceIsComing /\ Vulkan!ShownNeverGoesBack

\* "a CPU rewrite landing after the copy bumps it and forces a refresh": a cached
\* image that is taken as it is is what guest memory holds.
NoStaleImage == kind = "texture" => Texture!NoStaleImage

\* "A write to an armed write-tracked range ... is disarmed + generation-bumped here
\* and resumed; the registered fault handler (demand commit) never sees it."
TrackedWriteBumps == Texture!TrackedWriteBumps

-----------------------------------------------------------------------------
(* The instance for TLC. *)

\* Programs of three instructions and an image access; targets are word offsets.
Word(o, t) == [op |-> o, target |-> t]
Second == Word("second", 0)
Chunks == { <<Word(o, 0), Second>> : o \in {"load", "buffer", "image"} }
          \cup { <<Word(o, 0)>> : o \in {"mov", "end", "zero"} }
          \cup { <<Word(o, t)>> : o \in {"branch", "cbranch"}, t \in {0, 1, 2, 3, 4, 6} }
\* A loop that its test at the end enters, with a branch back inside.
Rotated == { <<Word("branch", t), Word("branch", 0)>> \o a \o <<Word("cbranch", 2), Word("end", 0)>> :
             t \in {3, 4}, a \in { <<Word("buffer", 0), Second>>, <<Word("mov", 0)>> } }
MCPrograms == Rotated \cup { a \o b \o c \o <<Word("image", 0), Second, Word("end", 0)>> : a, b, c \in Chunks }

\* Buffer 1 holds the descriptor of buffer 2, and that of an image, 3.
MCDescriptors == (1 :> 2) @@ (2 :> 3)

Call(t, b, i) == [target |-> "r", textures |-> t, buffers |-> b, indexed |-> i]
MCDrawCalls == { Call(<<>>, <<"b1">>, TRUE), Call(<<"t1">>, <<>>, FALSE),
                 Call(<<"t1", "t2">>, <<"b2">>, TRUE), Call(<<>>, <<"b1", "b1">>, FALSE) }

\* Two textures on neighbouring pages, of one a longer mip, and one apart.
Texels(a, n) == [addr |-> a, size |-> n]
MCOneTexture == { Texels(2, 1) }
MCTextures == { Texels(2, 1), Texels(2, 3), Texels(4, 1), Texels(8, 2) }
=============================================================================
