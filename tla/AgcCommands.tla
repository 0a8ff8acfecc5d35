----------------------------- MODULE AgcCommands -----------------------------
(***************************************************************************)
(* Command buffers of libSceAgc (src/hle/libagc.cpp).  Builders append     *)
(* packets to a buffer of the guest; a submission walks it under           *)
(* g_agc_submit_mutex, keeps the registers of its queue in a shadow and    *)
(* executes draws through two caches: decoded programs by code address and *)
(* translated modules by pair of shaders.  A draw that binds no target     *)
(* goes to the image its shader writes, else it is deferred to the flip    *)
(* that names a display buffer.  While a buffer is walked the              *)
(* guest's other threads may rewrite code and unregister display buffers.  *)
(* A shader stands for its pair, by address; a layout for what evaluating  *)
(* the user data of a draw resolves.  Indices are left out.                *)
(***************************************************************************)
EXTENDS Naturals, FiniteSets, FiniteSetsExt, SequencesExt

CONSTANTS Queues,     \* "dcb" and the owners of compute queues
          Shaders, BadShaders, \* and those that cannot be decoded or translated
          StoringShaders, \* write a storage image
          PlainShaders,   \* name no image at all
          Layouts,
          Displays,   \* display buffers that a flip may name
          kMaxPendingTargetless,
          MaxDraws, MaxFlips, MaxWork, MaxRewrites, \* bounds; MaxWork: draws and flips
          None

VARIABLES cb,              \* the packets that the submission under way has yet to walk
          walking,         \* the queue whose submission holds the mutex, or None
          shadow,          \* AgcSubmitShadow, by queue
          g_agc_program_cache, \* by shader: the version that was decoded, 0 for none
          g_agc_draw_programs, \* by shader: [layout, version] translated for, or None
          code,            \* by shader: the version in guest memory
          log,             \* history: draws executed and flips forwarded
          discarded,       \* history: by queue: draws that ResetQueue threw away uncounted
          skipped          \* history: by queue: draws without a usable shader

agcVars == <<cb, walking, shadow, g_agc_program_cache, g_agc_draw_programs,
             code, log, discarded, skipped>>
caches == <<g_agc_program_cache, g_agc_draw_programs>>

NoRegisters == [shader |-> None, layout |-> None, target |-> FALSE]
NewShadow == [regs |-> NoRegisters, pending |-> <<>>, draws |-> 0, executed |-> 0, dropped |-> 0,
              flips |-> 0]

Draws(s) == Cardinality({ i \in DOMAIN s : s[i].what = "draw" })
Flips(s) == Cardinality({ i \in DOMAIN s : s[i].what = "flip" })
TotalDraws == MapThenSumSet(LAMBDA q : shadow[q].draws, Queues)

-----------------------------------------------------------------------------
(* Builders: the packets of a call, in the groups it allocates one by one.  *)
(* What has no effect when it is walked is a NOP.                           *)

Nop == [op |-> "nop"]
SetReg(r, v) == [op |-> "set", reg |-> r, value |-> v]

DcbResetQueue == << <<[op |-> "reset"]>> >>
\* Indirectly (one packet), as a range (a marker and the packet), directly.
SetRegistersIndirect(r, v) == << <<SetReg(r, v)>> >>
CbSetShRegisterRangeDirect(r, v) == << <<Nop>>, <<SetReg(r, v)>> >>
\* WAIT_REG_MEM, ACQUIRE_MEM and RELEASE_MEM: built, and never executed.
DcbWaitRegMem == << <<Nop>> >>
CbReleaseMem  == << <<Nop>> >>
DcbSetIndexBuffer == << <<Nop, Nop>> >>
DcbDrawIndex == DcbSetIndexBuffer \o << <<[op |-> "draw"]>> >>
DcbDrawIndexAuto == << <<[op |-> "draw"]>> >>
\* Draws only if its arguments, which the walk reads, are set and name an index.
DcbSetBaseIndirectArgs == << <<Nop>> >>
DcbDrawIndexIndirect == << <<[op |-> "drawindirect"]>> >>
CbDispatch == << <<Nop>> >>
DcbPushMarker == << <<Nop>> >>
DcbSetFlip(b) == << <<[op |-> "flip", buf |-> b]>> >>

Calls == {DcbResetQueue, DcbWaitRegMem, CbReleaseMem, DcbSetIndexBuffer, DcbDrawIndex, DcbDrawIndexAuto,
          DcbSetBaseIndirectArgs, DcbDrawIndexIndirect, CbDispatch, DcbPushMarker}
         \cup { SetRegistersIndirect("target", v) : v \in BOOLEAN }
         \cup { SetRegistersIndirect("shader", s) : s \in Shaders }
         \cup { CbSetShRegisterRangeDirect("layout", l) : l \in Layouts }
         \cup { DcbSetFlip(b) : b \in Displays }

-----------------------------------------------------------------------------
(* DriverSubmitDcb, DriverSubmitAcb: WalkCommandBuffer, packet by packet.    *)

\* What one builder left is submitted: AllocCommandDwords fails when the room is used
\* up, and the groups before stay.  Submissions keep the shadow, so those of longer
\* buffers are sequences of these.
Submit(q, groups, fitting) ==
    /\ walking = None /\ walking' = q
    /\ cb' = FlattenSeq(SubSeq(groups, 1, fitting))
    /\ UNCHANGED <<shadow, caches, code, log, discarded, skipped>>

\* Variant for the mutant runs: a module built for another layout is used.
TranslatedForAny(regs) == g_agc_draw_programs[regs.shader] # None

\* The module of the pair fits the layout; the code is not compared.
Translated(regs) == /\ g_agc_draw_programs[regs.shader] # None
                    /\ g_agc_draw_programs[regs.shader].layout = regs.layout

DecodedVersion(s) == IF g_agc_program_cache[s] = 0 THEN code[s] ELSE g_agc_program_cache[s]
Program(regs) ==
    IF Translated(regs) THEN g_agc_draw_programs[regs.shader]
    ELSE [layout |-> regs.layout, version |-> DecodedVersion(regs.shader)]

Target == "target"  \* the bound target, the image that is written, a buffer that is flipped to
Image  == "image"

\* A module of its own layout, of code that is not older than what was there.
Fits(regs) == /\ Program(regs).layout = regs.layout
              /\ Program(regs).version <= code[regs.shader]

\* What the call of a draw is assembled from.
Call(q, regs) ==
    [what |-> "draw", queue |-> q, id |-> shadow[q].draws + 1, flips |-> shadow[q].flips,
     to |-> Target, fits |-> Fits(regs)]

\* Variant for the mutant runs: a draw that is executed leaves the deferred ones.
SupersedeNothing(sh) == sh

\* A draw that is executed supersedes the deferred ones, which count as dropped.
Supersede(sh) == [sh EXCEPT !.dropped = @ + Len(sh.pending), !.pending = <<>>]

\* The storage image is the destination if its descriptor was resolved.
Destinations(regs) ==
    IF regs.target THEN {Target}
    ELSE IF regs.shader \in StoringShaders /\ regs.layout # None THEN {Image, "flip"}
    ELSE IF regs.shader \in PlainShaders THEN {"none"} ELSE {"flip"}

\* Variant for the mutant runs: the image's path leaves the deferred ones.
ExecutedBeside(sh, to) == [(IF to = Target THEN Supersede(sh) ELSE sh) EXCEPT !.executed = @ + 1]

Executed(sh, to) == [Supersede(sh) EXCEPT !.executed = @ + 1]

\* Variant for the mutant runs: what is not deferred is not counted.
DroppedSilently(sh) == sh

\* A draw without any source, or one too many.
Dropped(sh) == [sh EXCEPT !.dropped = @ + 1]

Outcome(q, sh, call, to) ==
    IF to \in {Target, Image}
    THEN /\ shadow' = [shadow EXCEPT ![q] = Executed(sh, to)]
         /\ log' = Append(log, [call EXCEPT !.to = to])
    ELSE /\ UNCHANGED log
         /\ shadow' = [shadow EXCEPT ![q] =
               IF to = "none" \/ Len(sh.pending) >= kMaxPendingTargetless THEN Dropped(sh)
               ELSE [sh EXCEPT !.pending = Append(@, call)]]

\* AgcExecuteDraw.
ExecuteDraw(q) ==
    LET regs == shadow[q].regs
        counted == [shadow[q] EXCEPT !.draws = @ + 1] IN
    IF regs.shader \in {None} \cup BadShaders
    THEN /\ shadow' = [shadow EXCEPT ![q] = counted]
         /\ skipped' = [skipped EXCEPT ![q] = @ + 1]
         /\ UNCHANGED <<caches, log>>
    ELSE /\ g_agc_program_cache' = [g_agc_program_cache EXCEPT ![regs.shader] = DecodedVersion(regs.shader)]
         /\ g_agc_draw_programs' = [g_agc_draw_programs EXCEPT ![regs.shader] = Program(regs)]
         /\ \E to \in Destinations(regs) : Outcome(q, counted, Call(q, regs), to)
         /\ UNCHANGED skipped

\* Variant for the mutant runs: the flip leaves the composites to the next one.
FlushKeepsPending(sh) == sh.pending

\* AgcFlushPendingTargetlessDraw empties the list before it looks the buffer up.
FlushEmpties(sh) == <<>>

\* Another thread may have unregistered the buffer.
Flip(q, b, sh, known) ==
    /\ log' = log \o (IF known THEN [i \in DOMAIN sh.pending |-> [sh.pending[i] EXCEPT !.to = b]] ELSE <<>>)
                  \o <<[what |-> "flip", queue |-> q, buf |-> b]>>
    /\ shadow' = [shadow EXCEPT ![q] =
          [sh EXCEPT !.pending = FlushEmpties(sh), !.flips = @ + 1,
                     !.executed = IF known THEN @ + Len(sh.pending) ELSE @,
                     !.dropped = IF known THEN @ ELSE @ + Len(sh.pending)]]

\* The packet at hand.
Walk ==
    LET q == walking
        sh == shadow[q]
        p == Head(cb) IN
    /\ walking # None
    /\ p.op \in {"draw", "drawindirect"} => TotalDraws < MaxDraws /\ TotalDraws + Flips(log) < MaxWork
    /\ p.op = "flip" => Flips(log) < MaxFlips /\ TotalDraws + Flips(log) < MaxWork
    /\ cb' = Tail(cb)
    /\ walking' = IF Len(cb) = 1 THEN None ELSE walking
    /\ UNCHANGED code
    /\ \/ /\ p.op = "nop" /\ UNCHANGED <<shadow, caches, log, discarded, skipped>>
       \/ /\ p.op = "reset"
          /\ shadow' = [shadow EXCEPT ![q].regs = NoRegisters, ![q].pending = <<>>]
          /\ discarded' = [discarded EXCEPT ![q] = @ + Len(sh.pending)]
          /\ UNCHANGED <<caches, log, skipped>>
       \/ /\ p.op = "set"
          /\ shadow' = [shadow EXCEPT ![q].regs[p.reg] = p.value]
          /\ UNCHANGED <<caches, log, discarded, skipped>>
       \/ p.op \in {"draw", "drawindirect"} /\ ExecuteDraw(q) /\ UNCHANGED discarded
       \/ p.op = "drawindirect" /\ UNCHANGED <<shadow, caches, log, discarded, skipped>>
       \/ /\ p.op = "flip" /\ (\E known \in BOOLEAN : Flip(q, p.buf, sh, known)) /\ UNCHANGED <<caches, discarded, skipped>>

-----------------------------------------------------------------------------
(* Meanwhile. *)

\* The guest loads another shader where one was.  What is there before the address is
\* decoded for the first time makes no difference.
RewriteCode(s) ==
    /\ g_agc_program_cache[s] # 0
    /\ MapThenSumSet(LAMBDA x : code[x] - 1, Shaders) < MaxRewrites
    /\ code' = [code EXCEPT ![s] = @ + 1]
    /\ UNCHANGED <<cb, walking, shadow, caches, log, discarded, skipped>>

-----------------------------------------------------------------------------
Init ==
    /\ cb = <<>> /\ walking = None
    /\ shadow = [q \in Queues |-> NewShadow]
    /\ g_agc_program_cache = [s \in Shaders |-> 0]
    /\ g_agc_draw_programs = [s \in Shaders |-> None]
    /\ code = [s \in Shaders |-> 1]
    /\ log = <<>> /\ discarded = [q \in Queues |-> 0] /\ skipped = [q \in Queues |-> 0]

Next ==
    \/ \E q \in Queues, c \in Calls : \E n \in DOMAIN c : Submit(q, c, n)
    \/ Walk
    \/ \E s \in Shaders : RewriteCode(s)

Spec == Init /\ [][Next]_agcVars

-----------------------------------------------------------------------------
(* Properties. *)

\* Every draw a queue has counted is executed, dropped, deferred, without a
\* usable shader, or thrown away by a reset, which is the one loss not counted.
DrawsAreAccounted ==
    \A q \in Queues :
        /\ shadow[q].draws = shadow[q].executed + shadow[q].dropped + Len(shadow[q].pending)
                               + discarded[q] + skipped[q]
        /\ shadow[q].executed = Cardinality({ i \in DOMAIN log : log[i].what = "draw" /\ log[i].queue = q })

\* The draws of a queue are executed in the order they were submitted, each once,
\* those that write a target or an image of their own among the deferred ones; a
\* deferred one at the first flip after it, into the buffer that this flip names.
CompositesReachTheirFlip ==
    \A i \in DOMAIN log : log[i].what = "draw" =>
        LET Others(S, what) == { j \in S : log[j].what = what /\ log[j].queue = log[i].queue }
            flips == Others(i + 1 .. Len(log), "flip") IN
        /\ \A j \in Others(1 .. i - 1, "draw") : log[j].id < log[i].id
        /\ Cardinality(Others(1 .. i - 1, "flip")) = log[i].flips
        /\ log[i].to \notin {Target, Image} =>
              flips # {} /\ log[i].to = log[Min(flips)].buf

\* A draw gets a module translated for its layout, whatever was drawn with the
\* pair since; one translated from other code takes code rewritten in place.
DrawsGetTheirModule == \A i \in DOMAIN log : log[i].what = "draw" => log[i].fits
=============================================================================
