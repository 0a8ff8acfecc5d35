----------------------------- MODULE ShaderWalk -----------------------------
(***************************************************************************)
(* A guest shader from its words to its run: the decoder                    *)
(* (src/gpu/shader/gcn_decode.cpp) cuts the words into instructions, the    *)
(* evaluator (gcn_eval.cpp) walks them on the CPU to find the buffers and   *)
(* images the draw has to bind, and the translator (gcn_translate.cpp)      *)
(* turns them into blocks that a dispatcher loop runs on the GPU.  One      *)
(* register holds a descriptor: 0 is null, others name a buffer or an       *)
(* image.  A vector access is an instruction of two words.                  *)
(***************************************************************************)
EXTENDS Naturals, FiniteSets, SequencesExt

CONSTANTS Bodies,   \* sequences of words: [op, target], target being a word offset
          UserData, \* descriptors the register may start with
          Memory,   \* by descriptor of a buffer: the descriptor stored there
          kMaxInstructions,
          MaxSteps  \* bound: instructions of the run

VARIABLES code,         \* the words of the shader
          user,         \* the register at the start of the draw
          instructions, \* the decoded program: [pc, op, target, size]
          stage,        \* "decode", "evaluate", "translate", "run", "failed", "end"
          pending,      \* the stack of paths, and the path under way last: [at, reg, supplemental]
          visited, buffers, images, \* buffers: a sequence of [base, pcs]; images: pc -> descriptor
          seen,         \* history: the register before each instruction of the main path
          blocks,       \* sequence of <<start, end>> indices into instructions, end excluded
          run,          \* [block, index, reg, active]: the dispatcher of the emitted code
          pc,           \* where the program would be on the guest's GPU
          straight,     \* history: every branch went the way the evaluator took it
          steps

walkVars == <<code, user, instructions, stage, pending, visited, buffers, images, seen, blocks,
              run, pc, straight, steps>>
evaluation == <<pending, visited, buffers, images, seen>>
running == <<run, pc, straight, steps>>

Size(w) == IF w.op \in {"buffer", "image", "load"} THEN 2 ELSE 1
Branches == {"branch", "cbranch"}
N == Len(instructions)
EndPc == instructions[N].pc + instructions[N].size
IndexOf(p) == CHOOSE i \in 1 .. N : instructions[i].pc = p
Starts == { instructions[i].pc : i \in 1 .. N }

Fail == stage' = "failed" /\ UNCHANGED <<code, user, instructions, evaluation, blocks, running>>

-----------------------------------------------------------------------------
(* GcnDecodeProgram. *)

\* Words of zero to the end are padding; the first S_ENDPGM ends the program.
DecodeFinished(at) == /\ instructions # <<>>
                      /\ \/ Last(instructions).op = "end"
                         \/ at <= Len(code) /\ \A i \in at .. Len(code) : code[i].op = "zero"

DecodeInstruction ==
    LET at == IF instructions = <<>> THEN 1 ELSE EndPc + 1 IN
    /\ stage = "decode" /\ ~DecodeFinished(at)
    /\ IF at > Len(code) \/ N = kMaxInstructions \/ at + Size(code[at]) - 1 > Len(code)
       THEN Fail   \* "unterminated", "instruction-limit", "read-failed"
       ELSE /\ instructions' = Append(instructions, [pc |-> at - 1, op |-> code[at].op,
                                                     target |-> code[at].target, size |-> Size(code[at])])
            /\ UNCHANGED <<code, user, stage, evaluation, blocks, running>>

\* The walk starts with one path: the program from its first instruction.
DecodeEnds ==
    /\ stage = "decode" /\ DecodeFinished(IF instructions = <<>> THEN 1 ELSE EndPc + 1)
    /\ stage' = "evaluate"
    /\ pending' = << [at |-> 1, reg |-> user, supplemental |-> FALSE] >>
    /\ visited' = {<<0, user>>}
    /\ UNCHANGED <<code, user, instructions, buffers, images, seen, blocks, running>>

-----------------------------------------------------------------------------
(* GcnEvaluateScalarState. *)

path == Last(pending)
At == instructions[path.at]
Descriptor(r) == r \in DOMAIN Memory   \* a buffer's: not null, and not an image's

\* RecordBufferBinding: one binding for each buffer, with the instructions that use it.
RecordBufferBinding(base, p) ==
    LET known == { i \in 1 .. Len(buffers) : buffers[i].base = base } IN
    IF known = {} THEN Append(buffers, [base |-> base, pcs |-> {p}])
    ELSE [i \in 1 .. Len(buffers) |-> IF i \in known THEN [buffers[i] EXCEPT !.pcs = @ \cup {p}] ELSE buffers[i]]

\* Variant for the mutant runs: what a later path finds replaces the image.
RecordImageAnew(p) == [x \in DOMAIN images \cup {p} |-> IF x = p THEN path.reg ELSE images[x]]

\* A supplemental path leaves the images alone that a path before it has found.
RecordImage(p) ==
    IF p \in DOMAIN images THEN images
    ELSE [x \in DOMAIN images \cup {p} |-> IF x = p THEN path.reg ELSE images[x]]

\* First index at or after a pc; the list's end if there is none.
Resume(p) == CHOOSE i \in 1 .. N + 1 : /\ i <= N => instructions[i].pc >= p
                                       /\ \A j \in 1 .. i - 1 : instructions[j].pc < p

Walking == stage = "evaluate" /\ pending # <<>> /\ path.at <= N /\ At.op # "end"
Advance(at, reg) == [pending EXCEPT ![Len(pending)] = [@ EXCEPT !.at = at, !.reg = reg]]
Keep == UNCHANGED <<code, user, instructions, stage, blocks, running>>
NoteMain == seen' = IF path.supplemental THEN seen
                    ELSE [x \in DOMAIN seen \cup {At.pc} |-> IF x = At.pc THEN path.reg ELSE seen[x]]

\* S_MOV_B32 and the rest of the scalar ALU: see ScalarAlu.  A conditional branch
\* is not a case of its own: the walk falls through.
EvaluateScalar ==
    /\ Walking /\ At.op \in {"mov", "cbranch", "zero"}
    /\ pending' = Advance(path.at + 1, IF At.op = "mov" THEN 1 ELSE path.reg)
    /\ NoteMain /\ Keep /\ UNCHANGED <<visited, buffers, images>>

\* A forward branch is followed, and what it skips is walked later.  A backward
\* one ends a supplemental path; the main path goes on behind it.
EvaluateBranch ==
    LET skipped == At.pc + At.size
        isNew == <<skipped, path.reg>> \notin visited
        here == Advance(Resume(At.target), path.reg) IN
    /\ Walking /\ At.op = "branch"
    /\ IF At.target > At.pc
       THEN /\ visited' = visited \cup {<<skipped, path.reg>>}
            /\ pending' = IF ~isNew THEN here
                          ELSE InsertAt(here, Len(here), [at |-> path.at + 1, reg |-> path.reg, supplemental |-> TRUE])
       ELSE /\ pending' = Advance(IF path.supplemental THEN N + 1 ELSE path.at + 1, path.reg)
            /\ UNCHANGED visited
    /\ NoteMain /\ Keep /\ UNCHANGED <<buffers, images>>

\* TryExecuteScalarLoad: what is not a buffer reads as zero; only the main path binds.
EvaluateLoad ==
    /\ Walking /\ At.op = "load"
    /\ buffers' = IF ~path.supplemental /\ Descriptor(path.reg)
                  THEN RecordBufferBinding(path.reg, At.pc) ELSE buffers
    /\ pending' = Advance(path.at + 1, IF Descriptor(path.reg) THEN Memory[path.reg] ELSE 0)
    /\ NoteMain /\ Keep /\ UNCHANGED <<visited, images>>

\* A null descriptor binds a buffer of zeros; one of an image fails the draw.
EvaluateBuffer ==
    /\ Walking /\ At.op = "buffer"
    /\ IF path.reg # 0 /\ ~Descriptor(path.reg) THEN Fail
       ELSE /\ buffers' = RecordBufferBinding(path.reg, At.pc)
            /\ pending' = Advance(path.at + 1, path.reg)
            /\ NoteMain /\ Keep /\ UNCHANGED <<visited, images>>

EvaluateImage ==
    /\ Walking /\ At.op = "image"
    /\ images' = RecordImage(At.pc)
    /\ pending' = Advance(path.at + 1, path.reg)
    /\ NoteMain /\ Keep /\ UNCHANGED <<visited, buffers>>

EvaluatePathEnds ==
    /\ stage = "evaluate" /\ pending # <<>> /\ (path.at <= N => At.op = "end")
    /\ pending' = Front(pending)
    /\ Keep /\ UNCHANGED <<visited, buffers, images, seen>>

-----------------------------------------------------------------------------
(* TryCompile. *)

\* Variant for the mutant runs: what follows a branch is not a leader.
LeadersWithoutFallthrough ==
    {0} \cup { instructions[i].target : i \in { j \in 1 .. N : instructions[j].op \in Branches } }

Leaders ==
    {0} \cup { instructions[i].target : i \in { j \in 1 .. N : instructions[j].op \in Branches } }
        \cup { instructions[i + 1].pc : i \in { j \in 1 .. N - 1 : instructions[j].op \in Branches \cup {"end"} } }

\* BuildBasicBlocks: leaders that no instruction starts at are left out.
BuildBasicBlocks ==
    LET starts == SetToSortSeq(Leaders \cap Starts, <) IN
    [b \in 1 .. Len(starts) |->
        <<IndexOf(starts[b]), IF b < Len(starts) THEN IndexOf(starts[b + 1]) ELSE N + 1>>]

BlockAt(p) == { b \in 1 .. Len(blocks) : instructions[blocks[b][1]].pc = p }
IsExitBranchTarget(p) == p >= EndPc

\* TryEmitBlock: a branch has to reach a block or the end, an image has to be bound.
Translates == \A i \in 1 .. N :
    /\ instructions[i].op \in Branches =>
          \/ instructions[i].target \in Starts \/ IsExitBranchTarget(instructions[i].target)
    /\ instructions[i].op = "image" => instructions[i].pc \in DOMAIN images

Translate ==
    /\ stage = "evaluate" /\ pending = <<>>
    /\ IF ~Translates THEN Fail
       ELSE /\ blocks' = BuildBasicBlocks /\ stage' = "run"
            /\ run' = [block |-> 1, index |-> 1, reg |-> user, active |-> TRUE]
            /\ UNCHANGED <<code, user, instructions, evaluation, pc, straight, steps>>

-----------------------------------------------------------------------------
(* The run of the emitted code. *)

Current == instructions[run.index]
BoundBuffer(p) == { i \in 1 .. Len(buffers) : p \in buffers[i].pcs }
\* DeclareBuffers: the first binding that names an instruction is its own.
First(B) == CHOOSE i \in B : \A j \in B : i <= j
Base(p) == buffers[First(BoundBuffer(p))].base

\* TryEmitScalarMemory, TryEmitScalarAlu: without a binding a load gives zero.
Register == CASE Current.op = "mov" -> 1
              [] Current.op = "load" -> IF BoundBuffer(Current.pc) = {} THEN 0 ELSE Memory[Base(Current.pc)]
              [] OTHER -> run.reg

\* The block a branch stores into program_counter_; none is out of the switch.
Into(B, r) == IF B = {} THEN [run EXCEPT !.active = FALSE, !.reg = r]
              ELSE LET b == First(B) IN
                   [block |-> b, index |-> blocks[b][1], reg |-> r, active |-> TRUE]
Following == { b \in 1 .. Len(blocks) : b = run.block + 1 }

\* One instruction of the emitted code and of the program.
RunInstruction(taken) ==
    LET lastOfBlock == run.index = blocks[run.block][2] - 1
        branches == Current.op = "branch" \/ (Current.op = "cbranch" /\ taken)
        target == IF IsExitBranchTarget(Current.target) THEN {} ELSE BlockAt(Current.target) IN
    /\ stage = "run" /\ run.active /\ steps < MaxSteps
    /\ taken => Current.op = "cbranch"
    /\ run' = IF Current.op = "end" /\ lastOfBlock THEN [run EXCEPT !.active = FALSE]
              ELSE IF ~lastOfBlock THEN [run EXCEPT !.index = @ + 1, !.reg = Register]
              ELSE Into(IF branches THEN target ELSE Following, Register)
    /\ pc' = IF branches THEN Current.target
             ELSE IF Current.op = "end" THEN pc ELSE pc + Current.size
    /\ straight' = (straight /\ ~taken /\ ~(Current.op = "branch" /\ Current.target <= Current.pc))
    /\ steps' = steps + 1
    /\ UNCHANGED <<code, user, instructions, stage, evaluation, blocks>>

-----------------------------------------------------------------------------
Start ==
    /\ instructions = <<>> /\ pending = <<>> /\ visited = {}
    /\ buffers = <<>> /\ images = [x \in {} |-> 0] /\ seen = [x \in {} |-> 0] /\ blocks = <<>>
    /\ run = [block |-> 1, index |-> 1, reg |-> 0, active |-> FALSE] /\ pc = 0
    /\ straight = TRUE /\ steps = 0

Init == Start /\ code \in Bodies /\ user \in UserData /\ stage = "decode"

Idle == Start /\ code = <<>> /\ user = 0 /\ stage = "end"

Next ==
    \/ DecodeInstruction \/ DecodeEnds
    \/ EvaluateScalar \/ EvaluateBranch \/ EvaluateLoad \/ EvaluateBuffer \/ EvaluateImage
    \/ EvaluatePathEnds
    \/ Translate \/ \E taken \in BOOLEAN : RunInstruction(taken)

Spec == Init /\ [][Next]_walkVars

-----------------------------------------------------------------------------
(* Properties. *)

\* The dispatcher loop is at the instruction where the program would be, and it
\* stops where the program ends, whatever way the conditional branches go.
BlocksFollowProgram ==
    stage = "run" =>
       /\ run.active => pc = Current.pc
       /\ ~run.active => pc >= EndPc \/ \E i \in 1 .. N : instructions[i].pc = pc /\ instructions[i].op = "end"

\* A run that goes the way the evaluator went finds its register as the evaluator
\* had it, and each access bound to what the register names: neither the paths
\* walked afterwards nor the merging of bindings change what the main path found.
BoundToWhatItReads ==
    stage = "run" /\ run.active /\ straight =>
       /\ Current.pc \in DOMAIN seen => seen[Current.pc] = run.reg
       /\ Current.op = "image" => images[Current.pc] = run.reg
       /\ Current.op = "buffer" => Base(Current.pc) = run.reg
=============================================================================
