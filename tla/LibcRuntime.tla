---------------------------- MODULE LibcRuntime -----------------------------
(***************************************************************************)
(* Two parts of the guest's C and C++ runtime (src/hle/liblibc.cpp).       *)
(*                                                                         *)
(* The libc heap: chunks of mapped memory, a bump pointer, and a first-fit *)
(* list of freed blocks that is never coalesced. A block starts with a     *)
(* header that holds its size; what alignment skips in front of the header *)
(* belongs to the block only until it is freed. Addresses count small units *)
(* of memory below AddressSpace, where sums wrap as 64 bits do. Every call *)
(* holds g_heap_mutex; realloc makes its copy between two calls.           *)
(*                                                                         *)
(* The C++ exceptions of one guest thread: the __cxa_* and _Unwind_* calls *)
(* under the code a compiler emits around them. A frame may have           *)
(* destructors to run and catch clauses; an exception that passes it lands *)
(* on a pad of the frame, which runs the destructors, or leaves the catch  *)
(* body (__cxa_end_catch), and calls _Unwind_Resume. The unwinder first    *)
(* looks for the frame that catches and then lands on every pad on the     *)
(* way. A frame's index in the stack stands for its CFA; host frames,      *)
(* which the walk skips by scanning the stack, are left out.               *)
(***************************************************************************)
EXTENDS Naturals, SequencesExt

(* The libc heap. *)

CONSTANTS AddressSpace, \* number of addresses, a power of two
          kHeaderSize, kHeapChunkSize, \* kMinAlignment is the header's size
          SplitAt,     \* smallest rest of a block that stays free
          Chunks,      \* addresses at which chunks can be mapped
          AllocSizes, Aligns,
          MaxLive      \* bound on live blocks and on free blocks

\* malloc makes a size of 0 one of 1 and asks for the header's alignment, as does an
\* alignment below it.  Chunks do not overlap, and neither an address in one with a
\* header and an alignment added nor twice an alignment wraps: user memory ends far
\* below the end of the address space, and an alignment is less than half of it.
HeapAssumption ==
    /\ AddressSpace \in Nat /\ kHeapChunkSize \in Nat /\ SplitAt \in Nat
    /\ AllocSizes \subseteq Nat \ {0}
    /\ kHeaderSize \in Nat \ {0} /\ kHeaderSize \in Aligns
    /\ \A a \in Aligns : a \in Nat /\ a >= kHeaderSize /\ \E n \in 0 .. a : a = 2 ^ n
    /\ Chunks \subseteq Nat \ {0}
    /\ \A c, d \in Chunks : c = d \/ c + kHeapChunkSize <= d \/ d + kHeapChunkSize <= c
    /\ \A c \in Chunks, a \in Aligns : c + kHeapChunkSize + kHeaderSize + a <= AddressSpace
    /\ \A a \in Aligns : 2 * (kHeaderSize + a) + kHeapChunkSize <= AddressSpace

VARIABLES g_heap_free, g_heap_bump, g_heap_end,
          mapped,  \* chunks mapped so far
          live,    \* blocks the guest uses: [ptr, size, from]
          moving,  \* the old block of a realloc under way, in a set
          heap_outcome \* "ok", or what became of the host thread: "hung", "crashed"

heapVars == <<g_heap_free, g_heap_bump, g_heap_end, mapped, live, moving, heap_outcome>>

Mod(x) == x % AddressSpace
AlignUp(x, align) == Mod(((x + align - 1) \div align) * align)

\* Variant for the mutant runs: no room for the header.
PlaceWithoutHeader(addr, size, align) ==
    LET user == AlignUp(addr, align) IN [user |-> user, total |-> Mod((user - addr) + size)]

\* Where a block carved at addr has its user pointer, and how much it takes.
Place(addr, size, align) ==
    LET user == AlignUp(addr + kHeaderSize, align) IN [user |-> user, total |-> Mod((user - addr) + size)]

\* memset runs over the whole size, whatever the wrapped total was.
Deliver(addr, size, align) ==
    LET user == Place(addr, size, align).user IN
    IF \E c \in mapped' : c <= user /\ user + size <= c + kHeapChunkSize
    THEN /\ live' = live \cup {[ptr |-> user, size |-> size, align |-> align]}
         /\ UNCHANGED heap_outcome
    ELSE heap_outcome' = "crashed" /\ UNCHANGED live

-----------------------------------------------------------------------------
LargeEnough(size, align) ==
    { i \in DOMAIN g_heap_free : Place(g_heap_free[i].addr, size, align).total <= g_heap_free[i].size }

\* Variant for the mutant runs: the rest of the block keeps its old address.
TakeKeepsAddress(i, total) ==
    IF g_heap_free[i].size - total >= SplitAt
    THEN g_heap_free' = [g_heap_free EXCEPT ![i] = [@ EXCEPT !.size = @ - total]]
    ELSE g_heap_free' = RemoveAt(g_heap_free, i)

\* The rest of a free block stays in its place when it is large enough.
Take(i, total) ==
    IF g_heap_free[i].size - total >= SplitAt
    THEN g_heap_free' = [g_heap_free EXCEPT ![i] = [addr |-> @.addr + total, size |-> @.size - total]]
    ELSE g_heap_free' = RemoveAt(g_heap_free, i)

AllocFromList(size, align) ==
    /\ LargeEnough(size, align) # {}
    /\ LET i == CHOOSE j \in LargeEnough(size, align) : \A k \in LargeEnough(size, align) : j <= k IN
       /\ Take(i, Place(g_heap_free[i].addr, size, align).total)
       /\ mapped' = mapped
       /\ Deliver(g_heap_free[i].addr, size, align)
    /\ UNCHANGED <<g_heap_bump, g_heap_end>>

BumpFits(size, align) ==
    /\ g_heap_bump # 0
    /\ Mod(g_heap_bump + Place(g_heap_bump, size, align).total) <= g_heap_end

\* HeapGrowLocked doubles the chunk until it is large enough: beyond half the
\* address space the doubling wraps to 0 and never ends.  A chunk larger than
\* the usual one is not to be had here, and neither is one when all are mapped.
Grow(size, align) ==
    LET need == Mod(Place(g_heap_bump, size, align).total + align + kHeaderSize) IN
    IF need > AddressSpace \div 2 THEN [end |-> "hung", at |-> 0]
    ELSE IF need > kHeapChunkSize \/ Chunks \ mapped = {} THEN [end |-> "null", at |-> 0]
    ELSE [end |-> "ok", at |-> CHOOSE c \in Chunks \ mapped : \A d \in Chunks \ mapped : c <= d]

AllocByBump(size, align) ==
    /\ LargeEnough(size, align) = {}
    /\ UNCHANGED g_heap_free
    /\ IF BumpFits(size, align)
       THEN /\ g_heap_bump' = Mod(g_heap_bump + Place(g_heap_bump, size, align).total)
            /\ mapped' = mapped
            /\ Deliver(g_heap_bump, size, align)
            /\ UNCHANGED g_heap_end
       ELSE LET grown == Grow(size, align) IN
            IF grown.end = "ok"
            THEN /\ mapped' = mapped \cup {grown.at}
                 /\ g_heap_end' = grown.at + kHeapChunkSize
                 /\ g_heap_bump' = Mod(grown.at + Place(grown.at, size, align).total)
                 /\ Deliver(grown.at, size, align)
            ELSE /\ heap_outcome' = IF grown.end = "hung" THEN "hung" ELSE heap_outcome
                 /\ UNCHANGED <<g_heap_bump, g_heap_end, mapped, live>>

\* malloc, calloc, memalign: a size of 0 becomes 1.
HeapAlloc(size, align) ==
    /\ heap_outcome = "ok"
    /\ Cardinality(live) < MaxLive
    /\ AllocFromList(size, align) \/ AllocByBump(size, align)

\* Variant for the mutant runs: a realloc returns the old block's header too.
FreeTooMuch(b) ==
    g_heap_free' = Append(g_heap_free, [addr |-> b.ptr - kHeaderSize, size |-> b.size + 2 * kHeaderSize])

FreedBlock(b) ==
    g_heap_free' = Append(g_heap_free, [addr |-> b.ptr - kHeaderSize, size |-> b.size + kHeaderSize])

HeapFree(b) ==
    /\ heap_outcome = "ok"
    /\ b \in live \ moving /\ Len(g_heap_free) < MaxLive
    /\ FreedBlock(b)
    /\ live' = live \ {b}
    /\ UNCHANGED <<g_heap_bump, g_heap_end, mapped, moving, heap_outcome>>

\* realloc: a new block, then the copy, then the old one is freed.
ReallocBegin(b, size) ==
    /\ moving = {} /\ b \in live
    /\ HeapAlloc(size, kHeaderSize)
    /\ moving' = IF live' # live THEN {b} ELSE {}

ReallocEnd(b) ==
    /\ heap_outcome = "ok"
    /\ b \in moving /\ Len(g_heap_free) < MaxLive
    /\ FreedBlock(b)
    /\ live' = live \ {b} /\ moving' = {}
    /\ UNCHANGED <<g_heap_bump, g_heap_end, mapped, heap_outcome>>

\* The emulator stops: the chunks are gone already, and the heap starts over.
ResetLibcHeap ==
    /\ heap_outcome = "ok"
    /\ g_heap_free' = <<>> /\ g_heap_bump' = 0 /\ g_heap_end' = 0
    /\ mapped' = {} /\ live' = {} /\ moving' = {}
    /\ UNCHANGED heap_outcome

-----------------------------------------------------------------------------
HeapInit ==
    /\ g_heap_free = <<>> /\ g_heap_bump = 0 /\ g_heap_end = 0
    /\ mapped = {} /\ live = {} /\ moving = {} /\ heap_outcome = "ok"

HeapNext ==
    \/ \E size \in AllocSizes, align \in Aligns : HeapAlloc(size, align) /\ UNCHANGED moving
    \/ \E b \in live : HeapFree(b) \/ ReallocEnd(b) \/ \E size \in AllocSizes : ReallocBegin(b, size)
    \/ ResetLibcHeap

HeapSpec == HeapInit /\ [][HeapNext]_heapVars

-----------------------------------------------------------------------------
(* Properties. *)

Whole(b) == b.ptr - kHeaderSize .. b.ptr + b.size - 1
Unused(i) == g_heap_free[i].addr .. g_heap_free[i].addr + g_heap_free[i].size - 1

\* Live blocks and their headers overlap neither one another nor a free block
\* nor what the bump pointer has yet to hand out, they lie in mapped chunks and
\* are aligned as was asked.
BlocksAreApart ==
    heap_outcome = "ok" =>
        /\ \A b \in live :
              /\ b.ptr % b.align = 0
              /\ \E c \in mapped : Whole(b) \subseteq c .. c + kHeapChunkSize - 1
              /\ Whole(b) \cap (g_heap_bump .. g_heap_end - 1) = {}
              /\ \A i \in DOMAIN g_heap_free : Whole(b) \cap Unused(i) = {}
              /\ \A d \in live \ {b} : Whole(b) \cap Whole(d) = {}
        /\ \A i, j \in DOMAIN g_heap_free : i # j => Unused(i) \cap Unused(j) = {}

-----------------------------------------------------------------------------
(* Exceptions. *)

CONSTANTS Exceptions, NoException, \* heap blocks of exceptions
          Types, AnyType,          \* thrown types; catch (...)
          MaxDepth                 \* bound on the guest stack

VARIABLES stack,     \* frames: what they catch, whether they have destructors, what they do
          exception, \* type, handlerCount and allocation of each block
          g_caught, g_phase2, g_uncaught_exceptions,
          ended,     \* the guest was terminated: std::terminate
          rethrown   \* history: exceptions that __cxa_rethrow has raised

cxaVars == <<stack, exception, g_caught, g_phase2, g_uncaught_exceptions, ended, rethrown>>

\* "body": its own code; "landed": on the pad of a clause that matches; "handler":
\* in the clause; "cleanup" and "leaving": on a pad that ends in _Unwind_Resume,
\* the latter with the clause it leaves yet to be ended.
Frames == [catches : { {}, {AnyType} } \cup { {ty} : ty \in Types }, dtor : BOOLEAN,
           mode : {"body", "landed", "handler", "cleanup", "leaving"},
           ue : Exceptions \cup {NoException}]

Top == Len(stack)
Highest(S) == CHOOSE f \in S : \A g \in S : g <= f
Lowest(S) == CHOOSE i \in S : \A j \in S : i <= j

Catches(f, type) == stack[f].mode = "body" /\ stack[f].catches \cap {type, AnyType} # {}
HasPad(f) == \/ stack[f].mode = "handler"
             \/ stack[f].mode = "body" /\ (stack[f].dtor \/ stack[f].catches # {})

-----------------------------------------------------------------------------
(* The unwinder. *)

\* g_phase2 without the first entry of the exception.
Forget(entries, e) ==
    LET at == { i \in DOMAIN entries : entries[i].ue = e } IN
    IF at = {} THEN entries ELSE RemoveAt(entries, Lowest(at))

LandOn(f, e, mode) ==
    stack' = [SubSeq(stack, 1, f) EXCEPT ![f] = [@ EXCEPT !.ue = e, !.mode = mode]]

\* Variant for the mutant runs: only the frame that catches is landed on.
RunPhase2SkipsCleanups(e, handler, entries) ==
    LandOn(handler, e, "landed") /\ g_phase2' = Forget(entries, e)

\* RunPhase2: from the innermost frame down to the next pad, at the latest the
\* handler's; a pad of a clause that does not match runs as a cleanup.
RunPhase2(e, handler, entries) ==
    LET f == Highest({handler} \cup { g \in handler .. Top : HasPad(g) }) IN
    IF f = handler THEN LandOn(f, e, "landed") /\ g_phase2' = Forget(entries, e)
    ELSE /\ LandOn(f, e, IF stack[f].mode = "handler" THEN "leaving" ELSE "cleanup")
         /\ g_phase2' = entries

\* RaiseException.  The frame that catches is the innermost; without one the
\* program ends, and so it does when a destructor would let the exception out.
RaiseException(e, type) ==
    LET found == { f \in 1 .. Top : Catches(f, type) \/ stack[f].mode \in {"cleanup", "leaving"} } IN
    IF found # {} /\ Catches(Highest(found), type)
    THEN /\ RunPhase2(e, Highest(found), Append(g_phase2, [ue |-> e, handler |-> Highest(found)]))
         /\ UNCHANGED ended
    ELSE ended' = TRUE /\ UNCHANGED <<stack, g_phase2>>

\* Exceptions that are thrown and not caught yet.
InFlight == { e \in Exceptions : \E f \in DOMAIN stack :
                 stack[f].ue = e /\ stack[f].mode \in {"landed", "cleanup", "leaving"} }

-----------------------------------------------------------------------------
(* The calls of the guest program, from its innermost frame. *)

Running(modes) == ~ended /\ Top > 0 /\ stack[Top].mode \in modes

\* The heap hands out a new block; what follows when it is one that was freed with
\* its exception still under way is not modelled.
CxaThrow(e, type) ==
    /\ Running({"body", "handler"}) /\ ~exception[e].allocated
    /\ e \notin InFlight \cup ToSet(g_caught)
    /\ exception' = [exception EXCEPT ![e] = [allocated |-> TRUE, type |-> type, handlerCount |-> 0]]
    /\ g_uncaught_exceptions' = g_uncaught_exceptions + 1
    /\ RaiseException(e, type)
    /\ UNCHANGED <<g_caught, rethrown>>

\* The first thing the clause does.
CxaBeginCatch ==
    /\ Running({"landed"})
    /\ LET e == stack[Top].ue IN
       /\ exception' = [exception EXCEPT ![e].handlerCount = @ + 1]
       /\ g_caught' = Append(g_caught, e)
    /\ g_uncaught_exceptions' = IF g_uncaught_exceptions > 0 THEN g_uncaught_exceptions - 1 ELSE 0
    /\ stack' = [stack EXCEPT ![Top].mode = "handler"]
    /\ UNCHANGED <<g_phase2, ended, rethrown>>

\* Variant for the mutant runs: the last handler does not free it.
EndCatchLeaks ==
    /\ g_caught # <<>>
    /\ g_caught' = Front(g_caught)
    /\ exception' = [exception EXCEPT ![Last(g_caught)].handlerCount = IF @ > 0 THEN @ - 1 ELSE 0]

\* __cxa_end_catch: the innermost caught exception, freed by its last handler.
EndCatch ==
    /\ g_caught # <<>>
    /\ g_caught' = Front(g_caught)
    /\ LET e == Last(g_caught) IN
       exception' = [exception EXCEPT ![e] =
                        [allocated |-> @.allocated /\ @.handlerCount > 1, type |-> @.type,
                         handlerCount |-> IF @.handlerCount > 0 THEN @.handlerCount - 1 ELSE 0]]

\* The clause ends normally.
CxaEndCatch ==
    /\ Running({"handler"})
    /\ EndCatch
    /\ stack' = [stack EXCEPT ![Top].mode = "body", ![Top].ue = NoException]
    /\ UNCHANGED <<g_phase2, g_uncaught_exceptions, ended, rethrown>>

CxaRethrow ==
    /\ Running({"handler"}) /\ g_caught # <<>>
    /\ LET e == Last(g_caught) IN
       RaiseException(e, exception[e].type) /\ rethrown' = rethrown \cup {e}
    /\ g_uncaught_exceptions' = g_uncaught_exceptions + 1
    /\ UNCHANGED <<exception, g_caught>>

\* A pad has run its destructors and resumes with the handler that is on record.
UnwindResume ==
    /\ Running({"cleanup", "leaving"})
    /\ IF stack[Top].mode = "leaving" THEN EndCatch ELSE UNCHANGED <<exception, g_caught>>
    /\ LET e == stack[Top].ue
           known == { i \in DOMAIN g_phase2 : g_phase2[i].ue = e }
       IN /\ known # {}
          /\ RunPhase2(e, g_phase2[Lowest(known)].handler, g_phase2)
    /\ UNCHANGED <<g_uncaught_exceptions, ended, rethrown>>

\* Ordinary calls and returns; destructors and clauses call functions too.
CallFunction(catches, dtor) ==
    /\ Running({"body", "handler", "cleanup"}) /\ Top < MaxDepth
    /\ stack' = Append(stack, [catches |-> catches, dtor |-> dtor, mode |-> "body", ue |-> NoException])
    /\ UNCHANGED <<exception, g_caught, g_phase2, g_uncaught_exceptions, ended, rethrown>>

Return ==
    /\ Running({"body"}) /\ Top > 1
    /\ stack' = Front(stack)
    /\ UNCHANGED <<exception, g_caught, g_phase2, g_uncaught_exceptions, ended, rethrown>>

-----------------------------------------------------------------------------
CxaInit ==
    /\ stack = <<[catches |-> {}, dtor |-> FALSE, mode |-> "body", ue |-> NoException]>>
    /\ exception = [e \in Exceptions |->
                       [allocated |-> FALSE, type |-> AnyType, handlerCount |-> 0]]
    /\ g_caught = <<>> /\ g_phase2 = <<>> /\ g_uncaught_exceptions = 0
    /\ ended = FALSE /\ rethrown = {}

CxaNext ==
    \/ \E e \in Exceptions, type \in Types : CxaThrow(e, type)
    \/ CxaBeginCatch \/ CxaEndCatch \/ CxaRethrow \/ UnwindResume
    \/ \E f \in [catches : { {}, {AnyType} } \cup { {ty} : ty \in Types }, dtor : BOOLEAN] :
          CallFunction(f.catches, f.dtor)
    \/ Return

CxaSpec == CxaInit /\ [][CxaNext]_cxaVars

-----------------------------------------------------------------------------
(* Properties. *)

CxaTypeOK ==
    /\ stack \in Seq(Frames) /\ Top <= MaxDepth
    /\ g_caught \in Seq(Exceptions) /\ g_phase2 \in Seq([ue : Exceptions, handler : Nat])
    /\ g_uncaught_exceptions \in Nat /\ ended \in BOOLEAN

\* An exception is allocated exactly as long as it is under way or caught,
\* unless it was rethrown.
LivesUntilHandled ==
    ~ended => \A e \in Exceptions \ rethrown :
                 exception[e].allocated <=> e \in InFlight \cup ToSet(g_caught)

\* An exception jumps over no destructor and leaves no clause without ending it:
\* a frame with a pad is removed only when it returns.
EveryPadIsLandedOn ==
    [][\A f \in DOMAIN stack : f > Len(stack') /\ HasPad(f) => stack' = Front(stack)]_cxaVars

\* The unwinder's records agree with the stack: each pad under way has its entry,
\* with the frame that will catch, every clause its caught exception, and the
\* counter is the number of exceptions under way.
RecordsAgreeWithStack ==
    ~ended =>
        /\ \A f \in DOMAIN stack : stack[f].mode \in {"cleanup", "leaving"} =>
              \E i \in DOMAIN g_phase2 :
                 /\ g_phase2[i].ue = stack[f].ue /\ g_phase2[i].handler < f
                 /\ Catches(g_phase2[i].handler, exception[stack[f].ue].type)
        /\ Cardinality({ f \in DOMAIN stack : stack[f].mode \in {"handler", "leaving"} }) = Len(g_caught)
        /\ \A f \in DOMAIN stack : stack[f].mode = "handler" => stack[f].ue \in ToSet(g_caught)
        /\ g_uncaught_exceptions = Len(g_phase2) +
              (IF Top > 0 /\ stack[Top].mode = "landed" THEN 1 ELSE 0)
=============================================================================
