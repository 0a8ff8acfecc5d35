---------------------------- MODULE GuestAccess -----------------------------
(***************************************************************************)
(* How HLE handlers reach guest memory (src/memory/memory.cpp).            *)
(*                                                                         *)
(* The page-state cache: each thread keeps what Query said of a page       *)
(* together with the map generation it had read before it asked, and       *)
(* believes the entry as long as the generation has not moved. The public  *)
(* calls that change mappings advance the generation first and change the  *)
(* host's pages after; arming a tracked range changes the page first and   *)
(* advances after.                                                         *)
(*                                                                         *)
(* The guarded accesses: handlers use them to copy, fill, measure and      *)
(* compare guest memory whose pages may turn out reserved, armed by the    *)
(* write tracker or not mapped at all. An access tries its whole range     *)
(* first and then goes page by page: it tests a chunk, repairs what can be *)
(* repaired (a reserved page is committed, an armed one released), tests   *)
(* again and moves the chunk. Another thread may arm a page between the    *)
(* repair and the second test. Null addresses and empty ranges, which      *)
(* every access answers at once, are left out.                             *)
(***************************************************************************)
EXTENDS Naturals, FiniteSetsExt

(* The page-state cache. *)

CONSTANTS Readers,       \* threads that ask IsReadable, IsWritable, IsExecutable
          Mutators,      \* threads in Map, Unmap, Protect, Commit, TrackGuestWrites ...
          CachedPages,   \* pages of one slot of the direct-mapped cache
          MaxGeneration  \* bound of g_map_generation

VARIABLES generation, \* g_map_generation
          state,      \* whether the host grants the access, per page
          change,     \* what a mutator is about to do: its page and how far it is
          entry,      \* the slot of each thread
          asking,     \* a query under way: the page, the generation read, whether a call was unfinished then
          answer      \* what the last query of a thread said, and whether it came from the cache

cacheVars == <<generation, state, change, entry, asking, answer>>

NoChange == [page |-> "none", phase |-> "idle"]
NotAsking == [page |-> "none", generation |-> 0, overlapped |-> FALSE, phase |-> "idle"]
Changing(p) == \E m \in Mutators : change[m].page = p
Unfinished(p) == \E m \in Mutators : change[m] = [page |-> p, phase |-> "bumped"]
Fresh(t, p) == entry[t].generation = generation /\ entry[t].page = p

-----------------------------------------------------------------------------
(* Mutators. *)

Bump == generation < MaxGeneration /\ generation' = generation + 1

\* The public calls: BumpMapGeneration, then the host call.
BeginCall(m, p) ==
    /\ change[m] = NoChange
    /\ Bump
    /\ change' = [change EXCEPT ![m] = [page |-> p, phase |-> "bumped"]]
    /\ UNCHANGED <<state, entry, asking, answer>>

HostCall(m) ==
    /\ change[m].phase = "bumped"
    /\ state' = [state EXCEPT ![change[m].page] = ~@]
    /\ change' = [change EXCEPT ![m] = NoChange]
    /\ UNCHANGED <<generation, entry, asking, answer>>

\* ArmWriteRangeLocked and DisarmWriteRangeLocked, also from the fault handler:
\* VirtualProtect, then BumpMapGeneration.
ArmOrDisarm(m, p) ==
    /\ change[m] = NoChange /\ generation < MaxGeneration
    /\ state' = [state EXCEPT ![p] = ~@]
    /\ change' = [change EXCEPT ![m] = [page |-> p, phase |-> "protected"]]
    /\ UNCHANGED <<generation, entry, asking, answer>>

\* Variant for the mutant runs: the fault path does not advance the generation.
BumpOmitted(m) ==
    /\ change[m].phase = "protected"
    /\ change' = [change EXCEPT ![m] = NoChange]
    /\ UNCHANGED <<generation, state, entry, asking, answer>>

BumpAfterArming(m) ==
    /\ change[m].phase = "protected"
    /\ Bump
    /\ change' = [change EXCEPT ![m] = NoChange]
    /\ UNCHANGED <<state, entry, asking, answer>>

-----------------------------------------------------------------------------
(* QueryPageCached. *)

LoadGeneration(t, p) ==
    /\ asking[t].phase = "idle"
    /\ IF Fresh(t, p)
       THEN /\ answer' = [answer EXCEPT ![t] = [page |-> p, granted |-> entry[t].granted]]
            /\ UNCHANGED asking
       ELSE /\ asking' = [asking EXCEPT ![t] = [page |-> p, generation |-> generation,
                                                overlapped |-> Unfinished(p), phase |-> "query"]]
            /\ UNCHANGED answer
    /\ UNCHANGED <<generation, state, change, entry>>

\* Query looks at the host's page.
AskHost(t) ==
    /\ asking[t].phase = "query"
    /\ answer' = [answer EXCEPT ![t] = [page |-> asking[t].page, granted |-> state[asking[t].page]]]
    /\ asking' = [asking EXCEPT ![t].phase = "store"]
    /\ UNCHANGED <<generation, state, change, entry>>

\* Variant for the mutant runs: the entry carries the generation of the store.
StoreEntryLate(t) ==
    /\ asking[t].phase = "store"
    /\ entry' = [entry EXCEPT ![t] = [page |-> asking[t].page, generation |-> generation,
                                      granted |-> answer[t].granted, overlapped |-> asking[t].overlapped]]
    /\ asking' = [asking EXCEPT ![t] = NotAsking]
    /\ UNCHANGED <<generation, state, change, answer>>

StoreEntry(t) ==
    /\ asking[t].phase = "store"
    /\ entry' = [entry EXCEPT ![t] = [page |-> asking[t].page, generation |-> asking[t].generation,
                                      granted |-> answer[t].granted, overlapped |-> asking[t].overlapped]]
    /\ asking' = [asking EXCEPT ![t] = NotAsking]
    /\ UNCHANGED <<generation, state, change, answer>>

-----------------------------------------------------------------------------
CacheInit ==
    /\ generation = 1
    /\ state = [p \in CachedPages |-> TRUE]
    /\ change = [m \in Mutators |-> NoChange]
    /\ entry = [t \in Readers |-> [page |-> "none", generation |-> 0, granted |-> FALSE, overlapped |-> FALSE]]
    /\ asking = [t \in Readers |-> NotAsking]
    /\ answer = [t \in Readers |-> [page |-> "none", granted |-> FALSE]]

CacheNext ==
    \/ \E m \in Mutators : HostCall(m) \/ BumpAfterArming(m)
                           \/ \E p \in CachedPages : BeginCall(m, p) \/ ArmOrDisarm(m, p)
    \/ \E t \in Readers : AskHost(t) \/ StoreEntry(t) \/ \E p \in CachedPages : LoadGeneration(t, p)

CacheSpec == CacheInit /\ [][CacheNext]_cacheVars

-----------------------------------------------------------------------------
(* Properties. *)

\* memory.cpp says of an entry with the current generation that "a stale entry
\* is therefore impossible".  The one way to one: the thread read the generation of a call that
\* had advanced it and had not changed the page yet.
StaleOnlyFromAnUnfinishedCall ==
    \A t \in Readers, p \in CachedPages :
        Fresh(t, p) /\ ~Changing(p) /\ ~entry[t].overlapped => entry[t].granted = state[p]

-----------------------------------------------------------------------------
(* Guarded accesses. *)

CONSTANTS PageSize, LastPage, \* guest pages are 0 .. LastPage
          Sizes,              \* byte counts of the accesses that move data
          Lengths             \* limits of the string functions

\* No call moves more than the longest one.
AccessAssumption ==
    /\ PageSize \in Nat \ {0} /\ LastPage \in Nat
    /\ Sizes \subseteq Nat \ {0} /\ \E n \in Sizes : \A s \in Sizes : s <= n
    /\ Lengths \subseteq Nat \ {0}

Pages == 0 .. LastPage
Host == (LastPage + 1) * PageSize         \* the host's side of a read or a write
Guest == 0 .. Host - 1
Memory == 0 .. Host + Max(Sizes) - 1

VARIABLES page,      \* "rw", "ro", "armed", "reserved" or "none", by page
          mem, orig, \* contents now and at the start of the call
          op, dst, src, size,
          done,      \* bytes handled so far
          phase, found_null, result,
          rearmed    \* history: another thread has armed a page meanwhile

guardedVars == <<page, mem, orig, op, dst, src, size, done, phase, found_null, result, rearmed>>
arguments == <<orig, dst, src, size>>

Transfers == {"read", "write", "copy"}
Compares == {"strcmp", "strncmp", "memcmp"}

UsesSrc == op \notin {"write", "set", "pad"}
UsesDst == op \notin {"read", "strlen"}
WritesDst == UsesDst /\ op \notin Compares

PageOf(x) == x \div PageSize
Readable(x) == x >= Host \/ page[PageOf(x)] \in {"rw", "ro", "armed"}
Writable(x) == x >= Host \/ page[PageOf(x)] = "rw"
Usable(x) == IF WritesDst THEN Writable(x) ELSE Readable(x)

\* CommitOnFault, and ReleaseTrackedWriteAt after it.
Committed(was) == IF was = "reserved" THEN "rw" ELSE was
Repaired(was) == IF was = "armed" THEN "rw" ELSE Committed(was)

-----------------------------------------------------------------------------
\* Ranges that overlap with the destination above are copied from the end.
Backward == op = "copy" /\ dst > src /\ dst < src + size

\* The rest of the page of x, in the direction of the copy.
PageRest(x) ==
    IF Backward THEN ((x + size - done - 1) % PageSize) + 1
                ELSE PageSize - ((x + done) % PageSize)

Sides == (IF UsesSrc THEN {src} ELSE {}) \cup (IF UsesDst THEN {dst} ELSE {})

\* Variant for the mutant runs: one page bounds the chunk.
ChunkOfOneSide == Min({size - done, PageRest(CHOOSE x \in Sides : TRUE)})

\* What is left, but no further than the end of a page of either range.
Chunk == Min({size - done} \cup {PageRest(x) : x \in Sides})

\* Variant for the mutant runs: overlapping ranges too are copied from the start.
AtFromTheStart == done

\* The offset of the chunk from the start of the ranges.
At == IF Backward THEN size - done - Chunk ELSE done
Covered == At .. At + Chunk - 1

\* Once the NUL is found strncpy no longer reads.
CanRead == UsesSrc /\ ~found_null => \A i \in Covered : Readable(src + i)
CanUse == UsesDst => \A i \in Covered : Usable(dst + i)

\* The bytes of mem at offsets I from dst.
Put(I, Byte(_)) ==
    mem' = [x \in Memory |-> IF \E i \in I : x = dst + i THEN Byte(x - dst) ELSE mem[x]]
SourceByte(i) == mem[src + i]
Filler(i) == IF op = "set" THEN Host ELSE 0

Nuls(I) == { i \in I : mem[src + i] = 0 }
Decisive(i) == mem[dst + i] # mem[src + i] \/ (op # "memcmp" /\ mem[src + i] = 0)
Order(i) == CASE mem[dst + i] < mem[src + i] -> "less"
              [] mem[dst + i] > mem[src + i] -> "greater"
              [] OTHER -> "equal"

Return(r) == phase' = "end" /\ result' = r

-----------------------------------------------------------------------------
(* The whole range at once. *)

WholeRange ==
    /\ op \in Transfers \cup {"set", "memcmp"}
    /\ \A i \in 0 .. size - 1 : (UsesSrc => Readable(src + i)) /\ (UsesDst => Usable(dst + i))

\* One memmove, memset or memcmp; ranges that are the same need none.
Direct ==
    /\ phase \in {"start", "again"}
    /\ WholeRange \/ (dst = src /\ op \in Compares \cup {"copy"})
    /\ IF op \in Compares
       THEN LET D == { i \in 0 .. size - 1 : dst # src /\ Decisive(i) } IN
            Return(IF D = {} THEN "equal" ELSE Order(Min(D))) /\ UNCHANGED mem
       ELSE IF op = "set" THEN Put(0 .. size - 1, Filler) /\ Return("ok")
       ELSE Put(0 .. size - 1, SourceByte) /\ Return("ok")
    /\ done' = size
    /\ UNCHANGED <<page, arguments, op, found_null, rearmed>>

\* A copy commits the reserved pages of both ranges and tries once more.
GoByPages ==
    /\ ~(WholeRange \/ (dst = src /\ op \in Compares \cup {"copy"}))
    /\ \/ phase = "start" /\ op # "copy" /\ phase' = "test" /\ UNCHANGED page
       \/ /\ phase = "start" /\ op = "copy" /\ phase' = "again"
          /\ LET Touched(p) == \E x \in Sides, i \in 0 .. size - 1 : PageOf(x + i) = p IN
             page' = [p \in Pages |-> IF Touched(p) THEN Committed(page[p]) ELSE page[p]]
       \/ phase = "again" /\ phase' = "test" /\ UNCHANGED page
    /\ UNCHANGED <<mem, arguments, op, done, found_null, result, rearmed>>

-----------------------------------------------------------------------------
(* Page by page. *)

SourceIsNext == phase \in {"test", "retest"} /\ ~CanRead /\ (op \in Compares => CanUse)

CommitSource ==
    /\ SourceIsNext /\ page[PageOf(src + At)] = "reserved"
    /\ page' = [page EXCEPT ![PageOf(src + At)] = "rw"]
    /\ UNCHANGED <<mem, arguments, op, done, phase, found_null, result, rearmed>>

\* The source cannot be read.  strncpy fills what is left with zeros instead.
SourceFault ==
    /\ SourceIsNext /\ page[PageOf(src + At)] # "reserved"
    /\ \/ op = "strncpy" /\ op' = "pad" /\ UNCHANGED <<phase, result>>
       \/ op = "strlen" /\ Return("ok") /\ UNCHANGED op
       \/ op \in Compares /\ Return("greater") /\ UNCHANGED op
       \/ op \in Transfers \cup {"strcpy"} /\ Return("fault") /\ UNCHANGED op
    /\ UNCHANGED <<page, mem, arguments, done, found_null, rearmed>>

\* Variant for the mutant runs: armed pages are not released.
RepairOnlyCommits ==
    /\ phase = "test" /\ (CanRead \/ op \in Compares) /\ ~CanUse
    /\ LET p == PageOf(dst + At) IN page' = [page EXCEPT ![p] = Committed(@)]
    /\ phase' = "retest"
    /\ UNCHANGED <<mem, arguments, op, done, found_null, result, rearmed>>

\* A comparison repairs its first range, dst, before it looks at the second.
RepairDestination ==
    /\ phase = "test" /\ (CanRead \/ op \in Compares) /\ ~CanUse
    /\ LET p == PageOf(dst + At) IN
       page' = [page EXCEPT ![p] = IF WritesDst THEN Repaired(@) ELSE Committed(@)]
    /\ phase' = "retest"
    /\ UNCHANGED <<mem, arguments, op, done, found_null, result, rearmed>>

DestinationFault ==
    /\ phase = "retest" /\ ~CanUse
    /\ Return(IF op \in Compares THEN "less" ELSE "fault")
    /\ UNCHANGED <<page, mem, arguments, op, done, found_null, rearmed>>

Ready == phase \in {"test", "retest"} /\ CanRead /\ CanUse
Advance == done' = done + Chunk /\ IF done + Chunk = size THEN Return("ok")
                                   ELSE phase' = "test" /\ UNCHANGED result

MoveChunk ==
    /\ Ready /\ op \in Transfers \cup {"set", "pad"}
    /\ IF op \in Transfers THEN Put(Covered, SourceByte) ELSE Put(Covered, Filler)
    /\ Advance
    /\ UNCHANGED <<page, arguments, op, found_null, rearmed>>

StrlenChunk ==
    /\ Ready /\ op = "strlen"
    /\ LET hits == Nuls(Covered) IN
       IF hits # {} THEN done' = Min(hits) /\ Return("ok") ELSE Advance
    /\ UNCHANGED <<page, mem, arguments, op, found_null, rearmed>>

StrcpyChunk ==
    /\ Ready /\ op = "strcpy"
    /\ LET hits == Nuls(Covered) IN
       IF hits # {} THEN /\ Put(At .. Min(hits), SourceByte)
                         /\ done' = Min(hits) + 1 /\ Return("ok")
       ELSE Put(Covered, SourceByte) /\ Advance
    /\ UNCHANGED <<page, arguments, op, found_null, rearmed>>

\* Variant for the mutant runs: what follows the NUL is copied too.
StrncpyChunkUnpadded ==
    /\ Ready /\ op = "strncpy"
    /\ found_null' = (found_null \/ Nuls(Covered) # {})
    /\ Put(Covered, LAMBDA i : IF found_null THEN 0 ELSE mem[src + i])
    /\ Advance
    /\ UNCHANGED <<page, arguments, op, rearmed>>

\* Behind the NUL strncpy writes zeros up to its count.
StrncpyChunk ==
    /\ Ready /\ op = "strncpy"
    /\ found_null' = (found_null \/ Nuls(Covered) # {})
    /\ Put(Covered, LAMBDA i : IF found_null \/ \E j \in Nuls(Covered) : j < i
                               THEN 0 ELSE mem[src + i])
    /\ Advance
    /\ UNCHANGED <<page, arguments, op, rearmed>>

CompareChunk ==
    /\ Ready /\ op \in Compares
    /\ LET D == { i \in Covered : Decisive(i) } IN
       IF D # {} THEN Return(Order(Min(D))) /\ UNCHANGED done
       ELSE /\ done' = done + Chunk
            /\ IF done' = size THEN Return("equal") ELSE phase' = "test" /\ UNCHANGED result
    /\ UNCHANGED <<page, mem, arguments, op, found_null, rearmed>>

\* Another thread tracks writes to a page again, once.
Rearm(p) ==
    /\ page[p] = "rw" /\ ~rearmed /\ WritesDst /\ phase # "end"
    /\ page' = [page EXCEPT ![p] = "armed"]
    /\ rearmed' = TRUE
    /\ UNCHANGED <<mem, arguments, op, done, phase, found_null, result>>

-----------------------------------------------------------------------------
\* The contents name their addresses, except under the string functions.
InitTransfer ==
    /\ op \in Transfers \cup {"set"} /\ size \in Sizes
    /\ src \in IF op \in {"write", "set"} THEN {Host} ELSE Guest
    /\ dst \in IF op = "read" THEN {Host} ELSE Guest
    /\ src + size <= Host \/ src = Host
    /\ dst + size <= Host \/ dst = Host
    /\ page \in [Pages -> {"rw", "ro", "armed", "reserved", "none"}]
    /\ mem = [x \in Memory |-> x]

\* Strings do not overlap what they are copied to; reserved pages hold zeros.
InitString ==
    /\ op \in {"strlen", "strcpy", "strncpy"} \cup Compares
    /\ size \in Lengths
    /\ src \in Guest /\ src + size <= Host
    /\ dst \in IF op = "strlen" THEN {src} ELSE Guest
    /\ dst + size <= Host
    /\ op \in {"strcpy", "strncpy"} => src + size <= dst \/ dst + size <= src
    /\ page \in [Pages -> {"rw", "armed", "reserved", "none"}]
    /\ op \in Compares => dst <= src /\ \A p \in Pages : page[p] # "armed"
    /\ mem \in { [x \in Memory |-> IF x \in X THEN 1 ELSE 0] :
                   X \in SUBSET { x \in Guest : page[PageOf(x)] \in {"rw", "armed"} } }

Init ==
    /\ InitTransfer \/ InitString
    /\ orig = mem /\ done = 0 /\ phase = "start"
    /\ found_null = FALSE /\ result = "none" /\ rearmed = FALSE

\* Before the first access.
NoAccess ==
    /\ op = "none" /\ size = 0 /\ src = 0 /\ dst = 0 /\ done = 0 /\ phase = "end"
    /\ page = [p \in Pages |-> "none"] /\ mem = [x \in Memory |-> 0] /\ orig = mem
    /\ found_null = FALSE /\ result = "none" /\ rearmed = FALSE

Next ==
    \/ Direct \/ GoByPages \/ CommitSource \/ SourceFault
    \/ RepairDestination \/ DestinationFault
    \/ MoveChunk \/ StrlenChunk \/ StrcpyChunk \/ StrncpyChunk \/ CompareChunk
    \/ \E p \in Pages : Rearm(p)

Spec == Init /\ [][Next]_guardedVars

-----------------------------------------------------------------------------
(* Properties. *)

\* At every moment of a read, write or copy, however its ranges overlap and
\* wherever it stops, the bytes it reports hold what the source held at the
\* start of the call, and no other byte has changed.
CopiesLikeMemmove ==
    op \in Transfers =>
        LET moved == IF Backward THEN size - done .. size - 1 ELSE 0 .. done - 1 IN
        \A x \in Memory : mem[x] = IF x - dst \in moved THEN orig[src + (x - dst)] ELSE orig[x]

\* An access stops short only in front of a page that is not mapped or that the
\* guest may not write, or when another thread armed the page meanwhile.
StopsOnlyAtAFault ==
    result = "fault" /\ ~rearmed =>
        \/ UsesSrc /\ page[PageOf(src + At)] = "none"
        \/ WritesDst /\ page[PageOf(dst + At)] \in {"ro", "none"}

\* What the string functions answer: the position of the first byte at which
\* they may stop decides, and they leave the memory after it alone.
Unmapped(x) == page[PageOf(x)] = "none"
EndOf(Stop(_)) == Min({size} \cup { i \in 0 .. size - 1 : Stop(i) })

LengthOfString == EndOf(LAMBDA i : Unmapped(src + i) \/ orig[src + i] = 0)

Comparison ==
    LET i == EndOf(LAMBDA j : \/ Unmapped(src + j) \/ Unmapped(dst + j)
                              \/ orig[dst + j] # orig[src + j]
                              \/ op # "memcmp" /\ orig[src + j] = 0)
    IN IF i = size \/ src = dst THEN "equal"
       ELSE IF Unmapped(dst + i) THEN "less"
       ELSE IF Unmapped(src + i) THEN "greater" ELSE Order(i)

StringsMatchReference ==
    phase = "end" =>
        /\ op = "strlen" => done = LengthOfString
        /\ op \in Compares => result = Comparison
        /\ op = "strcpy" /\ result = "ok" =>
              LET n == LengthOfString IN
              \A x \in Memory : mem[x] = IF x \in dst .. dst + n /\ x < dst + size
                                         THEN orig[src + (x - dst)] ELSE orig[x]
        /\ op \in {"strncpy", "pad"} /\ result = "ok" =>
              LET n == LengthOfString IN
              \A x \in Memory : mem[x] = CASE x \in dst .. dst + n - 1 -> orig[src + (x - dst)]
                                           [] x \in dst + n .. dst + size - 1 -> 0
                                           [] OTHER -> orig[x]
=============================================================================
