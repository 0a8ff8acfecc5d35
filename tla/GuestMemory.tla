---------------------------- MODULE GuestMemory ----------------------------
(***************************************************************************)
(* The guest memory manager of src/memory/memory.cpp: the region table     *)
(* g_regions, the direct-mapped pool with its bump pointer and free list,  *)
(* and what the host holds behind them.  A page stands for one unit of     *)
(* allocation.  Calls take g_regions_mutex only around the tables, so most *)
(* of them are a host call and a later table update, between which others  *)
(* run (pending).  The guest releases exactly what it was given, once, and *)
(* starts no second call on a block while one is under way.                *)
(***************************************************************************)
EXTENDS Naturals, FiniteSets, Sequences, SequencesExt

CONSTANTS PoolSize,   \* pages of the pool: 1 .. PoolSize
          WindowSize, \* pages outside it, placed after the pool
          MaxSize,    \* bound: pages of one request
          MaxPending  \* bound: calls under way at once

Pool == 1 .. PoolSize
Window == PoolSize + 1 .. PoolSize + WindowSize
Pages == Pool \cup Window
BlockSizes == 1 .. MaxSize
Prots == {"rw", "r"}

VARIABLES regions,   \* g_regions
          pool_used, \* g_pool_used
          pool_free, \* g_pool_free
          host,      \* state of every page: "free", "reserved", or committed with a protection
          allocs,    \* host allocations outside the pool, as VirtualFree knows them
          dirty,     \* pages with contents other than zero
          pending,   \* calls between their host call and their table update
          blocks,    \* history: what the guest holds
          raced,     \* history: blocks mapped while an unmap of the same block was under way
          stuck      \* a thread faulted while it held g_regions_mutex: nobody gets it again

vars == <<regions, pool_used, pool_free, host, allocs, dirty, pending, blocks, raced, stuck>>

Span(r) == r.base .. r.base + r.size - 1
Disjoint(r, s) == Span(r) \cap Span(s) = {}
Within(r, s) == Span(r) \subseteq Span(s)
Block(b, n) == [base |-> b, size |-> n]
BlockOf(r) == Block(r.base, r.size)
Call(op, r, prot) == [op |-> op, base |-> r.base, size |-> r.size, prot |-> prot]
Region(r, prot, committed) ==
    [base |-> r.base, size |-> r.size, prot |-> prot, committed |-> committed,
     mixed |-> FALSE, managed |-> TRUE]
IsInPool(r) == Span(r) \subseteq Pool
Committed(p) == host[p] \in Prots
Backed(r, state) == [p \in Pages |-> IF p \in Span(r) THEN state ELSE host[p]]

Idle(r) == \A c \in pending : Disjoint(c, r)
Begin(c) == pending' = pending \cup {c}
Ready == ~stuck /\ Cardinality(pending) < MaxPending

-----------------------------------------------------------------------------
(* The pool. *)

Fitting(n) == { i \in DOMAIN pool_free : pool_free[i].size >= n }
FirstFit(n) == CHOOSE i \in Fitting(n) : \A j \in Fitting(n) : i <= j
\* Variant for the mutant runs: the rest of a larger slot keeps its base.
TakeSlotEnd(i, n) ==
    IF pool_free[i].size = n THEN RemoveAt(pool_free, i)
    ELSE [pool_free EXCEPT ![i] = Block(@.base, @.size - n)]

TakeSlot(i, n) ==
    IF pool_free[i].size = n THEN RemoveAt(pool_free, i)
    ELSE [pool_free EXCEPT ![i] = Block(@.base + n, @.size - n)]

\* Variant for the mutant runs: pages past the bump pointer are taken to be new.
IsClearedFromList(n) == Fitting(n) # {}

\* Variant for the mutant runs: the test of the end forgets the size.
HasPoolBlockAtTheEnd(n) == Fitting(n) # {} \/ pool_used < PoolSize

\* The block PoolAlloc chooses, and whether it is cleared: a slot of the free
\* list always is, a block past the bump pointer when its first page is committed.
HasPoolBlock(n) == Fitting(n) # {} \/ pool_used + n <= PoolSize
PoolBlock(n) == IF Fitting(n) # {} THEN Block(pool_free[FirstFit(n)].base, n)
                ELSE Block(pool_used + 1, n)
IsCleared(n) == Fitting(n) # {} \/ Committed(pool_used + 1)

\* PoolAlloc and, on the block nobody else knows yet, the protection that Map
\* asks for.  memset of a page that is not writable faults with the lock held.
\* Committing a committed page leaves its protection.
MapPool(n, prot) ==
    /\ HasPoolBlock(n)
    /\ LET r == PoolBlock(n) IN
       IF IsCleared(n) /\ \E p \in Span(r) : host[p] = "r"
       THEN /\ stuck' = TRUE
            /\ UNCHANGED <<pool_used, pool_free, host, dirty, pending, raced>>
       ELSE /\ IF Fitting(n) # {}
               THEN pool_free' = TakeSlot(FirstFit(n), n) /\ UNCHANGED pool_used
               ELSE pool_used' = pool_used + n /\ UNCHANGED pool_free
            /\ host' = [p \in Pages |-> IF p \notin Span(r) THEN host[p]
                                        ELSE IF prot # "rw" THEN prot
                                        ELSE IF Committed(p) THEN host[p] ELSE "rw"]
            /\ dirty' = IF IsCleared(n) THEN dirty \ Span(r) ELSE dirty
            /\ Begin(Call("map", r, prot))
            /\ UNCHANGED <<raced, stuck>>
    /\ UNCHANGED <<regions, allocs, blocks>>

\* Variant for the mutant runs: a block given back need not be the last one to
\* rewind the bump pointer.
PoolFreeLockedRewinds(r) ==
    /\ pool_used' = r.base - 1
    /\ UNCHANGED pool_free

PoolFreeLocked(r) ==
    IF r.base + r.size = pool_used + 1
    THEN pool_used' = pool_used - r.size /\ UNCHANGED pool_free
    ELSE pool_free' = Append(pool_free, BlockOf(r)) /\ UNCHANGED pool_used

-----------------------------------------------------------------------------
(* Map and Reserve, which publish the region when the host call is done. *)

\* VirtualAlloc at a place of the window that the host has free; an address of 0
\* lets the host choose one, which it does when the pool is exhausted.
HostAllocates(op, n, prot, state) ==
    \E b \in Window :
        LET r == Block(b, n) IN
        /\ Span(r) \subseteq Window /\ \A p \in Span(r) : host[p] = "free"
        /\ host' = Backed(r, state)
        /\ allocs' = allocs \cup {r}
        /\ dirty' = dirty \ Span(r)
        /\ Begin(Call(op, r, prot))
        /\ raced' = IF \E c \in pending : c.op = "unmap" /\ BlockOf(c) = r THEN raced \cup {r} ELSE raced
        /\ UNCHANGED <<regions, pool_used, pool_free, blocks, stuck>>

Map(n, prot) ==
    /\ Ready
    /\ \/ MapPool(n, prot)
       \/ HostAllocates("map", n, prot, prot)

Reserve(n) == Ready /\ HostAllocates("reserve", n, "none", "reserved")

\* A library allocates from the host and registers what it got.
AdoptRange(n) == Ready /\ HostAllocates("adopt", n, "rw", "rw")

\* TrackRegionOwned: the caller has its block; a range that is adopted is the
\* manager's for another critical section.
TrackRegion(c) ==
    /\ ~stuck /\ c \in pending /\ c.op \in {"map", "reserve", "adopt"}
    /\ regions' = regions \cup {Region(c, c.prot, c.op # "reserve")}
    /\ blocks' = blocks \cup {BlockOf(c)}
    /\ pending' = (pending \ {c}) \cup IF c.op = "adopt" THEN {[c EXCEPT !.op = "unmanage"]} ELSE {}
    /\ UNCHANGED <<pool_used, pool_free, host, allocs, dirty, raced, stuck>>

Unmanage(c) ==
    /\ ~stuck /\ c \in pending /\ c.op = "unmanage"
    /\ regions' = { IF BlockOf(r) = BlockOf(c) THEN [r EXCEPT !.managed = FALSE] ELSE r : r \in regions }
    /\ pending' = pending \ {c}
    /\ UNCHANGED <<pool_used, pool_free, host, allocs, dirty, blocks, raced, stuck>>

\* The adopter drops the record and frees what it allocated.
ForgetResource(r) ==
    /\ ~stuck /\ r \in blocks /\ Idle(r)
    /\ \E t \in regions :
        /\ t.base = r.base /\ ~t.managed
        /\ regions' = regions \ {t}
    /\ host' = Backed(r, "free") /\ allocs' = allocs \ {r} /\ dirty' = dirty \ Span(r)
    /\ blocks' = blocks \ {r} /\ raced' = raced \ {r}
    /\ UNCHANGED <<pool_used, pool_free, pending, stuck>>

-----------------------------------------------------------------------------
(* Unmap. *)

\* Variant for the mutant runs: the neighbour the span touches goes as well.
ExactOrTouching(c) == { r \in regions : r.base >= c.base /\ r.base <= c.base + c.size }

Exact(c) == { r \in regions : r.base = c.base /\ r.size = c.size }

\* Pool blocks are given back and untracked in one critical section; others are
\* released by the host first.
Unmap(r) ==
    /\ Ready /\ r \in blocks /\ Idle(r)
    /\ blocks' = blocks \ {r}
    /\ raced' = raced \ {r}
    /\ \/ /\ IsInPool(r)
          /\ PoolFreeLocked(r)
          /\ regions' = regions \ Exact(r)
          /\ UNCHANGED <<host, allocs, dirty, pending>>
       \/ /\ ~IsInPool(r) /\ r \in allocs
          /\ host' = Backed(r, "free")
          /\ allocs' = allocs \ {r}
          /\ dirty' = dirty \ Span(r)
          /\ Begin(Call("unmap", r, "rw"))
          /\ UNCHANGED <<regions, pool_used, pool_free>>
    /\ UNCHANGED stuck

UntrackRegion(c) ==
    /\ ~stuck /\ c \in pending /\ c.op = "unmap"
    /\ regions' = regions \ Exact(c)
    /\ pending' = pending \ {c}
    /\ UNCHANGED <<pool_used, pool_free, host, allocs, dirty, blocks, raced, stuck>>

-----------------------------------------------------------------------------
(* Protect and Commit of a part of a block. *)

Containing(c) == { r \in regions : Within(c, r) }
Replace(old, new) == regions' = (regions \ {old}) \cup {new}

\* VirtualProtect, or a commit where the range is only reserved; a range that is
\* committed in part is refused by both.
Protect(c, prot) ==
    /\ Ready /\ Idle(c) /\ \E r \in blocks : Within(c, r)
    /\ \/ \A p \in Span(c) : Committed(p)
       \/ \A p \in Span(c) : host[p] = "reserved"
    /\ host' = Backed(c, prot)
    /\ Begin(Call(IF Committed(c.base) THEN "protect" ELSE "commitprotect", c, prot))
    /\ UNCHANGED <<regions, pool_used, pool_free, allocs, dirty, blocks, raced, stuck>>

Reprotected(r, c) ==
    LET s == [r EXCEPT !.committed = @ \/ c.op = "commitprotect"] IN
    IF BlockOf(c) = BlockOf(r) THEN [s EXCEPT !.prot = c.prot, !.mixed = FALSE]
    ELSE IF c.prot # r.prot THEN [s EXCEPT !.mixed = TRUE] ELSE s

RecordProtection(c) ==
    /\ ~stuck /\ c \in pending /\ c.op \in {"protect", "commitprotect"}
    /\ IF Containing(c) = {} THEN UNCHANGED regions
       ELSE \E r \in Containing(c) : Replace(r, Reprotected(r, c))
    /\ pending' = pending \ {c}
    /\ UNCHANGED <<pool_used, pool_free, host, allocs, dirty, blocks, raced, stuck>>

\* Commit of committed pages merges the rights under the lock; of reserved ones
\* it commits and then marks the region, which keeps its rights if it was marked.
Merged(p, q) == IF "rw" \in {p, q} THEN "rw" ELSE IF "r" \in {p, q} THEN "r" ELSE "none"
Commit(c, prot) ==
    /\ Ready /\ Idle(c)
    /\ \E r \in regions :
        /\ BlockOf(r) \in blocks /\ Within(c, r)
        /\ \/ /\ r.committed /\ \A p \in Span(c) : Committed(p)
              /\ host' = Backed(c, Merged(r.prot, prot))
              /\ Replace(r, [r EXCEPT !.prot = Merged(@, prot)])
              /\ UNCHANGED pending
           \/ /\ ~(r.committed /\ \A p \in Span(c) : Committed(p))
              /\ host' = [p \in Pages |-> IF p \in Span(c) /\ ~Committed(p) THEN prot ELSE host[p]]
              /\ IF r.committed THEN Replace(r, [r EXCEPT !.prot = Merged(@, prot)]) ELSE UNCHANGED regions
              /\ Begin(Call("commit", c, prot))
    /\ UNCHANGED <<pool_used, pool_free, allocs, dirty, blocks, raced, stuck>>

MarkCommitted(c) ==
    /\ ~stuck /\ c \in pending /\ c.op = "commit"
    /\ IF Containing(c) = {}
       THEN regions' = regions \cup {Region(c, c.prot, TRUE)}
       ELSE \E r \in Containing(c) :
            Replace(r, IF r.committed THEN r ELSE [r EXCEPT !.committed = TRUE, !.prot = c.prot])
    /\ pending' = pending \ {c}
    /\ UNCHANGED <<pool_used, pool_free, host, allocs, dirty, blocks, raced, stuck>>

\* The first touch of a reserved page commits it and tells no table.
CommitOnFault(p) ==
    /\ ~stuck /\ host[p] = "reserved" /\ \E r \in blocks : p \in Span(r)
    /\ host' = [host EXCEPT ![p] = "rw"]
    /\ UNCHANGED <<regions, pool_used, pool_free, allocs, dirty, pending, blocks, raced, stuck>>

-----------------------------------------------------------------------------
(* Ranges with an owner. *)

FreeInTable(r) == \A s \in regions : Disjoint(r, s)

\* The lowest place of the window that no region overlaps and the host grants.
AllocateRange(n) ==
    /\ ~stuck
    /\ LET Fits == { b \in Window : LET r == Block(b, n) IN
                        Span(r) \subseteq Window /\ FreeInTable(r) /\ \A p \in Span(r) : host[p] = "free" }
       IN \E b \in Fits :
            LET r == Block(b, n) IN
            /\ \A a \in Fits : b <= a
            /\ host' = Backed(r, "reserved")
            /\ allocs' = allocs \cup {r}
            /\ regions' = regions \cup {Region(r, "none", FALSE)}
            /\ blocks' = blocks \cup {r}
            /\ raced' = IF \E c \in pending : c.op = "unmap" /\ BlockOf(c) = r THEN raced \cup {r} ELSE raced
    /\ UNCHANGED <<pool_used, pool_free, dirty, pending, stuck>>

\* By its owner, in one critical section; for memory of the pool PoolFree takes the lock again.
ReleaseRange(r) ==
    /\ ~stuck /\ r \in blocks /\ Idle(r) /\ ~IsInPool(r)
    /\ \E t \in regions :
        /\ t.base = r.base
        /\ regions' = regions \ {t}
        /\ IF t.managed /\ r \in allocs
           THEN host' = Backed(r, "free") /\ allocs' = allocs \ {r} /\ dirty' = dirty \ Span(r)
           ELSE UNCHANGED <<host, allocs, dirty>>
    /\ blocks' = blocks \ {r} /\ raced' = raced \ {r}
    /\ UNCHANGED <<pool_used, pool_free, pending, stuck>>

\* A store of the guest.
Store(p) ==
    /\ host[p] = "rw" /\ \E r \in blocks : p \in Span(r)
    /\ dirty' = dirty \cup {p}
    /\ UNCHANGED <<regions, pool_used, pool_free, host, allocs, pending, blocks, raced, stuck>>

-----------------------------------------------------------------------------
\* Query of one page.  Pages of the pool stay committed when they are free, so
\* there the region table decides; elsewhere the host does, and a region that is
\* not mixed can only take rights away.
RegionAt(p) == { r \in regions : p \in Span(r) }
Query(p) ==
    LET r == CHOOSE s \in RegionAt(p) : TRUE IN
    IF p \in Pool THEN IF RegionAt(p) = {} THEN "not mapped" ELSE r.prot
    ELSE CASE host[p] = "free" -> "not mapped"
           [] host[p] = "reserved" -> "none"
           [] OTHER -> IF RegionAt(p) # {} /\ r.prot = "r" /\ ~r.mixed THEN "r" ELSE host[p]

-----------------------------------------------------------------------------
Init ==
    /\ regions = {} /\ pool_used = 0 /\ pool_free = <<>>
    /\ host = [p \in Pages |-> IF p \in Pool THEN "reserved" ELSE "free"]
    /\ allocs = {} /\ dirty = {} /\ pending = {} /\ blocks = {} /\ raced = {} /\ stuck = FALSE

Next ==
    \/ \E n \in BlockSizes : AllocateRange(n) \/ Reserve(n) \/ AdoptRange(n) \/ \E prot \in Prots : Map(n, prot)
    \/ \E c \in pending : TrackRegion(c) \/ Unmanage(c) \/ UntrackRegion(c)
                        \/ RecordProtection(c) \/ MarkCommitted(c)
    \/ \E r \in blocks : Unmap(r) \/ ReleaseRange(r) \/ ForgetResource(r)
    \/ \E b \in Pages, n \in BlockSizes, prot \in Prots : Protect(Block(b, n), prot) \/ Commit(Block(b, n), prot)
    \/ \E p \in Pages : CommitOnFault(p) \/ Store(p)

Spec == Init /\ [][Next]_vars

-----------------------------------------------------------------------------
(* Properties. *)

\* The type invariant of the tables and of what the host holds.
TypeOK ==
    /\ \A r \in regions : Span(r) \subseteq Pages /\ r.prot \in Prots \cup {"none"}
    /\ pool_used \in 0 .. PoolSize
    /\ \A i \in DOMAIN pool_free : Span(pool_free[i]) \subseteq Pool
    /\ host \in [Pages -> {"free", "reserved", "rw", "r"}]
    /\ dirty \subseteq Pages /\ raced \subseteq blocks \cup { BlockOf(c) : c \in pending }
    /\ stuck \in BOOLEAN

\* Memory is in one place only: what the guest holds, what each call is about to
\* hand out and the free slots of the pool never overlap, and all of the pool's
\* are below the bump pointer.
Arriving == { c \in pending : c.op \in {"map", "reserve", "adopt"} }
InUse == blocks \cup Arriving
BlocksDisjoint ==
    /\ \A r, s \in blocks : r # s => Disjoint(r, s)
    /\ \A c \in Arriving : /\ \A r \in blocks : Disjoint(c, r)
                           /\ \A d \in Arriving : c # d => Disjoint(c, d)
    /\ \A i \in DOMAIN pool_free :
        /\ \A r \in InUse : Disjoint(pool_free[i], r)
        /\ \A j \in DOMAIN pool_free : i # j => Disjoint(pool_free[i], pool_free[j])
        /\ Span(pool_free[i]) \subseteq 1 .. pool_used
    /\ \A r \in InUse : IsInPool(r) => Span(r) \subseteq 1 .. pool_used

\* The guest gets zeroed memory from Map, whoever wrote to its pages before:
\* PoolAlloc looks at the first page only to decide whether to clear a block.
MappedIsZero == \A c \in pending : c.op = "map" => Span(c) \cap dirty = {}

\* The guest's blocks are known to the table, whatever overlaps, except one of the
\* same address and size as a block whose unmap had released the pages and not yet
\* the region when it was mapped: the end of that unmap may take its region.
HeldIsTracked == \A r \in blocks \ raced : \E t \in regions : BlockOf(t) = r

\* "VirtualQuery alone cannot distinguish a live sub-allocation from a freed
\* one": what Query says is mapped is what the guest holds, and Query tells of every
\* page the guest holds, also of a block that lost its region.
QueryTellsHeldFromFree ==
    \A p \in Pages :
        /\ (\E r \in blocks : p \in Span(r)) => Query(p) # "not mapped"
        /\ p \in Pool /\ pending = {} /\ Query(p) # "not mapped" => \E r \in blocks : p \in Span(r)
=============================================================================
