-------------------------- MODULE GuestMemoryProofs --------------------------
(***************************************************************************)
(* Proofs about the memory the guest is given: by the guest memory         *)
(* manager, for any sizes of the pool, of the window and of requests, and  *)
(* any number of calls under way; from direct memory; from the libc heap,  *)
(* for any chunks, sizes and alignments; and about the C++ exceptions of a *)
(* guest thread, for any exceptions, types and depth of the stack.         *)
(***************************************************************************)
EXTENDS GuestMemory, DirectMemory, LibcRuntime, Integers, FiniteSetTheorems, SequenceTheorems, WellFoundedInduction, TLAPS

MemoryAssumption == PoolSize \in Nat /\ WindowSize \in Nat /\ MaxSize \in Nat

-----------------------------------------------------------------------------
(* Removing from a sequence. *)

\* Removing position i shortens the sequence by one and shifts what follows.
LEMMA RemoveAtLemma ==
    ASSUME NEW S, NEW w \in Seq(S), NEW i \in 1 .. Len(w)
    PROVE  /\ RemoveAt(w, i) \in Seq(S)
           /\ Len(RemoveAt(w, i)) = Len(w) - 1
           /\ \A j \in 1 .. Len(w) - 1 :
                 RemoveAt(w, i)[j] = IF j < i THEN w[j] ELSE w[j + 1]
<1> DEFINE a == SubSeq(w, 1, i - 1)
           b == SubSeq(w, i + 1, Len(w))
<1>1. Len(w) \in Nat /\ \A j \in 1 .. Len(w) : w[j] \in S
    BY LenProperties, ElementOfSeq
<1>2. /\ a \in Seq(S)
      /\ Len(a) = i - 1
      /\ \A j \in 1 .. i - 1 : a[j] = w[j]
    <2>1. \A j \in 1 .. i - 1 : w[j] \in S
        BY <1>1
    <2> QED
        BY <1>1, <2>1, SubSeqProperties
<1>3. /\ b \in Seq(S)
      /\ Len(b) = Len(w) - i
      /\ \A j \in 1 .. Len(w) - i : b[j] = w[i + j]
    <2>1. \A j \in i + 1 .. Len(w) : w[j] \in S
        BY <1>1
    <2>2. /\ b \in Seq(S)
          /\ Len(b) = IF i + 1 <= Len(w) THEN Len(w) - (i + 1) + 1 ELSE 0
          /\ \A j \in 1 .. Len(w) - (i + 1) + 1 : b[j] = w[i + 1 + j - 1]
        BY <1>1, <2>1, SubSeqProperties
    <2> QED
        BY <1>1, <2>2
<1>4. /\ a \o b \in Seq(S)
      /\ Len(a \o b) = (i - 1) + (Len(w) - i)
      /\ \A j \in 1 .. (i - 1) + (Len(w) - i) :
            (a \o b)[j] = IF j <= i - 1 THEN a[j] ELSE b[j - (i - 1)]
    <2> HIDE DEF a, b
    <2>1. /\ a \o b \in Seq(S)
          /\ Len(a \o b) = Len(a) + Len(b)
          /\ \A j \in 1 .. Len(a) + Len(b) :
                (a \o b)[j] = IF j <= Len(a) THEN a[j] ELSE b[j - Len(a)]
        <3>1. a \in Seq(S) /\ b \in Seq(S)
            BY <1>2, <1>3
        <3> QED
            BY <3>1, ConcatProperties, Zenon
    <2>2. Len(a) = i - 1 /\ Len(b) = Len(w) - i
        BY <1>2, <1>3
    <2> QED
        BY <2>1, <2>2
<1>5. RemoveAt(w, i) = a \o b
    BY DEF RemoveAt
<1> HIDE DEF a, b
<1>6. ASSUME NEW j \in 1 .. Len(w) - 1
      PROVE  (a \o b)[j] = IF j < i THEN w[j] ELSE w[j + 1]
    <2>1. CASE j < i
        BY <1>1, <1>2, <1>4, <2>1
    <2>2. CASE ~ (j < i)
        <3>1. j - (i - 1) \in 1 .. Len(w) - i
            BY <1>1, <2>2
        <3>2. (a \o b)[j] = b[j - (i - 1)]
            BY <1>1, <1>4, <2>2
        <3> QED
            BY <1>1, <1>3, <2>2, <3>1, <3>2
    <2> QED
        BY <2>1, <2>2
<1> QED
    BY <1>1, <1>4, <1>5, <1>6

-----------------------------------------------------------------------------
(* The inductive invariant. *)

Ranges == [base : Nat \ {0}, size : Nat \ {0}]
Ops == {"map", "reserve", "adopt", "unmanage", "unmap", "protect", "commitprotect", "commit"}
Rights == Prots \cup {"none"}
Calls == [op : Ops, base : Nat \ {0}, size : Nat \ {0}, prot : Rights]
Regions == [base : Nat \ {0}, size : Nat \ {0}, prot : Rights, committed : BOOLEAN,
            mixed : BOOLEAN, managed : BOOLEAN]
HostStates == {"free", "reserved", "rw", "r"}

\* A range is inside the pool or inside the window.
Placed(r) == Span(r) \subseteq Pool \/ Span(r) \subseteq Window

MemoryTyped ==
    /\ regions \subseteq Regions /\ \A r \in regions : Placed(r)
    /\ pool_used \in 0 .. PoolSize
    /\ pool_free \in Seq(Ranges)
    /\ host \in [Pages -> HostStates]
    /\ dirty \subseteq Pages
    /\ pending \subseteq Calls /\ \A c \in pending : Placed(c)
    /\ blocks \subseteq Ranges /\ \A r \in blocks : Placed(r)
    /\ stuck \in BOOLEAN

\* Who holds pages of the window, or is about to, has them from the host.
WindowBacked == \A r \in InUse : \A p \in Span(r) \cap Window : host[p] # "free"

\* The pool is committed from its start, at least up to the bump pointer, and
\* nothing was ever written to what is not committed.
PoolTouched ==
    /\ \A p \in Pool : p <= pool_used => Committed(p)
    /\ \A p, q \in Pool : Committed(p) /\ q < p => Committed(q)
    /\ \A p \in dirty \cap Pool : Committed(p)

\* An unmap that has released its pages and not yet its region is outside the pool,
\* and who got the pages meanwhile is marked.
RacesMarked ==
    /\ raced \subseteq blocks \cup { BlockOf(c) : c \in Arriving }
    /\ \A r \in raced : Span(r) \subseteq Window
    /\ \A c \in pending : c.op = "unmap" =>
        /\ \A r \in blocks : BlockOf(c) = r => r \in raced
        /\ \A d \in Arriving : BlockOf(c) = BlockOf(d) => BlockOf(d) \in raced

\* Ranges that a library owns, and the other calls that bypass the pool, are outside it.
OutsidePool ==
    /\ \A c \in pending : c.op \in {"reserve", "adopt", "unmanage", "unmap"} => Span(c) \subseteq Window
    /\ \A t \in regions : ~t.managed => Span(t) \subseteq Window

\* A change of protection under way is about a part of a block.
ChangesInBlocks ==
    \A c \in pending : c.op \in {"protect", "commitprotect", "commit"} => \E r \in blocks : Within(c, r)

\* The table knows no block of the pool that nobody holds.
PoolRegionsHeld == \A t \in regions : Span(t) \subseteq Pool => BlockOf(t) \in blocks

MemoryInv ==
    /\ MemoryTyped /\ BlocksDisjoint /\ WindowBacked /\ PoolTouched /\ MappedIsZero
    /\ HeldIsTracked /\ RacesMarked /\ OutsidePool /\ ChangesInBlocks /\ PoolRegionsHeld

-----------------------------------------------------------------------------
(* Ranges. *)

LEMMA RangeFacts ==
    ASSUME NEW r, r.base \in Nat \ {0}, r.size \in Nat \ {0}
    PROVE  /\ r.base \in Span(r)
           /\ Span(r) \subseteq Nat \ {0}
           /\ BlockOf(r) \in Ranges
           /\ BlockOf(r).base = r.base /\ BlockOf(r).size = r.size
           /\ Span(BlockOf(r)) = Span(r)
           /\ BlockOf(BlockOf(r)) = BlockOf(r)
    BY DEF Span, BlockOf, Block, Ranges

LEMMA RangeIsBlock ==
    ASSUME NEW r \in Ranges
    PROVE  /\ BlockOf(r) = r
           /\ r.base \in Nat \ {0} /\ r.size \in Nat \ {0} /\ r.base \in Span(r)
    BY DEF Span, BlockOf, Block, Ranges

LEMMA CallFacts ==
    ASSUME NEW op, NEW r, NEW prot
    PROVE  /\ Call(op, r, prot).op = op /\ Call(op, r, prot).base = r.base
           /\ Call(op, r, prot).size = r.size /\ Call(op, r, prot).prot = prot
           /\ Span(Call(op, r, prot)) = Span(r)
           /\ BlockOf(Call(op, r, prot)) = BlockOf(r)
    BY DEF Call, Span, BlockOf, Block

LEMMA RegionFacts ==
    ASSUME NEW r, NEW prot, NEW committed
    PROVE  /\ Region(r, prot, committed).base = r.base
           /\ Region(r, prot, committed).size = r.size
           /\ Region(r, prot, committed).managed
           /\ Span(Region(r, prot, committed)) = Span(r)
           /\ BlockOf(Region(r, prot, committed)) = BlockOf(r)
    BY DEF Region, Span, BlockOf, Block

LEMMA WindowIsNotPool ==
    ASSUME MemoryAssumption
    PROVE  /\ Pool \cap Window = {} /\ Pages = Pool \cup Window /\ Pages \subseteq Nat \ {0}
    BY DEF MemoryAssumption, Pool, Window, Pages

\* A placed range that has a page of the window is in the window.
LEMMA PlacedInWindow ==
    ASSUME MemoryAssumption, NEW r, Placed(r), NEW p \in Span(r)
    PROVE  /\ p \in Pages
           /\ p \in Window => Span(r) \subseteq Window
           /\ p \in Pool => Span(r) \subseteq Pool
    BY WindowIsNotPool DEF Placed

-----------------------------------------------------------------------------
(* What a step keeps when it leaves the state of a part alone, or only takes away. *)

LEMMA BlocksShrink ==
    ASSUME BlocksDisjoint, blocks' \subseteq blocks, Arriving' \subseteq Arriving,
           UNCHANGED <<pool_used, pool_free>>
    PROVE  BlocksDisjoint'
    BY DEF BlocksDisjoint, InUse, IsInPool, Disjoint, Span

LEMMA BackingStays ==
    ASSUME WindowBacked, blocks' \subseteq blocks, Arriving' \subseteq Arriving,
           \A r \in blocks' \cup Arriving', p \in Window : p \in Span(r) /\ host[p] # "free" => host'[p] # "free"
    PROVE  WindowBacked'
<1> SUFFICES ASSUME NEW r \in blocks' \cup Arriving', NEW p \in Span(r) \cap Window
             PROVE  host'[p] # "free"
    BY DEF WindowBacked, InUse, Span
<1> QED
    BY DEF WindowBacked, InUse

LEMMA PoolStays ==
    ASSUME MemoryAssumption, MemoryTyped, PoolTouched, pool_used' \in 0 .. pool_used,
           \A p \in Pool : Committed(p)' <=> Committed(p),
           \A p \in dirty' \cap Pool : p \in dirty \/ Committed(p)
    PROVE  PoolTouched'
<1>1. \A p \in Pool : p <= pool_used' => Committed(p)'
    BY WindowIsNotPool DEF PoolTouched, MemoryTyped, MemoryAssumption
<1> QED
    BY <1>1 DEF PoolTouched

LEMMA ZeroStays ==
    ASSUME MappedIsZero, dirty' \subseteq dirty,
           \A c \in pending' : c.op = "map" => c \in pending
    PROVE  MappedIsZero'
    BY DEF MappedIsZero, Span

LEMMA TrackedStays ==
    ASSUME HeldIsTracked, blocks' \ raced' \subseteq blocks \ raced,
           \A t \in regions : BlockOf(t) \in blocks' \ raced' => \E u \in regions' : BlockOf(u) = BlockOf(t)
    PROVE  HeldIsTracked'
<1> SUFFICES ASSUME NEW r \in blocks' \ raced'
             PROVE  \E u \in regions' : BlockOf(u) = r
    BY DEF HeldIsTracked, BlockOf, Block
<1>1. PICK t \in regions : BlockOf(t) = r
    BY DEF HeldIsTracked
<1> QED
    BY <1>1

LEMMA MarksStay ==
    ASSUME RacesMarked, blocks' \subseteq blocks, Arriving' \subseteq Arriving,
           \A c \in pending' : c.op = "unmap" => c \in pending,
           raced' \subseteq raced,
           \A r \in raced' : r \in blocks' \/ \E c \in Arriving' : r = BlockOf(c),
           \A r \in blocks' : r \in raced => r \in raced',
           \A c \in Arriving' : BlockOf(c) \in raced => BlockOf(c) \in raced'
    PROVE  RacesMarked'
<1>1. raced' \subseteq blocks' \cup { BlockOf(c) : c \in Arriving' }
    OBVIOUS
<1>2. \A r \in raced' : Span(r) \subseteq Window
    BY DEF RacesMarked
<1>3. ASSUME NEW c \in pending', c.op = "unmap"
      PROVE  /\ \A r \in blocks' : BlockOf(c) = r => r \in raced'
             /\ \A d \in Arriving' : BlockOf(c) = BlockOf(d) => BlockOf(d) \in raced'
    BY <1>3 DEF RacesMarked
<1> QED
    BY <1>1, <1>2, <1>3 DEF RacesMarked, Disjoint, Span, BlockOf, Block

LEMMA ChangesStay ==
    ASSUME ChangesInBlocks,
           \A c \in pending' : c.op \in {"protect", "commitprotect", "commit"}
                => c \in pending \/ \E r \in blocks' : Within(c, r),
           \A c \in pending', r \in blocks : r \notin blocks' => ~Within(c, r)
    PROVE  ChangesInBlocks'
<1> SUFFICES ASSUME NEW c \in pending', c.op \in {"protect", "commitprotect", "commit"}
             PROVE  \E r \in blocks' : Within(c, r)
    BY DEF ChangesInBlocks, Within, Span
<1>1. CASE c \in pending
    BY <1>1 DEF ChangesInBlocks
<1> QED
    BY <1>1

LEMMA PoolTableStays ==
    ASSUME PoolRegionsHeld,
           \A t \in regions' : Span(t) \subseteq Pool
                => \/ \E u \in regions : BlockOf(u) = BlockOf(t) /\ Span(u) = Span(t)
                   \/ BlockOf(t) \in blocks',
           \A t \in regions' : Span(t) \subseteq Pool /\ BlockOf(t) \in blocks => BlockOf(t) \in blocks'
    PROVE  PoolRegionsHeld'
<1> SUFFICES ASSUME NEW t \in regions', Span(t) \subseteq Pool
             PROVE  BlockOf(t) \in blocks'
    BY DEF PoolRegionsHeld, BlockOf, Block, Span
<1>1. CASE \E u \in regions : BlockOf(u) = BlockOf(t) /\ Span(u) = Span(t)
    BY <1>1 DEF PoolRegionsHeld
<1> QED
    BY <1>1

-----------------------------------------------------------------------------
(* Steps that hand nothing out and take nothing back. *)

\* The parts that speak of blocks, of calls that bring some, and of the pool.
LEMMA QuietStep ==
    ASSUME MemoryAssumption, MemoryInv,
           UNCHANGED <<blocks, raced, pool_used, pool_free>>, Arriving' = Arriving,
           dirty' = dirty,
           \A c \in pending' : c.op = "unmap" => c \in pending,
           \A p \in Pages : host[p] # "free" => host'[p] # "free",
           \A p \in Pool : Committed(p)' <=> Committed(p)
    PROVE  BlocksDisjoint' /\ WindowBacked' /\ PoolTouched' /\ MappedIsZero' /\ RacesMarked'
<1>1. BlocksDisjoint'
    BY BlocksShrink DEF MemoryInv
<1>2. WindowBacked'
    BY BackingStays, WindowIsNotPool DEF MemoryInv, WindowBacked
<1>3. PoolTouched'
    <2>1. pool_used' \in 0 .. pool_used
        BY DEF MemoryInv, MemoryTyped, MemoryAssumption
    <2> QED
        BY <2>1, PoolStays DEF MemoryInv
<1>4. MappedIsZero'
    <2>1. \A c \in pending' : c.op = "map" => c \in pending
        BY DEF Arriving
    <2> QED
        BY <2>1, ZeroStays DEF MemoryInv
<1>5. RacesMarked'
    <2>1. RacesMarked
        BY DEF MemoryInv
    <2> QED
        BY <2>1, MarksStay DEF RacesMarked
<1> QED
    BY <1>1, <1>2, <1>3, <1>4, <1>5

\* A region is exchanged for one of the same place.
LEMMA ReplaceKeeps ==
    ASSUME MemoryInv, NEW old \in regions, NEW new \in Regions, Replace(old, new),
           new.base = old.base, new.size = old.size, new.managed = old.managed
    PROVE  /\ regions' \subseteq Regions /\ \A r \in regions' : Placed(r)
           /\ \A t \in regions : \E u \in regions' : BlockOf(u) = BlockOf(t)
           /\ \A t \in regions' : \E u \in regions : /\ BlockOf(u) = BlockOf(t) /\ Span(u) = Span(t)
                                                     /\ u.managed = t.managed
<1>1. Span(new) = Span(old) /\ BlockOf(new) = BlockOf(old)
    BY DEF Span, BlockOf, Block
<1>2. regions' = (regions \ {old}) \cup {new} /\ regions \subseteq Regions /\ \A r \in regions : Placed(r)
    BY DEF Replace, MemoryInv, MemoryTyped
<1> QED
    BY <1>1, <1>2 DEF Placed

\* The table after such an exchange, or after none.
LEMMA TableKept ==
    ASSUME MemoryInv, UNCHANGED <<blocks, raced>>,
           regions' \subseteq Regions, \A r \in regions' : Placed(r),
           \A t \in regions : \E u \in regions' : BlockOf(u) = BlockOf(t),
           \A t \in regions' : \/ \E u \in regions : BlockOf(u) = BlockOf(t) /\ Span(u) = Span(t)
                               \/ Span(t) \subseteq Window /\ ~(Span(t) \subseteq Pool)
    PROVE  HeldIsTracked' /\ PoolRegionsHeld'
<1>1. HeldIsTracked'
    BY TrackedStays DEF MemoryInv
<1>2. PoolRegionsHeld'
    BY PoolTableStays DEF MemoryInv
<1> QED
    BY <1>1, <1>2

LEMMA RecordProtectionKeeps ==
    ASSUME MemoryAssumption, MemoryInv, NEW c, RecordProtection(c)
    PROVE  MemoryInv'
<1>1. /\ c \in pending /\ c.op \in {"protect", "commitprotect"}
      /\ pending' = pending \ {c}
      /\ UNCHANGED <<pool_used, pool_free, host, allocs, dirty, blocks, raced, stuck>>
    BY DEF RecordProtection
<1>2. c \in Calls
    BY <1>1 DEF MemoryInv, MemoryTyped
<1>3. Arriving' = Arriving
    BY <1>1 DEF Arriving
<1>4. /\ regions' \subseteq Regions /\ \A r \in regions' : Placed(r)
      /\ \A t \in regions : \E u \in regions' : BlockOf(u) = BlockOf(t)
      /\ \A t \in regions' : \E u \in regions : /\ BlockOf(u) = BlockOf(t) /\ Span(u) = Span(t)
                                                /\ u.managed = t.managed
    <2>1. CASE UNCHANGED regions
        BY <2>1 DEF MemoryInv, MemoryTyped, Placed, Span, BlockOf, Block
    <2>2. ASSUME NEW r \in Containing(c), Replace(r, Reprotected(r, c))
          PROVE  /\ regions' \subseteq Regions /\ \A t \in regions' : Placed(t)
                 /\ \A t \in regions : \E u \in regions' : BlockOf(u) = BlockOf(t)
                 /\ \A t \in regions' : \E u \in regions : /\ BlockOf(u) = BlockOf(t) /\ Span(u) = Span(t)
                                                           /\ u.managed = t.managed
        <3>1. r \in regions /\ r \in Regions
            BY DEF Containing, MemoryInv, MemoryTyped
        <3>2. c.prot \in Rights /\ (c.op = "commitprotect") \in BOOLEAN
            BY <1>2 DEF Calls
        <3>3. [r EXCEPT !.committed = @ \/ c.op = "commitprotect"] \in Regions
            BY <3>1, <3>2 DEF Regions
        <3>4. /\ Reprotected(r, c) \in Regions
              /\ Reprotected(r, c).base = r.base /\ Reprotected(r, c).size = r.size
              /\ Reprotected(r, c).managed = r.managed
            BY <3>1, <3>2, <3>3 DEF Reprotected, Regions
        <3> QED
            BY <2>2, <3>1, <3>4, ReplaceKeeps
    <2> QED
        BY <2>1, <2>2 DEF RecordProtection
<1>5. MemoryTyped'
    BY <1>1, <1>4 DEF MemoryInv, MemoryTyped, Placed, Span
<1>6. BlocksDisjoint' /\ WindowBacked' /\ PoolTouched' /\ MappedIsZero' /\ RacesMarked'
    BY <1>1, <1>3, QuietStep DEF Committed
<1>7. HeldIsTracked' /\ PoolRegionsHeld'
    BY <1>1, <1>4, TableKept
<1>8. OutsidePool'
    BY <1>1, <1>4 DEF MemoryInv, OutsidePool
<1>9. ChangesInBlocks'
    BY <1>1, ChangesStay DEF MemoryInv
<1> QED
    BY <1>5, <1>6, <1>7, <1>8, <1>9 DEF MemoryInv

LEMMA MarkCommittedKeeps ==
    ASSUME MemoryAssumption, MemoryInv, NEW c, MarkCommitted(c)
    PROVE  MemoryInv'
<1>1. /\ c \in pending /\ c.op = "commit"
      /\ pending' = pending \ {c}
      /\ UNCHANGED <<pool_used, pool_free, host, allocs, dirty, blocks, raced, stuck>>
    BY DEF MarkCommitted
<1>2. c \in Calls /\ Placed(c)
    BY <1>1 DEF MemoryInv, MemoryTyped
<1>3. Arriving' = Arriving
    BY <1>1 DEF Arriving
<1>4. /\ regions' \subseteq Regions /\ \A r \in regions' : Placed(r)
      /\ \A t \in regions : \E u \in regions' : BlockOf(u) = BlockOf(t)
      /\ \A t \in regions' : \/ \E u \in regions : /\ BlockOf(u) = BlockOf(t) /\ Span(u) = Span(t)
                                                   /\ u.managed = t.managed
                             \/ Span(t) \subseteq Window /\ ~(Span(t) \subseteq Pool)
    <2>1. ASSUME NEW r \in Containing(c),
                 Replace(r, IF r.committed THEN r ELSE [r EXCEPT !.committed = TRUE, !.prot = c.prot])
          PROVE  /\ regions' \subseteq Regions /\ \A t \in regions' : Placed(t)
                 /\ \A t \in regions : \E u \in regions' : BlockOf(u) = BlockOf(t)
                 /\ \A t \in regions' : \E u \in regions : /\ BlockOf(u) = BlockOf(t) /\ Span(u) = Span(t)
                                                           /\ u.managed = t.managed
        <3> DEFINE new == IF r.committed THEN r ELSE [r EXCEPT !.committed = TRUE, !.prot = c.prot]
        <3>1. r \in regions /\ r \in Regions
            BY DEF Containing, MemoryInv, MemoryTyped
        <3>2. new \in Regions /\ new.base = r.base /\ new.size = r.size /\ new.managed = r.managed
            BY <1>2, <3>1 DEF Calls, Regions
        <3> QED
            BY <2>1, <3>1, <3>2, ReplaceKeeps
    <2>2. CASE Containing(c) = {}
        <3>1. regions' = regions \cup {Region(c, c.prot, TRUE)}
            BY <2>2 DEF MarkCommitted
        <3>2. Region(c, c.prot, TRUE) \in Regions
            BY <1>2 DEF Region, Regions, Calls
        <3>3. c.base \in Span(c)
            BY <1>2, RangeFacts DEF Calls
        <3>4. PICK r \in blocks : Within(c, r)
            BY <1>1 DEF MemoryInv, ChangesInBlocks
        <3>5. ~(Span(c) \subseteq Pool)
            <4> SUFFICES ASSUME Span(c) \subseteq Pool PROVE FALSE
                OBVIOUS
            <4>1. Span(r) \subseteq Pool
                BY <3>3, <3>4, PlacedInWindow DEF Within, MemoryInv, MemoryTyped
            <4>2. r \notin raced
                BY <3>3, <3>4, <4>1, WindowIsNotPool DEF MemoryInv, RacesMarked, Within
            <4>3. PICK t \in regions : BlockOf(t) = r
                BY <4>2 DEF MemoryInv, HeldIsTracked
            <4>4. Span(t) = Span(r)
                BY <4>3, RangeFacts DEF MemoryInv, MemoryTyped, Regions
            <4> QED
                BY <2>2, <3>4, <4>4 DEF Containing, Within
        <3>6. Span(c) \subseteq Window
            BY <1>2, <3>5 DEF Placed
        <3>7. Span(Region(c, c.prot, TRUE)) = Span(c)
            BY RegionFacts
        <3> QED
            BY <3>1, <3>2, <3>5, <3>6, <3>7 DEF MemoryInv, MemoryTyped, Placed
    <2> QED
        BY <2>1, <2>2 DEF MarkCommitted
<1>5. MemoryTyped'
    BY <1>1, <1>4 DEF MemoryInv, MemoryTyped, Placed, Span
<1>6. BlocksDisjoint' /\ WindowBacked' /\ PoolTouched' /\ MappedIsZero' /\ RacesMarked'
    BY <1>1, <1>3, QuietStep DEF Committed
<1>7. HeldIsTracked' /\ PoolRegionsHeld'
    BY <1>1, <1>4, TableKept
<1>8. OutsidePool'
    BY <1>1, <1>4 DEF MemoryInv, OutsidePool
<1>9. ChangesInBlocks'
    BY <1>1, ChangesStay DEF MemoryInv
<1> QED
    BY <1>5, <1>6, <1>7, <1>8, <1>9 DEF MemoryInv

LEMMA UnmanageKeeps ==
    ASSUME MemoryAssumption, MemoryInv, NEW c, Unmanage(c)
    PROVE  MemoryInv'
<1> DEFINE Given(r) == IF BlockOf(r) = BlockOf(c) THEN [r EXCEPT !.managed = FALSE] ELSE r
<1>1. /\ c \in pending /\ c.op = "unmanage"
      /\ pending' = pending \ {c}
      /\ regions' = { Given(r) : r \in regions }
      /\ UNCHANGED <<pool_used, pool_free, host, allocs, dirty, blocks, raced, stuck>>
    BY DEF Unmanage
<1>2. c \in Calls /\ Span(c) \subseteq Window
    BY <1>1 DEF MemoryInv, MemoryTyped, OutsidePool
<1>3. Arriving' = Arriving
    BY <1>1 DEF Arriving
<1>4. ASSUME NEW r \in regions
      PROVE  /\ Given(r) \in Regions
             /\ BlockOf(Given(r)) = BlockOf(r) /\ Span(Given(r)) = Span(r) /\ Placed(Given(r))
             /\ ~Given(r).managed => ~r.managed \/ Span(r) = Span(c)
    <2>1. r \in Regions /\ Placed(r)
        BY DEF MemoryInv, MemoryTyped
    <2>2. Given(r) \in Regions /\ Given(r).base = r.base /\ Given(r).size = r.size
        BY <2>1 DEF Regions
    <2>3. BlockOf(Given(r)) = BlockOf(r) /\ Span(Given(r)) = Span(r)
        BY <2>2 DEF BlockOf, Block, Span
    <2>4. CASE BlockOf(r) = BlockOf(c)
        <3>1. Span(r) = Span(c)
            BY <1>2, <2>1, <2>4, RangeFacts DEF Regions, Calls
        <3> QED
            BY <2>1, <2>2, <2>3, <3>1 DEF Placed
    <2> QED
        BY <2>1, <2>2, <2>3, <2>4 DEF Placed
<1> HIDE DEF Given
<1>5. /\ regions' \subseteq Regions /\ \A r \in regions' : Placed(r)
      /\ \A t \in regions : \E u \in regions' : BlockOf(u) = BlockOf(t)
      /\ \A t \in regions' : \E u \in regions : BlockOf(u) = BlockOf(t) /\ Span(u) = Span(t)
    BY <1>1, <1>4
<1>6. MemoryTyped'
    BY <1>1, <1>5 DEF MemoryInv, MemoryTyped, Placed, Span
<1>7. BlocksDisjoint' /\ WindowBacked' /\ PoolTouched' /\ MappedIsZero' /\ RacesMarked'
    BY <1>1, <1>3, QuietStep DEF Committed
<1>8. HeldIsTracked' /\ PoolRegionsHeld'
    BY <1>1, <1>5, TableKept
<1>9. OutsidePool'
    <2>1. \A t \in regions' : ~t.managed => Span(t) \subseteq Window
        BY <1>1, <1>2, <1>4 DEF MemoryInv, OutsidePool
    <2> QED
        BY <1>1, <2>1 DEF MemoryInv, OutsidePool
<1>10. ChangesInBlocks'
    BY <1>1, ChangesStay DEF MemoryInv
<1> QED
    BY <1>6, <1>7, <1>8, <1>9, <1>10 DEF MemoryInv

LEMMA UntrackRegionKeeps ==
    ASSUME MemoryAssumption, MemoryInv, NEW c, UntrackRegion(c)
    PROVE  MemoryInv'
<1>1. /\ c \in pending /\ c.op = "unmap"
      /\ pending' = pending \ {c}
      /\ regions' = regions \ Exact(c)
      /\ UNCHANGED <<pool_used, pool_free, host, allocs, dirty, blocks, raced, stuck>>
    BY DEF UntrackRegion
<1>2. c \in Calls
    BY <1>1 DEF MemoryInv, MemoryTyped
<1>3. Arriving' = Arriving
    BY <1>1 DEF Arriving
<1>4. MemoryTyped'
    BY <1>1 DEF MemoryInv, MemoryTyped, Placed, Span
<1>5. BlocksDisjoint' /\ WindowBacked' /\ PoolTouched' /\ MappedIsZero' /\ RacesMarked'
    BY <1>1, <1>3, QuietStep DEF Committed
<1>6. HeldIsTracked'
    <2>1. ASSUME NEW t \in regions, BlockOf(t) \in blocks \ raced
          PROVE  t \in regions'
        <3> SUFFICES ASSUME t \in Exact(c) PROVE FALSE
            BY <1>1
        <3>1. t.base = c.base /\ t.size = c.size
            BY DEF Exact
        <3>2. BlockOf(t) = BlockOf(c)
            BY <3>1 DEF BlockOf, Block
        <3> QED
            BY <1>1, <2>1, <3>2 DEF MemoryInv, RacesMarked
    <2> QED
        BY <1>1, <2>1, TrackedStays DEF MemoryInv
<1>7. PoolRegionsHeld'
    BY <1>1, PoolTableStays DEF MemoryInv
<1>8. OutsidePool'
    BY <1>1 DEF MemoryInv, OutsidePool
<1>9. ChangesInBlocks'
    BY <1>1, ChangesStay DEF MemoryInv
<1> QED
    BY <1>4, <1>5, <1>6, <1>7, <1>8, <1>9 DEF MemoryInv

\* A new call that changes the protection of a part of a block, and what the host
\* makes of it.
LEMMA ChangeBegins ==
    ASSUME MemoryAssumption, MemoryInv, NEW d \in Calls, d.op \in {"protect", "commitprotect", "commit"},
           pending' = pending \/ Begin(d), NEW r \in blocks, Within(d, r),
           host' \in [Pages -> HostStates],
           \A p \in Pages : host'[p] # host[p] => p \in Span(r) /\ host'[p] \in Prots,
           UNCHANGED <<pool_used, pool_free, dirty, blocks, raced, stuck>>
    PROVE  /\ BlocksDisjoint' /\ WindowBacked' /\ PoolTouched' /\ MappedIsZero' /\ RacesMarked'
           /\ ChangesInBlocks'
           /\ pending' \subseteq Calls /\ (\A c \in pending' : Placed(c))
           /\ \A c \in pending' : c.op \in {"reserve", "adopt", "unmanage", "unmap"} => c \in pending
<1>1. pending' = pending \/ pending' = pending \cup {d}
    BY DEF Begin
<1>2. Arriving' = Arriving
    BY <1>1 DEF Arriving
<1>3. \A c \in pending' : c.op \in {"reserve", "adopt", "unmanage", "unmap"} => c \in pending
    BY <1>1
<1>4. Placed(r) /\ Placed(d)
    BY DEF MemoryInv, MemoryTyped, Within, Placed
<1>5. \A p \in Pages : host[p] # "free" => host'[p] # "free"
    BY DEF Prots
<1>6. ASSUME NEW p \in Pool PROVE Committed(p)' <=> Committed(p)
    <2>1. p \in Pages
        BY DEF Pages
    <2>2. CASE p \in Span(r)
        <3>1. Span(r) \subseteq Pool
            BY <1>4, <2>2, PlacedInWindow
        <3>2. p <= pool_used
            BY <2>2, <3>1 DEF MemoryInv, BlocksDisjoint, InUse, IsInPool, MemoryTyped
        <3>3. Committed(p)
            BY <3>2 DEF MemoryInv, PoolTouched
        <3> QED
            BY <2>1, <3>3 DEF Committed
    <2> QED
        BY <2>1, <2>2 DEF Committed
<1>7. BlocksDisjoint' /\ WindowBacked' /\ PoolTouched' /\ MappedIsZero' /\ RacesMarked'
    BY <1>2, <1>3, <1>5, <1>6, QuietStep
<1>8. ChangesInBlocks'
    BY <1>1, ChangesStay DEF MemoryInv
<1>9. pending' \subseteq Calls /\ \A c \in pending' : Placed(c)
    BY <1>1, <1>4 DEF MemoryInv, MemoryTyped
<1> QED
    BY <1>3, <1>7, <1>8, <1>9

LEMMA ProtectKeeps ==
    ASSUME MemoryAssumption, MemoryInv, NEW b \in Pages, NEW n \in BlockSizes, NEW prot \in Prots,
           Protect(Block(b, n), prot)
    PROVE  MemoryInv'
<1> DEFINE c == Block(b, n)
           d == Call(IF Committed(c.base) THEN "protect" ELSE "commitprotect", c, prot)
<1>1. c.base \in Nat \ {0} /\ c.size \in Nat \ {0}
    BY WindowIsNotPool DEF Block, BlockSizes, MemoryAssumption
<1>2. d \in Calls /\ d.op \in {"protect", "commitprotect", "commit"}
    BY <1>1 DEF Call, Calls, Ops, Rights
<1>3. /\ \E r \in blocks : Within(c, r)
      /\ host' = Backed(c, prot)
      /\ Begin(d)
      /\ UNCHANGED <<regions, pool_used, pool_free, allocs, dirty, blocks, raced, stuck>>
    BY DEF Protect
<1> HIDE DEF c
<1>4. Span(d) = Span(c)
    BY CallFacts
<1> HIDE DEF d
<1>5. PICK r \in blocks : Within(c, r)
    BY <1>3
<1>6. host' \in [Pages -> HostStates] /\ \A p \in Pages : host'[p] # host[p] => p \in Span(r) /\ host'[p] \in Prots
    BY <1>3, <1>5 DEF Backed, MemoryInv, MemoryTyped, HostStates, Prots, Within
<1>7. Within(d, r)
    BY <1>4, <1>5 DEF Within
<1>8. /\ BlocksDisjoint' /\ WindowBacked' /\ PoolTouched' /\ MappedIsZero' /\ RacesMarked'
      /\ ChangesInBlocks'
      /\ pending' \subseteq Calls /\ (\A x \in pending' : Placed(x))
      /\ \A x \in pending' : x.op \in {"reserve", "adopt", "unmanage", "unmap"} => x \in pending
    BY <1>2, <1>3, <1>5, <1>6, <1>7, ChangeBegins
<1>9. MemoryTyped'
    BY <1>3, <1>6, <1>8 DEF MemoryInv, MemoryTyped, Placed, Span
<1>10. HeldIsTracked' /\ PoolRegionsHeld'
    BY <1>3, TableKept DEF MemoryInv, MemoryTyped, Placed, Span
<1>11. OutsidePool'
    BY <1>3, <1>8 DEF MemoryInv, OutsidePool
<1> QED
    BY <1>8, <1>9, <1>10, <1>11 DEF MemoryInv

LEMMA CommitKeeps ==
    ASSUME MemoryAssumption, MemoryInv, NEW b \in Pages, NEW n \in BlockSizes, NEW prot \in Prots,
           Commit(Block(b, n), prot)
    PROVE  MemoryInv'
<1> DEFINE c == Block(b, n)
           d == Call("commit", c, prot)
<1>1. c.base \in Nat \ {0} /\ c.size \in Nat \ {0}
    BY WindowIsNotPool DEF Block, BlockSizes, MemoryAssumption
<1>2. d \in Calls /\ d.op \in {"protect", "commitprotect", "commit"}
    BY <1>1 DEF Call, Calls, Ops, Rights
<1> HIDE DEF c
<1>3. PICK t \in regions :
        /\ BlockOf(t) \in blocks /\ Within(c, t)
        /\ \/ /\ host' = Backed(c, Merged(t.prot, prot))
              /\ Replace(t, [t EXCEPT !.prot = Merged(@, prot)])
              /\ UNCHANGED pending
           \/ /\ host' = [p \in Pages |-> IF p \in Span(c) /\ ~Committed(p) THEN prot ELSE host[p]]
              /\ IF t.committed THEN Replace(t, [t EXCEPT !.prot = Merged(@, prot)]) ELSE UNCHANGED regions
              /\ Begin(d)
    BY DEF Commit, c
<1>4. UNCHANGED <<pool_used, pool_free, allocs, dirty, blocks, raced, stuck>>
    BY DEF Commit
<1>5. Span(d) = Span(c)
    BY CallFacts
<1> HIDE DEF d
<1>6. t \in Regions /\ t.prot \in Rights
    BY DEF MemoryInv, MemoryTyped, Regions
<1>7. Merged(t.prot, prot) \in Prots
    BY <1>6 DEF Merged, Prots, Rights
<1> DEFINE r == BlockOf(t)
<1>8. Span(r) = Span(t) /\ r \in blocks
    BY <1>3, <1>6, RangeFacts DEF Regions
<1> HIDE DEF r
<1>9. host' \in [Pages -> HostStates] /\ \A p \in Pages : host'[p] # host[p] => p \in Span(r) /\ host'[p] \in Prots
    <2>1. \A p \in Span(c) : p \in Span(r)
        BY <1>3, <1>8 DEF Within
    <2>2. host \in [Pages -> HostStates] /\ Prots \subseteq HostStates
        BY DEF MemoryInv, MemoryTyped, HostStates, Prots
    <2>3. CASE host' = Backed(c, Merged(t.prot, prot))
        BY <1>7, <2>1, <2>2, <2>3 DEF Backed
    <2>4. CASE host' = [p \in Pages |-> IF p \in Span(c) /\ ~Committed(p) THEN prot ELSE host[p]]
        BY <2>1, <2>2, <2>4
    <2> QED
        BY <1>3, <2>3, <2>4
<1>10. Within(d, r)
    BY <1>3, <1>5, <1>8 DEF Within
<1>11. /\ BlocksDisjoint' /\ WindowBacked' /\ PoolTouched' /\ MappedIsZero' /\ RacesMarked'
       /\ ChangesInBlocks'
       /\ pending' \subseteq Calls /\ (\A x \in pending' : Placed(x))
       /\ \A x \in pending' : x.op \in {"reserve", "adopt", "unmanage", "unmap"} => x \in pending
    BY <1>2, <1>3, <1>4, <1>8, <1>9, <1>10, ChangeBegins
<1>12. /\ regions' \subseteq Regions /\ \A u \in regions' : Placed(u)
       /\ \A v \in regions : \E u \in regions' : BlockOf(u) = BlockOf(v)
       /\ \A v \in regions' : \E u \in regions : /\ BlockOf(u) = BlockOf(v) /\ Span(u) = Span(v)
                                                 /\ u.managed = v.managed
    <2>1. CASE UNCHANGED regions
        BY <2>1 DEF MemoryInv, MemoryTyped, Placed, Span, BlockOf, Block
    <2>2. CASE Replace(t, [t EXCEPT !.prot = Merged(@, prot)])
        <3> DEFINE new == [t EXCEPT !.prot = Merged(@, prot)]
        <3>1. new \in Regions /\ new.base = t.base /\ new.size = t.size /\ new.managed = t.managed
            BY <1>6, <1>7 DEF Regions, Rights
        <3> QED
            BY <2>2, <3>1, ReplaceKeeps
    <2> QED
        BY <1>3, <2>1, <2>2
<1>13. MemoryTyped'
    BY <1>4, <1>9, <1>11, <1>12 DEF MemoryInv, MemoryTyped, Placed, Span
<1>14. HeldIsTracked' /\ PoolRegionsHeld'
    BY <1>4, <1>12, TableKept
<1>15. OutsidePool'
    BY <1>11, <1>12 DEF MemoryInv, OutsidePool
<1> QED
    BY <1>11, <1>13, <1>14, <1>15 DEF MemoryInv

LEMMA CommitOnFaultKeeps ==
    ASSUME MemoryAssumption, MemoryInv, NEW p \in Pages, CommitOnFault(p)
    PROVE  MemoryInv'
<1>1. PICK r \in blocks : p \in Span(r)
    BY DEF CommitOnFault
<1>2. /\ host' = [host EXCEPT ![p] = "rw"]
      /\ UNCHANGED <<regions, pool_used, pool_free, allocs, dirty, pending, blocks, raced, stuck>>
    BY DEF CommitOnFault
<1> DEFINE d == Call("commit", Block(p, 1), "rw")
<1>3. d \in Calls /\ d.op \in {"protect", "commitprotect", "commit"} /\ Within(d, r)
    BY <1>1, WindowIsNotPool DEF Call, Calls, Ops, Rights, Prots, Block, Within, Span
<1> HIDE DEF d
<1>4. host' \in [Pages -> HostStates] /\ \A q \in Pages : host'[q] # host[q] => q \in Span(r) /\ host'[q] \in Prots
    BY <1>1, <1>2 DEF MemoryInv, MemoryTyped, HostStates, Prots
<1>5. /\ BlocksDisjoint' /\ WindowBacked' /\ PoolTouched' /\ MappedIsZero' /\ RacesMarked'
      /\ ChangesInBlocks'
    BY <1>2, <1>3, <1>4, ChangeBegins
<1>6. MemoryTyped'
    BY <1>2, <1>4 DEF MemoryInv, MemoryTyped, Placed, Span
<1>7. HeldIsTracked' /\ PoolRegionsHeld'
    BY <1>2, TableKept DEF MemoryInv, MemoryTyped, Placed, Span
<1>8. OutsidePool'
    BY <1>2 DEF MemoryInv, OutsidePool
<1> QED
    BY <1>5, <1>6, <1>7, <1>8 DEF MemoryInv

LEMMA StoreKeeps ==
    ASSUME MemoryAssumption, MemoryInv, NEW p \in Pages, Store(p)
    PROVE  MemoryInv'
<1>1. PICK r \in blocks : p \in Span(r)
    BY DEF Store
<1>2. /\ host[p] = "rw" /\ dirty' = dirty \cup {p}
      /\ UNCHANGED <<regions, pool_used, pool_free, host, allocs, pending, blocks, raced, stuck>>
    BY DEF Store
<1>3. Arriving' = Arriving
    BY <1>2 DEF Arriving
<1>4. MemoryTyped'
    BY <1>2 DEF MemoryInv, MemoryTyped, Placed, Span
<1>5. BlocksDisjoint' /\ WindowBacked'
    BY <1>2, <1>3, BlocksShrink, BackingStays DEF MemoryInv
<1>6. PoolTouched'
    BY <1>2 DEF MemoryInv, PoolTouched, Committed, Prots
<1>7. MappedIsZero'
    <2>1. ASSUME NEW c \in pending, c.op = "map"
          PROVE  p \notin Span(c)
        <3>1. c \in Arriving
            BY <2>1 DEF Arriving
        <3> QED
            BY <1>1, <3>1 DEF MemoryInv, BlocksDisjoint, Disjoint
    <2> QED
        BY <1>2, <2>1 DEF MemoryInv, MappedIsZero, Span
<1>8. RacesMarked'
    BY <1>2, <1>3 DEF MemoryInv, RacesMarked, Disjoint, Span, BlockOf, Block
<1>9. HeldIsTracked' /\ PoolRegionsHeld'
    BY <1>2, TableKept DEF MemoryInv, MemoryTyped, Placed, Span
<1>10. OutsidePool' /\ ChangesInBlocks'
    BY <1>2 DEF MemoryInv, OutsidePool, ChangesInBlocks, Within, Span
<1> QED
    BY <1>4, <1>5, <1>6, <1>7, <1>8, <1>9, <1>10 DEF MemoryInv

-----------------------------------------------------------------------------
(* Steps that take a block back. *)

\* Nobody else has a page of a block that is held.
LEMMA HeldAlone ==
    ASSUME MemoryInv, NEW r \in blocks
    PROVE  /\ r \in Ranges /\ Placed(r) /\ r.base \in Span(r)
           /\ \A s \in blocks \ {r} : Disjoint(s, r) /\ s.base # r.base
           /\ \A c \in Arriving : Disjoint(c, r) /\ BlockOf(c) # r
<1>1. r \in Ranges /\ Placed(r) /\ r.base \in Span(r)
    BY RangeIsBlock DEF MemoryInv, MemoryTyped
<1>2. ASSUME NEW s \in blocks \ {r}
      PROVE  Disjoint(s, r) /\ s.base # r.base
    <2>1. Disjoint(s, r)
        BY DEF MemoryInv, BlocksDisjoint
    <2>2. s.base \in Span(s)
        BY RangeIsBlock DEF MemoryInv, MemoryTyped
    <2> QED
        BY <1>1, <2>1, <2>2 DEF Disjoint
<1>3. ASSUME NEW c \in Arriving
      PROVE  Disjoint(c, r) /\ BlockOf(c) # r
    <2>1. Disjoint(c, r)
        BY DEF MemoryInv, BlocksDisjoint
    <2>2. c \in Calls
        BY DEF Arriving, MemoryInv, MemoryTyped
    <2>3. Span(BlockOf(c)) = Span(c)
        BY <2>2, RangeFacts DEF Calls
    <2> QED
        BY <1>1, <2>1, <2>3 DEF Disjoint
<1> QED
    BY <1>1, <1>2, <1>3

\* What every such step does to the table and to the marks.
LEMMA BlockGoes ==
    ASSUME MemoryAssumption, MemoryInv, NEW r \in blocks, Idle(r),
           blocks' = blocks \ {r}, raced' = raced \ {r},
           regions' \subseteq regions, \A t \in regions \ regions' : t.base = r.base,
           pending' = pending \/ (pending' = pending \cup {Call("unmap", r, "rw")} /\ Span(r) \subseteq Window)
    PROVE  /\ HeldIsTracked' /\ RacesMarked' /\ OutsidePool' /\ ChangesInBlocks'
           /\ Arriving' = Arriving
           /\ pending' \subseteq Calls /\ \A c \in pending' : Placed(c)
<1> DEFINE d == Call("unmap", r, "rw")
<1>1. /\ r \in Ranges /\ Placed(r) /\ r.base \in Span(r)
      /\ \A s \in blocks \ {r} : Disjoint(s, r) /\ s.base # r.base
      /\ \A c \in Arriving : Disjoint(c, r) /\ BlockOf(c) # r
    BY HeldAlone
<1>2. d \in Calls /\ d.op = "unmap" /\ Span(d) = Span(r) /\ BlockOf(d) = r
    <2>1. d.op = "unmap" /\ Span(d) = Span(r) /\ BlockOf(d) = r
        BY <1>1, CallFacts, RangeIsBlock
    <2>2. d \in Calls
        BY <1>1 DEF Call, Calls, Ops, Rights, Prots, Ranges
    <2> QED
        BY <2>1, <2>2
<1> HIDE DEF d
<1>3. pending' = pending \/ (pending' = pending \cup {d} /\ Span(r) \subseteq Window)
    BY DEF d
<1>4. Arriving' = Arriving
    BY <1>2, <1>3 DEF Arriving
<1>5. pending' \subseteq Calls /\ \A c \in pending' : Placed(c)
    BY <1>2, <1>3 DEF MemoryInv, MemoryTyped, Placed
<1>6. HeldIsTracked'
    <2>1. ASSUME NEW t \in regions, BlockOf(t) \in blocks' \ raced'
          PROVE  t \in regions'
        <3>1. t \in Regions
            BY DEF MemoryInv, MemoryTyped
        <3>2. BlockOf(t).base = t.base
            BY <3>1, RangeFacts DEF Regions
        <3>3. BlockOf(t).base # r.base
            BY <1>1, <2>1
        <3> QED
            BY <3>2, <3>3
    <2>2. blocks' \ raced' \subseteq blocks \ raced
        OBVIOUS
    <2> QED
        BY <2>1, <2>2, TrackedStays DEF MemoryInv
<1>7. RacesMarked'
    <2>1. raced' \subseteq blocks' \cup { BlockOf(c) : c \in Arriving' } /\ \A x \in raced' : Span(x) \subseteq Window
        BY <1>4 DEF MemoryInv, RacesMarked
    <2>2. ASSUME NEW c \in pending', c.op = "unmap"
          PROVE  /\ \A s \in blocks' : BlockOf(c) = s => s \in raced'
                 /\ \A a \in Arriving' : BlockOf(c) = BlockOf(a) => BlockOf(a) \in raced'
        <3>1. CASE c \in pending
            BY <1>1, <1>4, <2>2, <3>1 DEF MemoryInv, RacesMarked
        <3>2. CASE c = d
            BY <1>1, <1>2, <1>4, <3>2
        <3> QED
            BY <1>3, <3>1, <3>2
    <2>3. ASSUME NEW x, NEW y PROVE Disjoint(x, y)' <=> Disjoint(x, y)
        BY DEF Disjoint, Span
    <2> QED
        BY <2>1, <2>2 DEF RacesMarked, Disjoint, Span, BlockOf, Block
<1>8. OutsidePool'
    BY <1>2, <1>3 DEF MemoryInv, OutsidePool
<1>9. ChangesInBlocks'
    <2>1. ASSUME NEW c \in pending', c.op \in {"protect", "commitprotect", "commit"}
          PROVE  \E s \in blocks' : Within(c, s)
        <3>1. c \in pending
            BY <1>2, <1>3, <2>1
        <3>2. PICK s \in blocks : Within(c, s)
            BY <2>1, <3>1 DEF MemoryInv, ChangesInBlocks
        <3>3. c.base \in Span(c)
            BY <3>1, RangeFacts DEF MemoryInv, MemoryTyped, Calls
        <3>4. s # r
            BY <3>1, <3>2, <3>3 DEF Idle, Disjoint, Within
        <3> QED
            BY <3>2, <3>4
    <2> QED
        BY <2>1 DEF ChangesInBlocks, Within, Span
<1> QED
    BY <1>4, <1>5, <1>6, <1>7, <1>8, <1>9

\* A block of the window goes, and its pages may go back to the host.
LEMMA WindowBlockGoes ==
    ASSUME MemoryAssumption, MemoryInv, NEW r \in blocks, Idle(r), Span(r) \subseteq Window,
           blocks' = blocks \ {r}, raced' = raced \ {r},
           regions' \subseteq regions, \A t \in regions \ regions' : t.base = r.base,
           pending' = pending \/ pending' = pending \cup {Call("unmap", r, "rw")},
           host' = host \/ host' = Backed(r, "free"), dirty' \subseteq dirty,
           UNCHANGED <<pool_used, pool_free, stuck>>
    PROVE  MemoryInv'
<1>1. /\ HeldIsTracked' /\ RacesMarked' /\ OutsidePool' /\ ChangesInBlocks'
      /\ Arriving' = Arriving
      /\ pending' \subseteq Calls /\ \A c \in pending' : Placed(c)
    BY BlockGoes
<1>2. /\ \A s \in blocks \ {r} : Disjoint(s, r)
      /\ \A c \in Arriving : Disjoint(c, r)
    BY HeldAlone
<1>3. host' \in [Pages -> HostStates] /\ \A p \in Pages : p \notin Span(r) => host'[p] = host[p]
    BY DEF MemoryInv, MemoryTyped, HostStates, Backed
<1>4. MemoryTyped'
    BY <1>1, <1>3 DEF MemoryInv, MemoryTyped, Placed, Span
<1>5. BlocksDisjoint'
    BY <1>1, BlocksShrink DEF MemoryInv
<1>6. WindowBacked'
    <2>1. ASSUME NEW s \in blocks' \cup Arriving', NEW p \in Window, p \in Span(s) /\ host[p] # "free"
          PROVE  host'[p] # "free"
        <3>1. p \notin Span(r)
            BY <1>1, <1>2, <2>1 DEF Disjoint
        <3> QED
            BY <1>3, <2>1, <3>1, WindowIsNotPool
    <2> QED
        BY <1>1, <2>1, BackingStays DEF MemoryInv
<1>7. PoolTouched'
    <2>1. ASSUME NEW p \in Pool PROVE Committed(p)' <=> Committed(p)
        BY <1>3, WindowIsNotPool DEF Committed
    <2>2. pool_used' \in 0 .. pool_used
        BY DEF MemoryInv, MemoryTyped, MemoryAssumption
    <2> QED
        BY <2>1, <2>2, PoolStays DEF MemoryInv
<1>8. MappedIsZero'
    <2>1. \A c \in pending' : c.op = "map" => c \in pending
        BY CallFacts
    <2> QED
        BY <2>1, ZeroStays DEF MemoryInv
<1>9. PoolRegionsHeld'
    <2>1. ASSUME NEW t \in regions', Span(t) \subseteq Pool
          PROVE  BlockOf(t) \in blocks'
        <3>1. BlockOf(t) \in blocks /\ t \in Regions
            BY <2>1 DEF MemoryInv, PoolRegionsHeld, MemoryTyped
        <3>2. t.base \in Span(t) /\ Span(BlockOf(t)) = Span(t)
            BY <3>1, RangeFacts DEF Regions
        <3>3. BlockOf(t) # r
            BY <2>1, <3>2, WindowIsNotPool
        <3> QED
            BY <3>1, <3>3
    <2> QED
        BY <2>1 DEF PoolRegionsHeld, BlockOf, Block, Span
<1> QED
    BY <1>1, <1>4, <1>5, <1>6, <1>7, <1>8, <1>9 DEF MemoryInv

\* PoolFreeLocked: the block becomes a free slot, or the end of what is used moves
\* down; nobody is in the way, since all the others are apart from it and below.
LEMMA PoolBlockGoes ==
    ASSUME MemoryAssumption, MemoryInv, NEW r \in blocks, Idle(r), IsInPool(r), PoolFreeLocked(r),
           regions' = regions \ Exact(r), blocks' = blocks \ {r}, raced' = raced \ {r},
           UNCHANGED <<host, dirty, pending, stuck>>
    PROVE  MemoryInv'
<1>1. /\ regions' \subseteq regions /\ \A t \in regions \ regions' : t.base = r.base
      /\ pending' = pending
    BY DEF Exact
<1>2. /\ HeldIsTracked' /\ RacesMarked' /\ OutsidePool' /\ ChangesInBlocks'
      /\ Arriving' = Arriving
    BY <1>1, BlockGoes
<1>3. /\ r \in Ranges /\ r.base \in Span(r)
      /\ \A s \in blocks \ {r} : Disjoint(s, r)
      /\ \A c \in Arriving : Disjoint(c, r)
    BY HeldAlone
<1>4. Span(r) \subseteq Pool /\ Span(r) \subseteq 1 .. pool_used
    BY DEF MemoryInv, BlocksDisjoint, InUse, IsInPool
<1>5. pool_used \in 0 .. PoolSize /\ pool_free \in Seq(Ranges)
    BY DEF MemoryInv, MemoryTyped
<1>6. \A x : x \in InUse' => x \in InUse /\ Disjoint(x, r)
    BY <1>2, <1>3 DEF InUse
<1>7. \A i \in DOMAIN pool_free : /\ pool_free[i] \in Ranges /\ Disjoint(pool_free[i], r)
                                  /\ Span(pool_free[i]) \subseteq 1 .. pool_used
    BY <1>5 DEF MemoryInv, BlocksDisjoint, InUse
<1>8. /\ pool_used' \in 0 .. pool_used
      /\ pool_free' \in Seq(Ranges)
      /\ \A x : Disjoint(x, r) /\ Span(x) \subseteq 1 .. pool_used => Span(x) \subseteq 1 .. pool_used'
      /\ \A i \in DOMAIN pool_free' : \/ i \in DOMAIN pool_free /\ pool_free'[i] = pool_free[i]
                                      \/ i = Len(pool_free) + 1 /\ pool_free'[i] = r /\ pool_used' = pool_used
    <2>1. CASE r.base + r.size = pool_used + 1
        <3>1. pool_used' = pool_used - r.size /\ pool_free' = pool_free
            BY <2>1 DEF PoolFreeLocked
        <3>2. pool_used' \in 0 .. pool_used
            BY <1>3, <1>5, <2>1, <3>1, MemoryAssumption DEF MemoryAssumption, Ranges
        <3>3. ASSUME NEW x, Disjoint(x, r), Span(x) \subseteq 1 .. pool_used, NEW p \in Span(x)
              PROVE  p \in 1 .. pool_used'
            <4>1. p \notin Span(r) /\ p \in 1 .. pool_used
                BY <3>3 DEF Disjoint
            <4>2. p \in Nat /\ p <= pool_used /\ p >= 1 /\ r.base \in Nat /\ r.size \in Nat /\ pool_used \in Nat
                BY <1>3, <1>5, <4>1 DEF Ranges, MemoryAssumption
            <4>3. p \notin r.base .. r.base + r.size - 1
                BY <4>1 DEF Span
            <4> QED
                BY <2>1, <3>1, <4>2, <4>3
        <3> QED
            BY <1>5, <3>1, <3>2, <3>3
    <2>2. CASE r.base + r.size # pool_used + 1
        <3>1. pool_used' = pool_used /\ pool_free' = Append(pool_free, r)
            BY <1>3, <2>2, RangeIsBlock DEF PoolFreeLocked
        <3> QED
            BY <1>3, <1>5, <3>1 DEF MemoryAssumption
    <2> QED
        BY <2>1, <2>2
<1>9. MemoryTyped'
    <2>1. pool_used' \in 0 .. PoolSize
        BY <1>5, <1>8 DEF MemoryAssumption
    <2> QED
        BY <1>8, <2>1 DEF MemoryInv, MemoryTyped, Placed, Span
<1>10. BlocksDisjoint'
    <2>1. /\ \A x, y \in blocks' : x # y => Disjoint(x, y)
          /\ \A c \in Arriving' : /\ \A x \in blocks' : Disjoint(c, x)
                                  /\ \A d \in Arriving' : c # d => Disjoint(c, d)
        BY <1>2 DEF MemoryInv, BlocksDisjoint
    <2>2. ASSUME NEW i \in DOMAIN pool_free'
          PROVE  /\ \A x \in InUse' : Disjoint(pool_free'[i], x)
                 /\ \A j \in DOMAIN pool_free' : i # j => Disjoint(pool_free'[i], pool_free'[j])
                 /\ Span(pool_free'[i]) \subseteq 1 .. pool_used'
        <3>1. CASE i \in DOMAIN pool_free /\ pool_free'[i] = pool_free[i]
            BY <1>6, <1>7, <1>8, <3>1 DEF MemoryInv, BlocksDisjoint
        <3>2. CASE i = Len(pool_free) + 1 /\ pool_free'[i] = r /\ pool_used' = pool_used
            BY <1>4, <1>5, <1>6, <1>7, <1>8, <3>2 DEF Disjoint
        <3> QED
            BY <1>8, <3>1, <3>2
    <2>3. \A x \in InUse' : IsInPool(x) => Span(x) \subseteq 1 .. pool_used'
        BY <1>6, <1>8 DEF MemoryInv, BlocksDisjoint
    <2> QED
        BY <2>1, <2>2, <2>3 DEF BlocksDisjoint, Disjoint, IsInPool, Span
<1>11. WindowBacked'
    BY <1>2, BackingStays DEF MemoryInv
<1>12. PoolTouched'
    BY <1>8, PoolStays DEF MemoryInv, Committed
<1>13. MappedIsZero'
    BY ZeroStays DEF MemoryInv
<1>14. PoolRegionsHeld'
    <2>1. ASSUME NEW t \in regions', Span(t) \subseteq Pool
          PROVE  BlockOf(t) \in blocks'
        <3>1. BlockOf(t) \in blocks /\ t \in Regions /\ t \notin Exact(r)
            BY <2>1 DEF MemoryInv, PoolRegionsHeld, MemoryTyped
        <3>2. BlockOf(t).base = t.base /\ BlockOf(t).size = t.size
            BY <3>1, RangeFacts DEF Regions
        <3>3. BlockOf(t) # r
            BY <3>1, <3>2 DEF Exact
        <3> QED
            BY <3>1, <3>3
    <2> QED
        BY <2>1 DEF PoolRegionsHeld, BlockOf, Block, Span
<1> QED
    BY <1>2, <1>9, <1>10, <1>11, <1>12, <1>13, <1>14 DEF MemoryInv

LEMMA UnmapKeeps ==
    ASSUME MemoryAssumption, MemoryInv, NEW r \in blocks, Unmap(r)
    PROVE  MemoryInv'
<1>1. Idle(r) /\ blocks' = blocks \ {r} /\ raced' = raced \ {r} /\ UNCHANGED stuck
    BY DEF Unmap
<1>2. CASE IsInPool(r)
    <2>1. PoolFreeLocked(r) /\ regions' = regions \ Exact(r) /\ UNCHANGED <<host, dirty, pending>>
        BY <1>2 DEF Unmap
    <2> QED
        BY <1>1, <1>2, <2>1, PoolBlockGoes
<1>3. CASE ~IsInPool(r)
    <2>1. /\ host' = Backed(r, "free") /\ dirty' = dirty \ Span(r)
          /\ Begin(Call("unmap", r, "rw"))
          /\ UNCHANGED <<regions, pool_used, pool_free>>
        BY <1>3 DEF Unmap
    <2>2. Span(r) \subseteq Window
        BY <1>3, HeldAlone DEF Placed, IsInPool
    <2> QED
        BY <1>1, <2>1, <2>2, WindowBlockGoes DEF Begin
<1> QED
    BY <1>2, <1>3

LEMMA ReleaseRangeKeeps ==
    ASSUME MemoryAssumption, MemoryInv, NEW r \in blocks, ReleaseRange(r)
    PROVE  MemoryInv'
<1>1. PICK t \in regions :
        /\ t.base = r.base
        /\ regions' = regions \ {t}
        /\ IF t.managed /\ r \in allocs
           THEN host' = Backed(r, "free") /\ allocs' = allocs \ {r} /\ dirty' = dirty \ Span(r)
           ELSE UNCHANGED <<host, allocs, dirty>>
    BY DEF ReleaseRange
<1>2. /\ Idle(r) /\ ~IsInPool(r)
      /\ blocks' = blocks \ {r} /\ raced' = raced \ {r}
      /\ UNCHANGED <<pool_used, pool_free, pending, stuck>>
    BY DEF ReleaseRange
<1>3. Span(r) \subseteq Window
    BY <1>2, HeldAlone DEF Placed, IsInPool
<1>4. regions' \subseteq regions /\ \A u \in regions \ regions' : u.base = r.base
    BY <1>1
<1>5. (host' = host \/ host' = Backed(r, "free")) /\ dirty' \subseteq dirty
    BY <1>1
<1> QED
    BY <1>2, <1>3, <1>4, <1>5, WindowBlockGoes

LEMMA ForgetResourceKeeps ==
    ASSUME MemoryAssumption, MemoryInv, NEW r \in blocks, ForgetResource(r)
    PROVE  MemoryInv'
<1>1. PICK t \in regions : t.base = r.base /\ ~t.managed /\ regions' = regions \ {t}
    BY DEF ForgetResource
<1>2. /\ Idle(r)
      /\ host' = Backed(r, "free") /\ dirty' = dirty \ Span(r)
      /\ blocks' = blocks \ {r} /\ raced' = raced \ {r}
      /\ UNCHANGED <<pool_used, pool_free, pending, stuck>>
    BY DEF ForgetResource
<1>3. Span(r) \subseteq Window
    <2>1. t.base \in Span(t) /\ Span(t) \subseteq Window
        BY <1>1, RangeFacts DEF MemoryInv, MemoryTyped, OutsidePool, Regions
    <2>2. r.base \in Span(r) /\ Placed(r)
        BY HeldAlone
    <2> QED
        BY <1>1, <2>1, <2>2, PlacedInWindow
<1>4. regions' \subseteq regions /\ \A u \in regions \ regions' : u.base = r.base
    BY <1>1
<1> QED
    BY <1>2, <1>3, <1>4, WindowBlockGoes

-----------------------------------------------------------------------------
(* Steps that hand a block out. *)

\* Pages that the host has free are nobody's.
LEMMA FreePagesAreNobodys ==
    ASSUME MemoryAssumption, MemoryInv, NEW r \in Ranges, Span(r) \subseteq Window,
           \A p \in Span(r) : host[p] = "free"
    PROVE  /\ \A s \in InUse : Disjoint(s, r) /\ Disjoint(r, s)
           /\ r \notin blocks /\ \A c \in Arriving : BlockOf(c) # r
           /\ \A i \in DOMAIN pool_free : Disjoint(pool_free[i], r)
           /\ ~IsInPool(r)
<1>1. r.base \in Span(r)
    BY RangeIsBlock
<1>2. \A s \in InUse : Disjoint(s, r) /\ Disjoint(r, s)
    BY DEF MemoryInv, WindowBacked, Disjoint
<1>3. r \notin blocks
    BY <1>1, <1>2 DEF InUse, Disjoint
<1>4. ASSUME NEW c \in Arriving PROVE BlockOf(c) # r
    <2>1. Span(BlockOf(c)) = Span(c)
        BY RangeFacts DEF MemoryInv, MemoryTyped, Calls, Arriving
    <2> QED
        BY <1>1, <1>2, <2>1 DEF InUse, Disjoint
<1>5. \A i \in DOMAIN pool_free : Disjoint(pool_free[i], r)
    BY WindowIsNotPool DEF MemoryInv, MemoryTyped, BlocksDisjoint, Disjoint, Pool, Window, MemoryAssumption
<1>6. ~IsInPool(r)
    BY <1>1, WindowIsNotPool DEF IsInPool
<1> QED
    BY <1>2, <1>3, <1>4, <1>5, <1>6

\* The marks after a block of the window has come, with a call or without.
LEMMA ArrivalIsMarked ==
    ASSUME MemoryAssumption, MemoryInv, NEW r \in Ranges, Span(r) \subseteq Window,
           blocks \subseteq blocks', Arriving \subseteq Arriving',
           \A s \in blocks' : s \in blocks \/ s = r,
           \A c \in Arriving' : c \in Arriving \/ (BlockOf(c) = r /\ Span(c) = Span(r)),
           r \in blocks' \/ \E c \in Arriving' : BlockOf(c) = r,
           \A c \in pending' : c.op = "unmap" => c \in pending,
           raced' = IF \E c \in pending : c.op = "unmap" /\ BlockOf(c) = r THEN raced \cup {r} ELSE raced
    PROVE  RacesMarked'
<1>1. raced' \subseteq blocks' \cup { BlockOf(c) : c \in Arriving' } /\ \A x \in raced' : Span(x) \subseteq Window
    BY DEF MemoryInv, RacesMarked
<1>2. ASSUME NEW c \in pending', c.op = "unmap"
      PROVE  /\ \A s \in blocks' : BlockOf(c) = s => s \in raced'
             /\ \A d \in Arriving' : BlockOf(c) = BlockOf(d) => BlockOf(d) \in raced'
    <2>1. c \in pending /\ (BlockOf(c) = r => r \in raced') /\ raced \subseteq raced'
        BY <1>2
    <2>2. ASSUME NEW s \in blocks', BlockOf(c) = s PROVE s \in raced'
        BY <1>2, <2>1, <2>2 DEF MemoryInv, RacesMarked
    <2>3. ASSUME NEW d \in Arriving', BlockOf(c) = BlockOf(d) PROVE BlockOf(d) \in raced'
        BY <1>2, <2>1, <2>3 DEF MemoryInv, RacesMarked, Disjoint
    <2> QED
        BY <2>2, <2>3
<1> QED
    BY <1>1, <1>2 DEF RacesMarked, Disjoint, Span, BlockOf, Block

LEMMA AllocateRangeKeeps ==
    ASSUME MemoryAssumption, MemoryInv, NEW n \in BlockSizes, AllocateRange(n)
    PROVE  MemoryInv'
<1>1. PICK b \in Window :
        LET r == Block(b, n) IN
        /\ Span(r) \subseteq Window /\ \A p \in Span(r) : host[p] = "free"
        /\ host' = Backed(r, "reserved")
        /\ regions' = regions \cup {Region(r, "none", FALSE)}
        /\ blocks' = blocks \cup {r}
        /\ raced' = IF \E c \in pending : c.op = "unmap" /\ BlockOf(c) = r THEN raced \cup {r} ELSE raced
    BY DEF AllocateRange
<1> DEFINE r == Block(b, n)
           t == Region(r, "none", FALSE)
<1>2. r \in Ranges
    BY WindowIsNotPool DEF Ranges, Block, BlockSizes, MemoryAssumption
<1>3. UNCHANGED <<pool_used, pool_free, dirty, pending, stuck>>
    BY DEF AllocateRange
<1> HIDE DEF r
<1>4. t \in Regions /\ t.managed
    BY <1>2 DEF Region, Regions, Rights, Ranges
<1>5. Span(t) = Span(r) /\ BlockOf(t) = r
    <2>1. Span(t) = Span(r) /\ BlockOf(t) = BlockOf(r)
        BY RegionFacts, Zenon
    <2> QED
        BY <1>2, <2>1, RangeIsBlock
<1> HIDE DEF t
<1>6. /\ Span(r) \subseteq Window /\ \A p \in Span(r) : host[p] = "free"
      /\ host' = Backed(r, "reserved")
      /\ regions' = regions \cup {t}
      /\ blocks' = blocks \cup {r}
      /\ raced' = IF \E c \in pending : c.op = "unmap" /\ BlockOf(c) = r THEN raced \cup {r} ELSE raced
    BY <1>1 DEF r, t
<1>7. /\ \A s \in InUse : Disjoint(s, r) /\ Disjoint(r, s)
      /\ r \notin blocks /\ \A c \in Arriving : BlockOf(c) # r
      /\ \A i \in DOMAIN pool_free : Disjoint(pool_free[i], r)
      /\ ~IsInPool(r)
    BY <1>2, <1>6, FreePagesAreNobodys
<1>8. Arriving' = Arriving /\ InUse' = InUse \cup {r}
    BY <1>3, <1>6 DEF Arriving, InUse
<1>9. MemoryTyped'
    <2>1. host' \in [Pages -> HostStates]
        BY <1>6 DEF Backed, HostStates, MemoryInv, MemoryTyped
    <2>2. regions' \subseteq Regions /\ blocks' \subseteq Ranges
        BY <1>2, <1>4, <1>6 DEF MemoryInv, MemoryTyped
    <2>3. (\A x \in regions' : Placed(x)) /\ \A x \in blocks' : Placed(x)
        BY <1>5, <1>6 DEF MemoryInv, MemoryTyped, Placed
    <2> QED
        BY <1>3, <2>1, <2>2, <2>3 DEF MemoryInv, MemoryTyped, Placed, Span
<1>10. BlocksDisjoint'
    BY <1>3, <1>6, <1>7, <1>8 DEF MemoryInv, BlocksDisjoint, InUse, Disjoint, IsInPool, Span
<1>11. WindowBacked'
    <2>1. ASSUME NEW s \in InUse', NEW p \in Span(s) \cap Window PROVE host'[p] # "free"
        <3>1. p \in Pages
            BY WindowIsNotPool
        <3> QED
            BY <1>6, <1>8, <2>1, <3>1 DEF MemoryInv, WindowBacked, Backed
    <2> QED
        BY <2>1 DEF WindowBacked, Span
<1>12. PoolTouched'
    <2>1. ASSUME NEW p \in Pool PROVE Committed(p)' <=> Committed(p)
        BY <1>6, WindowIsNotPool DEF Committed, Backed
    <2>2. pool_used' \in 0 .. pool_used
        BY <1>3 DEF MemoryInv, MemoryTyped, MemoryAssumption
    <2> QED
        BY <1>3, <2>1, <2>2, PoolStays DEF MemoryInv
<1>13. MappedIsZero'
    BY <1>3, ZeroStays DEF MemoryInv
<1>14. HeldIsTracked'
    BY <1>5, <1>6 DEF MemoryInv, HeldIsTracked, BlockOf, Block
<1>15. RacesMarked'
    BY <1>2, <1>3, <1>6, <1>8, ArrivalIsMarked
<1>16. OutsidePool'
    BY <1>3, <1>4, <1>6 DEF MemoryInv, OutsidePool
<1>17. ChangesInBlocks'
    BY <1>3, <1>6, ChangesStay DEF MemoryInv
<1>18. PoolRegionsHeld'
    BY <1>5, <1>6 DEF MemoryInv, PoolRegionsHeld, BlockOf, Block, Span
<1> QED
    BY <1>9, <1>10, <1>11, <1>12, <1>13, <1>14, <1>15, <1>16, <1>17, <1>18 DEF MemoryInv

LEMMA HostAllocatesKeeps ==
    ASSUME MemoryAssumption, MemoryInv, NEW n \in BlockSizes, NEW op \in {"map", "reserve", "adopt"},
           NEW prot \in Rights, NEW backing \in {"reserved", "rw", "r"}, HostAllocates(op, n, prot, backing)
    PROVE  MemoryInv'
<1>1. PICK b \in Window :
        LET r == Block(b, n) IN
        /\ Span(r) \subseteq Window /\ \A p \in Span(r) : host[p] = "free"
        /\ host' = Backed(r, backing)
        /\ dirty' = dirty \ Span(r)
        /\ Begin(Call(op, r, prot))
        /\ raced' = IF \E c \in pending : c.op = "unmap" /\ BlockOf(c) = r THEN raced \cup {r} ELSE raced
        /\ UNCHANGED <<regions, pool_used, pool_free, blocks, stuck>>
    BY DEF HostAllocates
<1> DEFINE r == Block(b, n)
           d == Call(op, r, prot)
<1>2. r \in Ranges
    BY WindowIsNotPool DEF Ranges, Block, BlockSizes, MemoryAssumption
<1> HIDE DEF r
<1>3. d \in Calls
    BY <1>2 DEF Call, Calls, Ops, Ranges
<1>4. d.op = op /\ Span(d) = Span(r) /\ BlockOf(d) = r
    BY <1>2, CallFacts, RangeIsBlock
<1> HIDE DEF d
<1>5. /\ Span(r) \subseteq Window /\ \A p \in Span(r) : host[p] = "free"
      /\ host' = Backed(r, backing)
      /\ dirty' = dirty \ Span(r)
      /\ pending' = pending \cup {d}
      /\ raced' = IF \E c \in pending : c.op = "unmap" /\ BlockOf(c) = r THEN raced \cup {r} ELSE raced
      /\ UNCHANGED <<regions, pool_used, pool_free, blocks, stuck>>
    BY <1>1 DEF r, d, Begin
<1>6. /\ \A s \in InUse : Disjoint(s, r) /\ Disjoint(r, s)
      /\ r \notin blocks /\ \A c \in Arriving : BlockOf(c) # r
      /\ \A i \in DOMAIN pool_free : Disjoint(pool_free[i], r)
      /\ ~IsInPool(r)
    BY <1>2, <1>5, FreePagesAreNobodys
<1>7. Arriving' = Arriving \cup {d} /\ InUse' = InUse \cup {d}
    BY <1>4, <1>5 DEF Arriving, InUse
<1>8. MemoryTyped'
    <2>1. host' \in [Pages -> HostStates]
        BY <1>5 DEF Backed, HostStates, MemoryInv, MemoryTyped
    <2>2. pending' \subseteq Calls /\ \A x \in pending' : Placed(x)
        BY <1>3, <1>4, <1>5 DEF MemoryInv, MemoryTyped, Placed
    <2> QED
        BY <1>5, <2>1, <2>2 DEF MemoryInv, MemoryTyped, Placed, Span
<1>9. BlocksDisjoint'
    <2>1. \A s \in InUse : Disjoint(s, d) /\ Disjoint(d, s)
        BY <1>4, <1>6 DEF Disjoint
    <2>2. \A i \in DOMAIN pool_free : Disjoint(pool_free[i], d)
        BY <1>4, <1>6 DEF Disjoint
    <2>3. ~IsInPool(d)
        BY <1>4, <1>6 DEF IsInPool
    <2> QED
        BY <1>5, <1>7, <2>1, <2>2, <2>3 DEF MemoryInv, BlocksDisjoint, InUse, Disjoint, IsInPool, Span
<1>10. WindowBacked'
    <2>1. ASSUME NEW s \in InUse', NEW p \in Span(s) \cap Window PROVE host'[p] # "free"
        <3>1. p \in Pages
            BY WindowIsNotPool
        <3> QED
            BY <1>4, <1>5, <1>7, <2>1, <3>1 DEF MemoryInv, WindowBacked, Backed
    <2> QED
        BY <2>1 DEF WindowBacked, Span
<1>11. PoolTouched'
    <2>1. ASSUME NEW p \in Pool PROVE Committed(p)' <=> Committed(p)
        BY <1>5, WindowIsNotPool DEF Committed, Backed
    <2>2. pool_used' \in 0 .. pool_used
        BY <1>5 DEF MemoryInv, MemoryTyped, MemoryAssumption
    <2> QED
        BY <1>5, <2>1, <2>2, PoolStays DEF MemoryInv
<1>12. MappedIsZero'
    BY <1>4, <1>5 DEF MemoryInv, MappedIsZero, Span
<1>13. HeldIsTracked'
    <2>1. blocks' \ raced' \subseteq blocks \ raced
        BY <1>5
    <2> QED
        BY <1>5, <2>1, TrackedStays DEF MemoryInv
<1>14. RacesMarked'
    <2>1. \A c \in pending' : c.op = "unmap" => c \in pending
        BY <1>4, <1>5
    <2>2. \E c \in Arriving' : BlockOf(c) = r
        BY <1>4, <1>7
    <2> QED
        BY <1>2, <1>4, <1>5, <1>7, <2>1, <2>2, ArrivalIsMarked
<1>15. OutsidePool'
    BY <1>4, <1>5 DEF MemoryInv, OutsidePool
<1>16. ChangesInBlocks'
    BY <1>4, <1>5, ChangesStay DEF MemoryInv
<1>17. PoolRegionsHeld'
    BY <1>5, PoolTableStays DEF MemoryInv
<1> QED
    BY <1>8, <1>9, <1>10, <1>11, <1>12, <1>13, <1>14, <1>15, <1>16, <1>17 DEF MemoryInv

\* The first slot that is large enough is one.
LEMMA FirstFitFits ==
    ASSUME MemoryAssumption, MemoryInv, NEW n \in BlockSizes, Fitting(n) # {}
    PROVE  FirstFit(n) \in DOMAIN pool_free /\ pool_free[FirstFit(n)].size >= n
<1>1. Fitting(n) \subseteq Nat
    BY DEF Fitting, MemoryInv, MemoryTyped
<1>2. PICK i \in Fitting(n) : \A j \in Fitting(n) : ~(<<j, i>> \in OpToRel(<, Nat))
    BY <1>1, NatLessThanWellFounded, WFMin
<1>3. \A j \in Fitting(n) : i <= j
    <2>1. \A j \in Fitting(n) : j \in Nat /\ i \in Nat /\ ~(j < i)
        BY <1>1, <1>2 DEF OpToRel
    <2> QED
        BY <2>1
<1>4. FirstFit(n) \in Fitting(n)
    BY <1>3 DEF FirstFit
<1> QED
    BY <1>4 DEF Fitting

\* What a block taken from slot i leaves of the free list.
LEMMA TakeSlotLeaves ==
    ASSUME MemoryAssumption, MemoryInv, NEW n \in BlockSizes, NEW i \in DOMAIN pool_free,
           pool_free[i].size >= n, NEW r, r = Block(pool_free[i].base, n)
    PROVE  /\ TakeSlot(i, n) \in Seq(Ranges)
           /\ \A j \in DOMAIN TakeSlot(i, n) :
                /\ Disjoint(TakeSlot(i, n)[j], r)
                /\ \E k \in DOMAIN pool_free : Span(TakeSlot(i, n)[j]) \subseteq Span(pool_free[k])
                /\ \A m \in DOMAIN TakeSlot(i, n) : j # m => Disjoint(TakeSlot(i, n)[j], TakeSlot(i, n)[m])
<1> DEFINE w == pool_free
           z == TakeSlot(i, n)
<1>1. w \in Seq(Ranges) /\ w[i] \in Ranges /\ Len(w) \in Nat /\ DOMAIN w = 1 .. Len(w)
    BY DEF MemoryInv, MemoryTyped
<1>2. \A j, k \in DOMAIN w : j # k => Disjoint(w[j], w[k])
    BY DEF MemoryInv, BlocksDisjoint
<1>3. n \in Nat \ {0}
    BY DEF BlockSizes, MemoryAssumption
<1>4. Span(r) \subseteq Span(w[i])
    BY <1>1, <1>3 DEF Span, Block, Ranges
<1>5. CASE w[i].size = n
    <2>1. z = RemoveAt(w, i)
        BY <1>5 DEF TakeSlot
    <2>2. /\ z \in Seq(Ranges) /\ Len(z) = Len(w) - 1
          /\ \A j \in 1 .. Len(w) - 1 : z[j] = IF j < i THEN w[j] ELSE w[j + 1]
        BY <1>1, <2>1, RemoveAtLemma
    <2> DEFINE old(j) == IF j < i THEN j ELSE j + 1
    <2>3. ASSUME NEW j \in DOMAIN z
          PROVE  old(j) \in DOMAIN w /\ old(j) # i /\ z[j] = w[old(j)]
        BY <1>1, <2>2
    <2>4. ASSUME NEW j \in DOMAIN z, NEW m \in DOMAIN z, j # m PROVE old(j) # old(m)
        BY <1>1, <2>2, <2>4
    <2> HIDE DEF old, z
    <2>5. \A j \in DOMAIN z : /\ Disjoint(z[j], r)
                              /\ \E k \in DOMAIN w : Span(z[j]) \subseteq Span(w[k])
                              /\ \A m \in DOMAIN z : j # m => Disjoint(z[j], z[m])
        BY <1>2, <1>4, <2>3, <2>4 DEF Disjoint
    <2> QED
        BY <2>2, <2>5 DEF z
<1>6. CASE w[i].size # n
    <2> DEFINE rest == Block(w[i].base + n, w[i].size - n)
    <2>1. z = [w EXCEPT ![i] = rest]
        BY <1>6 DEF TakeSlot
    <2>2. rest \in Ranges
        BY <1>1, <1>3, <1>6 DEF Block, Ranges
    <2>3. Span(rest) \subseteq Span(w[i]) /\ Disjoint(rest, r)
        <3>1. w[i].base \in Nat /\ w[i].size \in Nat
            BY <1>1 DEF Ranges
        <3>2. /\ rest.base = w[i].base + n /\ rest.size = w[i].size - n
              /\ r.base = w[i].base /\ r.size = n
            BY DEF Block
        <3> HIDE DEF rest, w
        <3> QED
            BY <1>3, <3>1, <3>2 DEF Span, Disjoint
    <2> HIDE DEF rest
    <2>4. z \in Seq(Ranges) /\ DOMAIN z = DOMAIN w /\ z[i] = rest /\ \A j \in DOMAIN w : j # i => z[j] = w[j]
        BY <1>1, <2>1, <2>2
    <2> HIDE DEF z
    <2>5. ASSUME NEW j \in DOMAIN z
          PROVE  /\ Disjoint(z[j], r)
                 /\ Span(z[j]) \subseteq Span(w[j])
        BY <1>2, <1>4, <2>3, <2>4 DEF Disjoint
    <2>6. \A j, m \in DOMAIN z : j # m => Disjoint(z[j], z[m])
        BY <1>2, <2>4, <2>5 DEF Disjoint
    <2> QED
        BY <2>4, <2>5, <2>6 DEF z
<1> QED
    BY <1>5, <1>6

\* Where PoolAlloc takes its block from, and what it leaves.
LEMMA PoolBlockIsFree ==
    ASSUME MemoryAssumption, MemoryInv, NEW n \in BlockSizes, HasPoolBlock(n), NEW r, r = PoolBlock(n),
           IF Fitting(n) # {}
           THEN pool_free' = TakeSlot(FirstFit(n), n) /\ UNCHANGED pool_used
           ELSE pool_used' = pool_used + n /\ UNCHANGED pool_free
    PROVE  /\ r \in Ranges /\ Span(r) \subseteq Pool /\ Span(r) \subseteq 1 .. pool_used'
           /\ pool_used' \in pool_used .. PoolSize
           /\ \A s \in InUse : Disjoint(s, r) /\ Disjoint(r, s)
           /\ pool_free' \in Seq(Ranges)
           /\ \A j \in DOMAIN pool_free' :
                /\ Disjoint(pool_free'[j], r)
                /\ \E k \in DOMAIN pool_free : Span(pool_free'[j]) \subseteq Span(pool_free[k])
                /\ \A m \in DOMAIN pool_free' : j # m => Disjoint(pool_free'[j], pool_free'[m])
           /\ \A p \in 1 .. pool_used' : p \notin Span(r) => p <= pool_used
           /\ Fitting(n) = {} => r.base = pool_used + 1
<1>1. n \in Nat \ {0} /\ pool_used \in 0 .. PoolSize /\ PoolSize \in Nat /\ Pool = 1 .. PoolSize
    BY DEF BlockSizes, MemoryAssumption, MemoryInv, MemoryTyped, Pool
<1>2. pool_free \in Seq(Ranges)
    BY DEF MemoryInv, MemoryTyped
<1>3. CASE Fitting(n) # {}
    <2> DEFINE i == FirstFit(n)
    <2>1. i \in DOMAIN pool_free /\ pool_free[i].size >= n
        BY <1>3, FirstFitFits
    <2> HIDE DEF i
    <2>2. r = Block(pool_free[i].base, n) /\ pool_free' = TakeSlot(i, n) /\ pool_used' = pool_used
        BY <1>3 DEF PoolBlock, i
    <2>3. pool_free[i] \in Ranges
        BY <1>2, <2>1
    <2>4. r \in Ranges /\ Span(r) \subseteq Span(pool_free[i])
        BY <1>1, <2>1, <2>2, <2>3 DEF Span, Block, Ranges
    <2>5. /\ \A s \in InUse : Disjoint(pool_free[i], s)
          /\ Span(pool_free[i]) \subseteq 1 .. pool_used
        BY <2>1 DEF MemoryInv, BlocksDisjoint
    <2>6. \A s \in InUse : Disjoint(s, r) /\ Disjoint(r, s)
        BY <2>4, <2>5 DEF Disjoint
    <2>7. Span(r) \subseteq Pool /\ Span(r) \subseteq 1 .. pool_used'
        BY <1>1, <2>2, <2>4, <2>5
    <2>8. \A j \in DOMAIN TakeSlot(i, n) :
            /\ Disjoint(TakeSlot(i, n)[j], r)
            /\ \E k \in DOMAIN pool_free : Span(TakeSlot(i, n)[j]) \subseteq Span(pool_free[k])
            /\ \A m \in DOMAIN TakeSlot(i, n) : j # m => Disjoint(TakeSlot(i, n)[j], TakeSlot(i, n)[m])
        BY <2>1, <2>2, TakeSlotLeaves
    <2>9. TakeSlot(i, n) \in Seq(Ranges)
        BY <2>1, <2>2, TakeSlotLeaves
    <2>10. pool_used' \in pool_used .. PoolSize /\ \A p \in 1 .. pool_used' : p <= pool_used
        BY <1>1, <2>2
    <2> QED
        BY <1>3, <2>2, <2>4, <2>6, <2>7, <2>8, <2>9, <2>10
<1>4. CASE Fitting(n) = {}
    <2>1. r = Block(pool_used + 1, n) /\ pool_used' = pool_used + n /\ pool_free' = pool_free
        BY <1>4 DEF PoolBlock
    <2>2. pool_used + n <= PoolSize
        BY <1>4 DEF HasPoolBlock
    <2>3. r \in Ranges /\ r.base = pool_used + 1 /\ Span(r) = pool_used + 1 .. pool_used + n
        BY <1>1, <2>1 DEF Block, Ranges, Span
    <2>4. /\ Span(r) \subseteq Pool /\ Span(r) \subseteq 1 .. pool_used'
          /\ pool_used' \in pool_used .. PoolSize
          /\ \A p \in 1 .. pool_used' : p \notin Span(r) => p <= pool_used
          /\ Span(r) \cap (1 .. pool_used) = {}
        BY <1>1, <2>1, <2>2, <2>3
    <2>5. ASSUME NEW s \in InUse PROVE Disjoint(s, r) /\ Disjoint(r, s)
        <3>1. Placed(s) /\ (Span(s) \subseteq Pool => Span(s) \subseteq 1 .. pool_used)
            BY DEF MemoryInv, MemoryTyped, BlocksDisjoint, InUse, Arriving, IsInPool
        <3> QED
            BY <2>4, <3>1, WindowIsNotPool DEF Placed, Disjoint
    <2>6. \A j \in DOMAIN pool_free : /\ Disjoint(pool_free[j], r)
                                      /\ \A m \in DOMAIN pool_free : j # m => Disjoint(pool_free[j], pool_free[m])
        BY <2>4 DEF MemoryInv, BlocksDisjoint, Disjoint
    <2> QED
        BY <1>2, <2>1, <2>3, <2>4, <2>5, <2>6
<1> QED
    BY <1>3, <1>4

\* A thread that faults under the lock changes nothing else.
LEMMA OnlyStuck ==
    ASSUME MemoryInv, stuck' \in BOOLEAN,
           UNCHANGED <<regions, pool_used, pool_free, host, dirty, pending, blocks, raced>>
    PROVE  MemoryInv'
<1>1. Arriving' = Arriving /\ InUse' = InUse
    BY DEF Arriving, InUse
<1>2. MemoryTyped'
    BY DEF MemoryInv, MemoryTyped, Placed, Span
<1>3. BlocksDisjoint'
    BY <1>1, BlocksShrink DEF MemoryInv
<1>4. WindowBacked' /\ PoolTouched' /\ MappedIsZero'
    BY <1>1 DEF MemoryInv, WindowBacked, PoolTouched, MappedIsZero, Committed, Span
<1>5. HeldIsTracked' /\ RacesMarked'
    BY <1>1 DEF MemoryInv, HeldIsTracked, RacesMarked, Disjoint, Span, BlockOf, Block
<1>6. OutsidePool' /\ ChangesInBlocks' /\ PoolRegionsHeld'
    BY DEF MemoryInv, OutsidePool, ChangesInBlocks, PoolRegionsHeld, Within, Span, BlockOf, Block
<1> QED
    BY <1>2, <1>3, <1>4, <1>5, <1>6 DEF MemoryInv

LEMMA MapPoolKeeps ==
    ASSUME MemoryAssumption, MemoryInv, NEW n \in BlockSizes, NEW prot \in Prots, MapPool(n, prot)
    PROVE  MemoryInv'
<1> DEFINE r == PoolBlock(n)
           d == Call("map", r, prot)
<1>1. HasPoolBlock(n) /\ UNCHANGED <<regions, allocs, blocks>>
    BY DEF MapPool
<1>2. CASE IsCleared(n) /\ \E p \in Span(r) : host[p] = "r"
    <2>1. stuck' = TRUE /\ UNCHANGED <<pool_used, pool_free, host, dirty, pending, raced>>
        BY <1>2 DEF MapPool
    <2> QED
        BY <1>1, <2>1, OnlyStuck
<1>3. CASE ~(IsCleared(n) /\ \E p \in Span(r) : host[p] = "r")
    <2>1. /\ IF Fitting(n) # {}
             THEN pool_free' = TakeSlot(FirstFit(n), n) /\ UNCHANGED pool_used
             ELSE pool_used' = pool_used + n /\ UNCHANGED pool_free
          /\ host' = [p \in Pages |-> IF p \notin Span(r) THEN host[p]
                                      ELSE IF prot # "rw" THEN prot
                                      ELSE IF Committed(p) THEN host[p] ELSE "rw"]
          /\ dirty' = IF IsCleared(n) THEN dirty \ Span(r) ELSE dirty
          /\ pending' = pending \cup {d}
          /\ UNCHANGED <<raced, stuck>>
        BY <1>3 DEF MapPool, Begin
    <2> HIDE DEF r
    <2>2. /\ r \in Ranges /\ Span(r) \subseteq Pool /\ Span(r) \subseteq 1 .. pool_used'
          /\ pool_used' \in pool_used .. PoolSize
          /\ \A s \in InUse : Disjoint(s, r) /\ Disjoint(r, s)
          /\ pool_free' \in Seq(Ranges)
          /\ \A j \in DOMAIN pool_free' :
               /\ Disjoint(pool_free'[j], r)
               /\ \E k \in DOMAIN pool_free : Span(pool_free'[j]) \subseteq Span(pool_free[k])
               /\ \A m \in DOMAIN pool_free' : j # m => Disjoint(pool_free'[j], pool_free'[m])
          /\ \A p \in 1 .. pool_used' : p \notin Span(r) => p <= pool_used
          /\ Fitting(n) = {} => r.base = pool_used + 1
        BY <1>1, <2>1, PoolBlockIsFree DEF r
    <2>3. d \in Calls
        BY <2>2 DEF Call, Calls, Ops, Ranges, Rights
    <2>4. d.op = "map" /\ Span(d) = Span(r) /\ BlockOf(d) = r
        <3>1. d.op = "map" /\ Span(d) = Span(r) /\ BlockOf(d) = BlockOf(r)
            BY CallFacts
        <3> QED
            BY <2>2, <3>1, RangeIsBlock
    <2> HIDE DEF d
    <2>5. Arriving' = Arriving \cup {d} /\ InUse' = InUse \cup {d}
        BY <1>1, <2>1, <2>4 DEF Arriving, InUse
    <2>6. pool_used \in 0 .. PoolSize /\ PoolSize \in Nat /\ Pool = 1 .. PoolSize
        BY DEF MemoryAssumption, MemoryInv, MemoryTyped, Pool
    <2>7. host' \in [Pages -> HostStates]
        BY <2>1 DEF MemoryInv, MemoryTyped, HostStates, Prots
    <2>8. /\ \A p \in Pool : Committed(p)' <=> (Committed(p) \/ p \in Span(r))
          /\ \A p \in Window : host'[p] = host[p]
        <3>1. ASSUME NEW p \in Pool PROVE Committed(p)' <=> (Committed(p) \/ p \in Span(r))
            <4>1. p \in Pages
                BY DEF Pages
            <4> QED
                BY <2>1, <4>1 DEF Committed, Prots
        <3>2. ASSUME NEW p \in Window PROVE host'[p] = host[p]
            <4>1. p \in Pages /\ p \notin Span(r)
                BY <2>2, WindowIsNotPool
            <4> QED
                BY <2>1, <4>1
        <3> QED
            BY <3>1, <3>2
    <2>9. MemoryTyped'
        <3>1. pool_used' \in 0 .. PoolSize
            BY <2>2, <2>6
        <3>2. pending' \subseteq Calls /\ \A x \in pending' : Placed(x)
            BY <2>1, <2>2, <2>3, <2>4 DEF MemoryInv, MemoryTyped, Placed
        <3>3. dirty' \subseteq Pages /\ stuck' \in BOOLEAN
            BY <2>1 DEF MemoryInv, MemoryTyped
        <3> QED
            BY <1>1, <2>2, <2>7, <3>1, <3>2, <3>3 DEF MemoryInv, MemoryTyped, Placed, Span
    <2>10. BlocksDisjoint'
        <3>1. \A s \in InUse : Disjoint(s, d) /\ Disjoint(d, s)
            BY <2>2, <2>4 DEF Disjoint
        <3>2. /\ \A x, y \in blocks' : x # y => Disjoint(x, y)
              /\ \A c \in Arriving' : /\ \A x \in blocks' : Disjoint(c, x)
                                      /\ \A e \in Arriving' : c # e => Disjoint(c, e)
            BY <1>1, <2>5, <3>1 DEF MemoryInv, BlocksDisjoint, InUse
        <3>3. ASSUME NEW s \in InUse, NEW j \in DOMAIN pool_free' PROVE Disjoint(pool_free'[j], s)
            BY <2>2 DEF MemoryInv, BlocksDisjoint, Disjoint
        <3>4. ASSUME NEW j \in DOMAIN pool_free' PROVE Disjoint(pool_free'[j], d)
            BY <2>2, <2>4 DEF Disjoint
        <3>5. 1 .. pool_used \subseteq 1 .. pool_used'
            BY <2>2, <2>6
        <3>6. ASSUME NEW j \in DOMAIN pool_free' PROVE Span(pool_free'[j]) \subseteq 1 .. pool_used'
            BY <2>2, <3>5 DEF MemoryInv, BlocksDisjoint
        <3>7. \A x \in InUse' : IsInPool(x) => Span(x) \subseteq 1 .. pool_used'
            BY <2>2, <2>4, <2>5, <3>5 DEF MemoryInv, BlocksDisjoint
        <3>8. /\ \A j \in DOMAIN pool_free' :
                   /\ \A x \in InUse' : Disjoint(pool_free'[j], x)
                   /\ \A m \in DOMAIN pool_free' : j # m => Disjoint(pool_free'[j], pool_free'[m])
            BY <2>2, <2>5, <3>3, <3>4
        <3> QED
            BY <3>2, <3>6, <3>7, <3>8 DEF BlocksDisjoint, Disjoint, IsInPool, Span
    <2>11. WindowBacked'
        BY <2>2, <2>4, <2>5, <2>8, WindowIsNotPool DEF MemoryInv, WindowBacked, Span
    <2>12. PoolTouched'
        <3>1. \A p \in Pool : p <= pool_used' => Committed(p)'
            BY <2>2, <2>6, <2>8 DEF MemoryInv, PoolTouched
        <3>2. ASSUME NEW p \in Pool, NEW q \in Pool, Committed(p)', q < p PROVE Committed(q)'
            <4>1. CASE Committed(p)
                BY <2>8, <3>2, <4>1 DEF MemoryInv, PoolTouched
            <4>2. CASE p \in Span(r)
                <5>1. q <= pool_used'
                    BY <2>2, <2>6, <3>2, <4>2
                <5> QED
                    BY <3>1, <5>1
            <4> QED
                BY <2>8, <3>2, <4>1, <4>2
        <3>3. \A p \in dirty' \cap Pool : Committed(p)'
            BY <2>1, <2>8 DEF MemoryInv, PoolTouched
        <3> QED
            BY <3>1, <3>2, <3>3 DEF PoolTouched
    <2>13. MappedIsZero'
        <3>1. Span(r) \cap dirty' = {}
            <4>1. CASE IsCleared(n)
                BY <2>1, <4>1
            <4>2. CASE ~IsCleared(n)
                <5>1. Fitting(n) = {} /\ ~Committed(pool_used + 1)
                    BY <4>2 DEF IsCleared
                <5>2. r.base = pool_used + 1 /\ r.base \in Span(r)
                    BY <2>2, <5>1, RangeIsBlock
                <5>3. ASSUME NEW p \in Span(r), p \in dirty PROVE FALSE
                    <6>1. Committed(p) /\ p \in Pool /\ r.base \in Pool
                        BY <2>2, <5>2, <5>3 DEF MemoryInv, PoolTouched
                    <6>2. p >= r.base
                        BY <2>2 DEF Span, Ranges
                    <6>3. p = r.base \/ r.base < p
                        BY <2>2, <2>6, <6>1, <6>2 DEF Ranges
                    <6> QED
                        BY <5>1, <5>2, <6>1, <6>3 DEF MemoryInv, PoolTouched
                <5> QED
                    BY <2>1, <4>2, <5>3
            <4> QED
                BY <4>1, <4>2
        <3> QED
            BY <2>1, <2>4, <3>1 DEF MemoryInv, MappedIsZero, Span
    <2>14. HeldIsTracked'
        BY <1>1, <2>1, TrackedStays DEF MemoryInv
    <2>15. RacesMarked'
        <3>1. raced' \subseteq blocks' \cup { BlockOf(c) : c \in Arriving' } /\ \A x \in raced' : Span(x) \subseteq Window
            BY <1>1, <2>1, <2>5 DEF MemoryInv, RacesMarked
        <3>2. ASSUME NEW c \in pending', c.op = "unmap"
              PROVE  /\ \A s \in blocks' : BlockOf(c) = s => s \in raced'
                     /\ \A e \in Arriving' : BlockOf(c) = BlockOf(e) => BlockOf(e) \in raced'
            <4>1. c \in pending
                BY <2>1, <2>4, <3>2
            <4>2. Disjoint(c, d)
                BY <2>2, <2>4, <3>2, <4>1, WindowIsNotPool DEF MemoryInv, OutsidePool, Disjoint
            <4>3. BlockOf(c) # BlockOf(d)
                <5>1. c \in Calls /\ Span(BlockOf(c)) = Span(c) /\ c.base \in Span(c)
                    BY <4>1, RangeFacts DEF MemoryInv, MemoryTyped, Calls
                <5>2. Span(BlockOf(d)) = Span(d)
                    BY <2>2, <2>4, RangeIsBlock
                <5> QED
                    BY <4>2, <5>1, <5>2 DEF Disjoint
            <4> QED
                BY <1>1, <2>1, <2>5, <3>2, <4>1, <4>3 DEF MemoryInv, RacesMarked
        <3> QED
            BY <3>1, <3>2 DEF RacesMarked, Disjoint, Span, BlockOf, Block
    <2>16. OutsidePool'
        BY <1>1, <2>1, <2>4 DEF MemoryInv, OutsidePool
    <2>17. ChangesInBlocks'
        BY <1>1, <2>1, <2>4, ChangesStay DEF MemoryInv
    <2>18. PoolRegionsHeld'
        BY <1>1, PoolTableStays DEF MemoryInv
    <2> QED
        BY <2>9, <2>10, <2>11, <2>12, <2>13, <2>14, <2>15, <2>16, <2>17, <2>18 DEF MemoryInv
<1> QED
    BY <1>2, <1>3

LEMMA TrackRegionKeeps ==
    ASSUME MemoryAssumption, MemoryInv, NEW c, TrackRegion(c)
    PROVE  MemoryInv'
<1> DEFINE r == BlockOf(c)
           t == Region(c, c.prot, c.op # "reserve")
           e == [c EXCEPT !.op = "unmanage"]
<1>1. /\ c \in Arriving
      /\ regions' = regions \cup {t}
      /\ blocks' = blocks \cup {r}
      /\ pending' = (pending \ {c}) \cup IF c.op = "adopt" THEN {e} ELSE {}
      /\ UNCHANGED <<pool_used, pool_free, host, allocs, dirty, raced, stuck>>
    BY DEF TrackRegion, Arriving
<1>2. c \in pending /\ c \in Calls /\ Placed(c)
    BY <1>1 DEF Arriving, MemoryInv, MemoryTyped
<1>3. r \in Ranges /\ Span(r) = Span(c) /\ BlockOf(r) = r
    BY <1>2, RangeFacts DEF Calls
<1>4. t \in Regions /\ t.managed
    BY <1>2 DEF Region, Regions, Calls
<1>5. Span(t) = Span(c) /\ BlockOf(t) = r
    BY RegionFacts, Zenon
<1>6. e \in Calls /\ e.op = "unmanage" /\ Span(e) = Span(c)
    <2>1. e \in Calls /\ e.op = "unmanage" /\ e.base = c.base /\ e.size = c.size
        BY <1>2 DEF Calls, Ops
    <2> QED
        BY <2>1 DEF Span
<1> HIDE DEF r, t, e
<1>7. Arriving' = Arriving \ {c}
    BY <1>1, <1>6 DEF Arriving
<1>8. MemoryTyped'
    <2>1. regions' \subseteq Regions /\ \A x \in regions' : Placed(x)
        BY <1>1, <1>2, <1>4, <1>5 DEF MemoryInv, MemoryTyped, Placed
    <2>2. pending' \subseteq Calls /\ \A x \in pending' : Placed(x)
        BY <1>1, <1>2, <1>6 DEF MemoryInv, MemoryTyped, Placed
    <2>3. blocks' \subseteq Ranges /\ \A x \in blocks' : Placed(x)
        BY <1>1, <1>2, <1>3 DEF MemoryInv, MemoryTyped, Placed
    <2> QED
        BY <1>1, <2>1, <2>2, <2>3 DEF MemoryInv, MemoryTyped, Placed, Span
<1>9. \A x \in InUse' : x \in InUse \/ (x = r /\ c \in InUse)
    BY <1>1, <1>7 DEF InUse
<1>10. BlocksDisjoint'
    <2>1. \A x \in blocks : Disjoint(x, r) /\ Disjoint(r, x)
        BY <1>1, <1>3 DEF MemoryInv, BlocksDisjoint, Disjoint
    <2>2. \A x \in Arriving \ {c} : Disjoint(x, r) /\ Disjoint(r, x)
        BY <1>1, <1>3 DEF MemoryInv, BlocksDisjoint, Disjoint
    <2>3. \A i \in DOMAIN pool_free : \A x \in InUse' : Disjoint(pool_free[i], x)
        BY <1>3, <1>9 DEF MemoryInv, BlocksDisjoint, Disjoint
    <2>4. \A x \in InUse' : IsInPool(x) => Span(x) \subseteq 1 .. pool_used
        BY <1>3, <1>9 DEF MemoryInv, BlocksDisjoint, IsInPool
    <2> QED
        BY <1>1, <1>7, <2>1, <2>2, <2>3, <2>4 DEF MemoryInv, BlocksDisjoint, Disjoint, IsInPool, Span
<1>11. WindowBacked'
    BY <1>1, <1>3, <1>9 DEF MemoryInv, WindowBacked, Span
<1>12. PoolTouched'
    BY <1>1 DEF MemoryInv, PoolTouched, Committed
<1>13. MappedIsZero'
    <2>1. \A x \in pending' : x.op = "map" => x \in pending
        BY <1>1, <1>6
    <2> QED
        BY <1>1, <2>1, ZeroStays DEF MemoryInv
<1>14. HeldIsTracked'
    BY <1>1, <1>5 DEF MemoryInv, HeldIsTracked, BlockOf, Block
<1>15. RacesMarked'
    <2>1. raced' \subseteq blocks' \cup { BlockOf(x) : x \in Arriving' } /\ \A x \in raced' : Span(x) \subseteq Window
        BY <1>1, <1>7 DEF MemoryInv, RacesMarked, r
    <2>2. ASSUME NEW x \in pending', x.op = "unmap"
          PROVE  /\ \A s \in blocks' : BlockOf(x) = s => s \in raced'
                 /\ \A a \in Arriving' : BlockOf(x) = BlockOf(a) => BlockOf(a) \in raced'
        <3>1. x \in pending
            BY <1>1, <1>6, <2>2
        <3>2. BlockOf(x) = r => r \in raced
            BY <1>1, <1>3, <2>2, <3>1 DEF MemoryInv, RacesMarked, Disjoint, r
        <3> QED
            BY <1>1, <1>7, <2>2, <3>1, <3>2 DEF MemoryInv, RacesMarked
    <2> QED
        BY <2>1, <2>2 DEF RacesMarked, Disjoint, Span, BlockOf, Block
<1>16. OutsidePool'
    <2>1. c.op = "adopt" => Span(c) \subseteq Window
        BY <1>2 DEF MemoryInv, OutsidePool
    <2> QED
        BY <1>1, <1>4, <1>6, <2>1 DEF MemoryInv, OutsidePool
<1>17. ChangesInBlocks'
    BY <1>1, <1>6, ChangesStay DEF MemoryInv
<1>18. PoolRegionsHeld'
    BY <1>1, <1>5 DEF MemoryInv, PoolRegionsHeld, BlockOf, Block, Span
<1> QED
    BY <1>8, <1>10, <1>11, <1>12, <1>13, <1>14, <1>15, <1>16, <1>17, <1>18 DEF MemoryInv

-----------------------------------------------------------------------------
(* The invariant holds, and what it says. *)

LEMMA MemoryInitInv == MemoryAssumption /\ Init => MemoryInv
<1> SUFFICES ASSUME MemoryAssumption, Init PROVE MemoryInv
    OBVIOUS
<1>1. /\ regions = {} /\ pool_used = 0 /\ pool_free = <<>>
      /\ host = [p \in Pages |-> IF p \in Pool THEN "reserved" ELSE "free"]
      /\ dirty = {} /\ pending = {} /\ blocks = {} /\ raced = {} /\ stuck = FALSE
    BY DEF Init
<1>2. Arriving = {} /\ InUse = {}
    BY <1>1 DEF Arriving, InUse
<1>3. MemoryTyped
    <2>1. host \in [Pages -> HostStates]
        BY <1>1 DEF HostStates
    <2>2. pool_used \in 0 .. PoolSize
        BY <1>1 DEF MemoryAssumption
    <2>3. pool_free \in Seq(Ranges)
        BY <1>1
    <2> QED
        BY <1>1, <2>1, <2>2, <2>3 DEF MemoryTyped
<1>4. BlocksDisjoint /\ WindowBacked /\ MappedIsZero /\ HeldIsTracked /\ RacesMarked
    BY <1>1, <1>2 DEF BlocksDisjoint, WindowBacked, MappedIsZero, HeldIsTracked, RacesMarked
<1>5. OutsidePool /\ ChangesInBlocks /\ PoolRegionsHeld
    BY <1>1 DEF OutsidePool, ChangesInBlocks, PoolRegionsHeld
<1>6. PoolTouched
    BY <1>1 DEF PoolTouched, Committed, Prots, Pages, Pool
<1> QED
    BY <1>3, <1>4, <1>5, <1>6 DEF MemoryInv

LEMMA MemoryStutters == MemoryInv /\ UNCHANGED vars => MemoryInv'
<1> SUFFICES ASSUME MemoryInv, UNCHANGED vars PROVE MemoryInv'
    OBVIOUS
<1>1. UNCHANGED <<regions, pool_used, pool_free, host, dirty, pending, blocks, raced>> /\ stuck' \in BOOLEAN
    BY DEF vars, MemoryInv, MemoryTyped
<1> QED
    BY <1>1, OnlyStuck

LEMMA MemoryNextInv == MemoryAssumption /\ MemoryInv /\ Next => MemoryInv'
<1> SUFFICES ASSUME MemoryAssumption, MemoryInv, Next PROVE MemoryInv'
    OBVIOUS
<1>1. ASSUME NEW n \in BlockSizes, AllocateRange(n) \/ Reserve(n) \/ AdoptRange(n) \/ \E prot \in Prots : Map(n, prot)
      PROVE  MemoryInv'
    <2>1. CASE AllocateRange(n)
        BY <2>1, AllocateRangeKeeps
    <2>2. CASE Reserve(n)
        BY <2>2, HostAllocatesKeeps DEF Reserve, Rights
    <2>3. CASE AdoptRange(n)
        BY <2>3, HostAllocatesKeeps DEF AdoptRange, Rights, Prots
    <2>4. ASSUME NEW prot \in Prots, Map(n, prot) PROVE MemoryInv'
        BY <2>4, HostAllocatesKeeps, MapPoolKeeps DEF Map, Rights, Prots
    <2> QED
        BY <1>1, <2>1, <2>2, <2>3, <2>4
<1>2. ASSUME NEW c \in pending, \/ TrackRegion(c) \/ Unmanage(c) \/ UntrackRegion(c)
                                \/ RecordProtection(c) \/ MarkCommitted(c)
      PROVE  MemoryInv'
    BY <1>2, TrackRegionKeeps, UnmanageKeeps, UntrackRegionKeeps, RecordProtectionKeeps, MarkCommittedKeeps
<1>3. ASSUME NEW r \in blocks, Unmap(r) \/ ReleaseRange(r) \/ ForgetResource(r)
      PROVE  MemoryInv'
    BY <1>3, UnmapKeeps, ReleaseRangeKeeps, ForgetResourceKeeps
<1>4. ASSUME NEW b \in Pages, NEW n \in BlockSizes, NEW prot \in Prots,
             Protect(Block(b, n), prot) \/ Commit(Block(b, n), prot)
      PROVE  MemoryInv'
    BY <1>4, ProtectKeeps, CommitKeeps
<1>5. ASSUME NEW p \in Pages, CommitOnFault(p) \/ Store(p)
      PROVE  MemoryInv'
    BY <1>5, CommitOnFaultKeeps, StoreKeeps
<1> QED
    BY <1>1, <1>2, <1>3, <1>4, <1>5 DEF Next

\* What Query says of a page, from the table and from the host.
LEMMA QueryIsRight == MemoryAssumption /\ MemoryInv => QueryTellsHeldFromFree
<1> SUFFICES ASSUME MemoryAssumption, MemoryInv, NEW p \in Pages
             PROVE  /\ (\E r \in blocks : p \in Span(r)) => Query(p) # "not mapped"
                    /\ p \in Pool /\ pending = {} /\ Query(p) # "not mapped" => \E r \in blocks : p \in Span(r)
    BY DEF QueryTellsHeldFromFree
<1>1. RegionAt(p) # {} => (CHOOSE s \in RegionAt(p) : TRUE) \in RegionAt(p)
    OBVIOUS
<1>2. ASSUME NEW s \in RegionAt(p) PROVE s \in regions /\ s \in Regions /\ p \in Span(s) /\ s.prot # "not mapped"
    BY DEF RegionAt, MemoryInv, MemoryTyped, Regions, Rights, Prots
<1>3. ASSUME NEW r \in blocks, p \in Span(r) PROVE Query(p) # "not mapped"
    <2>4. CASE p \in Pool
        <3>1. r \notin raced
            BY <1>3, <2>4, WindowIsNotPool DEF MemoryInv, RacesMarked
        <3>2. PICK t \in regions : BlockOf(t) = r
            BY <3>1 DEF MemoryInv, HeldIsTracked
        <3>3. Span(t) = Span(r)
            BY <3>2, RangeFacts DEF MemoryInv, MemoryTyped, Regions
        <3>4. RegionAt(p) # {}
            BY <1>3, <3>3 DEF RegionAt
        <3> QED
            BY <1>1, <1>2, <2>4, <3>4 DEF Query
    <2>5. CASE p \notin Pool
        <3>1. p \in Window
            BY <2>5, WindowIsNotPool
        <3>2. host[p] # "free" /\ host[p] \in HostStates
            BY <1>3, <3>1 DEF MemoryInv, MemoryTyped, WindowBacked, InUse
        <3> QED
            BY <2>5, <3>2 DEF Query, HostStates
    <2> QED
        BY <2>4, <2>5
<1>4. ASSUME p \in Pool, Query(p) # "not mapped" PROVE \E r \in blocks : p \in Span(r)
    <2>1. RegionAt(p) # {}
        BY <1>4 DEF Query
    <2>2. PICK t \in regions : t \in Regions /\ p \in Span(t)
        BY <1>2, <2>1
    <2>3. Span(t) \subseteq Pool
        BY <1>4, <2>2, PlacedInWindow DEF MemoryInv, MemoryTyped
    <2>4. BlockOf(t) \in blocks /\ Span(BlockOf(t)) = Span(t)
        BY <2>2, <2>3, RangeFacts DEF MemoryInv, PoolRegionsHeld, Regions
    <2> QED
        BY <2>2, <2>4
<1> QED
    BY <1>3, <1>4

LEMMA MemoryProperties ==
    MemoryAssumption /\ MemoryInv => /\ TypeOK /\ BlocksDisjoint /\ MappedIsZero
                                     /\ HeldIsTracked /\ QueryTellsHeldFromFree
<1> SUFFICES ASSUME MemoryAssumption, MemoryInv
             PROVE  TypeOK /\ BlocksDisjoint /\ MappedIsZero /\ HeldIsTracked /\ QueryTellsHeldFromFree
    OBVIOUS
<1>1. \A r \in regions : Span(r) \subseteq Pages /\ r.prot \in Prots \cup {"none"}
    BY WindowIsNotPool DEF MemoryInv, MemoryTyped, Placed, Regions, Rights
<1>2. \A i \in DOMAIN pool_free : Span(pool_free[i]) \subseteq Pool
    <2>1. 1 .. pool_used \subseteq Pool
        BY DEF MemoryInv, MemoryTyped, MemoryAssumption, Pool
    <2> QED
        BY <2>1 DEF MemoryInv, BlocksDisjoint
<1>3. raced \subseteq blocks \cup { BlockOf(c) : c \in pending }
    BY DEF MemoryInv, RacesMarked, Arriving
<1>4. TypeOK
    BY <1>1, <1>2, <1>3 DEF MemoryInv, MemoryTyped, TypeOK, HostStates
<1> QED
    BY <1>4, QueryIsRight DEF MemoryInv

\* The guest memory manager hands nothing out twice, keeps its table and the host
\* in step, and gives zeroed memory: for any sizes and any number of calls under way.
THEOREM MemoryInvHolds ==
    ASSUME MemoryAssumption
    PROVE  Spec => []MemoryInv
<1>1. Init => MemoryInv
    BY MemoryInitInv
<1>2. MemoryInv /\ [Next]_vars => MemoryInv'
    BY MemoryNextInv, MemoryStutters
<1> QED
    BY <1>1, <1>2, PTL DEF Spec

-----------------------------------------------------------------------------
(* Direct memory. *)

Records == [offset : Nat, size : Nat \ {0}, free : BOOLEAN, boot : Nat]
HeldBlocks == [offset : Nat, size : Nat \ {0}, boot : Nat]
InPool(b) == b.offset + b.size <= PHYS_POOL_SIZE /\ b.boot <= boot
Current(b) == b.boot = boot
Carved(b) == b.offset + b.size <= g_phys_pool_offset /\ b.offset + b.size <= g_phys_pool_committed
Apart(b, d) == b.offset + b.size <= d.offset \/ d.offset + d.size <= b.offset
SameUnits(b, d) == b.offset = d.offset /\ b.size = d.size

DirectTyped ==
    /\ g_phys_pool_base \in BOOLEAN /\ boot \in Nat
    /\ g_phys_pool_offset \in 0 .. PHYS_POOL_SIZE
    /\ g_phys_pool_committed \in 0 .. Up(PHYS_POOL_SIZE, PHYS_COMMIT_CHUNK)
    /\ pages \in SUBSET PhysPages
    /\ g_phys_blocks \in Seq(Records) /\ \A i \in DOMAIN g_phys_blocks : InPool(g_phys_blocks[i])
    /\ direct \in Seq(HeldBlocks) /\ \A k \in DOMAIN direct : InPool(direct[k])

\* What was carved since the emulator started is below the offset and committed.
CarvedIsPlaced ==
    /\ PagesBelow(g_phys_pool_committed) \subseteq pages
    /\ \A i \in DOMAIN g_phys_blocks : Current(g_phys_blocks[i]) => Carved(g_phys_blocks[i])
    /\ \A k \in DOMAIN direct : Current(direct[k]) => Carved(direct[k])

\* A held block and a record are apart, or are the same block, which is not free then.
CarvedIsApart ==
    /\ \A i, j \in DOMAIN g_phys_blocks :
          i # j /\ Current(g_phys_blocks[i]) /\ Current(g_phys_blocks[j]) => Apart(g_phys_blocks[i], g_phys_blocks[j])
    /\ \A j, k \in DOMAIN direct :
          j # k /\ Current(direct[j]) /\ Current(direct[k]) => Apart(direct[j], direct[k])
    /\ \A k \in DOMAIN direct, i \in DOMAIN g_phys_blocks :
          Current(direct[k]) /\ Current(g_phys_blocks[i]) =>
              \/ Apart(direct[k], g_phys_blocks[i])
              \/ SameUnits(direct[k], g_phys_blocks[i]) /\ ~g_phys_blocks[i].free

\* Records from before a restart come first, and each block reused from one has one
\* at its offset: releasing it frees no record of a current block.
OldRecordsFirst ==
    /\ \A i, j \in DOMAIN g_phys_blocks : i <= j => g_phys_blocks[i].boot <= g_phys_blocks[j].boot
    /\ \A k \in DOMAIN direct : ~Current(direct[k]) =>
          \E i \in DOMAIN g_phys_blocks :
              g_phys_blocks[i].offset = direct[k].offset /\ ~Current(g_phys_blocks[i])

DirectInv == DirectTyped /\ CarvedIsPlaced /\ CarvedIsApart /\ OldRecordsFirst

-----------------------------------------------------------------------------
\* What rounding up does.
LEMMA UpAtLeast ==
    ASSUME NEW x \in Nat, NEW a \in Nat \ {0}
    PROVE  Up(x, a) \in Nat /\ x <= Up(x, a)
    BY SMT DEF Up

LEMMA UpGrows ==
    ASSUME NEW x \in Nat, NEW y \in Nat, NEW a \in Nat \ {0}, x <= y
    PROVE  Up(x, a) <= Up(y, a)
<1>1. (x + a - 1) \div a <= (y + a - 1) \div a
    BY SMT
<1>2. (x + a - 1) \div a \in Nat /\ (y + a - 1) \div a \in Nat
    BY SMT
<1>3. ASSUME NEW p \in Nat, NEW q \in Nat, p <= q
      PROVE  p * a <= q * a
    BY SMT, <1>3
<1> QED
    BY Zenon, <1>1, <1>2, <1>3 DEF Up

\* The pages of a block below the committed part are committed.
LEMMA PagesOfPlaced ==
    ASSUME DirectAssumption, NEW offset \in Nat, NEW size \in Nat \ {0}, NEW end \in Nat,
           offset + size <= PHYS_POOL_SIZE, offset + size <= end
    PROVE  PagesOf(offset, size) \subseteq PagesBelow(end)
    BY DEF DirectAssumption, PagesOf, PagesBelow, PhysPages, PageUnits

LEMMA PagesOfInPool ==
    ASSUME DirectAssumption, NEW offset \in Nat, NEW size \in Nat \ {0}, offset + size <= PHYS_POOL_SIZE
    PROVE  PagesOf(offset, size) \subseteq PhysPages
    BY DEF DirectAssumption, PagesOf, PhysPages, PageUnits

LEMMA RecordFacts ==
    ASSUME DirectTyped
    PROVE  /\ \A i \in DOMAIN g_phys_blocks : g_phys_blocks[i] \in Records /\ InPool(g_phys_blocks[i])
           /\ \A k \in DOMAIN direct : direct[k] \in HeldBlocks /\ InPool(direct[k])
    BY DEF DirectTyped

\* The counters and what the records hold are numbers.
LEMMA DirectNumbers ==
    ASSUME DirectAssumption, DirectInv
    PROVE  /\ g_phys_pool_offset \in Nat /\ g_phys_pool_committed \in Nat /\ boot \in Nat
           /\ \A i \in DOMAIN g_phys_blocks :
                 /\ g_phys_blocks[i].offset \in Nat /\ g_phys_blocks[i].size \in Nat \ {0}
                 /\ g_phys_blocks[i].boot \in Nat /\ g_phys_blocks[i].boot <= boot
                 /\ g_phys_blocks[i].offset + g_phys_blocks[i].size <= PHYS_POOL_SIZE
           /\ \A k \in DOMAIN direct :
                 /\ direct[k].offset \in Nat /\ direct[k].size \in Nat \ {0}
                 /\ direct[k].boot \in Nat /\ direct[k].boot <= boot
                 /\ direct[k].offset + direct[k].size <= PHYS_POOL_SIZE
<1>1. g_phys_pool_offset \in Nat /\ g_phys_pool_committed \in Nat /\ boot \in Nat
    BY UpAtLeast DEF DirectAssumption, DirectInv, DirectTyped
<1> QED
    BY <1>1, RecordFacts DEF DirectInv, Records, HeldBlocks, InPool

LEMMA DirectInitInv ==
    ASSUME DirectAssumption
    PROVE  DirectInit => DirectInv
<1> SUFFICES ASSUME DirectInit PROVE DirectInv
    OBVIOUS
<1>1. 0 \in 0 .. Up(PHYS_POOL_SIZE, PHYS_COMMIT_CHUNK)
    BY UpAtLeast DEF DirectAssumption
<1>2. PagesBelow(0) = {}
    BY DEF DirectAssumption, PagesBelow, PhysPages, PageUnits
<1>3. g_phys_blocks \in Seq(Records) /\ direct \in Seq(HeldBlocks) /\ DOMAIN g_phys_blocks = {} /\ DOMAIN direct = {}
    BY DEF DirectInit
<1>4. DirectTyped
    BY <1>1, <1>3 DEF DirectAssumption, DirectInit, DirectTyped
<1>5. CarvedIsPlaced /\ CarvedIsApart /\ OldRecordsFirst
    BY <1>2, <1>3 DEF DirectInit, CarvedIsPlaced, CarvedIsApart, OldRecordsFirst
<1> QED
    BY <1>4, <1>5 DEF DirectInv

-----------------------------------------------------------------------------
(* Carving a new block. *)

\* The chunks that are granted are committed, and go no further than needed.
LEMMA CommittedFurther ==
    ASSUME DirectAssumption, DirectInv, NEW end \in Nat, end <= PHYS_POOL_SIZE, EnsurePhysCommitted(end)
    PROVE  /\ g_phys_pool_committed' \in g_phys_pool_committed .. Up(PHYS_POOL_SIZE, PHYS_COMMIT_CHUNK)
           /\ pages \subseteq pages' /\ pages' \in SUBSET PhysPages
           /\ PagesBelow(g_phys_pool_committed') \subseteq pages'
<1>1. PICK upTo \in Granted(end) : /\ g_phys_pool_committed' = upTo
                                   /\ pages' = pages \cup PagesBelow(upTo)
    BY DEF EnsurePhysCommitted
<1>2. Up(end, PHYS_COMMIT_CHUNK) <= Up(PHYS_POOL_SIZE, PHYS_COMMIT_CHUNK)
    BY UpGrows DEF DirectAssumption
<1>3. Up(end, PHYS_COMMIT_CHUNK) \in Nat /\ Up(PHYS_POOL_SIZE, PHYS_COMMIT_CHUNK) \in Nat
    BY UpAtLeast DEF DirectAssumption
<1>4. upTo \in g_phys_pool_committed .. Up(PHYS_POOL_SIZE, PHYS_COMMIT_CHUNK)
    BY <1>2, <1>3 DEF Granted, AtLeast, DirectInv, DirectTyped
<1>5. PagesBelow(upTo) \subseteq PhysPages
    BY DEF PagesBelow
<1> QED
    BY <1>1, <1>4, <1>5 DEF DirectInv, DirectTyped

\* A new block is apart from all that were carved since the start.
LEMMA BumpKeepsDirectInv ==
    ASSUME DirectAssumption, DirectInv, NEW size \in Nat \ {0}, NEW align \in Nat \ {0}, NEW recorded \in BOOLEAN,
           Bump(size, align, recorded), UNCHANGED boot
    PROVE  DirectInv'
<1> DEFINE at == Up(g_phys_pool_offset, align)
           new == [offset |-> at, size |-> size, boot |-> boot]
           rec == [offset |-> at, size |-> size, free |-> FALSE, boot |-> boot]
<1>1. at \in Nat /\ g_phys_pool_offset <= at /\ at + size <= PHYS_POOL_SIZE
    <2>1. g_phys_pool_offset \in Nat
        BY DEF DirectInv, DirectTyped
    <2>2. at \in Nat /\ g_phys_pool_offset <= at
        BY <2>1, UpAtLeast
    <2>3. at + size <= PHYS_POOL_SIZE
        BY Zenon DEF Bump
    <2> QED
        BY <2>2, <2>3
<1>2. /\ g_phys_pool_committed' \in g_phys_pool_committed .. Up(PHYS_POOL_SIZE, PHYS_COMMIT_CHUNK)
      /\ pages' \in SUBSET PhysPages /\ PagesBelow(g_phys_pool_committed') \subseteq pages'
    <2>1. EnsurePhysCommitted(at + size)
        BY DEF Bump
    <2> QED
        BY <1>1, <2>1, CommittedFurther
<1>3. g_phys_pool_base' = TRUE /\ g_phys_pool_offset' = at + size /\ boot' = boot
    BY DEF Bump
<1>4. /\ g_phys_pool_offset \in Nat /\ g_phys_pool_committed \in Nat /\ boot \in Nat
      /\ g_phys_pool_committed' \in Nat
    BY <1>2, UpAtLeast DEF DirectAssumption, DirectInv, DirectTyped
<1>5. \A b \in Records \cup HeldBlocks : /\ Carved(b) => Carved(b)'
                                       /\ (Current(b)' <=> Current(b))
                                       /\ (InPool(b)' <=> InPool(b))
    BY <1>1, <1>2, <1>3, <1>4 DEF Carved, Current, InPool, Records, HeldBlocks
<1>6. CASE UNCHANGED <<g_phys_blocks, direct>>
    <2>1. DirectTyped'
        BY <1>1, <1>2, <1>3, <1>4, <1>5, <1>6 DEF DirectAssumption, DirectInv, DirectTyped
    <2>2. CarvedIsPlaced'
        BY <1>2, <1>5, <1>6, RecordFacts DEF DirectInv, CarvedIsPlaced
    <2>3. CarvedIsApart'
        BY <1>3, <1>6 DEF DirectInv, CarvedIsApart, Current
    <2>4. OldRecordsFirst'
        BY <1>3, <1>6 DEF DirectInv, OldRecordsFirst, Current
    <2> QED
        BY <2>1, <2>2, <2>3, <2>4 DEF DirectInv
<1>7. CASE /\ g_phys_pool_committed' >= at + size
           /\ g_phys_blocks' = IF recorded THEN Append(g_phys_blocks, rec) ELSE g_phys_blocks
           /\ direct' = Append(direct, new)
    <2>1. new \in HeldBlocks /\ rec \in Records /\ InPool(new) /\ InPool(rec) /\ Current(new) /\ Current(rec)
        BY <1>1, <1>4 DEF HeldBlocks, Records, InPool, Current
    <2>2. \A b \in {new, rec} : /\ b.offset + b.size <= g_phys_pool_offset'
                              /\ b.offset + b.size <= g_phys_pool_committed'
        BY <1>1, <1>3, <1>4, <1>7
    <2>3. \A b \in Records \cup HeldBlocks : Carved(b) => /\ Apart(b, new) /\ Apart(new, b)
                                                      /\ Apart(b, rec) /\ Apart(rec, b)
        BY <1>1, <1>4 DEF Carved, Apart, Records, HeldBlocks
    <2>4. SameUnits(new, rec) /\ ~rec.free
        BY DEF SameUnits
    <2>5. /\ direct' \in Seq(HeldBlocks) /\ DOMAIN direct' = DOMAIN direct \cup {Len(direct) + 1}
          /\ \A k \in DOMAIN direct : direct'[k] = direct[k]
          /\ direct'[Len(direct) + 1] = new /\ Len(direct) + 1 \notin DOMAIN direct
        BY <1>7, <2>1 DEF DirectInv, DirectTyped
    <2>6. /\ g_phys_pool_base' \in BOOLEAN /\ boot' \in Nat
          /\ g_phys_pool_offset' \in 0 .. PHYS_POOL_SIZE
          /\ g_phys_pool_committed' \in 0 .. Up(PHYS_POOL_SIZE, PHYS_COMMIT_CHUNK)
          /\ pages' \in SUBSET PhysPages
        BY <1>1, <1>2, <1>3, <1>4, <1>5 DEF DirectAssumption, DirectInv, DirectTyped
    <2>7. CASE recorded
        <3>1. /\ g_phys_blocks' \in Seq(Records)
              /\ DOMAIN g_phys_blocks' = DOMAIN g_phys_blocks \cup {Len(g_phys_blocks) + 1}
              /\ \A i \in DOMAIN g_phys_blocks : g_phys_blocks'[i] = g_phys_blocks[i] /\ i \in Nat /\ i < Len(g_phys_blocks) + 1
              /\ g_phys_blocks'[Len(g_phys_blocks) + 1] = rec /\ Len(g_phys_blocks) + 1 \notin DOMAIN g_phys_blocks
            BY <1>7, <2>1, <2>7 DEF DirectInv, DirectTyped
        <3> HIDE DEF new, rec
        <3>2. DirectTyped'
            <4>1. \A i \in DOMAIN g_phys_blocks' : InPool(g_phys_blocks'[i])
                BY <2>1, <3>1, RecordFacts DEF DirectInv
            <4>2. \A k \in DOMAIN direct' : InPool(direct'[k])
                BY <2>1, <2>5, RecordFacts DEF DirectInv
            <4>3. (\A i \in DOMAIN g_phys_blocks : InPool(g_phys_blocks[i]))'
                BY <1>3, <4>1 DEF InPool
            <4>4. (\A k \in DOMAIN direct : InPool(direct[k]))'
                BY <1>3, <4>2 DEF InPool
            <4>5. (g_phys_blocks \in Seq(Records))'
                BY <3>1 DEF Records
            <4>6. (direct \in Seq(HeldBlocks))'
                BY <2>5 DEF HeldBlocks
            <4> QED
                BY <2>6, <4>3, <4>4, <4>5, <4>6, Zenon DEF DirectTyped
        <3>3. CarvedIsPlaced'
            BY <1>2, <1>5, <2>2, <2>5, <3>1, RecordFacts DEF DirectInv, CarvedIsPlaced, Carved
        <3>4. CarvedIsApart'
            BY <1>5, <2>1, <2>3, <2>4, <2>5, <3>1, RecordFacts DEF DirectInv, CarvedIsApart, CarvedIsPlaced
        <3>5. OldRecordsFirst'
            <4>1. \A i \in DOMAIN g_phys_blocks : g_phys_blocks[i].boot <= boot
                BY RecordFacts DEF DirectInv, InPool
            <4>2. rec.boot = boot
                BY DEF rec
            <4> QED
                BY <1>3, <1>4, <1>5, <2>1, <2>5, <3>1, <4>1, <4>2, RecordFacts DEF DirectInv, OldRecordsFirst
        <3> QED
            BY <3>2, <3>3, <3>4, <3>5 DEF DirectInv
    <2>8. CASE ~recorded
        <3>1. g_phys_blocks' = g_phys_blocks
            BY <1>7, <2>8
        <3> HIDE DEF new, rec
        <3>2. DirectTyped'
            <4>1. \A i \in DOMAIN g_phys_blocks' : InPool(g_phys_blocks'[i])
                BY <2>1, <3>1, RecordFacts DEF DirectInv
            <4>2. \A k \in DOMAIN direct' : InPool(direct'[k])
                BY <2>1, <2>5, RecordFacts DEF DirectInv
            <4>3. (\A i \in DOMAIN g_phys_blocks : InPool(g_phys_blocks[i]))'
                BY <1>3, <4>1 DEF InPool
            <4>4. (\A k \in DOMAIN direct : InPool(direct[k]))'
                BY <1>3, <4>2 DEF InPool
            <4>5. (g_phys_blocks \in Seq(Records))'
                BY <3>1 DEF DirectInv, DirectTyped, Records
            <4>6. (direct \in Seq(HeldBlocks))'
                BY <2>5 DEF HeldBlocks
            <4> QED
                BY <2>6, <4>3, <4>4, <4>5, <4>6, Zenon DEF DirectTyped
        <3>3. CarvedIsPlaced'
            BY <1>2, <1>5, <2>2, <2>5, <3>1, RecordFacts DEF DirectInv, CarvedIsPlaced, Carved
        <3>4. CarvedIsApart'
            BY <1>5, <2>1, <2>3, <2>4, <2>5, <3>1, RecordFacts DEF DirectInv, CarvedIsApart, CarvedIsPlaced
        <3>5. OldRecordsFirst'
            BY <1>3, <1>4, <1>5, <2>1, <2>5, <3>1, RecordFacts DEF DirectInv, OldRecordsFirst
        <3> QED
            BY <3>2, <3>3, <3>4, <3>5 DEF DirectInv
    <2> QED
        BY <2>7, <2>8
<1> QED
    BY <1>3, <1>4, <1>1, <1>6, <1>7 DEF Bump, Hand

-----------------------------------------------------------------------------
(* The calls. *)

\* A record that is free and of this start is apart from all that is held, and
\* when it is reused nothing else has its place.
LEMMA ReuseKeepsDirectInv ==
    ASSUME DirectInv, NEW i \in DOMAIN g_phys_blocks, g_phys_blocks[i].free, Reuse(i), g_phys_pool_base' = TRUE,
           UNCHANGED <<g_phys_pool_offset, g_phys_pool_committed, pages, boot>>
    PROVE  DirectInv'
<1> DEFINE b == g_phys_blocks[i]
           new == [offset |-> b.offset, size |-> b.size, boot |-> b.boot]
           rec == [b EXCEPT !.free = FALSE]
<1>1. b \in Records /\ InPool(b)
    BY RecordFacts DEF DirectInv
<1>2. /\ new \in HeldBlocks /\ rec \in Records /\ InPool(new) /\ InPool(rec)
      /\ (Current(new) <=> Current(b)) /\ (Current(rec) <=> Current(b))
      /\ Carved(b) => Carved(new) /\ Carved(rec)
    BY <1>1 DEF HeldBlocks, Records, InPool, Current, Carved
<1>3. \A d : /\ Apart(b, d) => Apart(new, d) /\ Apart(rec, d)
             /\ Apart(d, b) => Apart(d, new) /\ Apart(d, rec)
    BY <1>1 DEF Apart, Records
<1>4. SameUnits(new, rec) /\ ~rec.free /\ rec.boot = b.boot /\ rec.offset = b.offset /\ new.offset = b.offset
    BY <1>1 DEF SameUnits, Records
<1>5. /\ direct' \in Seq(HeldBlocks) /\ DOMAIN direct' = DOMAIN direct \cup {Len(direct) + 1}
      /\ \A k \in DOMAIN direct : direct'[k] = direct[k]
      /\ direct'[Len(direct) + 1] = new /\ Len(direct) + 1 \notin DOMAIN direct
    BY <1>2 DEF DirectInv, DirectTyped, Reuse, Hand
<1>6. /\ g_phys_blocks' \in Seq(Records) /\ DOMAIN g_phys_blocks' = DOMAIN g_phys_blocks
      /\ g_phys_blocks'[i] = rec /\ \A j \in DOMAIN g_phys_blocks \ {i} : g_phys_blocks'[j] = g_phys_blocks[j]
    BY <1>2 DEF DirectInv, DirectTyped, Reuse
<1>7. \A d \in Records \cup HeldBlocks : (Carved(d)' <=> Carved(d)) /\ (Current(d)' <=> Current(d)) /\ (InPool(d)' <=> InPool(d))
    BY DEF Carved, Current, InPool
<1>8. \A j \in DOMAIN g_phys_blocks \ {i} :
          Current(b) /\ Current(g_phys_blocks[j]) => Apart(b, g_phys_blocks[j]) /\ Apart(g_phys_blocks[j], b)
    BY DEF DirectInv, CarvedIsApart
<1>9. \A k \in DOMAIN direct : Current(b) /\ Current(direct[k]) => Apart(direct[k], b)
    BY DEF DirectInv, CarvedIsApart
<1>10. \A d, e : Apart(d, e) <=> Apart(e, d)
    BY DEF Apart
<1>11. \A j \in DOMAIN g_phys_blocks : g_phys_blocks'[j].boot = g_phys_blocks[j].boot /\ g_phys_blocks'[j].offset = g_phys_blocks[j].offset
    BY <1>4, <1>6
<1> HIDE DEF new, rec
<1>12. DirectTyped'
    BY <1>2, <1>5, <1>6, <1>7, RecordFacts DEF DirectInv, DirectTyped
<1>13. CarvedIsPlaced'
    BY <1>2, <1>5, <1>6, <1>7, RecordFacts DEF DirectInv, CarvedIsPlaced
<1>14. CarvedIsApart'
    <2>1. \A j, k \in DOMAIN g_phys_blocks' : j # k /\ Current(g_phys_blocks[j])' /\ Current(g_phys_blocks[k])'
              => Apart(g_phys_blocks'[j], g_phys_blocks'[k])
        BY <1>2, <1>3, <1>6, <1>7, <1>8, RecordFacts DEF DirectInv, CarvedIsApart
    <2>2. \A j, k \in DOMAIN direct' : j # k /\ Current(direct[j])' /\ Current(direct[k])'
              => Apart(direct'[j], direct'[k])
        BY <1>2, <1>3, <1>5, <1>7, <1>9, <1>10, RecordFacts DEF DirectInv, CarvedIsApart
    <2>3. ASSUME NEW k \in DOMAIN direct', NEW j \in DOMAIN g_phys_blocks',
                 Current(direct[k])', Current(g_phys_blocks[j])'
          PROVE  \/ Apart(direct'[k], g_phys_blocks'[j])
                 \/ SameUnits(direct'[k], g_phys_blocks'[j]) /\ ~g_phys_blocks'[j].free
        <3>1. CASE k \in DOMAIN direct /\ j # i
            BY <1>5, <1>6, <1>7, <2>3, <3>1, RecordFacts DEF DirectInv, CarvedIsApart
        <3>2. CASE k \in DOMAIN direct /\ j = i
            BY <1>2, <1>3, <1>5, <1>6, <1>7, <1>9, <2>3, <3>2, RecordFacts DEF DirectInv
        <3>3. CASE k \notin DOMAIN direct /\ j # i
            BY <1>2, <1>3, <1>5, <1>6, <1>7, <1>8, <2>3, <3>3, RecordFacts DEF DirectInv
        <3>4. CASE k \notin DOMAIN direct /\ j = i
            BY <1>4, <1>5, <1>6, <3>4
        <3> QED
            BY <3>1, <3>2, <3>3, <3>4
    <2> QED
        BY <2>1, <2>2, <2>3 DEF CarvedIsApart, Apart, SameUnits
<1>15. OldRecordsFirst'
    <2>1. \A j, k \in DOMAIN g_phys_blocks' : j <= k => g_phys_blocks'[j].boot <= g_phys_blocks'[k].boot
        BY <1>6, <1>11 DEF DirectInv, OldRecordsFirst
    <2>2. \A j \in DOMAIN g_phys_blocks : Current(g_phys_blocks[j])' <=> Current(g_phys_blocks[j])
        BY <1>11 DEF Current
    <2>3. ASSUME NEW k \in DOMAIN direct', ~Current(direct[k])'
          PROVE  \E j \in DOMAIN g_phys_blocks' :
                    g_phys_blocks'[j].offset = direct'[k].offset /\ ~Current(g_phys_blocks[j])'
        <3>1. CASE k \in DOMAIN direct
            BY <1>5, <1>6, <1>7, <1>11, <2>2, <2>3, <3>1, RecordFacts DEF DirectInv, OldRecordsFirst
        <3>2. CASE k \notin DOMAIN direct
            BY <1>2, <1>4, <1>5, <1>6, <1>7, <2>2, <2>3, <3>2
        <3> QED
            BY <3>1, <3>2
    <2> QED
        BY <2>1, <2>3 DEF OldRecordsFirst
<1> QED
    BY <1>12, <1>13, <1>14, <1>15 DEF DirectInv

\* The first of a set of positions.
LEMMA LeastPosition ==
    ASSUME NEW S \in SUBSET Nat, S # {}
    PROVE  LET i == CHOOSE i \in S : \A j \in S : i <= j IN i \in S /\ \A j \in S : i <= j
<1>1. PICK i \in S : \A j \in S : ~ (<<j, i>> \in OpToRel(<, Nat))
    BY NatLessThanWellFounded, WFMin
<1>2. \A j \in S : j \in Nat /\ i \in Nat /\ ~ (j < i)
    BY <1>1 DEF OpToRel
<1>3. \A j \in S : i <= j
    BY <1>2
<1> QED
    BY <1>3

LEMMA AllocateKeepsDirectInv ==
    ASSUME DirectAssumption, DirectInv, NEW length \in DirectSizes, NEW alignment \in DirectAligns,
           SceKernelAllocateDirectMemory(length, alignment)
    PROVE  DirectInv'
<1> DEFINE align == AtLeast(alignment, PageUnits)
           size == Up(AtLeast(length, PageUnits), align)
           fits == Reusable(size, align)
<1>1. align \in Nat \ {0} /\ AtLeast(length, PageUnits) \in Nat \ {0}
    BY DEF DirectAssumption, AtLeast, PageUnits
<1>2. size \in Nat \ {0}
    BY <1>1, UpAtLeast
<1>3. fits \in SUBSET DOMAIN g_phys_blocks /\ fits \in SUBSET Nat /\ \A i \in fits : g_phys_blocks[i].free
    BY DEF Reusable, DirectInv, DirectTyped
<1> HIDE DEF align, size, fits
<1>4. CASE fits # {}
    <2> DEFINE i == CHOOSE i \in fits : \A j \in fits : i <= j
    <2>1. i \in fits
        BY <1>3, <1>4, LeastPosition
    <2>2. Reuse(i) /\ g_phys_pool_base' = TRUE /\ UNCHANGED <<g_phys_pool_offset, g_phys_pool_committed, pages, boot>>
        BY <1>4 DEF SceKernelAllocateDirectMemory, fits, size, align
    <2> HIDE DEF i
    <2> QED
        BY <1>3, <2>1, <2>2, ReuseKeepsDirectInv
<1>5. CASE fits = {}
    <2>1. Bump(size, align, TRUE) /\ UNCHANGED boot
        BY <1>5 DEF SceKernelAllocateDirectMemory, fits, size, align
    <2> QED
        BY <1>1, <1>2, <2>1, BumpKeepsDirectInv
<1> QED
    BY <1>4, <1>5

LEMMA AllocateMainKeepsDirectInv ==
    ASSUME DirectAssumption, DirectInv, NEW size \in DirectSizes, NEW alignment \in DirectAligns,
           SceKernelAllocateMainDirectMemory(size, alignment)
    PROVE  DirectInv'
<1>1. AtLeast(alignment, PageUnits) \in Nat \ {0} /\ size \in Nat \ {0}
    BY DEF DirectAssumption, AtLeast, PageUnits, SceKernelAllocateMainDirectMemory
<1>2. Bump(size, AtLeast(alignment, PageUnits), FALSE) /\ UNCHANGED boot
    BY DEF SceKernelAllocateMainDirectMemory
<1> QED
    BY <1>1, <1>2, BumpKeepsDirectInv

\* Releasing a block frees no record of another block that is held.
LEMMA ReleaseKeepsDirectInv ==
    ASSUME DirectAssumption, DirectInv, NEW k \in DOMAIN direct, SceKernelReleaseDirectMemory(k)
    PROVE  DirectInv'
<1> DEFINE hits == { i \in DOMAIN g_phys_blocks : g_phys_blocks[i].offset = direct[k].offset }
           hit == CHOOSE i \in hits : \A j \in hits : i <= j
           Was(j) == IF j < k THEN j ELSE j + 1
           Freed(i) == hits # {} /\ i = hit
<1>1. direct' = RemoveAt(direct, k) /\ UNCHANGED <<g_phys_pool_base, g_phys_pool_offset, g_phys_pool_committed, pages, boot>>
    BY DEF SceKernelReleaseDirectMemory
<1>2. g_phys_blocks' = IF hits = {} THEN g_phys_blocks ELSE [g_phys_blocks EXCEPT ![hit].free = TRUE]
    BY DEF SceKernelReleaseDirectMemory
<1>3. /\ direct' \in Seq(HeldBlocks)
      /\ \A j \in DOMAIN direct' : Was(j) \in DOMAIN direct \ {k} /\ direct'[j] = direct[Was(j)]
      /\ \A i, j \in DOMAIN direct' : Was(i) = Was(j) => i = j
    <2>1. direct \in Seq(HeldBlocks) /\ k \in 1 .. Len(direct) /\ DOMAIN direct = 1 .. Len(direct) /\ Len(direct) \in Nat
        BY DEF DirectInv, DirectTyped
    <2>2. /\ RemoveAt(direct, k) \in Seq(HeldBlocks)
          /\ Len(RemoveAt(direct, k)) = Len(direct) - 1
          /\ \A j \in 1 .. Len(direct) - 1 :
                RemoveAt(direct, k)[j] = IF j < k THEN direct[j] ELSE direct[j + 1]
        BY <2>1, RemoveAtLemma
    <2>3. direct' \in Seq(HeldBlocks) /\ DOMAIN direct' = 1 .. Len(direct) - 1
        BY <1>1, <2>2
    <2>4. \A j \in DOMAIN direct' : Was(j) \in DOMAIN direct \ {k} /\ direct'[j] = direct[Was(j)]
        BY <1>1, <2>1, <2>2, <2>3
    <2> QED
        BY <2>1, <2>3, <2>4
<1>4. hits # {} => hit \in hits /\ \A j \in hits : hit <= j
    <2>1. hits \in SUBSET Nat
        BY DEF DirectInv, DirectTyped
    <2> QED
        BY <2>1, LeastPosition
<1>5. /\ g_phys_blocks' \in Seq(Records) /\ DOMAIN g_phys_blocks' = DOMAIN g_phys_blocks
      /\ \A i \in DOMAIN g_phys_blocks :
            /\ g_phys_blocks'[i].offset = g_phys_blocks[i].offset /\ g_phys_blocks'[i].size = g_phys_blocks[i].size
            /\ g_phys_blocks'[i].boot = g_phys_blocks[i].boot
            /\ ~Freed(i) => g_phys_blocks'[i].free = g_phys_blocks[i].free
    <2>1. g_phys_blocks \in Seq(Records)
        BY DEF DirectInv, DirectTyped
    <2>2. CASE hits = {}
        BY <1>2, <2>1, <2>2
    <2>3. CASE hits # {}
        <3>1. hit \in DOMAIN g_phys_blocks /\ g_phys_blocks' = [g_phys_blocks EXCEPT ![hit].free = TRUE]
            BY <1>2, <1>4, <2>3
        <3>2. \A i \in DOMAIN g_phys_blocks : g_phys_blocks[i] \in Records
            BY <2>1
        <3> HIDE DEF hit, hits
        <3>3. \A i \in DOMAIN g_phys_blocks :
                 /\ g_phys_blocks'[i] \in Records
                 /\ g_phys_blocks'[i].offset = g_phys_blocks[i].offset /\ g_phys_blocks'[i].size = g_phys_blocks[i].size
                 /\ g_phys_blocks'[i].boot = g_phys_blocks[i].boot
                 /\ i # hit => g_phys_blocks'[i] = g_phys_blocks[i]
            BY <3>1, <3>2 DEF Records
        <3>4. g_phys_blocks' \in Seq(Records) /\ DOMAIN g_phys_blocks' = DOMAIN g_phys_blocks
            <4>1. [g_phys_blocks[hit] EXCEPT !.free = TRUE] \in Records
                BY <3>1, <3>2 DEF Records
            <4> QED
                BY <2>1, <3>1, <4>1
        <3> QED
            BY <2>3, <3>3, <3>4
    <2> QED
        BY <2>2, <2>3
\* The record that is freed is not one of another held block.
<1>6. ASSUME NEW i \in DOMAIN g_phys_blocks, Freed(i), NEW j \in DOMAIN direct \ {k},
             Current(direct[j]), Current(g_phys_blocks[i])
      PROVE  Apart(direct[j], g_phys_blocks[i])
    <2>1. g_phys_blocks[i].offset = direct[k].offset
        BY <1>4, <1>6
    <2>2. Current(direct[k])
        <3>1. SUFFICES ASSUME ~Current(direct[k]) PROVE FALSE
            OBVIOUS
        <3>2. PICK n \in DOMAIN g_phys_blocks : g_phys_blocks[n].offset = direct[k].offset /\ ~Current(g_phys_blocks[n])
            BY <3>1 DEF DirectInv, OldRecordsFirst
        <3>3. i <= n
            BY <1>4, <1>6, <3>2
        <3>4. g_phys_blocks[i].boot <= g_phys_blocks[n].boot
            BY <3>3 DEF DirectInv, OldRecordsFirst
        <3> QED
            BY <1>6, <3>2, <3>4, DirectNumbers DEF Current
    <2>3. ~Apart(direct[k], g_phys_blocks[i])
        BY <2>1, RecordFacts DEF DirectInv, Apart, Records, HeldBlocks
    <2>4. SameUnits(direct[k], g_phys_blocks[i])
        BY <1>6, <2>2, <2>3 DEF DirectInv, CarvedIsApart
    <2>5. Apart(direct[j], direct[k])
        BY <1>6, <2>2 DEF DirectInv, CarvedIsApart
    <2> QED
        BY <2>4, <2>5 DEF Apart, SameUnits
<1> HIDE DEF hits, hit, Was, Freed
<1>7. DirectTyped'
    BY <1>1, <1>3, <1>5, RecordFacts DEF DirectInv, DirectTyped, InPool
<1>8. CarvedIsPlaced'
    BY <1>1, <1>3, <1>5 DEF DirectInv, CarvedIsPlaced, Carved, Current
<1>9. CarvedIsApart'
    <2>1. \A i, j \in DOMAIN g_phys_blocks' : i # j /\ Current(g_phys_blocks[i])' /\ Current(g_phys_blocks[j])'
              => Apart(g_phys_blocks[i], g_phys_blocks[j])'
        BY <1>1, <1>5 DEF DirectInv, CarvedIsApart, Current, Apart
    <2>2. \A i, j \in DOMAIN direct' : i # j /\ Current(direct[i])' /\ Current(direct[j])'
              => Apart(direct[i], direct[j])'
        BY <1>1, <1>3 DEF DirectInv, CarvedIsApart, Current
    <2>3. ASSUME NEW j \in DOMAIN direct', NEW i \in DOMAIN g_phys_blocks', Current(direct[j])', Current(g_phys_blocks[i])'
          PROVE  \/ Apart(direct[j], g_phys_blocks[i])'
                 \/ SameUnits(direct[j], g_phys_blocks[i])' /\ ~g_phys_blocks'[i].free
        <3>1. Current(direct[Was(j)]) /\ Current(g_phys_blocks[i])
            BY <1>1, <1>3, <1>5, <2>3 DEF Current
        <3>2. CASE Freed(i)
            BY <1>3, <1>5, <1>6, <2>3, <3>1, <3>2 DEF Apart
        <3>3. CASE ~Freed(i)
            BY <1>3, <1>5, <2>3, <3>1, <3>3 DEF DirectInv, CarvedIsApart, Apart, SameUnits
        <3> QED
            BY <3>2, <3>3
    <2> QED
        BY <2>1, <2>2, <2>3 DEF CarvedIsApart
<1>10. OldRecordsFirst'
    BY <1>1, <1>3, <1>5 DEF DirectInv, OldRecordsFirst, Current
<1> QED
    BY <1>7, <1>8, <1>9, <1>10 DEF DirectInv

\* Mappings and faults commit pages in the pool and change nothing else.
LEMMA MorePages ==
    ASSUME DirectInv, NEW S \in SUBSET PhysPages, pages' = pages \cup S,
           UNCHANGED <<g_phys_pool_base, g_phys_pool_offset, g_phys_pool_committed, g_phys_blocks, direct, boot>>
    PROVE  DirectInv'
<1>1. DirectTyped'
    BY DEF DirectInv, DirectTyped, InPool
<1>2. CarvedIsPlaced'
    BY DEF DirectInv, CarvedIsPlaced, Carved, Current
<1>3. CarvedIsApart' /\ OldRecordsFirst'
    BY DEF DirectInv, CarvedIsApart, OldRecordsFirst, Current
<1> QED
    BY <1>1, <1>2, <1>3 DEF DirectInv

LEMMA CommitsKeepDirectInv ==
    ASSUME DirectAssumption, DirectInv, NEW k \in DOMAIN direct, MapDirectMemoryCore(k) \/ CommitPhysPool(k)
    PROVE  DirectInv'
<1>1. PagesOf(direct[k].offset, direct[k].size) \subseteq PhysPages
    <2>1. /\ direct[k].offset \in Nat /\ direct[k].size \in Nat \ {0}
          /\ direct[k].offset + direct[k].size <= PHYS_POOL_SIZE
        BY RecordFacts DEF DirectInv, HeldBlocks, InPool
    <2> QED
        BY <2>1, PagesOfInPool
<1>2. CASE MapDirectMemoryCore(k)
    BY <1>1, <1>2, MorePages DEF MapDirectMemoryCore
<1>3. CASE CommitPhysPool(k)
    <2>1. PICK p \in PagesOf(direct[k].offset, direct[k].size) \ pages : pages' = pages \cup {p}
        BY <1>3 DEF CommitPhysPool
    <2>2. {p} \in SUBSET PhysPages
        BY <1>1
    <2> QED
        BY <1>3, <2>1, <2>2, MorePages DEF CommitPhysPool
<1> QED
    BY <1>2, <1>3

\* After a restart no record is of this start.
LEMMA ResetKeepsDirectInv ==
    ASSUME DirectAssumption, DirectInv, ResetPhysPool
    PROVE  DirectInv'
<1>1. \A i \in DOMAIN g_phys_blocks : g_phys_blocks[i].boot <= boot' /\ g_phys_blocks[i].boot # boot'
    BY DirectNumbers DEF ResetPhysPool
<1>2. 0 \in 0 .. Up(PHYS_POOL_SIZE, PHYS_COMMIT_CHUNK)
    BY UpAtLeast DEF DirectAssumption
<1>3. PagesBelow(0) = {}
    BY DEF DirectAssumption, PagesBelow, PhysPages, PageUnits
<1>4. direct' \in Seq(HeldBlocks) /\ DOMAIN direct' = {}
    BY DEF ResetPhysPool
<1>5. DirectTyped'
    <2>1. boot' \in Nat
        BY DirectNumbers DEF ResetPhysPool
    <2>2. \A i \in DOMAIN g_phys_blocks' : InPool(g_phys_blocks[i])'
        BY <1>1, DirectNumbers DEF InPool, ResetPhysPool
    <2>3. g_phys_blocks' \in Seq(Records)
        BY DEF DirectInv, DirectTyped, ResetPhysPool
    <2> QED
        BY <1>2, <1>4, <2>1, <2>2, <2>3 DEF DirectAssumption, DirectTyped, ResetPhysPool
<1>6. CarvedIsPlaced'
    BY <1>1, <1>3, <1>4 DEF CarvedIsPlaced, Current, ResetPhysPool
<1>7. CarvedIsApart'
    BY <1>1, <1>4 DEF CarvedIsApart, Current, ResetPhysPool
<1>8. OldRecordsFirst'
    BY <1>4 DEF DirectInv, OldRecordsFirst, ResetPhysPool
<1> QED
    BY <1>5, <1>6, <1>7, <1>8 DEF DirectInv

LEMMA DirectStep ==
    ASSUME DirectAssumption
    PROVE  DirectInv /\ (DirectNext \/ UNCHANGED directVars) => DirectInv'
<1>1. ASSUME DirectInv, UNCHANGED directVars PROVE DirectInv'
    <2>1. pages' = pages \cup {} /\ UNCHANGED <<g_phys_pool_base, g_phys_pool_offset, g_phys_pool_committed,
                                                g_phys_blocks, direct, boot>>
        BY <1>1 DEF directVars
    <2> QED
        BY <1>1, <2>1, {} \in SUBSET PhysPages, MorePages
<1>2. ASSUME DirectInv, DirectNext PROVE DirectInv'
    BY <1>2, AllocateKeepsDirectInv, AllocateMainKeepsDirectInv, ReleaseKeepsDirectInv, CommitsKeepDirectInv,
       ResetKeepsDirectInv DEF DirectNext
<1> QED
    BY <1>1, <1>2

LEMMA DirectProperties ==
    ASSUME DirectAssumption
    PROVE  DirectInv => DirectTypeOK /\ DirectBlocksApart /\ DirectBlocksCommitted
<1> SUFFICES ASSUME DirectInv PROVE DirectTypeOK /\ DirectBlocksApart /\ DirectBlocksCommitted
    OBVIOUS
<1>1. \A k \in DOMAIN direct : /\ direct[k].offset \in Nat /\ direct[k].size \in Nat \ {0}
                               /\ direct[k].offset + direct[k].size <= PHYS_POOL_SIZE
    BY RecordFacts DEF DirectInv, HeldBlocks, InPool
<1>2. \A k \in DOMAIN direct : Units(direct[k]) \subseteq Offsets
    BY <1>1 DEF DirectAssumption, Units, Offsets
<1>3. DirectTypeOK
    BY <1>2 DEF DirectTypeOK, DirectInv, DirectTyped
<1>4. \A j, k \in DOMAIN direct : Apart(direct[j], direct[k]) => Units(direct[j]) \cap Units(direct[k]) = {}
    BY <1>1 DEF Apart, Units
<1>5. DirectBlocksApart
    BY <1>4 DEF DirectBlocksApart, DirectInv, CarvedIsApart, Current
<1>6. ASSUME NEW k \in DOMAIN direct, direct[k].boot = boot
      PROVE  PagesOf(direct[k].offset, direct[k].size) \subseteq pages
    <2>1. direct[k].offset + direct[k].size <= g_phys_pool_committed /\ g_phys_pool_committed \in Nat
        BY <1>6, DirectNumbers DEF DirectInv, CarvedIsPlaced, Current, Carved
    <2>2. PagesOf(direct[k].offset, direct[k].size) \subseteq PagesBelow(g_phys_pool_committed)
        BY <1>1, <2>1, PagesOfPlaced
    <2> QED
        BY <2>2 DEF DirectInv, CarvedIsPlaced
<1> QED
    BY <1>3, <1>5, <1>6 DEF DirectBlocksCommitted

-----------------------------------------------------------------------------
-----------------------------------------------------------------------------
(* The libc heap. *)

HeapBlocks == [ptr : Nat, size : Nat \ {0}, align : Nat \ {0}]
FreeBlocks == [addr : Nat, size : Nat]

\* The memory of a block with its header, of a free block, and what the bump
\* pointer has yet to hand out.
OfBlock(b) == [from |-> b.ptr - kHeaderSize, to |-> b.ptr + b.size]
OfFree(f) == [from |-> f.addr, to |-> f.addr + f.size]
OfRest == [from |-> g_heap_bump, to |-> g_heap_end]
Clear(x, y) == x.to <= y.from \/ y.to <= x.from
InChunk(x) == \E c \in mapped : c <= x.from /\ x.to <= c + kHeapChunkSize

HeapTyped ==
    /\ mapped \subseteq Chunks
    /\ live \subseteq HeapBlocks /\ \A b \in live : b.ptr >= kHeaderSize /\ b.ptr % b.align = 0
    /\ g_heap_free \in Seq(FreeBlocks)
    /\ g_heap_bump \in Nat /\ g_heap_end \in Nat

HeapInChunks ==
    /\ \A b \in live : InChunk(OfBlock(b))
    /\ \A i \in DOMAIN g_heap_free : InChunk(OfFree(g_heap_free[i]))
    /\ \/ g_heap_bump = 0 /\ g_heap_end = 0
       \/ g_heap_bump <= g_heap_end /\ InChunk(OfRest)

HeapApart ==
    /\ \A b, d \in live : b # d => Clear(OfBlock(b), OfBlock(d))
    /\ \A b \in live : Clear(OfBlock(b), OfRest)
    /\ \A b \in live, i \in DOMAIN g_heap_free : Clear(OfBlock(b), OfFree(g_heap_free[i]))
    /\ \A i, j \in DOMAIN g_heap_free : i # j => Clear(OfFree(g_heap_free[i]), OfFree(g_heap_free[j]))
    /\ \A i \in DOMAIN g_heap_free : Clear(OfFree(g_heap_free[i]), OfRest)

\* A request that wraps the address space ends the program: see heap_outcome.
HeapInv == heap_outcome = "ok" => HeapTyped /\ HeapInChunks /\ HeapApart

LEMMA ModSmall ==
    ASSUME HeapAssumption, NEW x \in Nat, x < AddressSpace
    PROVE  Mod(x) = x
    BY DEF HeapAssumption, Mod

\* Rounding up goes less than the alignment further.
LEMMA AlignUpFacts ==
    ASSUME HeapAssumption, NEW x \in Nat, NEW a \in Nat \ {0}, x + a <= AddressSpace
    PROVE  /\ AlignUp(x, a) \in Nat /\ x <= AlignUp(x, a) /\ AlignUp(x, a) < x + a
           /\ AlignUp(x, a) % a = 0
<1> DEFINE up == ((x + a - 1) \div a) * a
<1>1. up \in Nat /\ x <= up /\ up < x + a
    BY SMT
<1>2. up % a = 0
    BY SMT
<1>3. AlignUp(x, a) = Mod(up)
    BY DEF AlignUp
<1> HIDE DEF up
<1>4. Mod(up) = up
    BY <1>1, ModSmall DEF HeapAssumption
<1> QED
    BY <1>1, <1>2, <1>3, <1>4

\* A block that is delivered has room for its header, and its size did not wrap.
LEMMA PlaceFacts ==
    ASSUME HeapAssumption, NEW addr \in Nat, NEW size \in Nat \ {0}, NEW align \in Aligns, NEW end \in Nat,
           addr + kHeaderSize + align <= AddressSpace, end < AddressSpace,
           Place(addr, size, align).user + size <= end
    PROVE  LET p == Place(addr, size, align) IN
           /\ p.user \in Nat /\ p.user % align = 0
           /\ addr + kHeaderSize <= p.user /\ p.user < addr + kHeaderSize + align
           /\ p.total = (p.user - addr) + size
<1>1. align \in Nat \ {0} /\ kHeaderSize \in Nat
    BY DEF HeapAssumption
<1> DEFINE user == AlignUp(addr + kHeaderSize, align)
<1>2. /\ user \in Nat /\ addr + kHeaderSize <= user /\ user < addr + kHeaderSize + align
      /\ user % align = 0
    BY <1>1, AlignUpFacts
<1>3. Place(addr, size, align).user = user /\ Place(addr, size, align).total = Mod((user - addr) + size)
    BY DEF Place
<1> HIDE DEF user
<1>4. (user - addr) + size \in Nat /\ (user - addr) + size < AddressSpace
    BY <1>1, <1>2, <1>3 DEF HeapAssumption
<1>5. Mod((user - addr) + size) = (user - addr) + size
    BY <1>4, ModSmall
<1> QED
    BY <1>2, <1>3, <1>5

\* Chunks lie where sums do not wrap.
LEMMA ChunkFacts ==
    ASSUME HeapAssumption, NEW c \in Chunks, NEW a \in Aligns
    PROVE  /\ c \in Nat \ {0} /\ a \in Nat \ {0} /\ c + kHeapChunkSize \in Nat
           /\ c + kHeapChunkSize + kHeaderSize + a <= AddressSpace
           /\ c + kHeapChunkSize < AddressSpace
           /\ 2 * (kHeaderSize + a) + kHeapChunkSize <= AddressSpace
    BY DEF HeapAssumption

\* What lies inside a piece of memory is clear of what that is clear of.
LEMMA ClearInside ==
    ASSUME NEW x, NEW y, NEW z, x.from \in Int, x.to \in Int, y.from \in Int, y.to \in Int,
           z.from \in Int, z.to \in Int, Clear(x, y), x.from <= z.from, z.to <= x.to
    PROVE  Clear(z, y) /\ Clear(y, z)
    BY DEF Clear

LEMMA ClearEither == \A x, y : Clear(x, y) <=> Clear(y, x)
    BY DEF Clear

\* Every piece of the heap has integer bounds.
LEMMA PieceFacts ==
    ASSUME HeapAssumption, HeapTyped
    PROVE  /\ \A b \in live : OfBlock(b).from \in Nat /\ OfBlock(b).to \in Nat
           /\ \A i \in DOMAIN g_heap_free : /\ g_heap_free[i] \in FreeBlocks
                                            /\ OfFree(g_heap_free[i]).from \in Nat
                                            /\ OfFree(g_heap_free[i]).to \in Nat
           /\ OfRest.from \in Nat /\ OfRest.to \in Nat
           /\ DOMAIN g_heap_free \subseteq Nat
<1>1. kHeaderSize \in Nat
    BY DEF HeapAssumption
<1>2. \A b \in live : OfBlock(b).from \in Nat /\ OfBlock(b).to \in Nat
    BY <1>1 DEF HeapTyped, HeapBlocks, OfBlock
<1>3. DOMAIN g_heap_free \subseteq Nat /\ \A i \in DOMAIN g_heap_free : g_heap_free[i] \in FreeBlocks
    BY DEF HeapTyped
<1>4. \A f \in FreeBlocks : OfFree(f).from \in Nat /\ OfFree(f).to \in Nat
    BY DEF FreeBlocks, OfFree
<1>5. OfRest.from \in Nat /\ OfRest.to \in Nat
    BY DEF HeapTyped, OfRest
<1> QED
    BY <1>2, <1>3, <1>4, <1>5

LEMMA HeapInitInv == HeapInit => HeapInv
<1> SUFFICES ASSUME HeapInit PROVE HeapTyped /\ HeapInChunks /\ HeapApart
    BY DEF HeapInv
<1>1. g_heap_free \in Seq(FreeBlocks) /\ DOMAIN g_heap_free = {} /\ live = {}
    BY DEF HeapInit
<1> QED
    BY <1>1 DEF HeapInit, HeapTyped, HeapInChunks, HeapApart, InChunk

\* A new block comes from a piece x of its own: what else there is stays clear of x.
LEMMA DeliveredInside ==
    ASSUME HeapAssumption, HeapTyped, HeapInChunks, HeapApart, NEW x, x.from \in Nat, x.to \in Nat,
           NEW addr \in Nat, NEW size \in Nat \ {0}, NEW align \in Aligns,
           mapped \subseteq mapped', mapped' \subseteq Chunks,
           \E c \in mapped' : c <= x.from /\ x.to <= c + kHeapChunkSize,
           NEW user \in Nat, user % align = 0, x.from + kHeaderSize <= user, user + size <= x.to,
           live' = live \cup {[ptr |-> user, size |-> size, align |-> align]},
           \A b \in live : Clear(OfBlock(b), x)
    PROVE  LET new == [ptr |-> user, size |-> size, align |-> align] IN
           /\ live' \subseteq HeapBlocks /\ \A b \in live' : b.ptr >= kHeaderSize /\ b.ptr % b.align = 0
           /\ \A b \in live' : InChunk(OfBlock(b))'
           /\ \A b, d \in live' : b # d => Clear(OfBlock(b), OfBlock(d))
           /\ OfBlock(new).from >= x.from /\ OfBlock(new).to <= x.to
           /\ OfBlock(new).from \in Nat /\ OfBlock(new).to \in Nat
<1> DEFINE new == [ptr |-> user, size |-> size, align |-> align]
<1>1. align \in Nat \ {0} /\ kHeaderSize \in Nat
    BY DEF HeapAssumption
<1>2. new \in HeapBlocks /\ new.ptr >= kHeaderSize /\ new.ptr % new.align = 0
    BY <1>1 DEF HeapBlocks
<1>3. /\ OfBlock(new).from \in Nat /\ OfBlock(new).to \in Nat
      /\ x.from <= OfBlock(new).from /\ OfBlock(new).to <= x.to
    BY <1>1 DEF OfBlock
<1>4. live' = live \cup {new}
    OBVIOUS
<1> HIDE DEF new
<1>5. \E c \in mapped' : c <= OfBlock(new).from /\ OfBlock(new).to <= c + kHeapChunkSize
    <2>1. PICK c \in mapped' : c <= x.from /\ x.to <= c + kHeapChunkSize
        OBVIOUS
    <2>2. c \in Nat /\ c + kHeapChunkSize \in Nat
        BY DEF HeapAssumption
    <2> QED
        BY <1>3, <2>1, <2>2
<1>6. \A b \in live' : InChunk(OfBlock(b))'
    BY <1>4, <1>5 DEF HeapInChunks, InChunk, OfBlock
<1>7. \A b \in live : Clear(OfBlock(b), OfBlock(new)) /\ Clear(OfBlock(new), OfBlock(b))
    BY <1>3, PieceFacts, ClearInside, ClearEither
<1> QED
    BY <1>2, <1>3, <1>4, <1>6, <1>7 DEF HeapTyped, HeapApart, new

\* The block is delivered unless the program ends.
LEMMA Delivered ==
    ASSUME HeapAssumption, NEW addr \in Nat, NEW size \in Nat \ {0}, NEW align \in Aligns,
           addr + kHeaderSize + align <= AddressSpace, mapped' \subseteq Chunks,
           Deliver(addr, size, align), heap_outcome' = "ok"
    PROVE  LET p == Place(addr, size, align) IN
           /\ p.user \in Nat /\ p.user % align = 0
           /\ addr + kHeaderSize <= p.user /\ p.user < addr + kHeaderSize + align
           /\ p.total = (p.user - addr) + size
           /\ \E c \in mapped' : c <= p.user /\ p.user + size <= c + kHeapChunkSize
           /\ live' = live \cup {[ptr |-> p.user, size |-> size, align |-> align]}
<1>1. PICK c \in mapped' : c <= Place(addr, size, align).user /\ Place(addr, size, align).user + size <= c + kHeapChunkSize
    BY DEF Deliver
<1>2. c + kHeapChunkSize \in Nat /\ c + kHeapChunkSize < AddressSpace
    BY ChunkFacts
<1>3. live' = live \cup {[ptr |-> Place(addr, size, align).user, size |-> size, align |-> align]}
    BY <1>1 DEF Deliver
<1> QED
    BY <1>1, <1>2, <1>3, PlaceFacts

\* The rest of a free block, if any, keeps its place in the list.
LEMMA TakeLeaves ==
    ASSUME HeapAssumption, HeapTyped, NEW i \in DOMAIN g_heap_free, NEW total \in Nat, total <= g_heap_free[i].size, Take(i, total)
    PROVE  /\ g_heap_free' \in Seq(FreeBlocks)
           /\ \E Was \in [DOMAIN g_heap_free' -> DOMAIN g_heap_free] :
                 /\ \A j, k \in DOMAIN g_heap_free' : Was[j] = Was[k] => j = k
                 /\ \A j \in DOMAIN g_heap_free' :
                       IF Was[j] = i
                       THEN /\ OfFree(g_heap_free[j])'.from = OfFree(g_heap_free[i]).from + total
                            /\ OfFree(g_heap_free[j])'.to = OfFree(g_heap_free[i]).to
                       ELSE g_heap_free'[j] = g_heap_free[Was[j]]
<1>1. /\ g_heap_free \in Seq(FreeBlocks) /\ i \in 1 .. Len(g_heap_free) /\ Len(g_heap_free) \in Nat
      /\ DOMAIN g_heap_free = 1 .. Len(g_heap_free) /\ g_heap_free[i] \in FreeBlocks
    BY DEF HeapTyped
<1>2. CASE g_heap_free[i].size - total >= SplitAt
    <2> DEFINE rest == [addr |-> g_heap_free[i].addr + total, size |-> g_heap_free[i].size - total]
    <2>1. rest \in FreeBlocks
        BY <1>1 DEF HeapAssumption, FreeBlocks
    <2>2. g_heap_free' = [g_heap_free EXCEPT ![i] = rest]
        BY <1>2 DEF Take
    <2>3. OfFree(rest).from = OfFree(g_heap_free[i]).from + total /\ OfFree(rest).to = OfFree(g_heap_free[i]).to
        BY <1>1 DEF OfFree, FreeBlocks
    <2> HIDE DEF rest
    <2>4. /\ g_heap_free' \in Seq(FreeBlocks) /\ DOMAIN g_heap_free' = DOMAIN g_heap_free
          /\ g_heap_free'[i] = rest /\ \A j \in DOMAIN g_heap_free \ {i} : g_heap_free'[j] = g_heap_free[j]
        BY <1>1, <2>1, <2>2
    <2> DEFINE Was == [j \in DOMAIN g_heap_free' |-> j]
    <2>5. Was \in [DOMAIN g_heap_free' -> DOMAIN g_heap_free] /\ \A j \in DOMAIN g_heap_free' : Was[j] = j
        BY <2>4
    <2> HIDE DEF Was
    <2>6. \A j \in DOMAIN g_heap_free' :
             IF Was[j] = i
             THEN /\ OfFree(g_heap_free[j])'.from = OfFree(g_heap_free[i]).from + total
                  /\ OfFree(g_heap_free[j])'.to = OfFree(g_heap_free[i]).to
             ELSE g_heap_free'[j] = g_heap_free[Was[j]]
        BY <2>3, <2>4, <2>5 DEF OfFree
    <2> QED
        BY <2>4, <2>5, <2>6
<1>3. CASE ~ (g_heap_free[i].size - total >= SplitAt)
    <2>1. g_heap_free' = RemoveAt(g_heap_free, i)
        BY <1>3 DEF Take
    <2>2. /\ RemoveAt(g_heap_free, i) \in Seq(FreeBlocks)
          /\ Len(RemoveAt(g_heap_free, i)) = Len(g_heap_free) - 1
          /\ \A j \in 1 .. Len(g_heap_free) - 1 :
                RemoveAt(g_heap_free, i)[j] = IF j < i THEN g_heap_free[j] ELSE g_heap_free[j + 1]
        BY <1>1, RemoveAtLemma
    <2>3. g_heap_free' \in Seq(FreeBlocks) /\ DOMAIN g_heap_free' = 1 .. Len(g_heap_free) - 1
        BY <2>1, <2>2
    <2> DEFINE Was == [j \in DOMAIN g_heap_free' |-> IF j < i THEN j ELSE j + 1]
    <2>4. /\ Was \in [DOMAIN g_heap_free' -> DOMAIN g_heap_free \ {i}]
          /\ \A j, k \in DOMAIN g_heap_free' : Was[j] = Was[k] => j = k
          /\ \A j \in DOMAIN g_heap_free' : g_heap_free'[j] = g_heap_free[Was[j]]
        BY <1>1, <2>1, <2>2, <2>3
    <2> HIDE DEF Was
    <2> QED
        BY <2>3, <2>4
<1> QED
    BY <1>2, <1>3

LEMMA FromListKeepsHeapInv ==
    ASSUME HeapAssumption, HeapTyped, HeapInChunks, HeapApart, NEW size \in AllocSizes, NEW align \in Aligns,
           AllocFromList(size, align), heap_outcome' = "ok"
    PROVE  HeapTyped' /\ HeapInChunks' /\ HeapApart'
<1> DEFINE fits == LargeEnough(size, align)
           i == CHOOSE j \in fits : \A k \in fits : j <= k
           addr == g_heap_free[i].addr
           p == Place(addr, size, align)
           x == OfFree(g_heap_free[i])
           new == [ptr |-> p.user, size |-> size, align |-> align]
<1>1. i \in fits
    <2>1. fits \in SUBSET Nat /\ fits # {}
        BY PieceFacts DEF LargeEnough, AllocFromList
    <2> QED
        BY <2>1, LeastPosition
<1>2. i \in DOMAIN g_heap_free /\ p.total <= g_heap_free[i].size
    BY <1>1 DEF LargeEnough
<1>3. /\ Take(i, p.total) /\ mapped' = mapped /\ Deliver(addr, size, align)
      /\ UNCHANGED <<g_heap_bump, g_heap_end>>
    BY DEF AllocFromList
<1>4. addr \in Nat /\ g_heap_free[i].size \in Nat /\ size \in Nat \ {0} /\ align \in Nat \ {0} /\ kHeaderSize \in Nat
    BY <1>2, PieceFacts DEF HeapAssumption, FreeBlocks
<1>5. x.from = addr /\ x.to = addr + g_heap_free[i].size
    BY DEF OfFree
<1>6. PICK c \in mapped : c <= addr /\ addr + g_heap_free[i].size <= c + kHeapChunkSize
    BY <1>2, <1>5 DEF HeapInChunks, InChunk
<1> HIDE DEF i, fits
<1>7. addr + kHeaderSize + align <= AddressSpace /\ mapped' \subseteq Chunks
    <2>1. c \in Chunks
        BY DEF HeapTyped
    <2>2. c + kHeapChunkSize + kHeaderSize + align <= AddressSpace /\ c \in Nat /\ c + kHeapChunkSize \in Nat
        BY <2>1, ChunkFacts
    <2>3. AddressSpace \in Nat
        BY DEF HeapAssumption
    <2>4. addr + kHeaderSize + align <= AddressSpace
        BY <1>4, <1>6, <2>2, <2>3
    <2> QED
        BY <1>3, <2>4 DEF HeapTyped
<1>8. /\ p.user \in Nat /\ p.user % align = 0 /\ addr + kHeaderSize <= p.user
      /\ p.total = (p.user - addr) + size /\ live' = live \cup {new}
    BY <1>3, <1>4, <1>7, Delivered
<1> HIDE DEF p, addr
<1>9. p.total \in Nat /\ p.user + size <= x.to /\ x.from + kHeaderSize <= p.user
    BY <1>2, <1>4, <1>5, <1>8
<1>10. \A b \in live : Clear(OfBlock(b), x)
    BY <1>2 DEF HeapApart
<1>11. x.from \in Nat /\ x.to \in Nat
    BY <1>4, <1>5
<1>12. \E d \in mapped' : d <= x.from /\ x.to <= d + kHeapChunkSize
    BY <1>3, <1>5, <1>6
<1> HIDE DEF x
<1>13. /\ live' \subseteq HeapBlocks /\ \A b \in live' : b.ptr >= kHeaderSize /\ b.ptr % b.align = 0
       /\ \A b \in live' : InChunk(OfBlock(b))'
       /\ \A b, d \in live' : b # d => Clear(OfBlock(b), OfBlock(d))
       /\ OfBlock(new).from >= x.from /\ OfBlock(new).to <= x.to
       /\ OfBlock(new).from \in Nat /\ OfBlock(new).to \in Nat
    <2>1. mapped \subseteq mapped'
        BY <1>3
    <2> QED
        BY <1>4, <1>7, <1>8, <1>9, <1>10, <1>11, <1>12, <2>1, DeliveredInside
<1>14. OfBlock(new).to = x.from + p.total
    BY <1>4, <1>5, <1>8 DEF OfBlock
<1>15. /\ g_heap_free' \in Seq(FreeBlocks)
       /\ \E Was \in [DOMAIN g_heap_free' -> DOMAIN g_heap_free] :
             /\ \A j, k \in DOMAIN g_heap_free' : Was[j] = Was[k] => j = k
             /\ \A j \in DOMAIN g_heap_free' :
                   IF Was[j] = i
                   THEN /\ OfFree(g_heap_free[j])'.from = x.from + p.total
                        /\ OfFree(g_heap_free[j])'.to = x.to
                   ELSE g_heap_free'[j] = g_heap_free[Was[j]]
    BY <1>2, <1>3, <1>9, TakeLeaves DEF x
<1>16. PICK Was \in [DOMAIN g_heap_free' -> DOMAIN g_heap_free] :
          /\ \A j, k \in DOMAIN g_heap_free' : Was[j] = Was[k] => j = k
          /\ \A j \in DOMAIN g_heap_free' :
                IF Was[j] = i
                THEN /\ OfFree(g_heap_free[j])'.from = x.from + p.total
                     /\ OfFree(g_heap_free[j])'.to = x.to
                ELSE g_heap_free'[j] = g_heap_free[Was[j]]
    BY <1>15
\* Each free block lies inside the one it was, and the rest past the new block.
<1>17. \A j \in DOMAIN g_heap_free' :
          /\ OfFree(g_heap_free[Was[j]]).from <= OfFree(g_heap_free[j])'.from
          /\ OfFree(g_heap_free[j])'.to = OfFree(g_heap_free[Was[j]]).to
          /\ OfFree(g_heap_free[j])'.from \in Nat /\ OfFree(g_heap_free[j])'.to \in Nat
          /\ Was[j] = i => OfBlock(new).to <= OfFree(g_heap_free[j])'.from
    <2> TAKE j \in DOMAIN g_heap_free'
    <2>1. CASE Was[j] = i
        BY <1>9, <1>11, <1>14, <1>16, <2>1 DEF x
    <2>2. CASE Was[j] # i
        <3>1. OfFree(g_heap_free[j])' = OfFree(g_heap_free[Was[j]])
            BY <1>16, <2>2 DEF OfFree
        <3> QED
            BY <1>16, <2>2, <3>1, PieceFacts
    <2> QED
        BY <2>1, <2>2
<1>18. HeapTyped'
    BY <1>3, <1>13, <1>15 DEF HeapTyped
<1>19. HeapInChunks'
    <2>1. \A j \in DOMAIN g_heap_free' : InChunk(OfFree(g_heap_free[j]))'
        <3> SUFFICES ASSUME NEW j \in DOMAIN g_heap_free'
                     PROVE  \E d \in mapped : /\ d <= OfFree(g_heap_free[j])'.from
                                              /\ OfFree(g_heap_free[j])'.to <= d + kHeapChunkSize
            BY <1>3 DEF InChunk
        <3>1. PICK d \in mapped : /\ d <= OfFree(g_heap_free[Was[j]]).from
                                  /\ OfFree(g_heap_free[Was[j]]).to <= d + kHeapChunkSize
            BY <1>16 DEF HeapInChunks, InChunk
        <3>2. d \in Nat
            BY DEF HeapAssumption, HeapTyped
        <3> QED
            BY <1>16, <1>17, <3>1, <3>2, PieceFacts
    <2> QED
        BY <1>3, <1>13, <2>1 DEF HeapInChunks, InChunk, OfRest
<1>20. HeapApart'
    <2>1. ASSUME NEW j \in DOMAIN g_heap_free', NEW y, y.from \in Int, y.to \in Int,
                 Clear(OfFree(g_heap_free[Was[j]]), y) \/ Clear(y, OfFree(g_heap_free[Was[j]]))
          PROVE  Clear(OfFree(g_heap_free[j])', y) /\ Clear(y, OfFree(g_heap_free[j])')
        <3>1. OfFree(g_heap_free[Was[j]]).from \in Nat /\ OfFree(g_heap_free[Was[j]]).to \in Nat
            BY <1>16, PieceFacts
        <3> QED
            BY <1>17, <2>1, <3>1 DEF Clear
    <2>2. \A b \in live, j \in DOMAIN g_heap_free' : Clear(OfBlock(b), OfFree(g_heap_free[j])')
        BY <1>16, <2>1, PieceFacts DEF HeapApart
    <2>3. \A j \in DOMAIN g_heap_free' : Clear(OfBlock(new), OfFree(g_heap_free[j])')
        <3> TAKE j \in DOMAIN g_heap_free'
        <3>1. CASE Was[j] = i
            BY <1>17, <3>1 DEF Clear
        <3>2. CASE Was[j] # i
            <4>1. Clear(x, OfFree(g_heap_free[Was[j]]))
                BY <1>2, <1>16, <3>2 DEF HeapApart, x
            <4>2. Clear(OfBlock(new), OfFree(g_heap_free[Was[j]]))
                BY <1>11, <1>13, <1>16, <4>1, PieceFacts, ClearInside
            <4> QED
                BY <1>13, <2>1, <4>2
        <3> QED
            BY <3>1, <3>2
    <2>4. \A j, k \in DOMAIN g_heap_free' : j # k => Clear(OfFree(g_heap_free[j])', OfFree(g_heap_free[k])')
        <3> SUFFICES ASSUME NEW j \in DOMAIN g_heap_free', NEW k \in DOMAIN g_heap_free', j # k
                     PROVE  Clear(OfFree(g_heap_free[j])', OfFree(g_heap_free[k])')
            OBVIOUS
        <3>1. Clear(OfFree(g_heap_free[Was[j]]), OfFree(g_heap_free[Was[k]]))
            BY <1>16 DEF HeapApart
        <3>2. Clear(OfFree(g_heap_free[j])', OfFree(g_heap_free[Was[k]]))
            BY <1>16, <2>1, <3>1, PieceFacts
        <3> QED
            BY <1>17, <2>1, <3>2
    <2>5. \A j \in DOMAIN g_heap_free' : Clear(OfFree(g_heap_free[j])', OfRest)
        BY <1>16, <2>1, PieceFacts DEF HeapApart
    <2>6. Clear(OfBlock(new), OfRest)
        <3>1. Clear(x, OfRest)
            BY <1>2 DEF HeapApart, x
        <3> QED
            BY <1>11, <1>13, <3>1, PieceFacts, ClearInside
    <2>7. OfRest' = OfRest
        BY <1>3 DEF OfRest
    <2> HIDE DEF new
    <2> QED
        BY <1>8, <1>13, <2>2, <2>3, <2>4, <2>5, <2>6, <2>7 DEF HeapApart, OfBlock
<1> QED
    BY <1>18, <1>19, <1>20

\* What is carved at the bump pointer: a new block and a smaller rest.
LEMMA CarvedFromRest ==
    ASSUME HeapAssumption, HeapTyped, HeapInChunks, HeapApart, NEW size \in Nat \ {0}, NEW align \in Aligns,
           NEW x, x.from \in Nat, x.to \in Nat, mapped \subseteq mapped', mapped' \subseteq Chunks,
           \E c \in mapped' : c <= x.from /\ x.to <= c + kHeapChunkSize,
           \A b \in live : Clear(OfBlock(b), x),
           \A i \in DOMAIN g_heap_free : Clear(OfFree(g_heap_free[i]), x),
           NEW user \in Nat, user % align = 0, x.from + kHeaderSize <= user, user + size <= x.to,
           live' = live \cup {[ptr |-> user, size |-> size, align |-> align]},
           g_heap_bump' = user + size, g_heap_end' = x.to, UNCHANGED g_heap_free
    PROVE  HeapTyped' /\ HeapInChunks' /\ HeapApart'
<1> DEFINE new == [ptr |-> user, size |-> size, align |-> align]
<1>1. /\ live' \subseteq HeapBlocks /\ \A b \in live' : b.ptr >= kHeaderSize /\ b.ptr % b.align = 0
      /\ \A b \in live' : InChunk(OfBlock(b))'
      /\ \A b, d \in live' : b # d => Clear(OfBlock(b), OfBlock(d))
      /\ OfBlock(new).from >= x.from /\ OfBlock(new).to <= x.to
      /\ OfBlock(new).from \in Nat /\ OfBlock(new).to \in Nat
    BY DeliveredInside
<1>2. OfBlock(new).to = user + size /\ live' = live \cup {new}
    BY DEF OfBlock
<1>3. OfRest'.from = user + size /\ OfRest'.to = x.to /\ user + size \in Nat
    BY DEF OfRest
<1> HIDE DEF new
<1>4. x.from <= OfRest'.from /\ OfRest'.from <= OfRest'.to
    <2>1. kHeaderSize \in Nat
        BY DEF HeapAssumption
    <2>2. x.from <= user + size
        BY <2>1
    <2> QED
        BY <1>3, <2>2
<1> HIDE DEF new
<1>5. HeapTyped'
    BY <1>1, <1>3 DEF HeapTyped
<1>6. HeapInChunks'
    <2>1. \A i \in DOMAIN g_heap_free' : InChunk(OfFree(g_heap_free[i]))'
        BY DEF HeapInChunks, InChunk, OfFree
    <2>2. InChunk(OfRest)'
        <3>1. PICK c \in mapped' : c <= x.from /\ x.to <= c + kHeapChunkSize
            OBVIOUS
        <3>2. c \in Nat /\ c + kHeapChunkSize \in Nat
            BY DEF HeapAssumption
        <3>3. c <= OfRest'.from /\ OfRest'.to <= c + kHeapChunkSize
            BY <1>3, <1>4, <3>1, <3>2
        <3> QED
            BY <3>3 DEF InChunk
    <2> QED
        BY <1>1, <1>3, <1>4, <2>1, <2>2 DEF HeapInChunks
<1>7. HeapApart'
    <2>1. \A b \in live : Clear(OfBlock(b), OfRest')
        BY <1>3, <1>4, PieceFacts, ClearInside, ClearEither
    <2>2. Clear(OfBlock(new), OfRest')
        BY <1>2, <1>3 DEF Clear
    <2>3. \A i \in DOMAIN g_heap_free : Clear(OfFree(g_heap_free[i]), OfRest')
        BY <1>3, <1>4, PieceFacts, ClearInside, ClearEither
    <2>4. \A i \in DOMAIN g_heap_free : Clear(OfBlock(new), OfFree(g_heap_free[i]))
        BY <1>1, PieceFacts, ClearInside, ClearEither
    <2> QED
        BY <1>1, <1>2, <2>1, <2>2, <2>3, <2>4 DEF HeapApart, OfBlock, OfFree
<1> QED
    BY <1>5, <1>6, <1>7

LEMMA BumpKeepsHeapInv ==
    ASSUME HeapAssumption, HeapTyped, HeapInChunks, HeapApart, NEW size \in AllocSizes, NEW align \in Aligns,
           AllocByBump(size, align), BumpFits(size, align), heap_outcome' = "ok"
    PROVE  HeapTyped' /\ HeapInChunks' /\ HeapApart'
<1> DEFINE p == Place(g_heap_bump, size, align)
<1>1. /\ g_heap_bump' = Mod(g_heap_bump + p.total) /\ mapped' = mapped /\ Deliver(g_heap_bump, size, align)
      /\ UNCHANGED <<g_heap_end, g_heap_free>>
    BY DEF AllocByBump
<1>2. g_heap_bump # 0 /\ Mod(g_heap_bump + p.total) <= g_heap_end
    BY DEF BumpFits
<1>3. PICK c \in mapped : c <= g_heap_bump /\ g_heap_bump <= g_heap_end /\ g_heap_end <= c + kHeapChunkSize
    BY <1>2 DEF HeapInChunks, InChunk, OfRest
<1>4. /\ c \in Chunks /\ c + kHeapChunkSize + kHeaderSize + align <= AddressSpace
      /\ c \in Nat /\ c + kHeapChunkSize \in Nat
    <2>1. c \in Chunks
        BY DEF HeapTyped
    <2> QED
        BY <2>1, ChunkFacts
<1>5. /\ g_heap_bump \in Nat /\ g_heap_end \in Nat /\ size \in Nat \ {0} /\ align \in Nat \ {0}
      /\ kHeaderSize \in Nat /\ AddressSpace \in Nat
    BY DEF HeapAssumption, HeapTyped
<1>6. g_heap_bump + kHeaderSize + align <= AddressSpace
    BY <1>3, <1>4, <1>5
<1>7. mapped' \subseteq Chunks
    BY <1>1 DEF HeapTyped
<1>8. /\ p.user \in Nat /\ p.user % align = 0 /\ g_heap_bump + kHeaderSize <= p.user
      /\ p.total = (p.user - g_heap_bump) + size
      /\ \E d \in mapped' : d <= p.user /\ p.user + size <= d + kHeapChunkSize
      /\ live' = live \cup {[ptr |-> p.user, size |-> size, align |-> align]}
    BY <1>1, <1>5, <1>6, <1>7, Delivered
<1> HIDE DEF p
<1>9. p.user + size < AddressSpace
    <2>1. PICK d \in mapped' : d <= p.user /\ p.user + size <= d + kHeapChunkSize
        BY <1>8
    <2>2. d + kHeapChunkSize < AddressSpace /\ d + kHeapChunkSize \in Nat
        BY <1>7, ChunkFacts
    <2> QED
        BY <1>5, <1>8, <2>1, <2>2
<1>10. g_heap_bump + p.total = p.user + size
    BY <1>5, <1>8
<1>11. Mod(g_heap_bump + p.total) = p.user + size
    BY <1>5, <1>8, <1>9, <1>10, ModSmall
<1> DEFINE x == OfRest
<1>12. x.from = g_heap_bump /\ x.to = g_heap_end
    BY DEF OfRest
<1>13. \E d \in mapped' : d <= x.from /\ x.to <= d + kHeapChunkSize
    BY <1>1, <1>3, <1>12
<1>14. /\ \A b \in live : Clear(OfBlock(b), x)
       /\ \A i \in DOMAIN g_heap_free : Clear(OfFree(g_heap_free[i]), x)
    BY DEF HeapApart
<1> HIDE DEF x
<1>15. x.from \in Nat /\ x.to \in Nat /\ x.from + kHeaderSize <= p.user /\ p.user + size <= x.to /\ mapped \subseteq mapped'
    BY <1>1, <1>2, <1>5, <1>8, <1>11, <1>12
<1>16. g_heap_bump' = p.user + size /\ g_heap_end' = x.to /\ UNCHANGED g_heap_free
    BY <1>1, <1>11, <1>12
<1> QED
    BY <1>5, <1>7, <1>8, <1>13, <1>14, <1>15, <1>16, CarvedFromRest

\* Growing maps a chunk in which the block fits with its header and alignment.
LEMMA GrowKeepsHeapInv ==
    ASSUME HeapAssumption, HeapTyped, HeapInChunks, HeapApart, NEW size \in AllocSizes, NEW align \in Aligns,
           AllocByBump(size, align), ~BumpFits(size, align), heap_outcome' = "ok", heap_outcome = "ok"
    PROVE  HeapTyped' /\ HeapInChunks' /\ HeapApart'
<1> DEFINE grown == Grow(size, align)
           old == Place(g_heap_bump, size, align)
           need == Mod(old.total + align + kHeaderSize)
<1>1. CASE grown.end # "ok"
    <2>1. UNCHANGED <<g_heap_bump, g_heap_end, mapped, live, g_heap_free>>
        BY <1>1 DEF AllocByBump
    <2> HIDE DEF grown
    <2> QED
        BY <2>1 DEF HeapTyped, HeapInChunks, HeapApart, InChunk, OfRest
<1>2. CASE grown.end = "ok"
    <2> DEFINE at == grown.at
               p == Place(at, size, align)
    <2>1. /\ mapped' = mapped \cup {at} /\ g_heap_end' = at + kHeapChunkSize
          /\ g_heap_bump' = Mod(at + p.total) /\ Deliver(at, size, align) /\ UNCHANGED g_heap_free
        BY <1>2 DEF AllocByBump
    <2>2. at \in Chunks \ mapped
        <3>1. Chunks \ mapped # {} /\ Chunks \ mapped \in SUBSET Nat
            BY <1>2 DEF HeapAssumption, Grow
        <3>2. at = CHOOSE c \in Chunks \ mapped : \A d \in Chunks \ mapped : c <= d
            BY <1>2 DEF Grow
        <3> QED
            BY <3>1, <3>2, LeastPosition
    <2>3. need <= kHeapChunkSize
        <3>1. need \in Nat
            <4>1. AddressSpace \in Nat \ {0} /\ \A y \in Int : Mod(y) \in Nat
                BY <2>2, ChunkFacts DEF HeapAssumption, Mod
            <4>2. /\ g_heap_bump \in Nat /\ size \in Nat /\ kHeaderSize \in Nat /\ align \in Nat \ {0}
                BY DEF HeapAssumption, HeapTyped
            <4>3. ((g_heap_bump + kHeaderSize + align - 1) \div align) * align \in Int
                BY <4>2
            <4>4. AlignUp(g_heap_bump + kHeaderSize, align) \in Nat
                BY <4>1, <4>3 DEF AlignUp
            <4>5. old.total \in Nat
                BY <4>1, <4>2, <4>4 DEF Place
            <4> QED
                BY <4>1, <4>2, <4>5
        <3> QED
            BY <1>2, <3>1 DEF HeapAssumption, Grow
    <2> HIDE DEF grown, at
    <2>4. /\ at \in Nat \ {0} /\ at + kHeapChunkSize \in Nat
          /\ at + kHeapChunkSize + kHeaderSize + align <= AddressSpace
          /\ 2 * (kHeaderSize + align) + kHeapChunkSize <= AddressSpace
        BY <2>2, ChunkFacts
    <2>5. /\ size \in Nat \ {0} /\ align \in Nat \ {0} /\ kHeaderSize \in Nat \ {0} /\ AddressSpace \in Nat
          /\ kHeapChunkSize \in Nat /\ g_heap_bump \in Nat
        BY DEF HeapAssumption, HeapTyped
    <2>6. at + kHeaderSize + align <= AddressSpace /\ mapped' \subseteq Chunks
        BY <2>1, <2>2, <2>4, <2>5 DEF HeapTyped
    <2>7. /\ p.user \in Nat /\ p.user % align = 0
          /\ at + kHeaderSize <= p.user /\ p.user < at + kHeaderSize + align
          /\ p.total = (p.user - at) + size
          /\ \E d \in mapped' : d <= p.user /\ p.user + size <= d + kHeapChunkSize
          /\ live' = live \cup {[ptr |-> p.user, size |-> size, align |-> align]}
        BY <2>1, <2>4, <2>5, <2>6, Delivered
    <2> HIDE DEF p
    <2>8. size <= kHeapChunkSize
        <3>1. PICK d \in mapped' : d <= p.user /\ p.user + size <= d + kHeapChunkSize
            BY <2>7
        <3>2. d \in Nat
            BY <2>6, ChunkFacts
        <3> QED
            BY <2>5, <2>7, <3>1, <3>2
\* The size that was asked for did not wrap.
    <2>9. size + align + 2 * kHeaderSize <= kHeapChunkSize
        <3>1. g_heap_bump + kHeaderSize + align <= AddressSpace
            <4>1. CASE g_heap_bump = 0
                BY <2>4, <2>5, <4>1
            <4>2. CASE g_heap_bump # 0
                <5>1. PICK d \in mapped : d <= g_heap_bump /\ g_heap_bump <= g_heap_end /\ g_heap_end <= d + kHeapChunkSize
                    BY <4>2 DEF HeapInChunks, InChunk, OfRest
                <5>2. d + kHeapChunkSize + kHeaderSize + align <= AddressSpace /\ d \in Nat
                    BY ChunkFacts DEF HeapTyped
                <5>3. g_heap_end \in Nat
                    BY DEF HeapTyped
                <5> QED
                    BY <2>5, <5>1, <5>2, <5>3
            <4> QED
                BY <4>1, <4>2
        <3> DEFINE user == AlignUp(g_heap_bump + kHeaderSize, align)
        <3>2. user \in Nat /\ g_heap_bump + kHeaderSize <= user /\ user < g_heap_bump + kHeaderSize + align
            BY <2>5, <3>1, AlignUpFacts
        <3>3. old.total = Mod((user - g_heap_bump) + size)
            BY DEF Place
        <3> HIDE DEF user, old
        <3>4. (user - g_heap_bump) + size \in Nat /\ (user - g_heap_bump) + size < AddressSpace
            BY <2>4, <2>5, <2>8, <3>2
        <3>5. old.total = (user - g_heap_bump) + size
            BY <3>3, <3>4, ModSmall
        <3>6. old.total + align + kHeaderSize \in Nat /\ old.total + align + kHeaderSize < AddressSpace
            BY <2>4, <2>5, <2>8, <3>2, <3>5
        <3>7. need = old.total + align + kHeaderSize
            BY <3>6, ModSmall
        <3> QED
            BY <2>3, <2>5, <3>2, <3>5, <3>7
    <2> DEFINE x == [from |-> at, to |-> at + kHeapChunkSize]
    <2>10. p.user + size <= at + kHeapChunkSize
        BY <2>4, <2>5, <2>7, <2>9
    <2>11. Mod(at + p.total) = p.user + size
        <3>1. at + p.total = p.user + size /\ p.user + size \in Nat
            BY <2>4, <2>5, <2>7
        <3>2. p.user + size < AddressSpace
            BY <2>4, <2>5, <2>7, <2>10
        <3> QED
            BY <3>1, <3>2, ModSmall
\* What is in other chunks is clear of this one.
    <2>12. ASSUME NEW y, y.from \in Nat, y.to \in Nat, InChunk(y)
           PROVE  Clear(y, x)
        <3>1. PICK c \in mapped : c <= y.from /\ y.to <= c + kHeapChunkSize
            BY <2>12 DEF InChunk
        <3>2. c \in Nat /\ (c + kHeapChunkSize <= at \/ at + kHeapChunkSize <= c)
            BY <2>2 DEF HeapAssumption, HeapTyped
        <3> QED
            BY <2>4, <2>5, <2>12, <3>1, <3>2 DEF Clear
    <2>13. /\ \A b \in live : Clear(OfBlock(b), x)
           /\ \A i \in DOMAIN g_heap_free : Clear(OfFree(g_heap_free[i]), x)
        BY <2>12, PieceFacts DEF HeapInChunks
    <2>14. x.from = at /\ x.to = at + kHeapChunkSize
        OBVIOUS
    <2> HIDE DEF x
    <2>15. \E d \in mapped' : d <= x.from /\ x.to <= d + kHeapChunkSize
        <3>1. at \in mapped' /\ at <= x.from /\ x.to <= at + kHeapChunkSize
            BY <2>1, <2>4, <2>14
        <3> QED
            BY <3>1
    <2>16. /\ x.from \in Nat /\ x.to \in Nat /\ x.from + kHeaderSize <= p.user /\ p.user + size <= x.to
           /\ mapped \subseteq mapped' /\ g_heap_bump' = p.user + size /\ g_heap_end' = x.to /\ UNCHANGED g_heap_free
        BY <2>1, <2>4, <2>7, <2>10, <2>11, <2>14
    <2> QED
        BY <2>5, <2>6, <2>7, <2>13, <2>15, <2>16, CarvedFromRest
<1> QED
    BY <1>1, <1>2

LEMMA AllocKeepsHeapInv ==
    ASSUME HeapAssumption, HeapInv, NEW size \in AllocSizes, NEW align \in Aligns, HeapAlloc(size, align)
    PROVE  HeapInv'
<1> SUFFICES ASSUME heap_outcome' = "ok" PROVE HeapTyped' /\ HeapInChunks' /\ HeapApart'
    BY DEF HeapInv
<1>1. HeapTyped /\ HeapInChunks /\ HeapApart /\ heap_outcome = "ok"
    BY DEF HeapInv, HeapAlloc
<1> QED
    BY <1>1, FromListKeepsHeapInv, BumpKeepsHeapInv, GrowKeepsHeapInv DEF HeapAlloc

\* A freed block takes its header along, and none of what alignment skipped.
LEMMA FreedKeepsHeapInv ==
    ASSUME HeapAssumption, HeapInv, heap_outcome = "ok", NEW b \in live, FreedBlock(b), live' = live \ {b},
           UNCHANGED <<g_heap_bump, g_heap_end, mapped, heap_outcome>>
    PROVE  HeapInv'
<1> DEFINE freed == [addr |-> b.ptr - kHeaderSize, size |-> b.size + kHeaderSize]
<1>1. HeapTyped /\ HeapInChunks /\ HeapApart
    BY DEF HeapInv
<1>2. kHeaderSize \in Nat /\ b \in HeapBlocks /\ b.ptr >= kHeaderSize
    BY <1>1 DEF HeapAssumption, HeapTyped
<1>3. freed \in FreeBlocks /\ OfFree(freed) = OfBlock(b)
    BY <1>2 DEF FreeBlocks, HeapBlocks, OfFree, OfBlock
<1>4. g_heap_free' = Append(g_heap_free, freed)
    BY DEF FreedBlock
<1> HIDE DEF freed
<1>5. /\ g_heap_free' \in Seq(FreeBlocks) /\ DOMAIN g_heap_free' = DOMAIN g_heap_free \cup {Len(g_heap_free) + 1}
      /\ \A i \in DOMAIN g_heap_free : g_heap_free'[i] = g_heap_free[i] /\ i # Len(g_heap_free) + 1
      /\ g_heap_free'[Len(g_heap_free) + 1] = freed
    BY <1>1, <1>3, <1>4 DEF HeapTyped
<1>6. \A i \in DOMAIN g_heap_free : OfFree(g_heap_free[i])' = OfFree(g_heap_free[i])
    BY <1>5 DEF OfFree
<1>8. OfRest' = OfRest
    BY DEF OfRest
<1>9. HeapTyped'
    BY <1>1, <1>5 DEF HeapTyped
<1>10. HeapInChunks'
    BY <1>1, <1>3, <1>5, <1>8 DEF HeapInChunks, InChunk, OfFree, OfBlock
<1>11. HeapApart'
    BY <1>1, <1>3, <1>5, <1>8, ClearEither DEF HeapApart, OfFree, OfBlock
<1> QED
    BY <1>9, <1>10, <1>11 DEF HeapInv

LEMMA HeapStep ==
    ASSUME HeapAssumption
    PROVE  HeapInv /\ (HeapNext \/ UNCHANGED heapVars) => HeapInv'
<1>1. ASSUME HeapInv, UNCHANGED heapVars PROVE HeapInv'
    BY <1>1 DEF HeapInv, HeapTyped, HeapInChunks, HeapApart, InChunk, OfRest, heapVars
<1>2. ASSUME HeapInv, HeapNext PROVE HeapInv'
    <2>1. ASSUME NEW size \in AllocSizes, NEW align \in Aligns, HeapAlloc(size, align) PROVE HeapInv'
        BY <1>2, <2>1, AllocKeepsHeapInv
    <2>2. ASSUME NEW b \in live, HeapFree(b) PROVE HeapInv'
        BY <1>2, <2>2, FreedKeepsHeapInv DEF HeapFree
    <2>3. ASSUME NEW b \in live, ReallocEnd(b) PROVE HeapInv'
        BY <1>2, <2>3, FreedKeepsHeapInv DEF ReallocEnd
    <2>4. ASSUME NEW b \in live, NEW size \in AllocSizes, ReallocBegin(b, size) PROVE HeapInv'
        <3>1. HeapAlloc(size, kHeaderSize) /\ kHeaderSize \in Aligns
            BY <2>4 DEF HeapAssumption, ReallocBegin
        <3> QED
            BY <1>2, <3>1, AllocKeepsHeapInv
    <2>5. ASSUME ResetLibcHeap PROVE HeapInv'
        <3>1. g_heap_free' \in Seq(FreeBlocks) /\ DOMAIN g_heap_free' = {} /\ live' = {}
            BY <2>5 DEF ResetLibcHeap
        <3> QED
            BY <2>5, <3>1 DEF ResetLibcHeap, HeapInv, HeapTyped, HeapInChunks, HeapApart, InChunk
    <2> QED
        BY <1>2, <2>1, <2>2, <2>3, <2>4, <2>5 DEF HeapNext
<1> QED
    BY <1>1, <1>2

LEMMA HeapProperties ==
    ASSUME HeapAssumption
    PROVE  HeapInv => BlocksAreApart
<1> SUFFICES ASSUME HeapInv, heap_outcome = "ok"
             PROVE  /\ \A b \in live :
                          /\ b.ptr % b.align = 0
                          /\ \E c \in mapped : Whole(b) \subseteq c .. c + kHeapChunkSize - 1
                          /\ Whole(b) \cap (g_heap_bump .. g_heap_end - 1) = {}
                          /\ \A i \in DOMAIN g_heap_free : Whole(b) \cap Unused(i) = {}
                          /\ \A d \in live \ {b} : Whole(b) \cap Whole(d) = {}
                    /\ \A i, j \in DOMAIN g_heap_free : i # j => Unused(i) \cap Unused(j) = {}
    BY DEF BlocksAreApart
<1>1. HeapTyped /\ HeapInChunks /\ HeapApart
    BY DEF HeapInv
<1>2. \A b \in live : Whole(b) = OfBlock(b).from .. OfBlock(b).to - 1
    <2> TAKE b \in live
    <2>1. b \in HeapBlocks
        BY <1>1 DEF HeapTyped
    <2>2. b.ptr \in Nat /\ b.size \in Nat
        BY <2>1 DEF HeapBlocks
    <2>3. b.ptr + b.size - 1 = (b.ptr + b.size) - 1
        BY <2>2
    <2> QED
        BY <2>3 DEF Whole, OfBlock
<1>3. \A i \in DOMAIN g_heap_free : Unused(i) = OfFree(g_heap_free[i]).from .. OfFree(g_heap_free[i]).to - 1
    <2> TAKE i \in DOMAIN g_heap_free
    <2>1. g_heap_free[i].addr \in Nat /\ g_heap_free[i].size \in Nat
        BY <1>1, PieceFacts DEF FreeBlocks
    <2>2. g_heap_free[i].addr + g_heap_free[i].size - 1 = (g_heap_free[i].addr + g_heap_free[i].size) - 1
        BY <2>1
    <2> QED
        BY <2>2 DEF Unused, OfFree
<1>4. g_heap_bump .. g_heap_end - 1 = OfRest.from .. OfRest.to - 1
    BY DEF OfRest
<1>5. ASSUME NEW x, NEW y, x.from \in Nat, x.to \in Nat, y.from \in Nat, y.to \in Nat, Clear(x, y)
      PROVE  (x.from .. x.to - 1) \cap (y.from .. y.to - 1) = {}
    BY <1>5 DEF Clear
<1>6. ASSUME NEW b \in live
      PROVE  \E c \in mapped : Whole(b) \subseteq c .. c + kHeapChunkSize - 1
    <2>1. PICK c \in mapped : c <= OfBlock(b).from /\ OfBlock(b).to <= c + kHeapChunkSize
        BY <1>1 DEF HeapInChunks, InChunk
    <2>2. c \in Nat /\ kHeapChunkSize \in Nat
        BY <1>1 DEF HeapAssumption, HeapTyped
    <2>3. OfBlock(b).from \in Nat /\ OfBlock(b).to \in Nat
        BY <1>1, PieceFacts
    <2> DEFINE from == OfBlock(b).from
               to == OfBlock(b).to
    <2> HIDE DEF from, to
    <2>4. (from .. to - 1) \subseteq (c .. c + kHeapChunkSize - 1)
        BY <2>1, <2>2, <2>3 DEF from, to
    <2> QED
        BY <1>2, <2>4 DEF from, to
<1>7. \A b \in live : b.ptr % b.align = 0
    BY <1>1 DEF HeapTyped
<1> QED
    BY <1>1, <1>2, <1>3, <1>4, <1>5, <1>6, <1>7, PieceFacts DEF HeapApart

-----------------------------------------------------------------------------
(* Exceptions of one guest thread. *)

CxaAssumption == MaxDepth \in Nat \ {0}

ExceptionRecords == [allocated : BOOLEAN, type : Types \cup {AnyType}, handlerCount : Nat]
Phase2Entries == [ue : Exceptions, handler : Nat]

\* What a frame does.
Body(f) == stack[f].mode = "body"
Landed(f) == stack[f].mode = "landed"
Handling(f) == stack[f].mode = "handler"
Cleaning(f) == stack[f].mode = "cleanup"
Leaving(f) == stack[f].mode = "leaving"
UnderWay(f) == Cleaning(f) \/ Leaving(f)
Flying(f) == Landed(f) \/ UnderWay(f)
Clause(f) == Handling(f) \/ Leaving(f)

CxaTyped ==
    /\ stack \in Seq(Frames) /\ 1 <= Top /\ Top <= MaxDepth
    /\ exception \in [Exceptions -> ExceptionRecords]
    /\ g_caught \in Seq(Exceptions) /\ g_phase2 \in Seq(Phase2Entries)
    /\ g_uncaught_exceptions \in Nat /\ ended \in BOOLEAN /\ rethrown \subseteq Exceptions

\* A pad that calls nothing is that of the innermost frame.
PadsOnTop ==
    \A f \in 1 .. Top : /\ Landed(f) \/ Leaving(f) => f = Top
                        /\ Flying(f) \/ Handling(f) => stack[f].ue \in Exceptions

FlightsAreDistinct ==
    \A f, g \in 1 .. Top : f # g /\ Flying(f) /\ Flying(g) => stack[f].ue # stack[g].ue

\* The record of a pad: no frame between it and the one that catches has a pad under way.
RecordFor(f, r) ==
    /\ r.ue = stack[f].ue
    /\ r.handler \in 1 .. f - 1
    /\ Catches(r.handler, exception[r.ue].type)
    /\ \A g \in r.handler .. f - 1 : ~UnderWay(g)

RecordsMatchPads ==
    /\ \A i, j \in 1 .. Len(g_phase2) : g_phase2[i].ue = g_phase2[j].ue => i = j
    /\ \A f \in 1 .. Top : UnderWay(f) => \E i \in 1 .. Len(g_phase2) : RecordFor(f, g_phase2[i])
    /\ \A i \in 1 .. Len(g_phase2) : \E f \in 1 .. Top : UnderWay(f) /\ stack[f].ue = g_phase2[i].ue

FlightsAreCounted ==
    g_uncaught_exceptions = Len(g_phase2) + (IF Landed(Top) THEN 1 ELSE 0)

\* w lists the clauses from the outermost; a clause that runs has its exception at its
\* place among the caught ones.
Lists(w) ==
    /\ w \in [1 .. Len(g_caught) -> 1 .. Top]
    /\ \A i, j \in 1 .. Len(g_caught) : i < j => w[i] < w[j]
    /\ \A i \in 1 .. Len(g_caught) : Clause(w[i]) /\ (Handling(w[i]) => stack[w[i]].ue = g_caught[i])
    /\ \A f \in 1 .. Top : Clause(f) => \E i \in 1 .. Len(g_caught) : w[i] = f

ClausesMatchCaught == \E w : Lists(w)

\* An exception that is under way and caught at once was thrown again by its clause.
CaughtAreDistinct ==
    /\ \A i, j \in 1 .. Len(g_caught) : g_caught[i] = g_caught[j] => i = j
    /\ \A f \in 1 .. Top, i \in 1 .. Len(g_caught) : Flying(f) /\ stack[f].ue = g_caught[i] =>
          Leaving(f) /\ i = Len(g_caught) /\ stack[f].ue \in rethrown

IsInFlight(e) == \E f \in 1 .. Top : Flying(f) /\ stack[f].ue = e
IsCaught(e) == \E i \in 1 .. Len(g_caught) : g_caught[i] = e

HandlersCount ==
    \A e \in Exceptions \ rethrown :
        /\ IsInFlight(e) => exception[e].allocated /\ exception[e].handlerCount = 0
        /\ IsCaught(e) => exception[e].allocated /\ exception[e].handlerCount = 1
        /\ ~IsInFlight(e) /\ ~IsCaught(e) => ~exception[e].allocated

CxaSound == /\ PadsOnTop /\ FlightsAreDistinct /\ RecordsMatchPads /\ FlightsAreCounted
            /\ ClausesMatchCaught /\ CaughtAreDistinct /\ HandlersCount
CxaInv == CxaTyped /\ (~ended => CxaSound)

-----------------------------------------------------------------------------
(* The stack. *)

LEMMA ModeFacts ==
    \A f : /\ Body(f) => ~Flying(f) /\ ~Clause(f)
           /\ Handling(f) => ~Flying(f)
           /\ Landed(f) => ~UnderWay(f) /\ ~Clause(f)
           /\ Cleaning(f) => ~Clause(f)
    BY DEF Body, Landed, Handling, Cleaning, Leaving, UnderWay, Flying, Clause

LEMMA CxaFacts ==
    ASSUME CxaTyped
    PROVE  /\ Top \in Nat \ {0} /\ DOMAIN stack = 1 .. Top /\ \A f \in 1 .. Top : stack[f] \in Frames
           /\ Len(g_caught) \in Nat /\ DOMAIN g_caught = 1 .. Len(g_caught)
           /\ \A i \in 1 .. Len(g_caught) : g_caught[i] \in Exceptions
           /\ Len(g_phase2) \in Nat /\ DOMAIN g_phase2 = 1 .. Len(g_phase2)
           /\ \A i \in 1 .. Len(g_phase2) : g_phase2[i] \in Phase2Entries
    BY DEF CxaTyped, Top

\* A frame that is left alone does what it did.
LEMMA KeptFrame ==
    ASSUME NEW f, stack'[f] = stack[f]
    PROVE  /\ Body(f)' <=> Body(f)
           /\ Landed(f)' <=> Landed(f)
           /\ Handling(f)' <=> Handling(f)
           /\ Leaving(f)' <=> Leaving(f)
           /\ UnderWay(f)' <=> UnderWay(f)
           /\ Flying(f)' <=> Flying(f)
           /\ Clause(f)' <=> Clause(f)
           /\ \A ty : Catches(f, ty)' <=> Catches(f, ty)
    BY DEF Body, Landed, Handling, Cleaning, Leaving, UnderWay, Flying, Clause, Catches

LEMMA HighestIs ==
    ASSUME NEW n \in Nat, NEW S \in SUBSET (1 .. n), S # {}
    PROVE  Highest(S) \in S /\ \A g \in S : g <= Highest(S)
<1> DEFINE T == { n - g : g \in S }
<1>0. \A g \in S : g \in 1 .. n /\ g \in Nat /\ n - g \in Nat
    OBVIOUS
<1>1. T \in SUBSET Nat /\ T # {}
    BY <1>0
<1>2. PICK m \in T : \A k \in T : m <= k
    BY <1>1, LeastPosition
<1>3. PICK f \in S : m = n - f
    BY <1>2
<1>4. \A g \in S : g <= f
    <2> TAKE g \in S
    <2>1. n - g \in T /\ n - f <= n - g
        BY <1>2, <1>3
    <2> HIDE DEF T
    <2> QED
        BY <1>0, <2>1
<1> QED
    BY <1>4 DEF Highest

\* Landing on a frame removes those above it.
LEMMA LandedOn ==
    ASSUME CxaTyped, NEW f \in 1 .. Top, NEW e \in Exceptions, NEW mode \in {"landed", "cleanup", "leaving"},
           LandOn(f, e, mode)
    PROVE  /\ stack' \in Seq(Frames) /\ Top' = f
           /\ \A g \in 1 .. f - 1 : stack'[g] = stack[g]
           /\ stack'[f].ue = e /\ stack'[f].mode = mode
           /\ stack'[f].catches = stack[f].catches /\ stack'[f].dtor = stack[f].dtor
<1> DEFINE low == SubSeq(stack, 1, f)
           frame == [stack[f] EXCEPT !.ue = e, !.mode = mode]
<1>1. Top \in Nat /\ stack[f] \in Frames /\ \A g \in 1 .. f : stack[g] \in Frames
    BY CxaFacts
<1>2. low \in Seq(Frames) /\ Len(low) = f /\ \A g \in 1 .. f : low[g] = stack[g]
    <2>1. /\ low \in Seq(Frames)
          /\ Len(low) = IF 1 <= f THEN f - 1 + 1 ELSE 0
          /\ \A g \in 1 .. f - 1 + 1 : low[g] = stack[1 + g - 1]
        BY <1>1, SubSeqProperties
    <2> QED
        BY <2>1
<1>3. /\ frame \in Frames /\ frame.ue = e /\ frame.mode = mode
      /\ frame.catches = stack[f].catches /\ frame.dtor = stack[f].dtor
    BY <1>1 DEF Frames
<1>4. low[f] = stack[f]
    BY <1>1, <1>2
<1>5. stack' = [low EXCEPT ![f] = frame]
    BY Zenon, <1>4 DEF LandOn
<1> HIDE DEF low, frame
<1>6. stack' \in Seq(Frames) /\ Len(stack') = f /\ stack'[f] = frame
    BY <1>2, <1>3, <1>5
<1>7. \A g \in 1 .. f - 1 : stack'[g] = stack[g]
    BY <1>2, <1>5
<1> QED
    BY <1>3, <1>6, <1>7 DEF Top

-----------------------------------------------------------------------------
(* The records of the unwinder. *)

\* v is w without its k-th element, whose exception is in no other record.
DistinctEntries(w) == \A i, j \in 1 .. Len(w) : w[i].ue = w[j].ue => i = j
Without(v, w, k) ==
    /\ v \in Seq(Phase2Entries) /\ Len(v) = Len(w) - 1
    /\ \A i \in 1 .. Len(w) : i # k => \E j \in 1 .. Len(v) : v[j] = w[i]
    /\ \A j \in 1 .. Len(v) : \E i \in 1 .. Len(w) : i # k /\ v[j] = w[i]
    /\ DistinctEntries(v)

\* Forgetting the record of an exception that has one leaves the others.
LEMMA ForgetLemma ==
    ASSUME NEW w \in Seq(Phase2Entries), NEW e, NEW k \in 1 .. Len(w), w[k].ue = e, DistinctEntries(w)
    PROVE  Without(Forget(w, e), w, k)
<1> DEFINE at == { i \in DOMAIN w : w[i].ue = e }
           v == RemoveAt(w, k)
<1>1. Len(w) \in Nat /\ DOMAIN w = 1 .. Len(w)
    OBVIOUS
<1>2. at = {k}
    BY <1>1 DEF DistinctEntries
<1>3. Lowest(at) = k
    <2>1. {k} \in SUBSET Nat /\ {k} # {}
        BY <1>1
    <2>2. Lowest({k}) \in {k}
        BY <2>1, LeastPosition DEF Lowest
    <2> QED
        BY <1>2, <2>2
<1>4. Forget(w, e) = v
    BY <1>2, <1>3 DEF Forget
<1> HIDE DEF at
<1>5. /\ v \in Seq(Phase2Entries) /\ Len(v) = Len(w) - 1
      /\ \A j \in 1 .. Len(w) - 1 : v[j] = IF j < k THEN w[j] ELSE w[j + 1]
    BY <1>1, RemoveAtLemma
<1> HIDE DEF v
<1>6. \A i \in 1 .. Len(w) : i # k => \E j \in 1 .. Len(v) : v[j] = w[i]
    <2> TAKE i \in 1 .. Len(w)
    <2> HAVE i # k
    <2>1. CASE i < k
        <3>1. i \in 1 .. Len(v) /\ v[i] = w[i]
            BY <1>1, <1>5, <2>1
        <3> QED
            BY <3>1
    <2>2. CASE i > k
        <3>1. i - 1 \in 1 .. Len(v) /\ ~(i - 1 < k) /\ (i - 1) + 1 = i
            BY <1>1, <1>5, <2>2
        <3>2. v[i - 1] = w[i]
            BY <1>5, <3>1
        <3> QED
            BY <3>1, <3>2
    <2> QED
        BY <1>1, <2>1, <2>2
<1>7. \A j \in 1 .. Len(v) : v[j] = w[IF j < k THEN j ELSE j + 1] /\ (IF j < k THEN j ELSE j + 1) \in 1 .. Len(w) \ {k}
    BY <1>1, <1>5
<1>8. \A i, j \in 1 .. Len(v) : v[i].ue = v[j].ue => i = j
    <2> TAKE i, j \in 1 .. Len(v)
    <2> HAVE v[i].ue = v[j].ue
    <2>1. (IF i < k THEN i ELSE i + 1) = (IF j < k THEN j ELSE j + 1)
        BY <1>7 DEF DistinctEntries
    <2> QED
        BY <1>1, <1>5, <2>1
<1> QED
    BY <1>4, <1>5, <1>6, <1>7, <1>8 DEF Without, DistinctEntries

\* Where an exception lands: on the frame that catches, its record forgotten, or on a pad
\* above it that keeps the record.  e is new under way, or was on the innermost frame.
Landing(e, h, f, entries) ==
    /\ CxaTyped' /\ Top' = f
    /\ \A g \in 1 .. f - 1 : stack'[g] = stack[g]
    /\ stack'[f].ue = e
    /\ IF f = h THEN Landed(f)' /\ g_phase2' = Forget(entries, e)
                ELSE UnderWay(f)' /\ g_phase2' = entries
    /\ g_uncaught_exceptions' = Len(entries)

\* The records that e is raised or resumed with: its own, and those of pads further out.
Entries(e, h, entries) ==
    /\ entries \in Seq(Phase2Entries)
    /\ DistinctEntries(entries)
    /\ \E k \in 1 .. Len(entries) : entries[k].ue = e /\ entries[k].handler = h
    /\ Catches(h, exception'[e].type)
    /\ \A g \in 1 .. h - 1 : UnderWay(g) =>
          /\ stack[g].ue # e /\ exception'[stack[g].ue].type = exception[stack[g].ue].type
          /\ \E i \in 1 .. Len(entries) : RecordFor(g, entries[i])
    /\ \A i \in 1 .. Len(entries) :
          entries[i].ue = e \/ \E g \in 1 .. h - 1 : UnderWay(g) /\ stack[g].ue = entries[i].ue

LEMMA LandingKeepsRecords ==
    ASSUME CxaTyped, PadsOnTop, NEW e \in Exceptions, NEW h \in 1 .. Top, NEW f \in h .. Top, NEW entries,
           FlightsAreDistinct, Landing(e, h, f, entries), Entries(e, h, entries), \A g \in h .. f - 1 : ~Flying(g)
    PROVE  PadsOnTop' /\ FlightsAreDistinct' /\ RecordsMatchPads' /\ FlightsAreCounted'
<1>1. Top \in Nat \ {0} /\ Top' = f /\ f \in 1 .. Top /\ f \in Nat /\ h \in Nat /\ h >= 1 /\ h <= f
    BY CxaFacts DEF Landing
<1>2. \A g \in 1 .. f - 1 : /\ stack'[g] = stack[g] /\ g \in 1 .. Top /\ g # Top
                            /\ Flying(g)' <=> Flying(g)
                            /\ Handling(g)' <=> Handling(g)
                            /\ UnderWay(g)' <=> UnderWay(g)
                            /\ ~Landed(g)' /\ ~Leaving(g)' /\ ~Landed(g)
                            /\ \A ty : Catches(g, ty)' <=> Catches(g, ty)
    <2> TAKE g \in 1 .. f - 1
    <2>1. stack'[g] = stack[g] /\ g \in 1 .. Top /\ g # Top
        BY <1>1 DEF Landing
    <2>2. ~Landed(g) /\ ~Leaving(g)
        BY <2>1 DEF PadsOnTop
    <2> QED
        BY <2>1, <2>2, KeptFrame
<1>3. stack'[f].ue = e /\ Flying(f)' /\ (f = h => Landed(f)') /\ (f # h => UnderWay(f)' /\ ~Landed(f)')
    BY ModeFacts DEF Landing, Flying, Landed, UnderWay, Cleaning, Leaving
<1>4. ~Handling(f)'
    BY <1>3 DEF Flying, Landed, UnderWay, Cleaning, Leaving, Handling
<1>5. \A g \in 1 .. Top' : g = f \/ g \in 1 .. f - 1
    BY <1>1
<1>6. PadsOnTop'
    BY <1>1, <1>2, <1>3, <1>5 DEF PadsOnTop
<1>7. \A g \in 1 .. f - 1 : Flying(g) => g \in 1 .. h - 1 /\ UnderWay(g) /\ stack[g].ue # e
    <2> TAKE g \in 1 .. f - 1
    <2> HAVE Flying(g)
    <2>1. g \in 1 .. h - 1
        BY <1>1
    <2>2. UnderWay(g)
        BY <1>2 DEF Flying
    <2> QED
        BY <2>1, <2>2 DEF Entries
<1>8. FlightsAreDistinct'
    BY <1>1, <1>2, <1>3, <1>5, <1>7 DEF FlightsAreDistinct
<1>9. PICK k \in 1 .. Len(entries) : entries[k].ue = e /\ entries[k].handler = h
    BY DEF Entries
<1>10. \A g \in 1 .. h - 1 : \A r : UnderWay(g) /\ RecordFor(g, r) => RecordFor(g, r)'
    <2> TAKE g \in 1 .. h - 1
    <2> TAKE r
    <2> HAVE UnderWay(g) /\ RecordFor(g, r)
    <2>1. stack'[g] = stack[g] /\ exception'[r.ue].type = exception[r.ue].type
        BY <1>1, <1>2 DEF RecordFor, Entries
    <2>2. \A x \in r.handler .. g - 1 : x \in 1 .. f - 1
        BY <1>1 DEF RecordFor
    <2>3. r.handler \in 1 .. f - 1
        BY <1>1 DEF RecordFor
    <2> QED
        BY <1>2, <2>1, <2>2, <2>3 DEF RecordFor
<1>11. CASE f = h
    <2>1. Without(g_phase2', entries, k)
        <3>1. entries \in Seq(Phase2Entries) /\ DistinctEntries(entries)
            BY DEF Entries
        <3>2. g_phase2' = Forget(entries, e)
            BY <1>11 DEF Landing
        <3> QED
            BY Zenon, <1>9, <3>1, <3>2, ForgetLemma
    <2>2. ASSUME NEW g \in 1 .. Top', UnderWay(g)'
          PROVE  \E j \in 1 .. Len(g_phase2') : RecordFor(g, g_phase2[j])'
        <3>1. g \in 1 .. h - 1 /\ UnderWay(g)
            BY <1>1, <1>2, <1>3, <1>5, <1>11, <2>2, ModeFacts DEF Landed, UnderWay, Cleaning, Leaving
        <3>2. PICK i \in 1 .. Len(entries) : RecordFor(g, entries[i])
            BY <3>1 DEF Entries
        <3>3. i # k
            BY <1>9, <3>1, <3>2 DEF RecordFor, Entries
        <3>4. PICK j \in 1 .. Len(g_phase2') : g_phase2'[j] = entries[i]
            BY <2>1, <3>3 DEF Without
        <3>5. RecordFor(g, entries[i])'
            BY <1>10, <3>1, <3>2
        <3> QED
            BY <3>4, <3>5 DEF RecordFor
    <2>3. ASSUME NEW j \in 1 .. Len(g_phase2')
          PROVE  \E g \in 1 .. Top' : UnderWay(g)' /\ stack'[g].ue = g_phase2'[j].ue
        <3>1. PICK i \in 1 .. Len(entries) : i # k /\ g_phase2'[j] = entries[i]
            BY <2>1 DEF Without
        <3>2. entries[i].ue # e
            BY <1>9, <3>1 DEF Entries, DistinctEntries
        <3>3. PICK g \in 1 .. h - 1 : UnderWay(g) /\ stack[g].ue = entries[i].ue
            BY <3>2 DEF Entries
        <3>4. g \in 1 .. f - 1 /\ g \in 1 .. Top'
            BY <1>1
        <3> QED
            BY <1>2, <3>1, <3>3, <3>4
    <2>4. RecordsMatchPads'
        BY <2>1, <2>2, <2>3 DEF RecordsMatchPads, Without, DistinctEntries
    <2>5. FlightsAreCounted'
        <3>1. Landed(Top)'
            BY <1>1, <1>3, <1>11 DEF Landed
        <3>2. g_uncaught_exceptions' = Len(entries) /\ Len(entries) \in Nat
            BY DEF Landing, Entries
        <3> QED
            BY <2>1, <3>1, <3>2 DEF FlightsAreCounted, Without
    <2> QED
        BY <1>6, <1>8, <2>4, <2>5
<1>12. CASE f # h
    <2>1. g_phase2' = entries
        BY <1>12 DEF Landing
    <2>2. RecordFor(f, entries[k])'
        <3>1. h \in 1 .. f - 1
            BY <1>1, <1>12
        <3>2. Catches(h, exception[e].type)'
            BY <1>2, <3>1 DEF Entries, Catches
        <3>3. \A g \in h .. f - 1 : ~UnderWay(g)'
            BY <1>1, <1>2 DEF Flying
        <3> QED
            BY <1>3, <1>9, <3>1, <3>2, <3>3 DEF RecordFor
    <2>3. ASSUME NEW g \in 1 .. Top', UnderWay(g)'
          PROVE  \E j \in 1 .. Len(g_phase2') : RecordFor(g, g_phase2[j])'
        <3>1. CASE g = f
            BY <1>9, <2>1, <2>2, <3>1 DEF RecordFor
        <3>2. CASE g # f
            <4>1. g \in 1 .. h - 1 /\ UnderWay(g)
                BY <1>1, <1>2, <1>5, <1>7, <2>3, <3>2 DEF Flying
            <4>2. PICK i \in 1 .. Len(entries) : RecordFor(g, entries[i])
                BY <4>1 DEF Entries
            <4>3. RecordFor(g, entries[i])'
                BY <1>10, <4>1, <4>2
            <4> QED
                BY <2>1, <4>3 DEF RecordFor
        <3> QED
            BY <3>1, <3>2
    <2>4. ASSUME NEW j \in 1 .. Len(g_phase2')
          PROVE  \E g \in 1 .. Top' : UnderWay(g)' /\ stack'[g].ue = g_phase2'[j].ue
        <3>1. CASE entries[j].ue = e
            BY <1>1, <1>3, <1>12, <2>1, <3>1
        <3>2. CASE entries[j].ue # e
            <4>1. PICK g \in 1 .. h - 1 : UnderWay(g) /\ stack[g].ue = entries[j].ue
                BY <2>1, <3>2 DEF Entries
            <4>2. g \in 1 .. f - 1 /\ g \in 1 .. Top'
                BY <1>1
            <4> QED
                BY <1>2, <2>1, <4>1, <4>2
        <3> QED
            BY <3>1, <3>2
    <2>5. RecordsMatchPads'
        BY <2>1, <2>3, <2>4 DEF RecordsMatchPads, Entries, DistinctEntries
    <2>6. FlightsAreCounted'
        BY <1>1, <1>3, <1>12, <2>1 DEF FlightsAreCounted, Landing, Entries, Landed
    <2> QED
        BY <1>6, <1>8, <2>5, <2>6
<1> QED
    BY <1>11, <1>12

-----------------------------------------------------------------------------
(* Raising and resuming. *)

\* Where RunPhase2 lands.
LandsAt(e, h, f, entries) ==
    /\ stack' \in Seq(Frames) /\ Top' = f
    /\ \A g \in 1 .. f - 1 : stack'[g] = stack[g]
    /\ stack'[f].ue = e
    /\ \A g \in f + 1 .. Top : ~HasPad(g)
    /\ f = h \/ HasPad(f)
    /\ f = h => Landed(f)' /\ g_phase2' = Forget(entries, e)
    /\ f # h => /\ g_phase2' = entries
                /\ Handling(f) => Leaving(f)'
                /\ ~Handling(f) => Cleaning(f)'

LEMMA RunPhase2Lands ==
    ASSUME CxaTyped, NEW e \in Exceptions, NEW h \in 1 .. Top, NEW entries, RunPhase2(e, h, entries)
    PROVE  \E f \in h .. Top : LandsAt(e, h, f, entries)
<1> DEFINE S == {h} \cup { g \in h .. Top : HasPad(g) }
           f == Highest(S)
<1>1. Top \in Nat \ {0} /\ h \in Nat
    BY CxaFacts
<1>2. S \in SUBSET (1 .. Top) /\ S # {}
    BY <1>1
<1> HIDE DEF S
<1>3. f \in S /\ \A g \in S : g <= f
    BY <1>1, <1>2, HighestIs
<1>4. f \in h .. Top /\ (f = h \/ HasPad(f))
    BY <1>1, <1>3 DEF S
<1>5. \A g \in f + 1 .. Top : ~HasPad(g)
    <2> TAKE g \in f + 1 .. Top
    <2>1. g \in h .. Top /\ ~(g <= f)
        BY <1>1, <1>4
    <2> QED
        BY <1>3, <2>1 DEF S
<1>6. IF f = h THEN LandOn(f, e, "landed") /\ g_phase2' = Forget(entries, e)
      ELSE /\ LandOn(f, e, IF stack[f].mode = "handler" THEN "leaving" ELSE "cleanup")
           /\ g_phase2' = entries
    BY Zenon DEF RunPhase2, S
<1> HIDE DEF f
<1>7. f \in 1 .. Top
    BY <1>1, <1>4
<1>8. CASE f = h
    <2>1. LandOn(f, e, "landed")
        BY <1>6, <1>8
    <2> QED
        BY <1>4, <1>5, <1>6, <1>7, <1>8, <2>1, LandedOn DEF LandsAt, Landed
<1>9. CASE f # h /\ Handling(f)
    <2>1. LandOn(f, e, "leaving")
        BY <1>6, <1>9 DEF Handling
    <2> QED
        BY <1>4, <1>5, <1>6, <1>7, <1>9, <2>1, LandedOn DEF LandsAt, Leaving
<1>10. CASE f # h /\ ~Handling(f)
    <2>1. LandOn(f, e, "cleanup")
        BY <1>6, <1>10 DEF Handling
    <2> QED
        BY <1>4, <1>5, <1>6, <1>7, <1>10, <2>1, LandedOn DEF LandsAt, Cleaning
<1> QED
    BY <1>8, <1>9, <1>10

\* The frame an exception lands on is on its way to the handler.
LEMMA LandsIsLanding ==
    ASSUME CxaTyped', NEW e, NEW h, NEW f, NEW entries, LandsAt(e, h, f, entries),
           g_uncaught_exceptions' = Len(entries)
    PROVE  Landing(e, h, f, entries)
    BY DEF LandsAt, Landing, UnderWay

LEMMA RaiseLands ==
    ASSUME CxaTyped, CxaTyped', CxaSound, ~ended', NEW e \in Exceptions, NEW type,
           RaiseException(e, type), Body(Top) \/ Handling(Top),
           \A g \in 1 .. Top : Flying(g) => /\ stack[g].ue # e
                                            /\ exception'[stack[g].ue].type = exception[stack[g].ue].type,
           exception'[e].type = type, g_uncaught_exceptions' = g_uncaught_exceptions + 1
    PROVE  \E h \in 1 .. Top : \E f \in h .. Top :
              /\ LandsAt(e, h, f, Append(g_phase2, [ue |-> e, handler |-> h]))
              /\ Body(h) /\ \A g \in h .. Top : ~Flying(g)
              /\ PadsOnTop' /\ FlightsAreDistinct' /\ RecordsMatchPads' /\ FlightsAreCounted'
<1> DEFINE found == { g \in 1 .. Top : Catches(g, type) \/ stack[g].mode \in {"cleanup", "leaving"} }
           h == Highest(found)
           entry == [ue |-> e, handler |-> h]
           entries == Append(g_phase2, entry)
<1>1. /\ Top \in Nat \ {0} /\ Len(g_phase2) \in Nat /\ DOMAIN g_phase2 = 1 .. Len(g_phase2)
      /\ \A i \in 1 .. Len(g_phase2) : g_phase2[i] \in Phase2Entries
    BY CxaFacts
<1>2. found # {} /\ Catches(h, type) /\ RunPhase2(e, h, entries)
    BY DEF RaiseException, CxaTyped
<1>3. found \in SUBSET (1 .. Top)
    OBVIOUS
<1>4. \A g \in 1 .. Top : UnderWay(g) => g \in found
    BY DEF UnderWay, Cleaning, Leaving
<1> HIDE DEF found
<1>5. h \in found /\ \A g \in found : g <= h
    BY <1>1, <1>2, <1>3, HighestIs
<1> HIDE DEF h
<1>6. h \in 1 .. Top /\ Body(h)
    BY <1>2, <1>3, <1>5 DEF Catches, Body
<1>7. \A g \in h .. Top : ~Flying(g)
    <2> TAKE g \in h .. Top
    <2>1. g \in 1 .. Top
        BY <1>1, <1>6
    <2>2. ~UnderWay(g)
        <3>1. CASE g = h
            BY <1>6, <3>1, ModeFacts DEF Flying
        <3>2. CASE g # h
            <4>1. ~(g <= h)
                BY <1>1, <1>6, <3>2
            <4> QED
                BY <1>4, <1>5, <2>1, <4>1
        <3> QED
            BY <3>1, <3>2
    <2>3. ~Landed(g)
        BY <2>1, ModeFacts DEF CxaSound, PadsOnTop, Flying
    <2> QED
        BY <2>2, <2>3 DEF Flying
<1>8. PICK f \in h .. Top : LandsAt(e, h, f, entries)
    BY <1>2, <1>6, RunPhase2Lands
<1>9. entry \in Phase2Entries
    BY <1>1, <1>6 DEF Phase2Entries
<1> HIDE DEF entry
<1>10. /\ entries \in Seq(Phase2Entries) /\ Len(entries) = Len(g_phase2) + 1
       /\ \A i \in 1 .. Len(g_phase2) : entries[i] = g_phase2[i]
       /\ entries[Len(g_phase2) + 1] = entry
    BY <1>1, <1>9, AppendProperties DEF CxaTyped
<1> HIDE DEF entries
<1>11. entry.ue = e /\ entry.handler = h
    BY DEF entry
<1>12. \A g \in 1 .. Top : UnderWay(g) => g \in 1 .. h - 1 /\ Flying(g)
    <2> TAKE g \in 1 .. Top
    <2> HAVE UnderWay(g)
    <2>1. Flying(g)
        BY DEF Flying
    <2> QED
        BY <1>1, <1>6, <1>7, <2>1
<1>13. \A i \in 1 .. Len(g_phase2) : g_phase2[i].ue # e
                                  /\ \E g \in 1 .. h - 1 : UnderWay(g) /\ stack[g].ue = g_phase2[i].ue
    <2> TAKE i \in 1 .. Len(g_phase2)
    <2>1. PICK g \in 1 .. Top : UnderWay(g) /\ stack[g].ue = g_phase2[i].ue
        BY DEF CxaSound, RecordsMatchPads
    <2> QED
        BY <1>12, <2>1
<1>14. \A i \in 1 .. Len(entries) : i \in 1 .. Len(g_phase2) \/ i = Len(g_phase2) + 1
    BY <1>1, <1>10
<1>15. Entries(e, h, entries)
    <2>1. DistinctEntries(entries)
        <3> SUFFICES ASSUME NEW i \in 1 .. Len(entries), NEW j \in 1 .. Len(entries), entries[i].ue = entries[j].ue
                     PROVE  i = j
            BY DEF DistinctEntries
        <3>1. CASE i \in 1 .. Len(g_phase2) /\ j \in 1 .. Len(g_phase2)
            <4>1. g_phase2[i].ue = g_phase2[j].ue
                BY <1>10, <3>1
            <4> QED
                BY <3>1, <4>1 DEF CxaSound, RecordsMatchPads
        <3>2. CASE i \in 1 .. Len(g_phase2) /\ j = Len(g_phase2) + 1
            BY <1>10, <1>11, <1>13, <3>2
        <3>3. CASE i = Len(g_phase2) + 1 /\ j \in 1 .. Len(g_phase2)
            BY <1>10, <1>11, <1>13, <3>3
        <3> QED
            BY <1>14, <3>1, <3>2, <3>3
    <2>2. \E k \in 1 .. Len(entries) : entries[k].ue = e /\ entries[k].handler = h
        BY <1>1, <1>10, <1>11
    <2>3. ASSUME NEW g \in 1 .. h - 1, UnderWay(g)
          PROVE  /\ stack[g].ue # e /\ exception'[stack[g].ue].type = exception[stack[g].ue].type
                 /\ \E i \in 1 .. Len(entries) : RecordFor(g, entries[i])
        <3>1. g \in 1 .. Top /\ Flying(g)
            BY <1>1, <1>6, <2>3 DEF Flying
        <3>2. PICK i \in 1 .. Len(g_phase2) : RecordFor(g, g_phase2[i])
            BY <2>3, <3>1 DEF CxaSound, RecordsMatchPads
        <3>3. i \in 1 .. Len(entries) /\ entries[i] = g_phase2[i]
            BY <1>1, <1>10
        <3> QED
            BY <3>1, <3>2, <3>3
    <2>4. \A i \in 1 .. Len(entries) :
             entries[i].ue = e \/ \E g \in 1 .. h - 1 : UnderWay(g) /\ stack[g].ue = entries[i].ue
        BY <1>10, <1>11, <1>13, <1>14
    <2>5. Catches(h, exception'[e].type)
        BY <1>2
    <2> QED
        BY <1>10, <2>1, <2>2, <2>3, <2>4, <2>5 DEF Entries
<1>16. g_uncaught_exceptions' = Len(entries)
    <2>1. ~Landed(Top)
        BY ModeFacts DEF Flying
    <2> QED
        BY <1>1, <1>10, <2>1 DEF CxaSound, FlightsAreCounted
<1>17. Landing(e, h, f, entries)
    BY <1>8, <1>16, LandsIsLanding
<1>18. \A g \in h .. f - 1 : ~Flying(g)
    BY <1>1, <1>6, <1>7
<1>19. PadsOnTop' /\ FlightsAreDistinct' /\ RecordsMatchPads' /\ FlightsAreCounted'
    BY <1>6, <1>15, <1>17, <1>18, LandingKeepsRecords DEF CxaSound
<1> QED
    BY <1>6, <1>7, <1>8, <1>19 DEF entries, entry

-----------------------------------------------------------------------------
(* What an action leaves as it was. *)

LEMMA ForgetTyped ==
    ASSUME NEW w \in Seq(Phase2Entries), NEW e
    PROVE  Forget(w, e) \in Seq(Phase2Entries)
<1> DEFINE at == { i \in DOMAIN w : w[i].ue = e }
<1>1. Len(w) \in Nat /\ DOMAIN w = 1 .. Len(w)
    OBVIOUS
<1>2. CASE at = {}
    BY <1>2 DEF Forget
<1>3. CASE at # {}
    <2>1. at \in SUBSET Nat /\ at \in SUBSET (1 .. Len(w))
        BY <1>1
    <2> HIDE DEF at
    <2>2. Lowest(at) \in at
        BY <1>3, <2>1, LeastPosition DEF Lowest
    <2>3. Lowest(at) \in 1 .. Len(w)
        BY <2>1, <2>2
    <2>4. RemoveAt(w, Lowest(at)) \in Seq(Phase2Entries)
        BY <2>3, RemoveAtLemma
    <2> QED
        BY <1>3, <2>4 DEF Forget, at
<1> QED
    BY <1>2, <1>3

\* The exceptions under way are those there were, when no pad is entered or left.
LEMMA SameFlights ==
    ASSUME CxaTyped, CxaTyped',
           \A g \in 1 .. Top : Flying(g) => g \in 1 .. Top' /\ stack'[g] = stack[g],
           \A g \in 1 .. Top' : Flying(g)' => g \in 1 .. Top /\ Flying(g)
    PROVE  /\ FlightsAreDistinct => FlightsAreDistinct'
           /\ \A x : IsInFlight(x)' <=> IsInFlight(x)
<1>1. \A g \in 1 .. Top : Flying(g) => Flying(g)'
    BY KeptFrame
<1>2. FlightsAreDistinct => FlightsAreDistinct'
    <2> HAVE FlightsAreDistinct
    <2> QED
        BY DEF FlightsAreDistinct
<1>3. \A x : IsInFlight(x)' <=> IsInFlight(x)
    <2> TAKE x
    <2>1. IsInFlight(x) => IsInFlight(x)'
        BY <1>1 DEF IsInFlight
    <2>2. IsInFlight(x)' => IsInFlight(x)
        BY DEF IsInFlight
    <2> QED
        BY <2>1, <2>2
<1> QED
    BY <1>2, <1>3

\* So are the records, when nothing at or below a pad changes.
LEMMA SameRecords ==
    ASSUME CxaTyped, CxaTyped', RecordsMatchPads, g_phase2' = g_phase2,
           \A e \in Exceptions : exception'[e].type = exception[e].type,
           \A g \in 1 .. Top : UnderWay(g) => g \in 1 .. Top' /\ \A x \in 1 .. g : stack'[x] = stack[x],
           \A g \in 1 .. Top' : UnderWay(g)' => g \in 1 .. Top /\ UnderWay(g)
    PROVE  RecordsMatchPads'
<1>1. Top \in Nat /\ \A i \in 1 .. Len(g_phase2) : g_phase2[i].ue \in Exceptions
    BY CxaFacts DEF Phase2Entries
<1>2. ASSUME NEW f \in 1 .. Top, UnderWay(f), NEW i \in 1 .. Len(g_phase2), RecordFor(f, g_phase2[i])
      PROVE  RecordFor(f, g_phase2[i])'
    <2> DEFINE r == g_phase2[i]
    <2>1. stack'[f] = stack[f] /\ r.handler \in 1 .. f - 1 /\ f \in Nat
        BY <1>1, <1>2 DEF RecordFor
    <2>2. \A x \in r.handler .. f - 1 : stack'[x] = stack[x]
        BY <1>2, <2>1
    <2>3. exception'[r.ue].type = exception[r.ue].type
        BY <1>1
    <2>4. stack'[r.handler] = stack[r.handler]
        BY <2>1, <2>2
    <2>5. Catches(r.handler, exception[r.ue].type)'
        BY <1>2, <2>3, <2>4, KeptFrame DEF RecordFor
    <2>6. \A x \in r.handler .. f - 1 : ~UnderWay(x)'
        BY <1>2, <2>2, KeptFrame DEF RecordFor
    <2> QED
        BY <1>2, <2>1, <2>5, <2>6 DEF RecordFor
<1>3. \A f \in 1 .. Top' : UnderWay(f)' => \E i \in 1 .. Len(g_phase2') : RecordFor(f, g_phase2[i])'
    <2> TAKE f \in 1 .. Top'
    <2> HAVE UnderWay(f)'
    <2>1. f \in 1 .. Top /\ UnderWay(f)
        OBVIOUS
    <2>2. PICK i \in 1 .. Len(g_phase2) : RecordFor(f, g_phase2[i])
        BY <2>1 DEF RecordsMatchPads
    <2> QED
        BY <1>2, <2>1, <2>2
<1>4. \A i \in 1 .. Len(g_phase2') : \E f \in 1 .. Top' : UnderWay(f)' /\ stack'[f].ue = g_phase2'[i].ue
    <2> TAKE i \in 1 .. Len(g_phase2')
    <2>1. PICK f \in 1 .. Top : UnderWay(f) /\ stack[f].ue = g_phase2[i].ue
        BY DEF RecordsMatchPads
    <2>2. f \in 1 .. Top' /\ stack'[f] = stack[f]
        BY <1>1, <2>1
    <2> QED
        BY <2>1, <2>2, KeptFrame
<1> QED
    BY <1>3, <1>4 DEF RecordsMatchPads

-----------------------------------------------------------------------------
(* Clauses and caught exceptions. *)

\* A clause that goes on is still one, and runs the same exception if it runs.
StaysClause(f) == f \in 1 .. Top' /\ Clause(f)' /\ (Handling(f)' => Handling(f) /\ stack'[f].ue = stack[f].ue)

LEMMA ClausesKept ==
    ASSUME CxaTyped, CxaTyped', ClausesMatchCaught, g_caught' = g_caught,
           \A f \in 1 .. Top : Clause(f) => StaysClause(f),
           \A f \in 1 .. Top' : Clause(f)' => f \in 1 .. Top /\ Clause(f)
    PROVE  ClausesMatchCaught'
<1>1. PICK w : Lists(w)
    BY DEF ClausesMatchCaught
<1>2. \A i \in 1 .. Len(g_caught) : w[i] \in 1 .. Top /\ Clause(w[i]) /\ StaysClause(w[i])
    BY <1>1 DEF Lists
<1>3. w \in [1 .. Len(g_caught') -> 1 .. Top']
    BY <1>1, <1>2 DEF Lists, StaysClause
<1>4. \A i \in 1 .. Len(g_caught') :
         Clause(w[i])' /\ (Handling(w[i])' => stack'[w[i]].ue = g_caught'[i])
    BY <1>1, <1>2 DEF Lists, StaysClause
<1>5. Lists(w)'
    BY <1>1, <1>3, <1>4 DEF Lists
<1> QED
    BY <1>5 DEF ClausesMatchCaught

\* The clause of the innermost frame handles the exception caught last.
LEMMA LastClause ==
    ASSUME CxaTyped, NEW w, Lists(w), Clause(Top)
    PROVE  /\ Len(g_caught) \in Nat \ {0} /\ w[Len(g_caught)] = Top
           /\ Handling(Top) => g_caught[Len(g_caught)] = stack[Top].ue
<1>1. Top \in Nat \ {0} /\ Len(g_caught) \in Nat
    BY CxaFacts
<1>2. PICK i \in 1 .. Len(g_caught) : w[i] = Top
    BY <1>1 DEF Lists
<1>3. i = Len(g_caught)
    <2>1. CASE i < Len(g_caught)
        <3>1. Len(g_caught) \in 1 .. Len(g_caught)
            BY <1>1, <2>1
        <3>2. w[i] < w[Len(g_caught)] /\ w[Len(g_caught)] \in 1 .. Top
            BY <2>1, <3>1 DEF Lists
        <3> QED
            BY <1>1, <1>2, <3>2
    <2> QED
        BY <1>1, <2>1
<1> QED
    BY <1>1, <1>2, <1>3 DEF Lists

LEMMA ClausesPopped ==
    ASSUME CxaTyped, CxaTyped', ClausesMatchCaught, Clause(Top),
           Len(g_caught') = Len(g_caught) - 1, \A i \in 1 .. Len(g_caught') : g_caught'[i] = g_caught[i],
           \A f \in 1 .. Top - 1 : Clause(f) => StaysClause(f),
           \A f \in 1 .. Top' : Clause(f)' => f \in 1 .. Top - 1 /\ Clause(f)
    PROVE  ClausesMatchCaught'
<1>1. PICK w : Lists(w)
    BY DEF ClausesMatchCaught
<1>2. Len(g_caught) \in Nat \ {0} /\ w[Len(g_caught)] = Top /\ Top \in Nat \ {0} /\ Len(g_caught') \in Nat
    BY <1>1, LastClause, CxaFacts
<1> PICK n : n = Len(g_caught) - 1
    OBVIOUS
<1> PICK v : v = [i \in 1 .. n |-> w[i]]
    OBVIOUS
<1>3. n = Len(g_caught') /\ n \in Nat /\ \A i \in 1 .. n : i \in 1 .. Len(g_caught) /\ i < Len(g_caught)
                                                          /\ Len(g_caught) \in 1 .. Len(g_caught)
    BY <1>2
<1>4. \A i \in 1 .. n : w[i] \in 1 .. Top - 1 /\ Clause(w[i]) /\ v[i] = w[i]
    <2> TAKE i \in 1 .. n
    <2>1. w[i] < w[Len(g_caught)] /\ w[i] \in 1 .. Top /\ Clause(w[i])
        BY <1>1, <1>3 DEF Lists
    <2> QED
        BY <1>2, <2>1
<1>5. \A i \in 1 .. n : StaysClause(w[i])
    BY <1>4
<1>6. v \in [1 .. Len(g_caught') -> 1 .. Top']
    BY <1>3, <1>5 DEF StaysClause
<1>7. \A i, j \in 1 .. n : i < j => v[i] < v[j]
    BY <1>1, <1>3 DEF Lists
<1>8. \A i \in 1 .. n : Handling(w[i]) => stack[w[i]].ue = g_caught[i]
    BY <1>1, <1>3 DEF Lists
<1>9. \A i \in 1 .. n : Clause(v[i])' /\ (Handling(v[i])' => stack'[v[i]].ue = g_caught'[i])
    BY <1>3, <1>4, <1>5, <1>8 DEF StaysClause
<1>10. \A f \in 1 .. Top' : Clause(f)' => \E i \in 1 .. n : v[i] = f
    <2> TAKE f \in 1 .. Top'
    <2> HAVE Clause(f)'
    <2>1. f \in 1 .. Top - 1 /\ Clause(f) /\ f \in 1 .. Top
        BY <1>2
    <2>2. PICK i \in 1 .. Len(g_caught) : w[i] = f
        BY <1>1, <2>1 DEF Lists
    <2>3. i # Len(g_caught)
        BY <1>2, <2>1, <2>2
    <2>4. i \in 1 .. n
        BY <1>2, <2>3
    <2> QED
        BY <1>4, <2>2, <2>4
<1>11. Lists(v)'
    BY <1>3, <1>6, <1>7, <1>9, <1>10 DEF Lists
<1> QED
    BY <1>11 DEF ClausesMatchCaught

\* A new clause is the innermost.
LEMMA ClausesPushed ==
    ASSUME CxaTyped, CxaTyped', ClausesMatchCaught, ~Clause(Top), Handling(Top)', Top' = Top,
           g_caught' = Append(g_caught, stack'[Top].ue),
           \A f \in 1 .. Top - 1 : stack'[f] = stack[f]
    PROVE  ClausesMatchCaught'
<1>1. PICK w : Lists(w)
    BY DEF ClausesMatchCaught
<1> PICK n : n = Len(g_caught)
    OBVIOUS
<1> PICK v : v = [i \in 1 .. n + 1 |-> IF i = n + 1 THEN Top ELSE w[i]]
    OBVIOUS
<1>2. Top \in Nat \ {0} /\ n \in Nat
    BY CxaFacts
<1>3. Len(g_caught') = n + 1 /\ g_caught'[n + 1] = stack'[Top].ue /\ \A i \in 1 .. n : g_caught'[i] = g_caught[i]
    BY AppendProperties DEF CxaTyped
<1>4. \A i \in 1 .. n : w[i] \in 1 .. Top - 1 /\ v[i] = w[i] /\ Clause(w[i])
    <2> TAKE i \in 1 .. n
    <2>1. w[i] \in 1 .. Top /\ Clause(w[i])
        BY <1>1 DEF Lists
    <2>2. i \in 1 .. n + 1 /\ i # n + 1
        BY <1>2
    <2> QED
        BY <1>2, <2>1, <2>2
<1>5. v[n + 1] = Top /\ n + 1 \in 1 .. n + 1 /\ \A i \in 1 .. n + 1 : i = n + 1 \/ i \in 1 .. n
    BY <1>2
<1>6. \A i \in 1 .. n : Handling(w[i]) => stack[w[i]].ue = g_caught[i]
    BY <1>1 DEF Lists
<1>7. \A i \in 1 .. n : Clause(v[i])' /\ (Handling(v[i])' => stack'[v[i]].ue = g_caught'[i])
    <2> TAKE i \in 1 .. n
    <2> PICK g : g = w[i]
        OBVIOUS
    <2>1. g \in 1 .. Top - 1 /\ v[i] = g /\ Clause(g) /\ (Handling(g) => stack[g].ue = g_caught[i])
        BY <1>4, <1>6
    <2>2. stack'[g] = stack[g]
        BY <2>1
    <2>3. Clause(g)' /\ (Handling(g)' => stack'[g].ue = g_caught'[i])
        BY <1>3, <2>1, <2>2, KeptFrame
    <2> QED
        BY <2>1, <2>3
<1>8. Clause(v[n + 1])' /\ stack'[v[n + 1]].ue = g_caught'[n + 1]
    BY <1>3, <1>5 DEF Clause
<1>9. \A i, j \in 1 .. n + 1 : i < j => v[i] < v[j]
    <2> TAKE i, j \in 1 .. n + 1
    <2> HAVE i < j
    <2>1. i \in 1 .. n
        BY <1>2
    <2>2. CASE j = n + 1
        <3>1. v[j] = Top /\ v[i] \in 1 .. Top - 1
            BY <1>4, <1>5, <2>1, <2>2
        <3> QED
            BY <1>2, <3>1
    <2>3. CASE j \in 1 .. n
        <3>1. w[i] < w[j]
            BY <1>1, <2>1, <2>3 DEF Lists
        <3> QED
            BY <1>4, <2>1, <2>3, <3>1
    <2> QED
        BY <1>5, <2>2, <2>3
<1>10. v \in [1 .. n + 1 -> 1 .. Top]
    <2>1. \A i \in 1 .. n + 1 : v[i] \in 1 .. Top
        <3> TAKE i \in 1 .. n + 1
        <3>1. v[i] = Top \/ v[i] \in 1 .. Top - 1
            BY <1>4, <1>5
        <3> QED
            BY <1>2, <3>1
    <2> QED
        BY <2>1
<1>11. \A f \in 1 .. Top' : Clause(f)' => \E i \in 1 .. n + 1 : v[i] = f
    <2> TAKE f \in 1 .. Top'
    <2> HAVE Clause(f)'
    <2>1. CASE f = Top
        BY <1>5, <2>1
    <2>2. CASE f # Top
        <3>1. f \in 1 .. Top - 1 /\ f \in 1 .. Top
            BY <1>2, <2>2
        <3>2. Clause(f)
            BY <3>1, KeptFrame
        <3>3. PICK i \in 1 .. n : w[i] = f
            BY <1>1, <3>1, <3>2 DEF Lists
        <3> QED
            BY <1>2, <1>4, <3>3
    <2> QED
        BY <2>1, <2>2
<1>12. Lists(v)'
    <2>1. \A i \in 1 .. n + 1 : Clause(v[i])' /\ (Handling(v[i])' => stack'[v[i]].ue = g_caught'[i])
        BY <1>5, <1>7, <1>8
    <2> QED
        BY <1>3, <1>9, <1>10, <1>11, <2>1 DEF Lists
<1> QED
    BY <1>12 DEF ClausesMatchCaught

\* __cxa_end_catch drops the exception caught last, and frees it if it was its only one.
LEMMA EndCatchEnds ==
    ASSUME CxaTyped, EndCatch
    PROVE  /\ Len(g_caught) \in Nat \ {0} /\ g_caught' \in Seq(Exceptions)
           /\ Len(g_caught') = Len(g_caught) - 1
           /\ \A i \in 1 .. Len(g_caught') : g_caught'[i] = g_caught[i]
           /\ g_caught[Len(g_caught)] \in Exceptions
           /\ exception' \in [Exceptions -> ExceptionRecords]
           /\ \A e \in Exceptions : /\ exception'[e].type = exception[e].type
                                    /\ e # g_caught[Len(g_caught)] => exception'[e] = exception[e]
           /\ exception'[g_caught[Len(g_caught)]].allocated =
                 (/\ exception[g_caught[Len(g_caught)]].allocated
                  /\ exception[g_caught[Len(g_caught)]].handlerCount > 1)
<1> DEFINE n == Len(g_caught)
           l == g_caught[n]
           count == IF exception[l].handlerCount > 0 THEN exception[l].handlerCount - 1 ELSE 0
           kept == exception[l].allocated /\ exception[l].handlerCount > 1
           new == [allocated |-> kept, type |-> exception[l].type, handlerCount |-> count]
<1>1. g_caught \in Seq(Exceptions) /\ g_caught # <<>> /\ exception \in [Exceptions -> ExceptionRecords]
    BY DEF EndCatch, CxaTyped
<1>2. n \in Nat \ {0} /\ l \in Exceptions /\ Last(g_caught) = l
    BY <1>1, EmptySeq, LenProperties DEF Last
<1>3. /\ g_caught' \in Seq(Exceptions) /\ Len(g_caught') = n - 1
      /\ \A i \in 1 .. n - 1 : g_caught'[i] = g_caught[i]
    <2>1. g_caught' = SubSeq(g_caught, 1, n - 1)
        BY DEF EndCatch, Front
    <2>2. 1 \in 1 .. n + 1 /\ n - 1 \in 1 - 1 .. n /\ \A i \in 1 .. n - 1 : i \in 1 .. n - 1 - 1 + 1 /\ 1 + i - 1 = i
        BY <1>2
    <2>3. SubSeq(g_caught, 1, n - 1) \in Seq(Exceptions)
        BY <1>1, <1>2, <2>2, SubSeqProperties
    <2>4. /\ Len(SubSeq(g_caught, 1, n - 1)) = IF 1 <= n - 1 THEN (n - 1) - 1 + 1 ELSE 0
          /\ \A i \in 1 .. (n - 1) - 1 + 1 : SubSeq(g_caught, 1, n - 1)[i] = g_caught[1 + i - 1]
        BY <1>1, <1>2, <2>2, SubSeqProperties
    <2>5. /\ Len(SubSeq(g_caught, 1, n - 1)) = n - 1
          /\ \A i \in 1 .. n - 1 : SubSeq(g_caught, 1, n - 1)[i] = g_caught[i]
        <3>1. Len(SubSeq(g_caught, 1, n - 1)) = n - 1
            BY <1>2, <2>4
        <3>2. \A i \in 1 .. n - 1 : SubSeq(g_caught, 1, n - 1)[i] = g_caught[1 + i - 1]
            BY <2>2, <2>4
        <3>3. \A i \in 1 .. n - 1 : g_caught[1 + i - 1] = g_caught[i]
            BY <2>2
        <3> QED
            BY <3>1, <3>2, <3>3
    <2> QED
        BY <2>1, <2>3, <2>5
<1>4. exception[l] \in ExceptionRecords
    BY <1>1, <1>2
<1>5. /\ new \in ExceptionRecords /\ new.type = exception[l].type
      /\ new.allocated = (exception[l].allocated /\ exception[l].handlerCount > 1)
    <2>1. count \in Nat
        BY <1>4 DEF ExceptionRecords
    <2>2. kept \in BOOLEAN
        OBVIOUS
    <2> HIDE DEF count, kept
    <2>3. new \in ExceptionRecords /\ new.type = exception[l].type /\ new.allocated = kept
        BY <1>4, <2>1, <2>2 DEF ExceptionRecords
    <2> QED
        BY <2>3 DEF kept
<1>6. exception' = [exception EXCEPT ![l] = new]
    BY Zenon, <1>2 DEF EndCatch
<1> HIDE DEF new, l, n
<1>7. /\ exception' \in [Exceptions -> ExceptionRecords] /\ exception'[l] = new
      /\ \A e \in Exceptions : e # l => exception'[e] = exception[e]
    BY <1>1, <1>2, <1>5, <1>6
<1> QED
    BY <1>2, <1>3, <1>5, <1>7 DEF n, l

\* The counts of the handlers, when the exception of the clause that ends leaves it.
LEMMA EndCatchCounts ==
    ASSUME CxaTyped, CxaTyped', EndCatch, CaughtAreDistinct, HandlersCount, rethrown' = rethrown,
           \A x : IsInFlight(x)' <=> IsInFlight(x)
    PROVE  HandlersCount'
<1> PICK n : n = Len(g_caught)
    OBVIOUS
<1> PICK l : l = g_caught[n]
    OBVIOUS
<1>1. /\ n \in Nat \ {0} /\ Len(g_caught') = n - 1 /\ l \in Exceptions
      /\ \A i \in 1 .. n - 1 : g_caught'[i] = g_caught[i] /\ i \in 1 .. n
      /\ n \in 1 .. n /\ \A i \in 1 .. n : i = n \/ i \in 1 .. n - 1
    BY EndCatchEnds
<1>2. \A e \in Exceptions : e # l => exception'[e] = exception[e]
    BY EndCatchEnds
<1>3. exception'[l].allocated = (exception[l].allocated /\ exception[l].handlerCount > 1)
    BY EndCatchEnds
<1>4. \A x : x # l => (IsCaught(x)' <=> IsCaught(x))
    BY <1>1 DEF IsCaught
<1>5. IsCaught(l) /\ ~IsCaught(l)'
    <2>1. \A i \in 1 .. n - 1 : i # n /\ g_caught[i] # l
        BY <1>1 DEF CaughtAreDistinct
    <2> QED
        BY <1>1, <2>1 DEF IsCaught
<1>6. l \notin rethrown => ~IsInFlight(l)
    BY <1>1 DEF CaughtAreDistinct, IsInFlight
<1>7. ASSUME NEW e \in Exceptions \ rethrown
      PROVE  /\ IsInFlight(e)' => exception'[e].allocated /\ exception'[e].handlerCount = 0
             /\ IsCaught(e)' => exception'[e].allocated /\ exception'[e].handlerCount = 1
             /\ ~IsInFlight(e)' /\ ~IsCaught(e)' => ~exception'[e].allocated
    <2>1. CASE e # l
        BY <1>2, <1>4, <2>1 DEF HandlersCount
    <2>2. CASE e = l
        <3>1. exception[l].handlerCount = 1
            BY <1>5, <2>2 DEF HandlersCount
        <3>2. ~(exception[l].handlerCount > 1)
            BY <3>1
        <3>3. ~exception'[l].allocated
            BY Zenon, <1>3, <3>2
        <3> QED
            BY <1>5, <1>6, <2>2, <3>3
    <2> QED
        BY <2>1, <2>2
<1> QED
    BY <1>7 DEF HandlersCount

\* Nor is it under way when it was not thrown again.
LEMMA EndCatchDistinct ==
    ASSUME CxaTyped, EndCatch, CaughtAreDistinct,
           \A f \in 1 .. Top' : Flying(f)' => \E g \in 1 .. Top : Flying(g) /\ stack[g].ue = stack'[f].ue
    PROVE  CaughtAreDistinct'
<1> DEFINE n == Len(g_caught)
<1>1. /\ n \in Nat \ {0} /\ Len(g_caught') = n - 1
      /\ \A i \in 1 .. n - 1 : g_caught'[i] = g_caught[i] /\ i \in 1 .. n /\ i # n
    BY EndCatchEnds
<1>2. \A f \in 1 .. Top', i \in 1 .. n - 1 : Flying(f)' => stack'[f].ue # g_caught'[i]
    <2> TAKE f \in 1 .. Top', i \in 1 .. n - 1
    <2> HAVE Flying(f)'
    <2>1. PICK g \in 1 .. Top : Flying(g) /\ stack[g].ue = stack'[f].ue
        OBVIOUS
    <2>2. g_caught'[i] = g_caught[i] /\ i \in 1 .. n /\ i # n
        BY <1>1
    <2> QED
        BY <2>1, <2>2 DEF CaughtAreDistinct
<1>3. \A i, j \in 1 .. n - 1 : g_caught'[i] = g_caught'[j] => i = j
    BY <1>1 DEF CaughtAreDistinct
<1> QED
    BY <1>1, <1>2, <1>3 DEF CaughtAreDistinct

-----------------------------------------------------------------------------
(* The actions. *)

\* Landing keeps the stack and the records in their sets.
LEMMA LandsTyped ==
    ASSUME CxaAssumption, CxaTyped, NEW e \in Exceptions, NEW h \in 1 .. Top, NEW f \in h .. Top,
           NEW entries \in Seq(Phase2Entries), LandsAt(e, h, f, entries)
    PROVE  stack' \in Seq(Frames) /\ 1 <= Top' /\ Top' <= MaxDepth /\ g_phase2' \in Seq(Phase2Entries)
<1>1. Top \in Nat /\ h \in Nat /\ h >= 1 /\ f \in Nat /\ f >= h /\ f <= Top /\ Top <= MaxDepth
    BY CxaFacts DEF CxaTyped
<1>2. Forget(entries, e) \in Seq(Phase2Entries)
    BY ForgetTyped
<1>3. g_phase2' \in Seq(Phase2Entries)
    BY <1>2 DEF LandsAt
<1>4. 1 <= Top' /\ Top' <= MaxDepth
    <2>1. Top' = f
        BY DEF LandsAt
    <2>2. MaxDepth \in Nat
        BY DEF CxaAssumption
    <2> QED
        BY <1>1, <2>1, <2>2
<1> QED
    BY <1>3, <1>4 DEF LandsAt

LEMMA RaiseTyped ==
    ASSUME CxaAssumption, CxaTyped, NEW e \in Exceptions, NEW type, RaiseException(e, type)
    PROVE  /\ stack' \in Seq(Frames) /\ 1 <= Top' /\ Top' <= MaxDepth
           /\ g_phase2' \in Seq(Phase2Entries) /\ ended' \in BOOLEAN
<1> DEFINE found == { g \in 1 .. Top : Catches(g, type) \/ stack[g].mode \in {"cleanup", "leaving"} }
           h == Highest(found)
           entry == [ue |-> e, handler |-> h]
<1>1. CASE found # {} /\ Catches(h, type)
    <2>1. RunPhase2(e, h, Append(g_phase2, entry)) /\ UNCHANGED ended
        BY <1>1 DEF RaiseException
    <2>2. found \in SUBSET (1 .. Top) /\ Top \in Nat
        BY CxaFacts
    <2> HIDE DEF found
    <2>3. h \in 1 .. Top
        BY <1>1, <2>2, HighestIs
    <2> HIDE DEF h
    <2>4. entry \in Phase2Entries
        BY <2>2, <2>3 DEF Phase2Entries
    <2> HIDE DEF entry
    <2>5. Append(g_phase2, entry) \in Seq(Phase2Entries)
        BY <2>4, AppendProperties DEF CxaTyped
    <2>6. PICK f \in h .. Top : LandsAt(e, h, f, Append(g_phase2, entry))
        BY <2>1, <2>3, RunPhase2Lands
    <2>7. stack' \in Seq(Frames) /\ 1 <= Top' /\ Top' <= MaxDepth /\ g_phase2' \in Seq(Phase2Entries)
        BY <2>3, <2>5, <2>6, LandsTyped
    <2> QED
        BY <2>1, <2>7 DEF CxaTyped
<1>2. CASE ~(found # {} /\ Catches(h, type))
    <2>1. ended' = TRUE /\ UNCHANGED <<stack, g_phase2>>
        BY <1>2 DEF RaiseException
    <2> QED
        BY <2>1 DEF CxaTyped, Top
<1> QED
    BY <1>1, <1>2

\* After a landing the pads below the frame that catches are what they were.
LEMMA FlightsLand ==
    ASSUME CxaTyped, CxaTyped', PadsOnTop, NEW e \in Exceptions, NEW h \in 1 .. Top, NEW f \in h .. Top,
           NEW entries, LandsAt(e, h, f, entries),
           \A g \in h .. f - 1 : ~Flying(g), \A g \in h .. Top : Flying(g) => stack[g].ue = e
    PROVE  /\ \A g \in 1 .. Top' : Flying(g)' => g = f \/ (g \in 1 .. f - 1 /\ Flying(g) /\ stack'[g] = stack[g])
           /\ f \in 1 .. Top' /\ Flying(f)' /\ stack'[f].ue = e
           /\ \A x : x # e => (IsInFlight(x)' <=> IsInFlight(x))
           /\ IsInFlight(e)'
<1>1. Top \in Nat /\ f \in Nat /\ h \in Nat /\ 1 <= h /\ h <= f /\ f <= Top /\ Top' = f /\ stack'[f].ue = e
    BY CxaFacts DEF LandsAt
<1>2. \A g \in 1 .. f - 1 : stack'[g] = stack[g]
    BY DEF LandsAt
<1>3. Flying(f)'
    BY DEF LandsAt, Flying, UnderWay
<1>4. \A g \in 1 .. Top' : Flying(g)' => g = f \/ (g \in 1 .. f - 1 /\ Flying(g) /\ stack'[g] = stack[g])
    <2> TAKE g \in 1 .. Top'
    <2>1. g = f \/ g \in 1 .. f - 1
        BY <1>1
    <2> QED
        BY <1>2, <2>1, KeptFrame
<1>5. ASSUME NEW x, x # e, IsInFlight(x)
      PROVE  IsInFlight(x)'
    <2>1. PICK g \in 1 .. Top : Flying(g) /\ stack[g].ue = x
        BY <1>5 DEF IsInFlight
    <2>2. g \notin h .. Top
        BY <1>5, <2>1
    <2>3. g \in 1 .. f - 1 /\ g \in 1 .. Top'
        BY <1>1, <2>2
    <2> QED
        BY <1>2, <2>1, <2>3, KeptFrame DEF IsInFlight
<1>6. ASSUME NEW x, x # e, IsInFlight(x)'
      PROVE  IsInFlight(x)
    <2>1. PICK g \in 1 .. Top' : Flying(g)' /\ stack'[g].ue = x
        BY <1>6 DEF IsInFlight
    <2>2. g \in 1 .. f - 1 /\ Flying(g) /\ stack'[g] = stack[g] /\ g \in 1 .. Top
        BY <1>1, <1>4, <1>6, <2>1
    <2> QED
        BY <2>1, <2>2 DEF IsInFlight
<1>7. f \in 1 .. Top' /\ IsInFlight(e)'
    BY <1>1, <1>3 DEF IsInFlight
<1> QED
    BY <1>1, <1>3, <1>4, <1>5, <1>6, <1>7

\* No clause is jumped over: it goes on, or lands and is left.
LEMMA ClausesLand ==
    ASSUME CxaTyped, CxaTyped', PadsOnTop, NEW e \in Exceptions, NEW h \in 1 .. Top, NEW f \in h .. Top,
           NEW entries, LandsAt(e, h, f, entries), Body(h)
    PROVE  /\ \A g \in 1 .. Top : Handling(g) => StaysClause(g)
           /\ \A g \in 1 .. Top' : Clause(g)' => g \in 1 .. Top /\ Handling(g)
<1>1. Top \in Nat /\ f \in Nat /\ h \in Nat /\ 1 <= h /\ h <= f /\ f <= Top /\ Top' = f
    BY CxaFacts DEF LandsAt
<1>2. \A g \in 1 .. f - 1 : stack'[g] = stack[g]
    BY DEF LandsAt
<1>3. Handling(f) => Leaving(f)'
    BY ModeFacts DEF LandsAt, Body, Handling
<1>4. ASSUME NEW g \in 1 .. Top, Handling(g)
      PROVE  StaysClause(g)
    <2>1. HasPad(g)
        BY <1>4 DEF HasPad, Handling
    <2>2. g \notin f + 1 .. Top
        BY <2>1 DEF LandsAt
    <2>3. g = f \/ g \in 1 .. f - 1
        BY <1>1, <2>2
    <2>4. CASE g = f
        <3>1. Leaving(g)'
            BY <1>3, <1>4, <2>4
        <3>2. Clause(g)' /\ ~Handling(g)'
            BY <3>1 DEF Clause, Leaving, Handling
        <3> QED
            BY <1>1, <2>4, <3>2 DEF StaysClause
    <2>5. CASE g \in 1 .. f - 1
        <3>1. stack'[g] = stack[g] /\ g \in 1 .. Top'
            BY <1>1, <1>2, <2>5
        <3> QED
            BY <1>4, <3>1, KeptFrame DEF StaysClause, Clause
    <2> QED
        BY <2>3, <2>4, <2>5
<1>5. ASSUME NEW g \in 1 .. Top', Clause(g)'
      PROVE  g \in 1 .. Top /\ Handling(g)
    <2>1. g = f \/ g \in 1 .. f - 1
        BY <1>1
    <2>2. CASE g = f
        <3>1. ~Landed(f)' /\ ~Cleaning(f)'
            BY <1>5, <2>2 DEF Clause, Landed, Cleaning, Handling, Leaving
        <3> QED
            BY <1>1, <2>2, <3>1 DEF LandsAt
    <2>3. CASE g \in 1 .. f - 1
        <3>1. g \in 1 .. Top /\ g # Top /\ Clause(g)
            BY <1>1, <1>2, <1>5, <2>3, KeptFrame
        <3> QED
            BY <3>1 DEF Clause, PadsOnTop
    <2> QED
        BY <2>1, <2>2, <2>3
<1> QED
    BY <1>4, <1>5

LEMMA ThrowKeeps ==
    ASSUME CxaAssumption, CxaInv, NEW e \in Exceptions, NEW type \in Types, CxaThrow(e, type)
    PROVE  CxaInv'
<1>1. CxaTyped /\ CxaSound
    BY DEF CxaInv, CxaThrow, Running
<1>2. Body(Top) \/ Handling(Top)
    BY DEF CxaThrow, Running, Body, Handling
<1>3. /\ exception' \in [Exceptions -> ExceptionRecords] /\ \A x \in Exceptions : x # e => exception'[x] = exception[x]
      /\ exception'[e].allocated /\ exception'[e].type = type /\ exception'[e].handlerCount = 0
    <2> DEFINE new == [allocated |-> TRUE, type |-> type, handlerCount |-> 0]
    <2>1. new \in ExceptionRecords /\ new.allocated /\ new.type = type /\ new.handlerCount = 0
        BY DEF ExceptionRecords
    <2>2. exception' = [exception EXCEPT ![e] = new]
        BY DEF CxaThrow
    <2> HIDE DEF new
    <2> QED
        BY <1>1, <2>1, <2>2 DEF CxaTyped
<1>4. ~IsInFlight(e) /\ ~IsCaught(e)
    <2>1. e \notin InFlight /\ e \notin ToSet(g_caught)
        BY DEF CxaThrow
    <2> QED
        BY <1>1, <2>1, CxaFacts DEF InFlight, ToSet, IsInFlight, IsCaught, Flying, Landed, UnderWay, Cleaning, Leaving
<1>5. RaiseException(e, type) /\ g_uncaught_exceptions' = g_uncaught_exceptions + 1 /\ UNCHANGED <<g_caught, rethrown>>
    BY DEF CxaThrow
<1>6. CxaTyped'
    <2>1. /\ stack' \in Seq(Frames) /\ 1 <= Top' /\ Top' <= MaxDepth
          /\ g_phase2' \in Seq(Phase2Entries) /\ ended' \in BOOLEAN
        BY <1>1, <1>5, RaiseTyped
    <2> QED
        BY <1>1, <1>3, <1>5, <2>1 DEF CxaTyped
<1>7. CASE ended'
    BY <1>6, <1>7 DEF CxaInv
<1>8. CASE ~ended'
    <2>1. \A g \in 1 .. Top : Flying(g) => /\ stack[g].ue # e
                                            /\ exception'[stack[g].ue].type = exception[stack[g].ue].type
        <3> TAKE g \in 1 .. Top
        <3> HAVE Flying(g)
        <3>1. stack[g].ue # e
            BY <1>4 DEF IsInFlight
        <3>2. stack[g].ue \in Exceptions
            BY <1>1 DEF CxaSound, PadsOnTop
        <3> QED
            BY <1>3, <3>1, <3>2
    <2>2. PICK h \in 1 .. Top : \E f \in h .. Top :
              /\ LandsAt(e, h, f, Append(g_phase2, [ue |-> e, handler |-> h]))
              /\ Body(h) /\ \A g \in h .. Top : ~Flying(g)
              /\ PadsOnTop' /\ FlightsAreDistinct' /\ RecordsMatchPads' /\ FlightsAreCounted'
        BY <1>1, <1>2, <1>3, <1>5, <1>6, <1>8, <2>1, RaiseLands
    <2> DEFINE entries == Append(g_phase2, [ue |-> e, handler |-> h])
    <2>3. PICK f \in h .. Top :
              /\ LandsAt(e, h, f, entries)
              /\ Body(h) /\ \A g \in h .. Top : ~Flying(g)
              /\ PadsOnTop' /\ FlightsAreDistinct' /\ RecordsMatchPads' /\ FlightsAreCounted'
        BY <2>2
    <2> HIDE DEF entries
    <2>4. PadsOnTop /\ ClausesMatchCaught /\ CaughtAreDistinct /\ HandlersCount
        BY <1>1 DEF CxaSound
    <2>5. \A g \in h .. f - 1 : ~Flying(g)
        <3>1. Top \in Nat /\ h \in Nat
            BY <1>1, CxaFacts
        <3>2. h .. f - 1 \subseteq h .. Top
            BY <3>1
        <3> QED
            BY <2>3, <3>2
    <2>6. /\ \A g \in 1 .. Top' : Flying(g)' => g = f \/ (g \in 1 .. f - 1 /\ Flying(g) /\ stack'[g] = stack[g])
          /\ stack'[f].ue = e
          /\ \A x : x # e => (IsInFlight(x)' <=> IsInFlight(x))
          /\ IsInFlight(e)'
        BY <1>1, <1>6, <2>3, <2>4, <2>5, FlightsLand
    <2>7. ClausesMatchCaught'
        <3>1. /\ \A g \in 1 .. Top : Handling(g) => StaysClause(g)
              /\ \A g \in 1 .. Top' : Clause(g)' => g \in 1 .. Top /\ Handling(g)
            BY <1>1, <1>6, <2>3, <2>4, ClausesLand
        <3>2. \A g \in 1 .. Top : Clause(g) => Handling(g)
            BY <1>2, <2>4, ModeFacts DEF PadsOnTop, Clause, Flying, UnderWay
        <3> QED
            BY <1>1, <1>5, <1>6, <2>4, <3>1, <3>2, ClausesKept DEF Clause
    <2>8. \A x : IsCaught(x)' <=> IsCaught(x)
        BY <1>5 DEF IsCaught
    <2>9. CaughtAreDistinct'
        <3>1. ASSUME NEW g \in 1 .. Top', NEW i \in 1 .. Len(g_caught), Flying(g)', stack'[g].ue = g_caught[i]
              PROVE  Leaving(g)' /\ i = Len(g_caught) /\ stack'[g].ue \in rethrown
            <4>1. g # f
                BY <1>4, <2>6, <3>1 DEF IsCaught
            <4>2. g \in 1 .. f - 1 /\ Flying(g) /\ stack'[g] = stack[g] /\ g \in 1 .. Top
                <5>1. f \in Nat /\ Top \in Nat /\ f <= Top
                    BY <1>1, CxaFacts
                <5> QED
                    BY <2>6, <3>1, <4>1, <5>1
            <4> QED
                BY <2>4, <3>1, <4>2, KeptFrame DEF CaughtAreDistinct
        <3> QED
            BY <1>5, <2>4, <3>1 DEF CaughtAreDistinct
    <2>10. HandlersCount'
        <3>1. ASSUME NEW x \in Exceptions \ rethrown
              PROVE  /\ IsInFlight(x)' => exception'[x].allocated /\ exception'[x].handlerCount = 0
                     /\ IsCaught(x)' => exception'[x].allocated /\ exception'[x].handlerCount = 1
                     /\ ~IsInFlight(x)' /\ ~IsCaught(x)' => ~exception'[x].allocated
            <4>1. CASE x = e
                BY <1>3, <1>4, <2>6, <2>8, <4>1
            <4>2. CASE x # e
                BY <1>3, <2>4, <2>6, <2>8, <4>2 DEF HandlersCount
            <4> QED
                BY <4>1, <4>2
        <3> QED
            BY <1>5, <3>1 DEF HandlersCount
    <2>11. PadsOnTop' /\ FlightsAreDistinct' /\ RecordsMatchPads' /\ FlightsAreCounted'
        BY <2>3
    <2> QED
        BY <1>6, <2>7, <2>9, <2>10, <2>11 DEF CxaInv, CxaSound
<1> QED
    BY <1>7, <1>8

LEMMA RethrowKeeps ==
    ASSUME CxaAssumption, CxaInv, CxaRethrow
    PROVE  CxaInv'
<1> PICK n : n = Len(g_caught)
    OBVIOUS
<1> PICK e : e = g_caught[n]
    OBVIOUS
<1>1. CxaTyped /\ CxaSound
    BY DEF CxaInv, CxaRethrow, Running
<1>2. Handling(Top)
    BY DEF CxaRethrow, Running, Handling
<1>3. /\ RaiseException(e, exception[e].type) /\ rethrown' = rethrown \cup {e}
      /\ g_uncaught_exceptions' = g_uncaught_exceptions + 1 /\ UNCHANGED <<exception, g_caught>>
    BY DEF CxaRethrow, Last
<1>4. n \in Nat \ {0} /\ e \in Exceptions
    <2>1. g_caught \in Seq(Exceptions) /\ g_caught # <<>>
        BY <1>1 DEF CxaTyped, CxaRethrow
    <2> QED
        BY <2>1, EmptySeq, LenProperties
<1>5. PadsOnTop /\ ClausesMatchCaught /\ CaughtAreDistinct /\ HandlersCount
    BY <1>1 DEF CxaSound
<1>6. \A g \in 1 .. Top : Flying(g) => g # Top /\ ~Leaving(g)
    <2> TAKE g \in 1 .. Top
    <2> HAVE Flying(g)
    <2>1. g # Top
        BY <1>2, ModeFacts
    <2> QED
        BY <1>5, <2>1 DEF PadsOnTop
<1>7. ~IsInFlight(e)
    BY <1>4, <1>5, <1>6 DEF IsInFlight, CaughtAreDistinct
<1>8. CxaTyped'
    <2>1. /\ stack' \in Seq(Frames) /\ 1 <= Top' /\ Top' <= MaxDepth
          /\ g_phase2' \in Seq(Phase2Entries) /\ ended' \in BOOLEAN
        BY <1>1, <1>3, <1>4, RaiseTyped
    <2> QED
        BY <1>1, <1>3, <1>4, <2>1 DEF CxaTyped
<1>9. CASE ended'
    BY <1>8, <1>9 DEF CxaInv
<1>10. CASE ~ended'
    <2>1. \A g \in 1 .. Top : Flying(g) => /\ stack[g].ue # e
                                            /\ exception'[stack[g].ue].type = exception[stack[g].ue].type
        BY <1>3, <1>7 DEF IsInFlight
    <2>2. PICK h \in 1 .. Top : \E f \in h .. Top :
              /\ LandsAt(e, h, f, Append(g_phase2, [ue |-> e, handler |-> h]))
              /\ Body(h) /\ \A g \in h .. Top : ~Flying(g)
              /\ PadsOnTop' /\ FlightsAreDistinct' /\ RecordsMatchPads' /\ FlightsAreCounted'
        BY <1>1, <1>2, <1>3, <1>4, <1>8, <1>10, <2>1, RaiseLands
    <2> DEFINE entries == Append(g_phase2, [ue |-> e, handler |-> h])
    <2>3. PICK f \in h .. Top :
              /\ LandsAt(e, h, f, entries)
              /\ Body(h) /\ \A g \in h .. Top : ~Flying(g)
              /\ PadsOnTop' /\ FlightsAreDistinct' /\ RecordsMatchPads' /\ FlightsAreCounted'
        BY <2>2
    <2> HIDE DEF entries
    <2>4. Top \in Nat /\ h \in Nat /\ f \in Nat /\ h <= f /\ f <= Top /\ Top \in 1 .. Top
        BY <1>1, CxaFacts
    <2>5. \A g \in h .. f - 1 : ~Flying(g)
        <3>1. h .. f - 1 \subseteq h .. Top
            BY <2>4
        <3> QED
            BY <2>3, <3>1
    <2>6. /\ \A g \in 1 .. Top' : Flying(g)' => g = f \/ (g \in 1 .. f - 1 /\ Flying(g) /\ stack'[g] = stack[g])
          /\ stack'[f].ue = e
          /\ \A x : x # e => (IsInFlight(x)' <=> IsInFlight(x))
          /\ IsInFlight(e)'
        BY <1>1, <1>4, <1>5, <1>8, <2>3, <2>5, FlightsLand
    <2>7. ClausesMatchCaught'
        <3>1. /\ \A g \in 1 .. Top : Handling(g) => StaysClause(g)
              /\ \A g \in 1 .. Top' : Clause(g)' => g \in 1 .. Top /\ Handling(g)
            BY <1>1, <1>4, <1>5, <1>8, <2>3, ClausesLand
        <3>2. \A g \in 1 .. Top : Clause(g) => Handling(g)
            BY <1>6 DEF Clause, Flying, UnderWay
        <3> QED
            BY <1>1, <1>3, <1>5, <1>8, <3>1, <3>2, ClausesKept DEF Clause
    <2>8. \A x : IsCaught(x)' <=> IsCaught(x)
        BY <1>3 DEF IsCaught
    \* The clause that throws again is the first pad on the way.
    <2>9. Leaving(f)'
        <3>1. HasPad(Top)
            BY <1>2 DEF HasPad, Handling
        <3>2. Top \notin f + 1 .. Top
            BY <2>3, <3>1 DEF LandsAt
        <3>3. f = Top
            BY <2>4, <3>2
        <3>4. f # h
            BY <1>2, <2>3, <3>3, ModeFacts DEF Body, Handling
        <3> QED
            BY <1>2, <2>3, <3>3, <3>4 DEF LandsAt
    <2>10. CaughtAreDistinct'
        <3>1. ASSUME NEW g \in 1 .. Top', NEW i \in 1 .. Len(g_caught), Flying(g)', stack'[g].ue = g_caught[i]
              PROVE  Leaving(g)' /\ i = Len(g_caught) /\ stack'[g].ue \in rethrown'
            <4>1. CASE g = f
                <5>1. g_caught[i] = g_caught[n] /\ n \in 1 .. Len(g_caught)
                    BY <1>4, <2>6, <3>1, <4>1
                <5>2. i = Len(g_caught)
                    BY <1>5, <5>1 DEF CaughtAreDistinct
                <5> QED
                    BY <1>3, <2>6, <2>9, <4>1, <5>2
            <4>2. CASE g # f
                <5>1. g \in 1 .. f - 1 /\ Flying(g) /\ stack'[g] = stack[g] /\ g \in 1 .. Top
                    BY <2>4, <2>6, <3>1, <4>2
                <5> QED
                    BY <1>5, <1>6, <3>1, <5>1 DEF CaughtAreDistinct
            <4> QED
                BY <4>1, <4>2
        <3> QED
            BY <1>3, <1>5, <3>1 DEF CaughtAreDistinct
    <2>11. HandlersCount'
        <3>1. ASSUME NEW x \in Exceptions \ rethrown'
              PROVE  /\ IsInFlight(x)' => exception'[x].allocated /\ exception'[x].handlerCount = 0
                     /\ IsCaught(x)' => exception'[x].allocated /\ exception'[x].handlerCount = 1
                     /\ ~IsInFlight(x)' /\ ~IsCaught(x)' => ~exception'[x].allocated
            <4>1. x # e /\ x \notin rethrown
                BY <1>3
            <4> QED
                BY <1>3, <1>5, <2>6, <2>8, <4>1 DEF HandlersCount
        <3> QED
            BY <3>1 DEF HandlersCount
    <2>12. PadsOnTop' /\ FlightsAreDistinct' /\ RecordsMatchPads' /\ FlightsAreCounted'
        BY <2>3
    <2> QED
        BY <1>8, <2>7, <2>10, <2>11, <2>12 DEF CxaInv, CxaSound
<1> QED
    BY <1>9, <1>10

\* What an exception that is resumed finds on record.
LEMMA ResumedRecord ==
    ASSUME CxaTyped, CxaSound, UnwindResume
    PROVE  /\ Top \in Nat \ {0} /\ Top \in 1 .. Top /\ Len(g_phase2) \in Nat
           /\ UnderWay(Top) /\ ~HasPad(Top) /\ ~Landed(Top) /\ Flying(Top) /\ stack[Top].ue \in Exceptions
           /\ \E k \in 1 .. Len(g_phase2) :
                 RecordFor(Top, g_phase2[k]) /\ RunPhase2(stack[Top].ue, g_phase2[k].handler, g_phase2)
<1> DEFINE e == stack[Top].ue
           known == { i \in DOMAIN g_phase2 : g_phase2[i].ue = e }
<1>1. UnderWay(Top) /\ ~HasPad(Top) /\ ~Landed(Top) /\ Flying(Top)
    BY DEF UnwindResume, Running, UnderWay, Leaving, Cleaning, HasPad, Landed, Flying
<1>2. Top \in Nat \ {0} /\ Len(g_phase2) \in Nat /\ DOMAIN g_phase2 = 1 .. Len(g_phase2) /\ Top \in 1 .. Top
    BY CxaFacts
<1>3. PadsOnTop /\ RecordsMatchPads
    BY DEF CxaSound
<1>4. e \in Exceptions
    BY <1>1, <1>2, <1>3 DEF PadsOnTop
<1>5. PICK k \in 1 .. Len(g_phase2) : RecordFor(Top, g_phase2[k])
    BY <1>1, <1>2, <1>3 DEF RecordsMatchPads
<1>6. known = {k}
    BY <1>2, <1>3, <1>5 DEF RecordsMatchPads, RecordFor
<1>7. Lowest(known) = k
    <2>1. {k} \in SUBSET Nat /\ {k} # {}
        BY <1>2
    <2>2. Lowest({k}) \in {k}
        BY <2>1, LeastPosition DEF Lowest
    <2> QED
        BY <1>6, <2>2
<1>8. RunPhase2(e, g_phase2[Lowest(known)].handler, g_phase2)
    BY Zenon DEF UnwindResume
<1> HIDE DEF known
<1> QED
    BY <1>1, <1>2, <1>4, <1>5, <1>7, <1>8

\* The pads a resumed exception lands on are those its record promised.
LEMMA ResumeLands ==
    ASSUME CxaInv, UnwindResume, CxaTyped'
    PROVE  \E h \in 1 .. Top : \E f \in h .. Top :
              /\ LandsAt(stack[Top].ue, h, f, g_phase2) /\ f < Top
              /\ Body(h) /\ \A g \in h .. Top - 1 : ~Flying(g)
              /\ PadsOnTop' /\ FlightsAreDistinct' /\ RecordsMatchPads' /\ FlightsAreCounted'
<1>1. CxaTyped /\ CxaSound
    BY DEF CxaInv, UnwindResume, Running
<1> PICK e : e = stack[Top].ue
    OBVIOUS
<1>2. /\ UnderWay(Top) /\ ~HasPad(Top) /\ ~Landed(Top) /\ Flying(Top) /\ e \in Exceptions
      /\ \E k \in 1 .. Len(g_phase2) : RecordFor(Top, g_phase2[k]) /\ RunPhase2(e, g_phase2[k].handler, g_phase2)
    BY <1>1, ResumedRecord
<1>3. /\ Top \in Nat \ {0} /\ Len(g_phase2) \in Nat /\ DOMAIN g_phase2 = 1 .. Len(g_phase2)
      /\ g_phase2 \in Seq(Phase2Entries) /\ Top \in 1 .. Top
    BY <1>1, CxaFacts DEF CxaTyped
<1>4. /\ PadsOnTop /\ FlightsAreDistinct /\ RecordsMatchPads /\ FlightsAreCounted
    BY <1>1 DEF CxaSound
<1>6. PICK k \in 1 .. Len(g_phase2) : RecordFor(Top, g_phase2[k]) /\ RunPhase2(e, g_phase2[k].handler, g_phase2)
    BY <1>2
<1> PICK h : h = g_phase2[k].handler
    OBVIOUS
<1>9. RunPhase2(e, h, g_phase2)
    BY <1>6
<1>10. \A x \in Exceptions : exception'[x].type = exception[x].type
    <2>1. CASE stack[Top].mode = "leaving"
        BY <1>1, <2>1, EndCatchEnds DEF UnwindResume
    <2>2. CASE stack[Top].mode # "leaving"
        BY <2>2 DEF UnwindResume
    <2> QED
        BY <2>1, <2>2
<1>11. /\ h \in 1 .. Top - 1 /\ h \in 1 .. Top /\ g_phase2[k].ue = e
       /\ Catches(h, exception[e].type)
       /\ \A g \in h .. Top - 1 : ~UnderWay(g)
    BY <1>3, <1>6 DEF RecordFor
<1>12. Body(h)
    BY <1>11 DEF Catches, Body
<1>13. \A g \in h .. Top - 1 : ~Flying(g)
    <2> TAKE g \in h .. Top - 1
    <2>1. g \in 1 .. Top /\ g # Top
        BY <1>3, <1>11
    <2> QED
        BY <1>4, <1>11, <2>1 DEF PadsOnTop, Flying
<1>14. PICK f \in h .. Top : LandsAt(e, h, f, g_phase2)
    BY <1>1, <1>2, <1>9, <1>11, RunPhase2Lands
<1>15. f < Top
    <2>1. f # Top
        BY <1>2, <1>3, <1>11, <1>14 DEF LandsAt
    <2> QED
        BY <1>3, <1>11, <2>1
<1>16. g_uncaught_exceptions' = Len(g_phase2)
    BY <1>2, <1>3, <1>4 DEF FlightsAreCounted, UnwindResume, CxaTyped
<1>17. Landing(e, h, f, g_phase2)
    BY <1>14, <1>16, LandsIsLanding
<1>18. Entries(e, h, g_phase2)
    <2>1. DistinctEntries(g_phase2)
        BY <1>4 DEF DistinctEntries, RecordsMatchPads
    <2>2. \E i \in 1 .. Len(g_phase2) : g_phase2[i].ue = e /\ g_phase2[i].handler = h
        BY <1>11
    <2>3. ASSUME NEW g \in 1 .. h - 1, UnderWay(g)
          PROVE  /\ stack[g].ue # e /\ exception'[stack[g].ue].type = exception[stack[g].ue].type
                 /\ \E i \in 1 .. Len(g_phase2) : RecordFor(g, g_phase2[i])
        <3>1. g \in 1 .. Top /\ g # Top /\ Flying(g)
            BY <1>3, <1>11, <2>3 DEF Flying
        <3>2. stack[g].ue # e
            BY <1>2, <1>3, <1>4, <3>1 DEF FlightsAreDistinct
        <3>3. stack[g].ue \in Exceptions
            BY <1>4, <3>1 DEF PadsOnTop
        <3> QED
            BY <1>4, <1>10, <2>3, <3>1, <3>2, <3>3 DEF RecordsMatchPads
    <2>4. \A i \in 1 .. Len(g_phase2) :
             g_phase2[i].ue = e \/ \E g \in 1 .. h - 1 : UnderWay(g) /\ stack[g].ue = g_phase2[i].ue
        <3> TAKE i \in 1 .. Len(g_phase2)
        <3>1. PICK g \in 1 .. Top : UnderWay(g) /\ stack[g].ue = g_phase2[i].ue
            BY <1>4 DEF RecordsMatchPads
        <3>2. CASE g = Top
            BY <3>1, <3>2
        <3>3. CASE g # Top
            <4>1. g \notin h .. Top - 1
                BY <1>11, <3>1
            <4>2. g \in 1 .. h - 1
                BY <1>3, <1>11, <3>3, <4>1
            <4> QED
                BY <3>1, <4>2
        <3> QED
            BY <3>2, <3>3
    <2>5. Catches(h, exception'[e].type)
        BY <1>2, <1>10, <1>11
    <2> QED
        BY <1>3, <2>1, <2>2, <2>3, <2>4, <2>5 DEF Entries
<1>19. \A g \in h .. f - 1 : ~Flying(g)
    <2>1. h .. f - 1 \subseteq h .. Top - 1
        BY <1>3, <1>11, <1>15
    <2> QED
        BY <1>13, <2>1
<1>20. PadsOnTop' /\ FlightsAreDistinct' /\ RecordsMatchPads' /\ FlightsAreCounted'
    BY <1>1, <1>2, <1>4, <1>11, <1>17, <1>18, <1>19, LandingKeepsRecords
<1> QED
    BY <1>11, <1>12, <1>13, <1>14, <1>15, <1>20

LEMMA ResumeKeeps ==
    ASSUME CxaAssumption, CxaInv, UnwindResume
    PROVE  CxaInv'
<1> PICK e : e = stack[Top].ue
    OBVIOUS
<1>1. CxaTyped /\ CxaSound
    BY DEF CxaInv, UnwindResume, Running
<1>2. UnderWay(Top) /\ Flying(Top) /\ (Leaving(Top) \/ Cleaning(Top))
    BY DEF UnwindResume, Running, UnderWay, Leaving, Cleaning, Flying
<1>3. PadsOnTop /\ ClausesMatchCaught /\ CaughtAreDistinct /\ HandlersCount
    BY <1>1 DEF CxaSound
<1>4. Top \in Nat \ {0} /\ Top \in 1 .. Top
    BY <1>1, CxaFacts
<1>5. e \in Exceptions
    BY <1>2, <1>3, <1>4 DEF PadsOnTop
<1>6. g_uncaught_exceptions' = g_uncaught_exceptions /\ ended' = ended /\ rethrown' = rethrown
    BY DEF UnwindResume
<1>7. Leaving(Top) => EndCatch
    BY DEF UnwindResume, Leaving
<1>8. ~Leaving(Top) => exception' = exception /\ g_caught' = g_caught
    BY DEF UnwindResume, Leaving
<1>9. exception' \in [Exceptions -> ExceptionRecords] /\ g_caught' \in Seq(Exceptions)
    <2>1. CASE Leaving(Top)
        BY <1>1, <1>7, <2>1, EndCatchEnds
    <2>2. CASE ~Leaving(Top)
        BY <1>1, <1>8, <2>2 DEF CxaTyped
    <2> QED
        BY <2>1, <2>2
<1>10. CxaTyped'
    <2> PICK k \in 1 .. Len(g_phase2) : RecordFor(Top, g_phase2[k]) /\ RunPhase2(e, g_phase2[k].handler, g_phase2)
        BY <1>1, ResumedRecord
    <2> PICK h : h = g_phase2[k].handler
        OBVIOUS
    <2>1. RunPhase2(e, h, g_phase2)
        OBVIOUS
    <2>2. h \in 1 .. Top
        BY <1>4 DEF RecordFor
    <2>3. PICK f \in h .. Top : LandsAt(e, h, f, g_phase2)
        BY <1>1, <1>5, <2>1, <2>2, RunPhase2Lands
    <2>4. g_phase2 \in Seq(Phase2Entries)
        BY <1>1 DEF CxaTyped
    <2>5. stack' \in Seq(Frames) /\ 1 <= Top' /\ Top' <= MaxDepth /\ g_phase2' \in Seq(Phase2Entries)
        BY <1>1, <1>5, <2>2, <2>3, <2>4, LandsTyped
    <2> QED
        BY <1>1, <1>6, <1>9, <2>5 DEF CxaTyped
<1>11. PICK h \in 1 .. Top : \E f \in h .. Top :
              /\ LandsAt(stack[Top].ue, h, f, g_phase2) /\ f < Top
              /\ Body(h) /\ \A g \in h .. Top - 1 : ~Flying(g)
              /\ PadsOnTop' /\ FlightsAreDistinct' /\ RecordsMatchPads' /\ FlightsAreCounted'
    BY <1>10, ResumeLands
<1>12. PICK f \in h .. Top :
              /\ LandsAt(e, h, f, g_phase2) /\ f < Top
              /\ Body(h) /\ \A g \in h .. Top - 1 : ~Flying(g)
              /\ PadsOnTop' /\ FlightsAreDistinct' /\ RecordsMatchPads' /\ FlightsAreCounted'
    BY <1>11
<1>13. (\A g \in h .. f - 1 : ~Flying(g)) /\ (\A g \in h .. Top : Flying(g) => stack[g].ue = e)
    <2>1. f \in Nat /\ h \in Nat /\ f < Top
        BY <1>4, <1>12
    <2>2. h .. f - 1 \subseteq h .. Top - 1 /\ \A g \in h .. Top : g = Top \/ g \in h .. Top - 1
        BY <1>4, <2>1
    <2> QED
        BY <1>12, <2>2
<1>14. /\ \A g \in 1 .. Top' : Flying(g)' => g = f \/ (g \in 1 .. f - 1 /\ Flying(g) /\ stack'[g] = stack[g])
       /\ stack'[f].ue = e
       /\ \A x : x # e => (IsInFlight(x)' <=> IsInFlight(x))
       /\ IsInFlight(e)'
    BY <1>1, <1>3, <1>5, <1>10, <1>12, <1>13, FlightsLand
<1>15. \A x : IsInFlight(x)' <=> IsInFlight(x)
    <2>1. IsInFlight(e)
        BY <1>2, <1>4 DEF IsInFlight
    <2> QED
        BY <1>14, <2>1
<1>16. \A g \in 1 .. Top' : Flying(g)' => \E k \in 1 .. Top : Flying(k) /\ stack[k].ue = stack'[g].ue
    <2> TAKE g \in 1 .. Top'
    <2> HAVE Flying(g)'
    <2>1. CASE g = f
        BY <1>2, <1>4, <1>14, <2>1
    <2>2. CASE g # f
        <3>1. g \in 1 .. f - 1 /\ Flying(g) /\ stack'[g] = stack[g]
            BY <1>14, <2>2
        <3>2. g \in 1 .. Top
            BY <1>4, <1>12, <3>1
        <3> QED
            BY <3>1, <3>2
    <2> QED
        BY <2>1, <2>2
<1>17. /\ \A g \in 1 .. Top : Handling(g) => StaysClause(g)
       /\ \A g \in 1 .. Top' : Clause(g)' => g \in 1 .. Top /\ Handling(g)
    BY <1>1, <1>3, <1>5, <1>10, <1>12, ClausesLand
<1>18. ~Handling(Top) /\ \A g \in 1 .. Top : g # Top \/ ~Leaving(g) => (Clause(g) => Handling(g) \/ g = Top)
    BY <1>2, <1>3, ModeFacts DEF Clause, PadsOnTop
<1>19. CASE Leaving(Top)
    <2>1. EndCatch
        BY <1>7, <1>19
    <2>2. ClausesMatchCaught'
        <3>1. /\ Len(g_caught') = Len(g_caught) - 1
              /\ \A i \in 1 .. Len(g_caught') : g_caught'[i] = g_caught[i]
            BY <1>1, <2>1, EndCatchEnds
        <3>2. \A g \in 1 .. Top - 1 : Clause(g) => StaysClause(g)
            <4> TAKE g \in 1 .. Top - 1
            <4>1. g \in 1 .. Top /\ g # Top
                BY <1>4
            <4> QED
                BY <1>17, <1>18, <4>1
        <3>3. \A g \in 1 .. Top' : Clause(g)' => g \in 1 .. Top - 1 /\ Clause(g)
            <4> TAKE g \in 1 .. Top'
            <4> HAVE Clause(g)'
            <4>1. g \in 1 .. Top /\ Handling(g) /\ g # Top
                BY <1>17, <1>18
            <4> QED
                BY <1>4, <4>1 DEF Clause
        <3>4. Clause(Top)
            BY <1>19 DEF Clause
        <3> QED
            BY <1>1, <1>3, <1>10, <3>1, <3>2, <3>3, <3>4, ClausesPopped
    <2>3. CaughtAreDistinct'
        BY <1>1, <1>3, <1>16, <2>1, EndCatchDistinct
    <2>4. HandlersCount'
        BY <1>1, <1>3, <1>6, <1>10, <1>15, <2>1, EndCatchCounts
    <2> QED
        BY <1>10, <1>12, <2>2, <2>3, <2>4 DEF CxaInv, CxaSound
<1>20. CASE ~Leaving(Top)
    <2>1. exception' = exception /\ g_caught' = g_caught
        BY <1>8, <1>20
    <2>2. \A g \in 1 .. Top : Clause(g) => Handling(g)
        BY <1>3, <1>20 DEF Clause, PadsOnTop
    <2>3. ClausesMatchCaught'
        BY <1>1, <1>3, <1>10, <1>17, <2>1, <2>2, ClausesKept DEF Clause
    <2>4. \A i \in 1 .. Len(g_caught) : g_caught[i] # e
        BY <1>2, <1>3, <1>4, <1>20 DEF CaughtAreDistinct
    <2>5. CaughtAreDistinct'
        <3>1. ASSUME NEW g \in 1 .. Top', NEW i \in 1 .. Len(g_caught), Flying(g)', stack'[g].ue = g_caught[i]
              PROVE  Leaving(g)' /\ i = Len(g_caught) /\ stack'[g].ue \in rethrown
            <4>1. g # f
                BY <1>14, <2>4, <3>1
            <4>2. g \in 1 .. f - 1 /\ Flying(g) /\ stack'[g] = stack[g]
                BY <1>14, <3>1, <4>1
            <4>3. g \in 1 .. Top
                BY <1>4, <1>12, <4>2
            <4> QED
                BY <1>3, <3>1, <4>2, <4>3, KeptFrame DEF CaughtAreDistinct
        <3> QED
            BY <1>3, <1>6, <2>1, <3>1 DEF CaughtAreDistinct
    <2>6. \A x : IsCaught(x)' <=> IsCaught(x)
        BY <2>1 DEF IsCaught
    <2>7. HandlersCount'
        BY <1>3, <1>6, <1>15, <2>1, <2>6 DEF HandlersCount
    <2> QED
        BY <1>10, <1>12, <2>3, <2>5, <2>7 DEF CxaInv, CxaSound
<1> QED
    BY <1>19, <1>20

LEMMA BeginCatchKeeps ==
    ASSUME CxaAssumption, CxaInv, CxaBeginCatch
    PROVE  CxaInv'
<1> PICK n : n = Len(g_caught)
    OBVIOUS
<1> PICK e : e = stack[Top].ue
    OBVIOUS
<1>1. CxaTyped /\ CxaSound
    BY DEF CxaInv, CxaBeginCatch, Running
<1>2. /\ Top \in Nat \ {0} /\ Top \in 1 .. Top /\ n \in Nat /\ stack[Top] \in Frames /\ stack \in Seq(Frames)
      /\ g_caught \in Seq(Exceptions) /\ exception \in [Exceptions -> ExceptionRecords]
    BY <1>1, CxaFacts DEF CxaTyped
<1>3. Landed(Top) /\ Flying(Top) /\ ~UnderWay(Top) /\ ~Clause(Top) /\ ~Leaving(Top)
    BY DEF CxaBeginCatch, Running, Landed, Flying, UnderWay, Cleaning, Leaving, Clause, Handling
<1>4. PadsOnTop /\ FlightsAreDistinct /\ RecordsMatchPads /\ FlightsAreCounted
      /\ ClausesMatchCaught /\ CaughtAreDistinct /\ HandlersCount
    BY <1>1 DEF CxaSound
<1>5. e \in Exceptions /\ exception[e] \in ExceptionRecords
    BY <1>2, <1>3, <1>4 DEF PadsOnTop
<1>6. /\ g_uncaught_exceptions' = (IF g_uncaught_exceptions > 0 THEN g_uncaught_exceptions - 1 ELSE 0)
      /\ g_caught' = Append(g_caught, e)
      /\ g_phase2' = g_phase2 /\ ended' = ended /\ rethrown' = rethrown
    BY DEF CxaBeginCatch
<1>7. /\ stack' \in Seq(Frames) /\ Top' = Top /\ \A g \in 1 .. Top - 1 : stack'[g] = stack[g]
      /\ stack'[Top].mode = "handler" /\ stack'[Top].ue = e
    <2> DEFINE frame == [stack[Top] EXCEPT !.mode = "handler"]
    <2>1. frame \in Frames /\ frame.mode = "handler" /\ frame.ue = e
        BY <1>2 DEF Frames
    <2>2. stack' = [stack EXCEPT ![Top] = frame]
        BY DEF CxaBeginCatch
    <2> HIDE DEF frame
    <2>3. stack' \in Seq(Frames) /\ Len(stack') = Top /\ stack'[Top] = frame
        BY <1>2, <2>1, <2>2 DEF Top
    <2>4. \A g \in 1 .. Top - 1 : stack'[g] = stack[g]
        BY <1>2, <2>2 DEF Top
    <2> QED
        BY <2>1, <2>3, <2>4 DEF Top
<1>8. /\ exception' \in [Exceptions -> ExceptionRecords]
      /\ \A x \in Exceptions : exception'[x].type = exception[x].type /\ (x # e => exception'[x] = exception[x])
      /\ exception'[e].allocated = exception[e].allocated
      /\ exception'[e].handlerCount = exception[e].handlerCount + 1
    <2> DEFINE new == [exception[e] EXCEPT !.handlerCount = exception[e].handlerCount + 1]
    <2>1. /\ new \in ExceptionRecords /\ new.type = exception[e].type
          /\ new.allocated = exception[e].allocated /\ new.handlerCount = exception[e].handlerCount + 1
        BY <1>5 DEF ExceptionRecords
    <2>2. exception' = [exception EXCEPT ![e] = new]
        BY DEF CxaBeginCatch
    <2> HIDE DEF new
    <2> QED
        BY <1>2, <1>5, <2>1, <2>2
<1>9. /\ g_caught' \in Seq(Exceptions) /\ Len(g_caught') = n + 1 /\ g_caught'[n + 1] = e
      /\ \A i \in 1 .. n : g_caught'[i] = g_caught[i]
    BY <1>2, <1>5, <1>6, AppendProperties
<1>10. \A g \in 1 .. Top : g = Top \/ (g \in 1 .. Top - 1 /\ stack'[g] = stack[g])
    BY <1>2, <1>7
<1>11. Handling(Top)' /\ Clause(Top)' /\ ~Flying(Top)' /\ ~UnderWay(Top)' /\ ~Landed(Top)' /\ ~Leaving(Top)'
    BY <1>7 DEF Handling, Clause, Flying, UnderWay, Landed, Cleaning, Leaving
<1>12. CxaTyped'
    <2>1. g_uncaught_exceptions' \in Nat
        BY <1>1, <1>6 DEF CxaTyped
    <2> QED
        BY <1>1, <1>6, <1>7, <1>8, <1>9, <2>1 DEF CxaTyped
<1>13. \A g \in 1 .. Top' : Flying(g)' => g \in 1 .. Top - 1 /\ g \in 1 .. Top /\ Flying(g) /\ stack'[g] = stack[g]
    BY <1>2, <1>7, <1>10, <1>11, KeptFrame
<1>14. PadsOnTop'
    <2> SUFFICES ASSUME NEW g \in 1 .. Top'
                 PROVE  /\ Landed(g)' \/ Leaving(g)' => g = Top'
                        /\ Flying(g)' \/ Handling(g)' => stack'[g].ue \in Exceptions
        BY DEF PadsOnTop
    <2>1. CASE g = Top
        BY <1>5, <1>7, <2>1
    <2>2. CASE g # Top
        <3>1. stack'[g] = stack[g] /\ g \in 1 .. Top
            BY <1>7, <1>10, <2>2
        <3> QED
            BY <1>4, <1>7, <3>1, KeptFrame DEF PadsOnTop
    <2> QED
        BY <2>1, <2>2
<1>15. FlightsAreDistinct'
    BY <1>4, <1>13 DEF FlightsAreDistinct
<1>16. RecordsMatchPads'
    <2>1. \A g \in 1 .. Top : UnderWay(g) => g \in 1 .. Top' /\ \A x \in 1 .. g : stack'[x] = stack[x]
        <3> TAKE g \in 1 .. Top
        <3> HAVE UnderWay(g)
        <3>1. g # Top
            BY <1>3
        <3>2. \A x \in 1 .. g : x \in 1 .. Top - 1
            BY <1>2, <3>1
        <3> QED
            BY <1>7, <3>2
    <2>2. \A g \in 1 .. Top' : UnderWay(g)' => g \in 1 .. Top /\ UnderWay(g)
        BY <1>13, KeptFrame DEF Flying
    <2> QED
        BY <1>1, <1>4, <1>6, <1>8, <1>12, <2>1, <2>2, SameRecords
<1>17. FlightsAreCounted'
    <2>1. g_uncaught_exceptions = Len(g_phase2) + 1 /\ Len(g_phase2) \in Nat
        BY <1>1, <1>3, <1>4, CxaFacts DEF FlightsAreCounted
    <2>2. ~Landed(Top)'
        BY <1>7, <1>11 DEF Landed
    <2> QED
        BY <1>6, <2>1, <2>2 DEF FlightsAreCounted
<1>18. ClausesMatchCaught'
    BY <1>1, <1>3, <1>4, <1>6, <1>7, <1>11, <1>12, ClausesPushed
<1>19. \A i \in 1 .. n : g_caught[i] # e
    BY <1>2, <1>3, <1>4 DEF CaughtAreDistinct
<1>20. \A i \in 1 .. n + 1 : i = n + 1 \/ i \in 1 .. n
    BY <1>2
<1>21. CaughtAreDistinct'
    <2>1. \A i, j \in 1 .. n + 1 : g_caught'[i] = g_caught'[j] => i = j
        BY <1>4, <1>9, <1>19, <1>20 DEF CaughtAreDistinct
    <2>2. \A g \in 1 .. Top', i \in 1 .. n + 1 : Flying(g)' => stack'[g].ue # g_caught'[i]
        <3> TAKE g \in 1 .. Top', i \in 1 .. n + 1
        <3> HAVE Flying(g)'
        <3>1. g \in 1 .. Top - 1 /\ g \in 1 .. Top /\ Flying(g) /\ stack'[g] = stack[g]
            BY <1>13
        <3>2. g # Top
            BY <1>2, <3>1
        <3>3. stack[g].ue # e
            BY <1>2, <1>3, <1>4, <3>1, <3>2 DEF FlightsAreDistinct
        <3>4. ~Leaving(g)
            BY <1>4, <3>1, <3>2 DEF PadsOnTop
        <3>5. \A k \in 1 .. n : stack[g].ue # g_caught[k]
            BY <1>4, <3>1, <3>4 DEF CaughtAreDistinct
        <3> QED
            BY <1>9, <1>20, <3>1, <3>3, <3>5
    <2> QED
        BY <1>9, <2>1, <2>2 DEF CaughtAreDistinct
<1>22. IsCaught(e)' /\ ~IsCaught(e) /\ IsInFlight(e) /\ ~IsInFlight(e)'
    <2>1. n + 1 \in 1 .. n + 1
        BY <1>2
    <2>2. IsCaught(e)'
        BY <1>9, <2>1 DEF IsCaught
    <2>3. ~IsInFlight(e)'
        <3>1. \A g \in 1 .. Top - 1 : g # Top
            BY <1>2
        <3> QED
            BY <1>2, <1>3, <1>4, <1>13, <3>1 DEF IsInFlight, FlightsAreDistinct
    <2> QED
        BY <1>2, <1>3, <1>19, <2>2, <2>3 DEF IsCaught, IsInFlight
<1>23. \A x : x # e => (IsCaught(x)' <=> IsCaught(x)) /\ (IsInFlight(x)' <=> IsInFlight(x))
    <2> TAKE x
    <2> HAVE x # e
    <2>1. IsCaught(x)' => IsCaught(x)
        BY <1>9, <1>20 DEF IsCaught
    <2>2. IsCaught(x) => IsCaught(x)'
        <3>1. \A i \in 1 .. n : i \in 1 .. n + 1
            BY <1>2
        <3> QED
            BY <1>9, <3>1 DEF IsCaught
    <2>3. IsInFlight(x)' => IsInFlight(x)
        BY <1>13 DEF IsInFlight
    <2>4. IsInFlight(x) => IsInFlight(x)'
        <3> HAVE IsInFlight(x)
        <3>1. PICK g \in 1 .. Top : Flying(g) /\ stack[g].ue = x
            BY DEF IsInFlight
        <3>2. stack'[g] = stack[g] /\ g \in 1 .. Top'
            BY <1>7, <1>10, <3>1
        <3> QED
            BY <3>1, <3>2, KeptFrame DEF IsInFlight
    <2> QED
        BY <2>1, <2>2, <2>3, <2>4
<1>24. HandlersCount'
    <2>1. ASSUME NEW x \in Exceptions \ rethrown
          PROVE  /\ IsInFlight(x)' => exception'[x].allocated /\ exception'[x].handlerCount = 0
                 /\ IsCaught(x)' => exception'[x].allocated /\ exception'[x].handlerCount = 1
                 /\ ~IsInFlight(x)' /\ ~IsCaught(x)' => ~exception'[x].allocated
        <3>1. CASE x = e
            <4>1. exception[e].allocated /\ exception[e].handlerCount = 0
                BY <1>4, <1>22, <3>1 DEF HandlersCount
            <4>2. exception'[e].allocated
                BY Zenon, <1>8, <4>1
            <4>3. exception'[e].handlerCount = 1
                BY <1>8, <4>1
            <4> QED
                BY Zenon, <1>22, <3>1, <4>2, <4>3
        <3>2. CASE x # e
            BY <1>4, <1>8, <1>23, <3>2 DEF HandlersCount
        <3> QED
            BY <3>1, <3>2
    <2> QED
        BY <1>6, <2>1 DEF HandlersCount
<1> QED
    BY <1>12, <1>14, <1>15, <1>16, <1>17, <1>18, <1>21, <1>24 DEF CxaInv, CxaSound

LEMMA EndCatchKeeps ==
    ASSUME CxaAssumption, CxaInv, CxaEndCatch
    PROVE  CxaInv'
<1>1. CxaTyped /\ CxaSound
    BY DEF CxaInv, CxaEndCatch, Running
<1>2. /\ Top \in Nat \ {0} /\ Top \in 1 .. Top /\ stack[Top] \in Frames /\ stack \in Seq(Frames)
    BY <1>1, CxaFacts DEF CxaTyped
<1>3. Handling(Top) /\ ~Flying(Top) /\ Clause(Top) /\ ~Landed(Top)
    BY DEF CxaEndCatch, Running, Landed, Flying, UnderWay, Cleaning, Leaving, Clause, Handling
<1>4. PadsOnTop /\ FlightsAreDistinct /\ RecordsMatchPads /\ FlightsAreCounted
      /\ ClausesMatchCaught /\ CaughtAreDistinct /\ HandlersCount
    BY <1>1 DEF CxaSound
<1>5. EndCatch /\ g_phase2' = g_phase2 /\ g_uncaught_exceptions' = g_uncaught_exceptions /\ ended' = ended
      /\ rethrown' = rethrown
    BY DEF CxaEndCatch
<1>6. /\ g_caught' \in Seq(Exceptions) /\ Len(g_caught') = Len(g_caught) - 1
      /\ \A i \in 1 .. Len(g_caught') : g_caught'[i] = g_caught[i]
      /\ exception' \in [Exceptions -> ExceptionRecords]
      /\ \A x \in Exceptions : exception'[x].type = exception[x].type
    BY <1>1, <1>5, EndCatchEnds
<1>7. /\ stack' \in Seq(Frames) /\ Top' = Top /\ \A g \in 1 .. Top - 1 : stack'[g] = stack[g]
      /\ stack'[Top].mode = "body"
    <2> DEFINE frame == [stack[Top] EXCEPT !.mode = "body", !.ue = NoException]
    <2>1. frame \in Frames /\ frame.mode = "body"
        BY <1>2 DEF Frames
    <2>2. stack' = [stack EXCEPT ![Top] = frame]
        <3>1. stack' = [stack EXCEPT ![Top].mode = "body", ![Top].ue = NoException]
            BY DEF CxaEndCatch
        <3> QED
            BY <1>2, <3>1 DEF Frames, Top
    <2> HIDE DEF frame
    <2>3. stack' \in Seq(Frames) /\ Len(stack') = Top /\ stack'[Top] = frame
        BY <1>2, <2>1, <2>2 DEF Top
    <2>4. \A g \in 1 .. Top - 1 : stack'[g] = stack[g]
        BY <1>2, <2>2 DEF Top
    <2> QED
        BY <2>1, <2>3, <2>4 DEF Top
<1>8. CxaTyped'
    BY <1>1, <1>5, <1>6, <1>7 DEF CxaTyped
<1>9. ~Flying(Top)' /\ ~Clause(Top)' /\ ~Landed(Top)' /\ ~Leaving(Top)' /\ ~UnderWay(Top)' /\ ~Handling(Top)'
    BY <1>7 DEF Handling, Clause, Flying, UnderWay, Landed, Cleaning, Leaving
<1>10. \A g \in 1 .. Top : g = Top \/ (g \in 1 .. Top - 1 /\ g # Top /\ stack'[g] = stack[g])
    BY <1>2, <1>7
<1>11. \A g \in 1 .. Top' : Flying(g)' \/ UnderWay(g)' \/ Landed(g)' \/ Leaving(g)' \/ Handling(g)' \/ Clause(g)' =>
          g \in 1 .. Top /\ g \in 1 .. Top - 1 /\ stack'[g] = stack[g]
    BY <1>7, <1>9, <1>10
<1>12. PadsOnTop'
    BY <1>4, <1>7, <1>11, KeptFrame DEF PadsOnTop
<1>13. \A g \in 1 .. Top : Flying(g) => g \in 1 .. Top' /\ stack'[g] = stack[g]
    BY <1>3, <1>7, <1>10
<1>14. \A g \in 1 .. Top' : Flying(g)' => g \in 1 .. Top /\ Flying(g)
    BY <1>11, KeptFrame
<1>15. FlightsAreDistinct' /\ \A x : IsInFlight(x)' <=> IsInFlight(x)
    BY <1>1, <1>4, <1>8, <1>13, <1>14, SameFlights
<1>16. RecordsMatchPads'
    <2>1. \A g \in 1 .. Top : UnderWay(g) => g \in 1 .. Top' /\ \A x \in 1 .. g : stack'[x] = stack[x]
        <3> TAKE g \in 1 .. Top
        <3> HAVE UnderWay(g)
        <3>1. g # Top
            BY <1>3 DEF Flying
        <3>2. \A x \in 1 .. g : x \in 1 .. Top - 1
            BY <1>2, <3>1
        <3> QED
            BY <1>7, <3>2
    <2>2. \A g \in 1 .. Top' : UnderWay(g)' => g \in 1 .. Top /\ UnderWay(g)
        BY <1>11, KeptFrame
    <2> QED
        BY <1>1, <1>4, <1>5, <1>6, <1>8, <2>1, <2>2, SameRecords
<1>17. FlightsAreCounted'
    <2>1. ~Landed(Top)'
        BY <1>7, <1>9 DEF Landed
    <2> QED
        BY <1>3, <1>4, <1>5, <2>1 DEF FlightsAreCounted
<1>18. ClausesMatchCaught'
    <2>1. \A g \in 1 .. Top - 1 : Clause(g) => StaysClause(g)
        <3> TAKE g \in 1 .. Top - 1
        <3> HAVE Clause(g)
        <3>1. stack'[g] = stack[g] /\ g \in 1 .. Top'
            BY <1>2, <1>7
        <3> QED
            BY <3>1, KeptFrame DEF StaysClause
    <2>2. \A g \in 1 .. Top' : Clause(g)' => g \in 1 .. Top - 1 /\ Clause(g)
        BY <1>11, KeptFrame
    <2> QED
        BY <1>1, <1>3, <1>4, <1>6, <1>8, <2>1, <2>2, ClausesPopped
<1>19. CaughtAreDistinct'
    <2>1. \A f \in 1 .. Top' : Flying(f)' => \E g \in 1 .. Top : Flying(g) /\ stack[g].ue = stack'[f].ue
        BY <1>11, <1>14
    <2> QED
        BY <1>1, <1>4, <1>5, <2>1, EndCatchDistinct
<1>20. HandlersCount'
    BY <1>1, <1>4, <1>5, <1>8, <1>15, EndCatchCounts
<1> QED
    BY <1>8, <1>12, <1>15, <1>16, <1>17, <1>18, <1>19, <1>20 DEF CxaInv, CxaSound

\* A call or a return, of a frame that runs its own code.
LEMMA FrameComesOrGoes ==
    ASSUME CxaTyped, CxaSound, CxaTyped', UNCHANGED <<exception, g_caught, g_phase2, g_uncaught_exceptions, rethrown>>,
           NEW n \in 1 .. Top, n <= Top', \A g \in 1 .. n : stack'[g] = stack[g],
           \A g \in 1 .. Top : g \in 1 .. n \/ Body(g), \A g \in 1 .. Top' : g \in 1 .. n \/ Body(g)',
           ~Landed(Top) /\ ~Leaving(Top)
    PROVE  CxaSound'
<1>1. Top \in Nat \ {0} /\ Top' \in Nat \ {0} /\ n \in Nat
    <2>1. stack' \in Seq(Frames) /\ 1 <= Top'
        BY DEF CxaTyped
    <2> QED
        BY <2>1, CxaFacts DEF Top
<1>2. PadsOnTop /\ FlightsAreDistinct /\ RecordsMatchPads /\ FlightsAreCounted
      /\ ClausesMatchCaught /\ CaughtAreDistinct /\ HandlersCount
    BY DEF CxaSound
<1>3. \A g : Body(g)' => ~Flying(g)' /\ ~Clause(g)' /\ ~Handling(g)' /\ ~Landed(g)' /\ ~Leaving(g)' /\ ~UnderWay(g)'
    BY DEF Body, Flying, Clause, Handling, Landed, Leaving, UnderWay, Cleaning
<1>4. \A g \in 1 .. n : g \in 1 .. Top /\ g \in 1 .. Top' /\ stack'[g] = stack[g]
    BY <1>1
<1>5. \A g \in 1 .. Top' : Flying(g)' \/ Clause(g)' \/ Handling(g)' \/ Landed(g)' \/ Leaving(g)' \/ UnderWay(g)' =>
          g \in 1 .. n
    BY <1>3
<1>6. \A g \in 1 .. Top : Flying(g) \/ Clause(g) \/ Handling(g) \/ Landed(g) \/ Leaving(g) \/ UnderWay(g) =>
          g \in 1 .. n
    BY DEF Body, Flying, Clause, Handling, Landed, Leaving, UnderWay, Cleaning
<1>7. \A g \in 1 .. Top : ~Landed(g) /\ ~Leaving(g)
    BY <1>2 DEF PadsOnTop
<1>8. \A g \in 1 .. Top' : ~Landed(g)' /\ ~Leaving(g)'
    BY <1>4, <1>5, <1>7, KeptFrame
<1>9. PadsOnTop'
    <2> SUFFICES ASSUME NEW g \in 1 .. Top'
                 PROVE  /\ Landed(g)' \/ Leaving(g)' => g = Top'
                        /\ Flying(g)' \/ Handling(g)' => stack'[g].ue \in Exceptions
        BY DEF PadsOnTop
    <2>1. ~Landed(g)' /\ ~Leaving(g)'
        BY <1>8
    <2>2. Flying(g)' \/ Handling(g)' => stack'[g].ue \in Exceptions
        BY <1>2, <1>4, <1>5, KeptFrame DEF PadsOnTop
    <2> QED
        BY <2>1, <2>2
<1>10. \A g \in 1 .. Top : Flying(g) => g \in 1 .. Top' /\ stack'[g] = stack[g]
    BY <1>4, <1>6
<1>11. \A g \in 1 .. Top' : Flying(g)' => g \in 1 .. Top /\ Flying(g)
    BY <1>4, <1>5, KeptFrame
<1>12. FlightsAreDistinct' /\ \A x : IsInFlight(x)' <=> IsInFlight(x)
    BY <1>2, <1>10, <1>11, SameFlights
<1>13. RecordsMatchPads'
    <2>1. \A g \in 1 .. Top : UnderWay(g) => g \in 1 .. Top' /\ \A x \in 1 .. g : stack'[x] = stack[x]
        <3> TAKE g \in 1 .. Top
        <3> HAVE UnderWay(g)
        <3>1. g \in 1 .. n
            BY <1>6
        <3>2. \A x \in 1 .. g : x \in 1 .. n
            BY <1>1, <3>1
        <3> QED
            BY <1>4, <3>1, <3>2
    <2>2. \A g \in 1 .. Top' : UnderWay(g)' => g \in 1 .. Top /\ UnderWay(g)
        BY <1>4, <1>5, KeptFrame
    <2> QED
        BY <1>2, <2>1, <2>2, SameRecords
<1>14. FlightsAreCounted'
    <2>1. Top' \in 1 .. Top'
        BY <1>1
    <2>2. ~(Landed(Top)')
        BY <1>8, <2>1 DEF Landed
    <2> QED
        BY <1>2, <2>2 DEF FlightsAreCounted
<1>15. ClausesMatchCaught'
    <2>1. \A g \in 1 .. Top : Clause(g) => StaysClause(g)
        <3> TAKE g \in 1 .. Top
        <3> HAVE Clause(g)
        <3>1. g \in 1 .. Top' /\ stack'[g] = stack[g]
            BY <1>4, <1>6
        <3> QED
            BY <3>1, KeptFrame DEF StaysClause
    <2>2. \A g \in 1 .. Top' : Clause(g)' => g \in 1 .. Top /\ Clause(g)
        BY <1>4, <1>5, KeptFrame
    <2> QED
        BY <1>2, <2>1, <2>2, ClausesKept
<1>16. CaughtAreDistinct'
    <2>1. ASSUME NEW g \in 1 .. Top', NEW i \in 1 .. Len(g_caught), Flying(g)', stack'[g].ue = g_caught[i]
          PROVE  FALSE
        <3>1. g \in 1 .. Top /\ Flying(g) /\ stack'[g] = stack[g] /\ ~Leaving(g)
            BY <1>4, <1>5, <1>7, <1>11, <2>1
        <3> QED
            BY <1>2, <2>1, <3>1 DEF CaughtAreDistinct
    <2> QED
        BY <1>2, <2>1 DEF CaughtAreDistinct
<1>17. HandlersCount'
    <2>1. \A x : IsCaught(x)' <=> IsCaught(x)
        BY DEF IsCaught
    <2> QED
        BY <1>2, <1>12, <2>1 DEF HandlersCount
<1> QED
    BY <1>9, <1>12, <1>13, <1>14, <1>15, <1>16, <1>17 DEF CxaSound

LEMMA CallKeeps ==
    ASSUME CxaAssumption, CxaInv, NEW catches \in { {}, {AnyType} } \cup { {ty} : ty \in Types }, NEW dtor \in BOOLEAN,
           CallFunction(catches, dtor)
    PROVE  CxaInv'
<1> DEFINE frame == [catches |-> catches, dtor |-> dtor, mode |-> "body", ue |-> NoException]
<1>1. CxaTyped /\ CxaSound
    BY DEF CxaInv, CallFunction, Running
<1>2. Top \in Nat \ {0} /\ stack \in Seq(Frames) /\ MaxDepth \in Nat /\ Top < MaxDepth
    BY <1>1, CxaFacts DEF CxaTyped, CxaAssumption, CallFunction
<1>3. frame \in Frames /\ frame.mode = "body"
    BY DEF Frames
<1>4. stack' = Append(stack, frame)
    BY DEF CallFunction
<1> HIDE DEF frame
<1>5. /\ stack' \in Seq(Frames) /\ Top' = Top + 1 /\ stack'[Top + 1] = frame
      /\ \A g \in 1 .. Top : stack'[g] = stack[g]
    BY <1>2, <1>3, <1>4, AppendProperties DEF Top
<1>6. UNCHANGED <<exception, g_caught, g_phase2, g_uncaught_exceptions, ended, rethrown>>
    BY DEF CallFunction
<1>7. CxaTyped'
    <2>1. 1 <= Top' /\ Top' <= MaxDepth
        BY <1>2, <1>5
    <2> QED
        BY <1>1, <1>5, <1>6, <2>1 DEF CxaTyped
<1>8. ~Landed(Top) /\ ~Leaving(Top)
    BY DEF CallFunction, Running, Landed, Leaving
<1>9. \A g \in 1 .. Top' : g \in 1 .. Top \/ Body(g)'
    <2>1. \A g \in 1 .. Top' : g \in 1 .. Top \/ g = Top + 1
        BY <1>2, <1>5
    <2> QED
        BY <1>3, <1>5, <2>1 DEF Body
<1>10. Top \in 1 .. Top /\ Top <= Top' /\ \A g \in 1 .. Top : g \in 1 .. Top \/ Body(g)
    BY <1>2, <1>5
<1>11. CxaSound'
    BY <1>1, <1>5, <1>6, <1>7, <1>8, <1>9, <1>10, FrameComesOrGoes
<1> QED
    BY <1>7, <1>11 DEF CxaInv

LEMMA ReturnKeeps ==
    ASSUME CxaAssumption, CxaInv, Return
    PROVE  CxaInv'
<1>1. CxaTyped /\ CxaSound
    BY DEF CxaInv, Return, Running
<1>2. Top \in Nat /\ stack \in Seq(Frames) /\ MaxDepth \in Nat /\ Top > 1 /\ Top <= MaxDepth
    BY <1>1, CxaFacts DEF CxaTyped, CxaAssumption, Return
<1>3. UNCHANGED <<exception, g_caught, g_phase2, g_uncaught_exceptions, ended, rethrown>>
    BY DEF Return
<1>4. stack' \in Seq(Frames) /\ Top' = Top - 1 /\ \A g \in 1 .. Top - 1 : stack'[g] = stack[g]
    <2>1. stack' = SubSeq(stack, 1, Top - 1)
        BY DEF Return, Front, Top
    <2>2. Top = Len(stack) /\ 1 \in 1 .. Top + 1 /\ Top - 1 \in 1 - 1 .. Top /\ 1 <= Top - 1
        BY <1>2 DEF Top
    <2>3. /\ SubSeq(stack, 1, Top - 1) \in Seq(Frames)
          /\ Len(SubSeq(stack, 1, Top - 1)) = IF 1 <= Top - 1 THEN (Top - 1) - 1 + 1 ELSE 0
          /\ \A i \in 1 .. (Top - 1) - 1 + 1 : SubSeq(stack, 1, Top - 1)[i] = stack[1 + i - 1]
        BY <1>2, <2>2, SubSeqProperties
    <2>4. \A i \in 1 .. Top - 1 : i \in 1 .. (Top - 1) - 1 + 1 /\ 1 + i - 1 = i
        BY <1>2
    <2>5. Len(SubSeq(stack, 1, Top - 1)) = Top - 1
        BY <1>2, <2>2, <2>3
    <2>6. \A i \in 1 .. Top - 1 : SubSeq(stack, 1, Top - 1)[i] = stack[1 + i - 1] /\ stack[1 + i - 1] = stack[i]
        BY <2>3, <2>4
    <2>7. stack' \in Seq(Frames) /\ Len(stack') = Top - 1 /\ \A i \in 1 .. Top - 1 : stack'[i] = stack[i]
        BY <2>1, <2>3, <2>5, <2>6
    <2> QED
        BY <2>7 DEF Top
<1>5. CxaTyped'
    <2>1. 1 <= Top' /\ Top' <= MaxDepth
        BY <1>2, <1>4
    <2> QED
        BY <1>1, <1>3, <1>4, <2>1 DEF CxaTyped
<1>6. Body(Top) /\ ~Landed(Top) /\ ~Leaving(Top)
    BY DEF Return, Running, Landed, Leaving, Body
<1> PICK n : n = Top - 1
    OBVIOUS
<1>7. n \in 1 .. Top /\ n <= Top' /\ \A g \in 1 .. n : stack'[g] = stack[g]
    BY <1>2, <1>4
<1>8. (\A g \in 1 .. Top : g \in 1 .. n \/ Body(g)) /\ (\A g \in 1 .. Top' : g \in 1 .. n \/ Body(g)')
    <2>1. (\A g \in 1 .. Top : g \in 1 .. n \/ g = Top) /\ (\A g \in 1 .. Top' : g \in 1 .. n)
        BY <1>2, <1>4
    <2> QED
        BY <1>6, <2>1
<1>9. CxaSound'
    BY <1>1, <1>3, <1>5, <1>6, <1>7, <1>8, FrameComesOrGoes
<1> QED
    BY <1>5, <1>9 DEF CxaInv

-----------------------------------------------------------------------------
(* The invariant and the properties that follow. *)

LEMMA CxaInitInv == CxaAssumption /\ CxaInit => CxaInv
<1> SUFFICES ASSUME CxaAssumption, CxaInit
             PROVE  CxaInv
    OBVIOUS
<1> DEFINE frame == [catches |-> {}, dtor |-> FALSE, mode |-> "body", ue |-> NoException]
<1>1. frame \in Frames /\ frame.mode = "body"
    BY DEF Frames
<1>2. stack = <<frame>>
    BY DEF CxaInit
<1> HIDE DEF frame
<1>3. stack \in Seq(Frames) /\ Top = 1 /\ stack[1] = frame
    BY <1>1, <1>2 DEF Top
<1>4. /\ g_caught = <<>> /\ g_phase2 = <<>> /\ g_uncaught_exceptions = 0 /\ ended = FALSE /\ rethrown = {}
      /\ Len(g_caught) = 0 /\ Len(g_phase2) = 0
    BY DEF CxaInit
<1>5. CxaTyped
    <2>1. exception \in [Exceptions -> ExceptionRecords]
        BY DEF CxaInit, ExceptionRecords
    <2>2. MaxDepth \in Nat /\ 1 <= MaxDepth
        BY DEF CxaAssumption
    <2> QED
        <3>1. g_caught \in Seq(Exceptions) /\ g_phase2 \in Seq(Phase2Entries)
            BY <1>4, EmptySeq
        <3>2. g_uncaught_exceptions \in Nat /\ ended \in BOOLEAN /\ rethrown \subseteq Exceptions
            BY <1>4
        <3> QED
            BY <1>3, <2>1, <2>2, <3>1, <3>2 DEF CxaTyped
<1>6. \A f \in 1 .. Top : ~Flying(f) /\ ~Handling(f) /\ ~Clause(f) /\ ~Landed(f) /\ ~Leaving(f) /\ ~UnderWay(f)
    BY <1>1, <1>3 DEF Flying, Handling, Clause, Landed, Leaving, UnderWay, Cleaning
<1>7. PadsOnTop /\ FlightsAreDistinct /\ RecordsMatchPads
    BY <1>4, <1>6 DEF PadsOnTop, FlightsAreDistinct, RecordsMatchPads
<1>8. FlightsAreCounted
    BY <1>3, <1>4, <1>6 DEF FlightsAreCounted
<1>9. ClausesMatchCaught
    <2> PICK w : w = [i \in 1 .. 0 |-> 1]
        OBVIOUS
    <2>1. w \in [1 .. Len(g_caught) -> 1 .. Top] /\ \A i \in 1 .. Len(g_caught) : FALSE
        BY <1>4
    <2>2. Lists(w)
        BY <1>6, <2>1 DEF Lists
    <2> QED
        BY <2>2 DEF ClausesMatchCaught
<1>10. CaughtAreDistinct
    BY <1>4 DEF CaughtAreDistinct
<1>11. HandlersCount
    BY <1>4, <1>6 DEF HandlersCount, IsInFlight, IsCaught, CxaInit
<1> QED
    BY <1>5, <1>7, <1>8, <1>9, <1>10, <1>11 DEF CxaInv, CxaSound

LEMMA CxaStep == CxaAssumption /\ CxaInv /\ [CxaNext]_cxaVars => CxaInv'
<1> SUFFICES ASSUME CxaAssumption, CxaInv, [CxaNext]_cxaVars
             PROVE  CxaInv'
    OBVIOUS
<1>1. ASSUME NEW e \in Exceptions, NEW type \in Types, CxaThrow(e, type)
      PROVE  CxaInv'
    BY <1>1, ThrowKeeps
<1>2. CASE CxaBeginCatch
    BY <1>2, BeginCatchKeeps
<1>3. CASE CxaEndCatch
    BY <1>3, EndCatchKeeps
<1>4. CASE CxaRethrow
    BY <1>4, RethrowKeeps
<1>5. CASE UnwindResume
    BY <1>5, ResumeKeeps
<1>6. ASSUME NEW f \in [catches : { {}, {AnyType} } \cup { {ty} : ty \in Types }, dtor : BOOLEAN],
             CallFunction(f.catches, f.dtor)
      PROVE  CxaInv'
    <2>1. f.catches \in { {}, {AnyType} } \cup { {ty} : ty \in Types } /\ f.dtor \in BOOLEAN
        OBVIOUS
    <2> QED
        BY <1>6, <2>1, CallKeeps
<1>7. CASE Return
    BY <1>7, ReturnKeeps
<1>8. CASE UNCHANGED cxaVars
    <2>1. /\ stack' = stack /\ exception' = exception /\ g_caught' = g_caught /\ g_phase2' = g_phase2
          /\ g_uncaught_exceptions' = g_uncaught_exceptions /\ ended' = ended /\ rethrown' = rethrown
        BY <1>8 DEF cxaVars
    <2>2. CxaTyped => CxaTyped'
        BY <2>1 DEF CxaTyped, Top
    <2>3. Top' = Top /\ \A f : stack'[f] = stack[f] /\ (Flying(f)' <=> Flying(f)) /\ (Clause(f)' <=> Clause(f))
                               /\ (Handling(f)' <=> Handling(f)) /\ (Landed(f)' <=> Landed(f))
                               /\ (Leaving(f)' <=> Leaving(f)) /\ (UnderWay(f)' <=> UnderWay(f))
                               /\ \A ty : Catches(f, ty)' <=> Catches(f, ty)
        BY <2>1, KeptFrame DEF Top
    <2>4. PadsOnTop /\ FlightsAreDistinct => PadsOnTop' /\ FlightsAreDistinct'
        BY <2>3 DEF PadsOnTop, FlightsAreDistinct
    <2>5. \A f, r : RecordFor(f, r)' <=> RecordFor(f, r)
        BY <2>1, <2>3 DEF RecordFor
    <2>6. RecordsMatchPads => RecordsMatchPads'
        BY <2>1, <2>3, <2>5 DEF RecordsMatchPads
    <2>7. FlightsAreCounted => FlightsAreCounted'
        BY <2>1, <2>3 DEF FlightsAreCounted, Landed
    <2>8. \A w : Lists(w)' <=> Lists(w)
        BY <2>1, <2>3 DEF Lists
    <2>9. CaughtAreDistinct => CaughtAreDistinct'
        BY <2>1, <2>3 DEF CaughtAreDistinct
    <2>10. \A x : (IsInFlight(x)' <=> IsInFlight(x)) /\ (IsCaught(x)' <=> IsCaught(x))
        BY <2>1, <2>3 DEF IsInFlight, IsCaught
    <2>11. HandlersCount => HandlersCount'
        BY <2>1, <2>10 DEF HandlersCount
    <2> QED
        BY <2>1, <2>2, <2>4, <2>6, <2>7, <2>8, <2>9, <2>11 DEF CxaInv, CxaSound, ClausesMatchCaught
<1> QED
    BY <1>1, <1>2, <1>3, <1>4, <1>5, <1>6, <1>7, <1>8 DEF CxaNext

\* The clauses are as many as the caught exceptions.
LEMMA ClausesAreCounted ==
    ASSUME CxaTyped, ClausesMatchCaught
    PROVE  Cardinality({ f \in 1 .. Top : Clause(f) }) = Len(g_caught)
<1>1. PICK w : Lists(w)
    BY DEF ClausesMatchCaught
<1> PICK n : n = Len(g_caught)
    OBVIOUS
<1> PICK S : S = { f \in 1 .. Top : Clause(f) }
    OBVIOUS
<1>2. n \in Nat /\ Top \in Nat
    BY CxaFacts
<1>3. w \in [1 .. n -> S]
    BY <1>1 DEF Lists
<1>4. \A i, j \in 1 .. n : w[i] = w[j] => i = j
    <2> TAKE i, j \in 1 .. n
    <2> HAVE w[i] = w[j]
    <2>1. i < j => w[i] < w[j]
        BY <1>1 DEF Lists
    <2>2. j < i => w[j] < w[i]
        BY <1>1 DEF Lists
    <2>3. w[i] \in 1 .. Top /\ w[j] \in 1 .. Top
        BY <1>1 DEF Lists
    <2> QED
        BY <1>2, <2>1, <2>2, <2>3
<1>5. \A f \in S : \E i \in 1 .. n : w[i] = f
    BY <1>1 DEF Lists
<1>6. w \in Bijection(1 .. n, S)
    BY <1>3, <1>4, <1>5 DEF Bijection, Injection, IsInjective, Surjection
<1>7. IsFiniteSet(1 .. n) /\ Cardinality(1 .. n) = n
    <2>1. 1 \in Int /\ n \in Int
        BY <1>2
    <2>2. IsFiniteSet(1 .. n) /\ Cardinality(1 .. n) = IF 1 > n THEN 0 ELSE n - 1 + 1
        BY <2>1, FS_Interval
    <2> QED
        BY <1>2, <2>2
<1>8. ExistsBijection(1 .. n, S)
    BY <1>6 DEF ExistsBijection
<1> QED
    BY <1>7, <1>8, FS_Bijection

\* What is allocated, and what the unwinder has on record, in every state.
LEMMA CxaProperties == CxaInv => CxaTypeOK /\ LivesUntilHandled /\ RecordsAgreeWithStack
<1> SUFFICES ASSUME CxaInv
             PROVE  CxaTypeOK /\ LivesUntilHandled /\ RecordsAgreeWithStack
    OBVIOUS
<1>1. CxaTyped
    BY DEF CxaInv
<1>2. /\ Top \in Nat \ {0} /\ DOMAIN stack = 1 .. Top /\ DOMAIN g_caught = 1 .. Len(g_caught)
      /\ DOMAIN g_phase2 = 1 .. Len(g_phase2) /\ Top > 0
    BY <1>1, CxaFacts
<1>3. CxaTypeOK
    BY <1>1 DEF CxaTyped, CxaTypeOK, Phase2Entries
<1>4. ASSUME ~ended
      PROVE  LivesUntilHandled /\ RecordsAgreeWithStack
    <2>1. CxaSound
        BY <1>4 DEF CxaInv
    <2>2. PadsOnTop /\ RecordsMatchPads /\ FlightsAreCounted /\ ClausesMatchCaught /\ HandlersCount
        BY <2>1 DEF CxaSound
    <2>3. \A e \in Exceptions : (e \in InFlight <=> IsInFlight(e)) /\ (e \in ToSet(g_caught) <=> IsCaught(e))
        BY <1>2 DEF InFlight, IsInFlight, ToSet, IsCaught, Flying, Landed, UnderWay, Cleaning, Leaving
    <2>4. LivesUntilHandled
        BY Zenon, <2>2, <2>3 DEF LivesUntilHandled, HandlersCount
    <2>5. \A f \in DOMAIN stack : stack[f].mode \in {"cleanup", "leaving"} =>
              \E i \in DOMAIN g_phase2 :
                 /\ g_phase2[i].ue = stack[f].ue /\ g_phase2[i].handler < f
                 /\ Catches(g_phase2[i].handler, exception[stack[f].ue].type)
        <3> TAKE f \in DOMAIN stack
        <3> HAVE stack[f].mode \in {"cleanup", "leaving"}
        <3>1. f \in 1 .. Top /\ UnderWay(f)
            BY <1>2 DEF UnderWay, Cleaning, Leaving
        <3>2. PICK i \in 1 .. Len(g_phase2) : RecordFor(f, g_phase2[i])
            BY <2>2, <3>1 DEF RecordsMatchPads
        <3>3. g_phase2[i].handler < f
            BY <1>2, <3>1, <3>2 DEF RecordFor
        <3> QED
            BY <1>2, <3>2, <3>3 DEF RecordFor
    <2>6. Cardinality({ f \in DOMAIN stack : stack[f].mode \in {"handler", "leaving"} }) = Len(g_caught)
        <3>1. { f \in DOMAIN stack : stack[f].mode \in {"handler", "leaving"} } = { f \in 1 .. Top : Clause(f) }
            BY <1>2 DEF Clause, Handling, Leaving
        <3> QED
            BY <1>1, <2>2, <3>1, ClausesAreCounted
    <2>7. \A f \in DOMAIN stack : stack[f].mode = "handler" => stack[f].ue \in ToSet(g_caught)
        <3> TAKE f \in DOMAIN stack
        <3> HAVE stack[f].mode = "handler"
        <3>1. f \in 1 .. Top /\ Handling(f) /\ Clause(f)
            BY <1>2 DEF Handling, Clause
        <3>2. PICK w : Lists(w)
            BY <2>2 DEF ClausesMatchCaught
        <3>3. PICK i \in 1 .. Len(g_caught) : w[i] = f
            BY <3>1, <3>2 DEF Lists
        <3>4. stack[f].ue = g_caught[i]
            BY <3>1, <3>2, <3>3 DEF Lists
        <3> QED
            BY <1>2, <3>4 DEF ToSet
    <2>8. g_uncaught_exceptions = Len(g_phase2) + (IF Top > 0 /\ stack[Top].mode = "landed" THEN 1 ELSE 0)
        BY <1>2, <2>2 DEF FlightsAreCounted, Landed
    <2> QED
        BY <2>4, <2>5, <2>6, <2>7, <2>8 DEF RecordsAgreeWithStack
<1>5. CASE ended
    <2>1. LivesUntilHandled
        BY <1>5 DEF LivesUntilHandled
    <2>2. RecordsAgreeWithStack
        BY <1>5 DEF RecordsAgreeWithStack
    <2> QED
        BY <1>3, <2>1, <2>2
<1> QED
    BY <1>3, <1>4, <1>5

\* Every pad is landed on.
PadsAreKept == \A f \in DOMAIN stack : f > Len(stack') /\ HasPad(f) => stack' = Front(stack)

LEMMA LandingKeepsPads ==
    ASSUME CxaTyped, NEW e, NEW h, NEW f, NEW entries, LandsAt(e, h, f, entries)
    PROVE  PadsAreKept
<1>1. DOMAIN stack = 1 .. Top /\ Top \in Nat /\ Len(stack') = f /\ Len(stack') \in Nat
    BY CxaFacts DEF LandsAt, Top
<1>2. \A g \in 1 .. Top : g > f => g \in f + 1 .. Top
    BY <1>1
<1>3. \A g \in f + 1 .. Top : ~HasPad(g)
    BY DEF LandsAt
<1> QED
    BY <1>1, <1>2, <1>3 DEF PadsAreKept

LEMMA PadsKept == CxaInv /\ [CxaNext]_cxaVars => PadsAreKept \/ UNCHANGED cxaVars
<1> SUFFICES ASSUME CxaInv, CxaNext
             PROVE  PadsAreKept
    OBVIOUS
<1>1. CxaTyped /\ DOMAIN stack = 1 .. Top /\ Top \in Nat \ {0} /\ stack \in Seq(Frames) /\ Top \in 1 .. Top
    BY CxaFacts DEF CxaInv, CxaTyped
<1>2. Len(stack') = Top => PadsAreKept
    <2> HAVE Len(stack') = Top
    <2>1. \A f \in 1 .. Top : ~(f > Top)
        BY <1>1
    <2> QED
        BY <1>1, <2>1 DEF PadsAreKept
<1>3. ASSUME NEW e \in Exceptions, NEW type, RaiseException(e, type)
      PROVE  PadsAreKept
    <2> DEFINE found == { g \in 1 .. Top : Catches(g, type) \/ stack[g].mode \in {"cleanup", "leaving"} }
               h == Highest(found)
    <2>1. CASE found # {} /\ Catches(h, type)
        <3>1. RunPhase2(e, h, Append(g_phase2, [ue |-> e, handler |-> h]))
            BY <1>3, <2>1 DEF RaiseException
        <3>2. found \in SUBSET (1 .. Top) /\ Top \in Nat
            BY <1>1
        <3> HIDE DEF found
        <3>3. h \in 1 .. Top
            BY <2>1, <3>2, HighestIs
        <3> HIDE DEF h
        <3>4. PICK f \in h .. Top : LandsAt(e, h, f, Append(g_phase2, [ue |-> e, handler |-> h]))
            BY <1>1, <3>1, <3>3, RunPhase2Lands
        <3> QED
            BY <1>1, <3>4, LandingKeepsPads
    <2>2. CASE ~(found # {} /\ Catches(h, type))
        <3>1. stack' = stack
            BY <1>3, <2>2 DEF RaiseException
        <3> QED
            BY <1>2, <3>1 DEF Top
    <2> QED
        BY <2>1, <2>2
<1>4. ASSUME NEW e \in Exceptions, NEW type \in Types, CxaThrow(e, type)
      PROVE  PadsAreKept
    BY <1>3, <1>4 DEF CxaThrow
<1>5. CASE CxaBeginCatch
    <2>1. stack' = [stack EXCEPT ![Top].mode = "handler"]
        BY <1>5 DEF CxaBeginCatch
    <2> QED
        BY <1>1, <1>2, <2>1 DEF Top
<1>6. CASE CxaEndCatch
    <2>1. stack' = [stack EXCEPT ![Top].mode = "body", ![Top].ue = NoException]
        BY <1>6 DEF CxaEndCatch
    <2> QED
        BY <1>1, <1>2, <2>1 DEF Top
<1>7. CASE CxaRethrow
    <2>1. g_caught \in Seq(Exceptions) /\ g_caught # <<>>
        BY <1>1, <1>7 DEF CxaRethrow, CxaTyped
    <2>2. Last(g_caught) \in Exceptions
        <3>1. Len(g_caught) \in 1 .. Len(g_caught)
            BY <2>1, EmptySeq
        <3> QED
            BY <2>1, <3>1 DEF Last
    <2> QED
        BY <1>3, <1>7, <2>2 DEF CxaRethrow
<1>8. CASE UnwindResume
    <2>1. CxaSound
        BY <1>8 DEF CxaInv, UnwindResume, Running
    <2>2. stack[Top].ue \in Exceptions /\ \E k \in 1 .. Len(g_phase2) :
              RecordFor(Top, g_phase2[k]) /\ RunPhase2(stack[Top].ue, g_phase2[k].handler, g_phase2)
        BY <1>1, <1>8, <2>1, ResumedRecord
    <2> PICK k \in 1 .. Len(g_phase2) :
              RecordFor(Top, g_phase2[k]) /\ RunPhase2(stack[Top].ue, g_phase2[k].handler, g_phase2)
        BY <2>2
    <2> PICK h : h = g_phase2[k].handler
        OBVIOUS
    <2>3. h \in 1 .. Top
        BY <1>1 DEF RecordFor
    <2>4. PICK f \in h .. Top : LandsAt(stack[Top].ue, h, f, g_phase2)
        BY <1>1, <2>2, <2>3, RunPhase2Lands
    <2> QED
        BY <1>1, <2>4, LandingKeepsPads
<1>9. ASSUME NEW catches, NEW dtor, CallFunction(catches, dtor)
      PROVE  PadsAreKept
    <2> DEFINE frame == [catches |-> catches, dtor |-> dtor, mode |-> "body", ue |-> NoException]
    <2>1. stack' = Append(stack, frame)
        BY <1>9 DEF CallFunction
    <2> HIDE DEF frame
    <2>2. Len(stack') = Top + 1
        BY <1>1, <2>1 DEF Top
    <2>3. \A f \in 1 .. Top : ~(f > Top + 1)
        BY <1>1
    <2> QED
        BY <1>1, <2>2, <2>3 DEF PadsAreKept
<1>10. CASE Return
    BY <1>10 DEF Return, PadsAreKept
<1> QED
    BY <1>4, <1>5, <1>6, <1>7, <1>8, <1>9, <1>10 DEF CxaNext
=============================================================================
