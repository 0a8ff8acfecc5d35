---------------------------- MODULE DirectMemory ----------------------------
(***************************************************************************)
(* Direct memory, src/hle/libkernel.cpp: one host reservation carved by a  *)
(* bump offset, the list of blocks that can be released and reused, the    *)
(* commit of whole chunks ahead of the offset, and mappings and faults     *)
(* that commit pages of their own.  Every call runs under g_phys_mutex.    *)
(* Offsets count half pages: sceKernelAllocateMainDirectMemory bumps the   *)
(* offset by sizes that are not rounded.  The emulator can be stopped and  *)
(* started again in one process, which is what ResetPhysPool is for.       *)
(***************************************************************************)
EXTENDS Naturals, FiniteSets, Sequences, SequencesExt

CONSTANTS PHYS_POOL_SIZE, PHYS_COMMIT_CHUNK, FirstOffset, \* in half pages
          DirectSizes, DirectAligns,                      \* requests of the guest
          MaxHeld, MaxBoots                               \* bounds

\* The pool is made of whole pages of two units, and the first blocks lie in it.  The
\* code rounds by masking, which is rounding for the powers of two only.
DirectAssumption ==
    /\ PHYS_POOL_SIZE \in Nat /\ PHYS_POOL_SIZE % 2 = 0
    /\ PHYS_COMMIT_CHUNK \in Nat \ {0} /\ FirstOffset \in 0 .. PHYS_POOL_SIZE
    /\ DirectSizes \subseteq Nat
    /\ \A a \in DirectAligns : a \in Nat /\ \E n \in 0 .. a : a = 2 ^ n

PageUnits == 2
Offsets == 0 .. PHYS_POOL_SIZE - 1

VARIABLES g_phys_pool_base,      \* is the pool reserved?
          g_phys_pool_offset, g_phys_pool_committed,
          g_phys_blocks,         \* records; "boot" is history, when it was made
          pages,                 \* the pages of the pool that are committed
          direct,                \* history: the blocks the guest was given and holds
          boot                   \* history: how often the emulator was started

directVars == <<g_phys_pool_base, g_phys_pool_offset, g_phys_pool_committed,
                g_phys_blocks, pages, direct, boot>>

PhysPages == 0 .. PHYS_POOL_SIZE \div PageUnits - 1
PagesOf(offset, size) == offset \div PageUnits .. (offset + size - 1) \div PageUnits
Units(b) == b.offset .. b.offset + b.size - 1
Up(x, align) == ((x + align - 1) \div align) * align
AtLeast(x, low) == IF x < low THEN low ELSE x

PagesBelow(end) == { p \in PhysPages : p * PageUnits < end }

-----------------------------------------------------------------------------
\* The chunks the host may grant below the end of the new block: all, or some of them.
Granted(end) ==
    { c \in g_phys_pool_committed .. AtLeast(Up(end, PHYS_COMMIT_CHUNK), g_phys_pool_committed) :
        c % PHYS_COMMIT_CHUNK = 0 }

\* Variant for the mutant runs: the chunk that holds the last page is not committed.
EnsurePhysCommittedShort(end) ==
    \E upTo \in Granted(end) :
        /\ g_phys_pool_committed' = upTo
        /\ pages' = pages \cup PagesBelow((upTo \div PHYS_COMMIT_CHUNK - 1) * PHYS_COMMIT_CHUNK)

EnsurePhysCommitted(end) ==
    \E upTo \in Granted(end) :
        /\ g_phys_pool_committed' = upTo
        /\ pages' = pages \cup PagesBelow(upTo)

Hand(offset, size, since) ==
    direct' = Append(direct, [offset |-> offset, size |-> size, boot |-> since])

\* Past the offset.  A recorded block can be released, the other kind cannot.
\* The host may refuse a chunk: the offset is spent and nobody holds the block.
Bump(size, align, recorded) ==
    LET offset == Up(g_phys_pool_offset, align) IN
    /\ offset + size <= PHYS_POOL_SIZE
    /\ g_phys_pool_base' = TRUE
    /\ g_phys_pool_offset' = offset + size
    /\ EnsurePhysCommitted(offset + size)
    /\ IF g_phys_pool_committed' < offset + size THEN UNCHANGED <<g_phys_blocks, direct>>
       ELSE /\ g_phys_blocks' = IF recorded
                                THEN Append(g_phys_blocks, [offset |-> offset, size |-> size,
                                                            free |-> FALSE, boot |-> boot])
                                ELSE g_phys_blocks
            /\ Hand(offset, size, boot)

Reusable(size, align) ==
    { i \in DOMAIN g_phys_blocks :
        LET b == g_phys_blocks[i] IN b.free /\ b.size >= size /\ b.offset % align = 0 }

\* Variant for the mutant runs: a reused block stays marked as free.
ReuseKeepsFree(i) ==
    LET b == g_phys_blocks[i] IN
    /\ Hand(b.offset, b.size, b.boot)
    /\ UNCHANGED g_phys_blocks

Reuse(i) ==
    LET b == g_phys_blocks[i] IN
    /\ g_phys_blocks' = [g_phys_blocks EXCEPT ![i].free = FALSE]
    /\ Hand(b.offset, b.size, b.boot)

\* The first released block that is large enough and aligned, else a new one.
SceKernelAllocateDirectMemory(length, alignment) ==
    LET align == AtLeast(alignment, PageUnits)
        size == Up(AtLeast(length, PageUnits), align)
        fits == Reusable(size, align)
    IN  /\ Len(direct) < MaxHeld
        /\ IF fits # {}
           THEN /\ Reuse(CHOOSE i \in fits : \A j \in fits : i <= j)
                /\ g_phys_pool_base' = TRUE
                /\ UNCHANGED <<g_phys_pool_offset, g_phys_pool_committed, pages>>
           ELSE Bump(size, align, TRUE)
        /\ UNCHANGED boot

SceKernelAllocateMainDirectMemory(size, alignment) ==
    /\ size # 0 /\ Len(direct) < MaxHeld
    /\ Bump(size, AtLeast(alignment, PageUnits), FALSE)
    /\ UNCHANGED boot

\* The first record with the offset decides, whatever the length says; of a
\* block already free, or one never recorded, the call reports success.
SceKernelReleaseDirectMemory(k) ==
    /\ k \in DOMAIN direct
    /\ direct' = RemoveAt(direct, k)
    /\ LET hits == { i \in DOMAIN g_phys_blocks : g_phys_blocks[i].offset = direct[k].offset } IN
       IF hits = {} THEN UNCHANGED g_phys_blocks
       ELSE LET i == CHOOSE i \in hits : \A j \in hits : i <= j IN
            g_phys_blocks' = [g_phys_blocks EXCEPT ![i].free = TRUE]
    /\ UNCHANGED <<g_phys_pool_base, g_phys_pool_offset, g_phys_pool_committed, pages, boot>>

\* MapDirectMemoryCore with an offset other than 0 and no usable hint: the
\* pages are committed in place.
MapDirectMemoryCore(k) ==
    /\ k \in DOMAIN direct /\ g_phys_pool_base
    /\ pages' = pages \cup PagesOf(direct[k].offset, direct[k].size)
    /\ UNCHANGED <<g_phys_pool_base, g_phys_pool_offset, g_phys_pool_committed, g_phys_blocks, direct, boot>>

\* The first touch of a page that is not committed faults and commits it.
CommitPhysPool(k) ==
    /\ k \in DOMAIN direct /\ g_phys_pool_base
    /\ \E p \in PagesOf(direct[k].offset, direct[k].size) \ pages : pages' = pages \cup {p}
    /\ UNCHANGED <<g_phys_pool_base, g_phys_pool_offset, g_phys_pool_committed, g_phys_blocks, direct, boot>>

\* The guest is gone; the reservation is released.  The records stay.
ResetPhysPool ==
    /\ boot < MaxBoots /\ boot' = boot + 1
    /\ g_phys_pool_base' = FALSE
    /\ g_phys_pool_offset' = FirstOffset
    /\ g_phys_pool_committed' = 0
    /\ pages' = {}
    /\ direct' = <<>>
    /\ UNCHANGED g_phys_blocks

-----------------------------------------------------------------------------
DirectInit ==
    /\ g_phys_pool_base = FALSE
    /\ g_phys_pool_offset = FirstOffset
    /\ g_phys_pool_committed = 0
    /\ g_phys_blocks = <<>>
    /\ pages = {}
    /\ direct = <<>>
    /\ boot = 1

DirectNext ==
    \/ \E n \in DirectSizes, align \in DirectAligns :
          SceKernelAllocateDirectMemory(n, align) \/ SceKernelAllocateMainDirectMemory(n, align)
    \/ \E k \in DOMAIN direct : SceKernelReleaseDirectMemory(k) \/ MapDirectMemoryCore(k) \/ CommitPhysPool(k)
    \/ ResetPhysPool

-----------------------------------------------------------------------------
\* The type invariant of the pool.
DirectTypeOK ==
    /\ g_phys_pool_base \in BOOLEAN
    /\ g_phys_pool_offset \in 0 .. PHYS_POOL_SIZE
    /\ g_phys_pool_committed \in 0 .. Up(PHYS_POOL_SIZE, PHYS_COMMIT_CHUNK)
    /\ pages \in SUBSET PhysPages
    /\ \A k \in DOMAIN direct : Units(direct[k]) \subseteq Offsets

\* Two direct memory blocks the guest holds never share a byte, except where
\* one of them is the reuse of a record from before the emulator was restarted:
\* ResetPhysPool starts the offset over and keeps the records.
DirectBlocksApart ==
    \A j, k \in DOMAIN direct :
        j # k /\ direct[j].boot = boot /\ direct[k].boot = boot
            => Units(direct[j]) \cap Units(direct[k]) = {}

\* A block handed out past the offset is committed to its last page, so that
\* the guest may touch it without a mapping.
DirectBlocksCommitted ==
    \A k \in DOMAIN direct :
        direct[k].boot = boot => PagesOf(direct[k].offset, direct[k].size) \subseteq pages
=============================================================================
