-------------------------- MODULE GuestAccessProofs --------------------------
(***************************************************************************)
(* Proofs about the guarded accesses, for any page size, size of guest     *)
(* memory, placing and state of the pages and lengths of the calls.  Their *)
(* invariant says of each call how far it has come: what a transfer has    *)
(* moved, that a text has no end and a comparison no difference yet, what  *)
(* a string function has written.  One lemma per step.                     *)
(***************************************************************************)
EXTENDS GuestAccess, Integers, WellFoundedInduction, TLAPS

PageStates == {"rw", "ro", "armed", "reserved", "none"}
Texts == {"strlen", "strcpy", "strncpy", "pad"}
AccessOps == Transfers \cup {"set"} \cup Texts \cup Compares

GuardedTyped ==
    /\ page \in [Pages -> PageStates]
    /\ op \in AccessOps
    /\ size \in Nat \ {0} /\ src \in Nat /\ dst \in Nat /\ done \in 0 .. size
    /\ phase \in {"start", "again", "test", "retest", "end"}
    /\ result \in {"none", "ok", "fault", "equal", "less", "greater"}
    /\ found_null \in BOOLEAN /\ rearmed \in BOOLEAN

\* Where the ranges are: the host's side of a transfer is behind guest memory, and what
\* a string is copied to does not overlap it.
Placed ==
    /\ op \in {"read", "copy"} \cup Texts \cup Compares => src + size <= Host
    /\ op \in {"write", "copy", "set"} \cup Texts \cup Compares => dst + size <= Host
    /\ op = "read" => dst = Host
    /\ op \in {"write", "set"} => src = Host
    /\ op \in Transfers \cup {"set"} => size \in Sizes
    /\ op \in {"strcpy", "strncpy", "pad"} => src + size <= dst \/ dst + size <= src

\* The course of a call.
Flow ==
    /\ phase \in {"start", "again"} => done = 0 /\ mem = orig /\ ~found_null /\ op # "pad"
    /\ phase # "end" => result = "none" /\ done < size
    /\ phase \in {"test", "retest"} /\ op \in Compares => dst # src
    /\ found_null => op = "strncpy"
    /\ phase = "end" /\ result = "ok" /\ op \in {"strncpy", "pad"} => done = size

\* What the repair of the destination has achieved, unless another thread undid it.
Repairing ==
    phase = "retest" /\ dst + At < Host =>
        /\ page[PageOf(dst + At)] # "reserved"
        /\ WritesDst /\ ~rearmed => page[PageOf(dst + At)] # "armed"

\* No text ends, and no difference is, before n.
RunsTo(n) == \A i \in 0 .. n - 1 : ~Unmapped(src + i) /\ orig[src + i] # 0
EqualTo(n) == \A i \in 0 .. n - 1 :
    /\ ~Unmapped(src + i) /\ ~Unmapped(dst + i) /\ orig[dst + i] = orig[src + i]
    /\ op # "memcmp" => orig[src + i] # 0

IsLength(n) == RunsTo(n) /\ n <= size /\ (n < size => Unmapped(src + n) \/ orig[src + n] = 0)
IsDifference(n) ==
    /\ EqualTo(n) /\ n <= size
    /\ n < size => \/ Unmapped(src + n) \/ Unmapped(dst + n)
                   \/ orig[dst + n] # orig[src + n]
                   \/ op # "memcmp" /\ orig[src + n] = 0

\* m bytes of the source and zeros up to n.
Written(m, n) ==
    \A x \in Memory : mem[x] = IF x \in dst .. dst + m - 1 THEN orig[src + (x - dst)]
                               ELSE IF x \in dst + m .. dst + n - 1 THEN 0 ELSE orig[x]

Copying == op \in Transfers => CopiesLikeMemmove

Measuring ==
    op = "strlen" => mem = orig /\ IF phase = "end" THEN IsLength(done) ELSE RunsTo(done)

StringCopying ==
    op = "strcpy" =>
        /\ phase # "end" => RunsTo(done) /\ Written(done, done)
        /\ result = "ok" => \E n \in 0 .. size : IsLength(n) /\ done = (IF n < size THEN n + 1 ELSE n)
                                                 /\ Written(done, done)

Padding ==
    op \in {"strncpy", "pad"} =>
        IF op = "strncpy" /\ ~found_null THEN RunsTo(done) /\ Written(done, done)
        ELSE \E n \in 0 .. done : n < size /\ IsLength(n) /\ Written(n, done)

Comparing ==
    op \in Compares =>
        /\ mem = orig
        /\ phase # "end" => EqualTo(done)
        /\ phase = "end" =>
              \/ src = dst /\ result = "equal"
              \/ src # dst /\ \E n \in 0 .. size : IsDifference(n) /\
                    result = IF n = size THEN "equal" ELSE IF Unmapped(dst + n) THEN "less"
                             ELSE IF Unmapped(src + n) THEN "greater" ELSE Order(n)

GuardedInv == /\ GuardedTyped /\ Placed /\ Flow /\ Repairing /\ StopsOnlyAtAFault
              /\ Copying /\ Measuring /\ StringCopying /\ Padding /\ Comparing

-----------------------------------------------------------------------------
LEMMA LeastIs ==
    ASSUME NEW S \in SUBSET Nat, NEW m \in S, \A y \in S : m <= y
    PROVE  Min(S) = m
<1>1. \A x \in S : (\A y \in S : x <= y) => x = m
    OBVIOUS
<1> QED
    BY <1>1 DEF Min

LEMMA LeastExists ==
    ASSUME NEW S \in SUBSET Nat, S # {}
    PROVE  Min(S) \in S /\ \A y \in S : Min(S) <= y
<1>1. PICK i \in S : \A j \in S : ~ (<<j, i>> \in OpToRel(<, Nat))
    BY NatLessThanWellFounded, WFMin
<1>2. \A j \in S : j \in Nat /\ i \in Nat /\ ~ (j < i)
    BY <1>1 DEF OpToRel
<1>3. \A j \in S : i <= j
    BY <1>2
<1> QED
    BY <1>3 DEF Min

LEMMA LargestSize ==
    ASSUME AccessAssumption
    PROVE  Max(Sizes) \in Nat \ {0} /\ \A s \in Sizes : s <= Max(Sizes)
<1>1. PICK n \in Sizes : \A s \in Sizes : n >= s
    BY DEF AccessAssumption
<1>2. Max(Sizes) \in Sizes /\ \A s \in Sizes : Max(Sizes) >= s
    BY <1>1 DEF Max
<1> QED
    BY <1>2 DEF AccessAssumption

LEMMA QuotientIs ==
    ASSUME NEW P \in Nat \ {0}, NEW q \in Nat, NEW r \in 0 .. P - 1
    PROVE  (P * q + r) \div P = q
    BY SMT

LEMMA PageAbove ==
    ASSUME NEW P \in Nat \ {0}, NEW a \in Nat, NEW d \in Nat, d < P - (a % P)
    PROVE  (a + d) \div P = a \div P
<1>1. a = P * (a \div P) + (a % P) /\ a % P \in 0 .. P - 1 /\ a \div P \in Nat
    BY SMT
<1>2. PICK q \in Nat : q = a \div P
    BY <1>1
<1>3. PICK r \in Nat : r = a % P
    BY <1>1
<1>4. a + d = P * q + (r + d) /\ r + d \in 0 .. P - 1
    BY <1>1, <1>2, <1>3
<1> QED
    BY <1>2, <1>4, QuotientIs

LEMMA PageBelow ==
    ASSUME NEW P \in Nat \ {0}, NEW e \in Nat, NEW d \in Nat, d <= e % P
    PROVE  e - d \in Nat /\ (e - d) \div P = e \div P
<1>1. e = P * (e \div P) + (e % P) /\ e % P \in 0 .. P - 1 /\ e \div P \in Nat
    BY SMT
<1>2. PICK q \in Nat : q = e \div P
    BY <1>1
<1>3. PICK r \in Nat : r = e % P
    BY <1>1
<1>4. e - d = P * q + (r - d) /\ r - d \in 0 .. P - 1 /\ P * q \in Nat
    BY <1>1, <1>2, <1>3
<1>5. e - d \in Nat
    BY <1>4
<1> QED
    BY <1>2, <1>4, <1>5, QuotientIs

LEMMA HostFacts ==
    ASSUME AccessAssumption
    PROVE  /\ Host \in Nat \ {0}
           /\ \A x \in Nat : x < Host => PageOf(x) \in Pages
           /\ \A x \in Nat : x < Host => x \in Memory
           /\ \A s \in Sizes : \A i \in 0 .. s - 1 : Host + i \in Memory
<1>1. PICK P \in Nat \ {0} : P = PageSize
    BY DEF AccessAssumption
<1>2. PICK L \in Nat : L = LastPage
    BY DEF AccessAssumption
<1>3. (L + 1) * P \in Nat \ {0}
    BY SMT
<1>4. ASSUME NEW x \in Nat, x < (L + 1) * P PROVE x \div P \in 0 .. L
    <2>1. x = P * (x \div P) + (x % P) /\ x % P \in 0 .. P - 1 /\ x \div P \in Nat
        BY SMT
    <2>2. PICK q \in Nat : q = x \div P
        BY <2>1
    <2>3. P * q <= x
        BY <2>1, <2>2
    <2>4. ASSUME q >= L + 1 PROVE P * q >= (L + 1) * P
        BY <2>4, SMT
    <2> QED
        BY <1>4, <2>2, <2>3, <2>4, <1>3
<1>5. Host = (L + 1) * P /\ Pages = 0 .. L /\ \A x : PageOf(x) = x \div P
    BY <1>1, <1>2 DEF Host, Pages, PageOf
<1>6. PICK M \in Nat \ {0} : M = Max(Sizes)
    BY LargestSize
<1>7. PICK H \in Nat \ {0} : H = Host
    BY <1>3, <1>5
<1>8. Memory = 0 .. H + M - 1
    BY <1>6, <1>7 DEF Memory
<1>9. \A s \in Sizes : s \in Nat /\ s <= M
    BY <1>6, LargestSize DEF AccessAssumption
<1>10. \A x \in Nat : x < H => PageOf(x) \in Pages
    BY <1>4, <1>5, <1>7
<1> QED
    BY <1>7, <1>8, <1>9, <1>10

-----------------------------------------------------------------------------
(* The next chunk. *)

LEMMA ChunkFacts ==
    ASSUME AccessAssumption, GuardedTyped, done < size
    PROVE  /\ Chunk \in 1 .. size - done
           /\ UsesSrc => Chunk <= PageRest(src)
           /\ UsesDst => Chunk <= PageRest(dst)
<1>1. PageSize \in Nat \ {0} /\ size \in Nat /\ done \in Nat /\ src \in Nat /\ dst \in Nat
    BY DEF AccessAssumption, GuardedTyped
<1>2. \A x \in Nat : PageRest(x) \in Nat \ {0}
    <2>1. ASSUME NEW y \in Nat, NEW P \in Nat \ {0} PROVE y % P \in 0 .. P - 1
        BY SMT
    <2>2. \A y \in Nat : y % PageSize \in 0 .. PageSize - 1
        BY <1>1, <2>1
    <2>3. TAKE x \in Nat
    <2>4. (x + size - done - 1) \in Nat /\ (x + done) \in Nat
        BY <1>1
    <2> QED
        BY <1>1, <2>2, <2>4 DEF PageRest
<1>3. PICK S : S = {size - done} \cup {PageRest(x) : x \in Sides}
    OBVIOUS
<1>4. Chunk = Min(S)
    BY <1>3 DEF Chunk
<1>5. S \in SUBSET (Nat \ {0}) /\ size - done \in S
    BY <1>1, <1>2, <1>3 DEF Sides
<1>6. (UsesSrc => PageRest(src) \in S) /\ (UsesDst => PageRest(dst) \in S)
    BY <1>3 DEF Sides
<1>7. Min(S) \in S /\ \A y \in S : Min(S) <= y
    BY <1>5, LeastExists
<1>8. Chunk \in Nat \ {0} /\ \A y \in S : Chunk <= y
    BY <1>4, <1>5, <1>7
<1>9. Chunk \in 1 .. size - done
    BY <1>1, <1>5, <1>8
<1> QED
    BY <1>6, <1>8, <1>9

LEMMA CoveredFacts ==
    ASSUME AccessAssumption, GuardedTyped, done < size
    PROVE  /\ At \in 0 .. size - 1 /\ At + Chunk <= size
           /\ At = IF Backward THEN size - done - Chunk ELSE done
           /\ Covered = At .. At + Chunk - 1
           /\ \A i \in Covered : i \in Nat /\ i < size /\ At <= i /\ i <= At + Chunk - 1
<1>1. Chunk \in 1 .. size - done /\ size \in Nat /\ done \in Nat
    BY ChunkFacts DEF GuardedTyped
<1>2. At = IF Backward THEN size - done - Chunk ELSE done
    BY DEF At
<1> QED
    BY <1>1, <1>2 DEF Covered

\* A chunk is on one page of each of its ranges.
LEMMA ChunkOnOnePage ==
    ASSUME AccessAssumption, GuardedTyped, done < size, NEW x \in Nat, Chunk <= PageRest(x), NEW i \in Covered
    PROVE  PageOf(x + i) = PageOf(x + At)
<1>1. PICK P \in Nat \ {0} : P = PageSize
    BY DEF AccessAssumption
<1>2. size \in Nat /\ done \in Nat /\ Chunk \in 1 .. size - done
    BY ChunkFacts DEF GuardedTyped
<1>3. At \in Nat /\ i \in Nat /\ At <= i /\ i <= At + Chunk - 1
    BY CoveredFacts
<1>4. CASE Backward
    <2>1. At = size - done - Chunk
        BY <1>4, CoveredFacts
    <2>2. PICK e \in Nat : e = x + size - done - 1
        BY <1>2
    <2>3. e % P \in Nat
        BY SMT
    <2>4. Chunk <= (e % P) + 1
        BY <1>1, <1>4, <2>2 DEF PageRest
    <2>5. PICK d \in Nat : d = Chunk - 1
        BY <1>2
    <2>6. PICK c \in Nat : c = At + Chunk - 1 - i
        BY <1>2, <1>3
    <2>7. d <= e % P /\ c <= e % P /\ x + At = e - d /\ x + i = e - c
        BY <1>2, <1>3, <2>1, <2>2, <2>3, <2>4, <2>5, <2>6
    <2>8. (e - d) \div P = e \div P /\ (e - c) \div P = e \div P
        BY <2>7, PageBelow
    <2> QED
        BY Zenon, <1>1, <2>7, <2>8 DEF PageOf
<1>5. CASE ~Backward
    <2>1. At = done
        BY <1>5, CoveredFacts
    <2>2. PICK a \in Nat : a = x + done
        BY <1>2
    <2>3. a % P \in Nat
        BY SMT
    <2>4. Chunk <= P - (a % P)
        BY <1>1, <1>5, <2>2 DEF PageRest
    <2>5. PICK d \in Nat : d = i - At
        BY <1>3
    <2>6. d < P - (a % P) /\ x + i = a + d /\ x + At = a
        BY <1>2, <1>3, <2>1, <2>2, <2>3, <2>4, <2>5
    <2>7. (a + d) \div P = a \div P
        BY <2>6, PageAbove
    <2> QED
        BY Zenon, <1>1, <2>6, <2>7 DEF PageOf
<1> QED
    BY <1>4, <1>5

LEMMA SameChunk ==
    ASSUME UNCHANGED <<op, dst, src, size, done>>
    PROVE  At' = At /\ Chunk' = Chunk /\ (UsesSrc' <=> UsesSrc) /\ (UsesDst' <=> UsesDst)
           /\ (Backward' <=> Backward) /\ (WritesDst' <=> WritesDst)
<1>1. (Backward' <=> Backward) /\ (UsesSrc' <=> UsesSrc) /\ (UsesDst' <=> UsesDst) /\ (WritesDst' <=> WritesDst)
    BY DEF Backward, UsesSrc, UsesDst, WritesDst
<1>2. Sides' = Sides
    BY <1>1 DEF Sides
<1>3. \A x : PageRest(x)' = PageRest(x)
    BY <1>1 DEF PageRest
<1>4. Chunk' = Chunk
    BY <1>2, <1>3 DEF Chunk
<1> QED
    BY <1>1, <1>4 DEF At

-----------------------------------------------------------------------------
(* Steps that change pages. *)

MappingStays == \A p \in Pages : page'[p] = "none" <=> page[p] = "none"

LEMMA TextStays ==
    ASSUME AccessAssumption, GuardedTyped, Placed, MappingStays, UNCHANGED arguments,
           op \in Texts, NEW n \in 0 .. size
    PROVE  (RunsTo(n) => RunsTo(n)') /\ (IsLength(n) => IsLength(n)')
<1>1. src \in Nat /\ size \in Nat /\ src + size <= Host
    BY DEF GuardedTyped, Placed
<1>2. \A i \in 0 .. size - 1 : Unmapped(src + i)' <=> Unmapped(src + i)
    <2> TAKE i \in 0 .. size - 1
    <2>1. PageOf(src + i) \in Pages
        BY <1>1, HostFacts
    <2> QED
        BY <2>1 DEF MappingStays, Unmapped, arguments, PageOf
<1>3. RunsTo(n) => RunsTo(n)'
    BY <1>1, <1>2 DEF RunsTo, arguments
<1> QED
    BY <1>1, <1>2, <1>3 DEF IsLength, arguments

LEMMA EqualStays ==
    ASSUME AccessAssumption, GuardedTyped, Placed, MappingStays, UNCHANGED arguments, UNCHANGED op,
           op \in Compares, NEW n \in 0 .. size
    PROVE  EqualTo(n) => EqualTo(n)'
<1>1. src \in Nat /\ dst \in Nat /\ size \in Nat /\ src + size <= Host /\ dst + size <= Host
    BY DEF GuardedTyped, Placed
<1>2. \A i \in 0 .. size - 1 : (Unmapped(src + i)' <=> Unmapped(src + i)) /\ (Unmapped(dst + i)' <=> Unmapped(dst + i))
    <2> TAKE i \in 0 .. size - 1
    <2>1. PageOf(src + i) \in Pages /\ PageOf(dst + i) \in Pages
        BY <1>1, HostFacts
    <2> QED
        BY <2>1 DEF MappingStays, Unmapped, arguments, PageOf
<1> QED
    BY <1>1, <1>2 DEF EqualTo, arguments

LEMMA PageStep ==
    ASSUME AccessAssumption, GuardedInv, phase # "end",
           page' \in [Pages -> PageStates], MappingStays, rearmed' \in BOOLEAN,
           phase' \in {"start", "again", "test", "retest"}, Flow', Repairing',
           UNCHANGED <<mem, arguments, op, done, found_null, result>>
    PROVE  GuardedInv'
<1>1. GuardedTyped'
    BY DEF GuardedInv, GuardedTyped, arguments
<1>2. Placed'
    BY DEF GuardedInv, Placed, arguments
<1>3. StopsOnlyAtAFault'
    BY DEF GuardedInv, Flow, StopsOnlyAtAFault
<1>4. (Backward' <=> Backward) /\ (CopiesLikeMemmove => CopiesLikeMemmove')
    BY DEF CopiesLikeMemmove, Backward, arguments
<1>5. Copying'
    BY <1>4 DEF GuardedInv, Copying
<1>6. done \in 0 .. size /\ \A n \in 0 .. done : n \in 0 .. size
    BY DEF GuardedInv, GuardedTyped
<1>7. \A m, n : Written(m, n)' <=> Written(m, n)
    BY DEF Written, arguments
<1>8. op \in Texts => \A n \in 0 .. size : (RunsTo(n) => RunsTo(n)') /\ (IsLength(n) => IsLength(n)')
    BY TextStays DEF GuardedInv
<1>9. op \in Compares => \A n \in 0 .. size : EqualTo(n) => EqualTo(n)'
    BY EqualStays DEF GuardedInv
<1>10. Measuring'
    BY <1>6, <1>8 DEF GuardedInv, Measuring, Texts, arguments
<1>11. StringCopying'
    BY <1>6, <1>7, <1>8 DEF GuardedInv, StringCopying, Texts, Flow
<1>12. Padding'
    BY <1>6, <1>7, <1>8 DEF GuardedInv, Padding, Texts, arguments
<1>13. Comparing'
    BY <1>6, <1>9 DEF GuardedInv, Comparing, arguments
<1> QED
    BY <1>1, <1>2, <1>3, <1>5, <1>10, <1>11, <1>12, <1>13 DEF GuardedInv

LEMMA GoByPagesKeeps ==
    ASSUME AccessAssumption, GuardedInv, GoByPages
    PROVE  GuardedInv'
<1>1. phase \in {"start", "again"} /\ phase' \in {"again", "test"}
      /\ UNCHANGED <<mem, arguments, op, done, found_null, result, rearmed>>
      /\ ~(dst = src /\ op \in Compares)
    BY DEF GoByPages
<1>2. page' \in [Pages -> PageStates] /\ MappingStays
    BY DEF GoByPages, GuardedInv, GuardedTyped, MappingStays, Committed, PageStates
<1>3. Flow'
    BY <1>1 DEF GuardedInv, Flow, GuardedTyped, arguments
<1>4. Repairing'
    BY <1>1 DEF Repairing
<1>5. rearmed' \in BOOLEAN
    BY <1>1 DEF GuardedInv, GuardedTyped
<1> QED
    BY <1>1, <1>2, <1>3, <1>4, <1>5, PageStep

LEMMA CommitSourceKeeps ==
    ASSUME AccessAssumption, GuardedInv, CommitSource
    PROVE  GuardedInv'
<1>1. phase \in {"test", "retest"} /\ page[PageOf(src + At)] = "reserved"
      /\ page' = [page EXCEPT ![PageOf(src + At)] = "rw"]
      /\ UNCHANGED <<mem, arguments, op, done, phase, found_null, result, rearmed>>
    BY DEF CommitSource, SourceIsNext
<1>2. page' \in [Pages -> PageStates] /\ MappingStays
    BY <1>1 DEF GuardedInv, GuardedTyped, MappingStays, PageStates
<1>3. Flow'
    BY <1>1 DEF GuardedInv, Flow, arguments
<1>4. At' = At /\ (WritesDst' <=> WritesDst)
    BY <1>1, SameChunk DEF arguments
<1>5. Repairing'
    <2>1. PageOf(dst + At)' = PageOf(dst + At) /\ Host' = Host /\ dst' = dst
        BY <1>1, <1>4 DEF PageOf, arguments, Host
    <2>2. \A p : page'[p] \in {page[p], "rw"} \/ p \notin Pages
        BY <1>1 DEF GuardedInv, GuardedTyped
    <2>3. dst + At < Host => PageOf(dst + At) \in Pages
        BY HostFacts, CoveredFacts, <1>1 DEF GuardedInv, GuardedTyped, Flow
    <2> QED
        BY <1>1, <1>4, <2>1, <2>2, <2>3 DEF Repairing, GuardedInv
<1>6. rearmed' \in BOOLEAN
    BY <1>1 DEF GuardedInv, GuardedTyped
<1> QED
    BY <1>1, <1>2, <1>3, <1>5, <1>6, PageStep

LEMMA RepairDestinationKeeps ==
    ASSUME AccessAssumption, GuardedInv, RepairDestination
    PROVE  GuardedInv'
<1> DEFINE p == PageOf(dst + At)
<1>1. phase = "test" /\ phase' = "retest"
      /\ page' = [page EXCEPT ![p] = IF WritesDst THEN Repaired(@) ELSE Committed(@)]
      /\ UNCHANGED <<mem, arguments, op, done, found_null, result, rearmed>>
    BY DEF RepairDestination
<1>2. page' \in [Pages -> PageStates] /\ MappingStays
    BY <1>1 DEF GuardedInv, GuardedTyped, MappingStays, Repaired, Committed, PageStates
<1>3. Flow'
    BY <1>1 DEF GuardedInv, Flow, arguments
<1>4. At' = At /\ (WritesDst' <=> WritesDst)
    BY <1>1, SameChunk DEF arguments
<1>5. Repairing'
    <2>1. PageOf(dst + At)' = PageOf(dst + At) /\ Host' = Host /\ dst' = dst
        BY <1>1, <1>4 DEF PageOf, arguments, Host
    <2>2. dst + At < Host => PageOf(dst + At) \in Pages
        BY HostFacts, CoveredFacts, <1>1 DEF GuardedInv, GuardedTyped, Flow
    <2>3. dst + At < Host => page'[p] = IF WritesDst THEN Repaired(page[p]) ELSE Committed(page[p])
        BY <1>1, <2>2 DEF GuardedInv, GuardedTyped
    <2> QED
        BY <1>1, <1>4, <2>1, <2>3 DEF Repairing, Repaired, Committed
<1>6. rearmed' \in BOOLEAN
    BY <1>1 DEF GuardedInv, GuardedTyped
<1> QED
    BY <1>1, <1>2, <1>3, <1>5, <1>6, PageStep

LEMMA RearmKeeps ==
    ASSUME AccessAssumption, GuardedInv, NEW p \in Pages, Rearm(p)
    PROVE  GuardedInv'
<1>1. page[p] = "rw" /\ page' = [page EXCEPT ![p] = "armed"] /\ rearmed' = TRUE /\ phase # "end"
      /\ UNCHANGED <<mem, arguments, op, done, phase, found_null, result>>
    BY DEF Rearm
<1>2. page' \in [Pages -> PageStates] /\ MappingStays
    BY <1>1 DEF GuardedInv, GuardedTyped, MappingStays, PageStates
<1>3. Flow'
    BY <1>1 DEF GuardedInv, Flow, arguments
<1>4. At' = At
    BY <1>1, SameChunk DEF arguments
<1>5. Repairing'
    <2>1. PageOf(dst + At)' = PageOf(dst + At) /\ Host' = Host /\ dst' = dst
        BY <1>1, <1>4 DEF PageOf, arguments, Host
    <2>2. \A q \in Pages : page'[q] \in {page[q], "armed"}
        BY <1>1 DEF GuardedInv, GuardedTyped
    <2>3. dst + At < Host => PageOf(dst + At) \in Pages
        BY HostFacts, CoveredFacts, <1>1 DEF GuardedInv, GuardedTyped, Flow
    <2> QED
        BY <1>1, <1>4, <2>1, <2>2, <2>3 DEF Repairing, GuardedInv
<1>6. phase' \in {"start", "again", "test", "retest"}
    BY <1>1 DEF GuardedInv, GuardedTyped
<1> QED
    BY <1>1, <1>2, <1>3, <1>5, <1>6, PageStep

-----------------------------------------------------------------------------
(* Faults. *)

\* A source that cannot be read and cannot be committed is not mapped.
LEMMA SourceIsUnmapped ==
    ASSUME AccessAssumption, GuardedInv, SourceIsNext, page[PageOf(src + At)] # "reserved"
    PROVE  page[PageOf(src + At)] = "none" /\ UsesSrc /\ ~found_null
<1>1. done < size /\ UsesSrc /\ ~found_null
    BY DEF SourceIsNext, CanRead, GuardedInv, Flow
<1>2. PICK i \in Covered : ~Readable(src + i)
    BY DEF SourceIsNext, CanRead
<1>3. src \in Nat /\ i \in Nat /\ src + i < Host
    BY <1>1, <1>2, CoveredFacts, HostFacts DEF Readable, GuardedInv, GuardedTyped
<1>4. PageOf(src + i) = PageOf(src + At) /\ PageOf(src + i) \in Pages
    BY <1>1, <1>3, ChunkFacts, ChunkOnOnePage, HostFacts DEF GuardedInv
<1>5. page[PageOf(src + At)] \in PageStates \ {"rw", "ro", "armed"}
    BY <1>2, <1>4 DEF Readable, GuardedInv, GuardedTyped
<1> QED
    BY <1>1, <1>5 DEF PageStates

LEMMA DestinationIsUnusable ==
    ASSUME AccessAssumption, GuardedInv, phase = "retest", ~CanUse
    PROVE  /\ UsesDst
           /\ WritesDst /\ ~rearmed => page[PageOf(dst + At)] \in {"ro", "none"}
           /\ ~WritesDst => page[PageOf(dst + At)] = "none"
<1>1. done < size /\ UsesDst
    BY DEF CanUse, GuardedInv, Flow
<1>2. PICK i \in Covered : ~Usable(dst + i)
    BY DEF CanUse
<1>3. dst \in Nat /\ i \in Nat /\ dst + i < Host
    BY <1>1, <1>2, CoveredFacts, HostFacts DEF Usable, Writable, Readable, GuardedInv, GuardedTyped
<1>4. PageOf(dst + i) = PageOf(dst + At) /\ PageOf(dst + i) \in Pages
    BY <1>1, <1>3, ChunkFacts, ChunkOnOnePage, HostFacts DEF GuardedInv
<1>5. page[PageOf(dst + At)] \in PageStates /\ dst + At < Host
    BY <1>1, <1>3, <1>4, CoveredFacts, HostFacts DEF GuardedInv, GuardedTyped
<1>6. IF WritesDst THEN page[PageOf(dst + At)] # "rw" ELSE page[PageOf(dst + At)] \notin {"rw", "ro", "armed"}
    BY <1>2, <1>4 DEF Usable, Writable, Readable
<1> QED
    BY <1>1, <1>5, <1>6 DEF GuardedInv, Repairing, PageStates

LEMMA SourceFaultKeeps ==
    ASSUME AccessAssumption, GuardedInv, SourceFault
    PROVE  GuardedInv'
<1>1. /\ SourceIsNext /\ page[PageOf(src + At)] # "reserved"
      /\ UNCHANGED <<page, mem, arguments, done, found_null, rearmed>>
      /\ phase \in {"test", "retest"} /\ result = "none" /\ done < size
    BY DEF SourceFault, SourceIsNext, GuardedInv, Flow
<1>2. page[PageOf(src + At)] = "none" /\ UsesSrc /\ ~found_null
    BY <1>1, SourceIsUnmapped
<1>3. size \in Nat /\ done \in Nat /\ src \in Nat /\ dst \in Nat
    BY DEF GuardedInv, GuardedTyped
<1>4. op # "copy" => At = done /\ ~Backward
    BY DEF At, Backward
<1>5. CASE op = "strncpy" /\ op' = "pad" /\ UNCHANGED <<phase, result>>
    <2>1. GuardedTyped' /\ Placed' /\ Flow' /\ StopsOnlyAtAFault'
        BY <1>1, <1>2, <1>5 DEF GuardedInv, GuardedTyped, Placed, Flow, StopsOnlyAtAFault, arguments,
           AccessOps, Texts, Transfers, Compares
    <2>2. At = done /\ At' = done
        BY <1>1, <1>4, <1>5 DEF At, Backward
    <2>3. Repairing'
        BY <1>1, <1>5, <2>2 DEF GuardedInv, Repairing, arguments, Host, PageOf, WritesDst, UsesDst, Compares
    <2>4. IsLength(done) /\ RunsTo(done) /\ Written(done, done)
        BY <1>1, <1>2, <1>3, <1>5, <2>2 DEF GuardedInv, Padding, IsLength, Unmapped
    <2>5. IsLength(done)' /\ Written(done, done)'
        BY <1>1, <2>4 DEF IsLength, RunsTo, Written, Unmapped, arguments, PageOf
    <2>6. Padding'
        BY <1>1, <1>3, <1>5, <2>5 DEF Padding, arguments
    <2> QED
        BY <1>5, <2>1, <2>3, <2>6 DEF GuardedInv, Copying, Measuring, StringCopying, Comparing, Transfers, Compares
<1>6. CASE op = "strlen" /\ Return("ok") /\ UNCHANGED op
    <2>1. GuardedTyped' /\ Placed' /\ Flow' /\ StopsOnlyAtAFault' /\ Repairing'
        BY <1>1, <1>6 DEF GuardedInv, GuardedTyped, Placed, Flow, StopsOnlyAtAFault, Repairing, arguments, Return, Compares
    <2>2. mem = orig /\ IsLength(done)
        BY <1>1, <1>2, <1>3, <1>4, <1>6 DEF GuardedInv, Measuring, IsLength, Unmapped
    <2>3. Measuring'
        BY <1>1, <1>6, <2>2 DEF Measuring, IsLength, RunsTo, Unmapped, arguments, Return, PageOf
    <2> QED
        BY <1>6, <2>1, <2>3 DEF GuardedInv, Copying, Padding, StringCopying, Comparing, Transfers, Compares
<1>7. CASE op \in Compares /\ Return("greater") /\ UNCHANGED op
    <2>1. GuardedTyped' /\ Placed' /\ Flow' /\ StopsOnlyAtAFault' /\ Repairing'
        BY <1>1, <1>7 DEF GuardedInv, GuardedTyped, Placed, Flow, StopsOnlyAtAFault, Repairing, arguments, Return, Compares
    <2>2. At = done
        BY <1>4, <1>7 DEF Compares
    <2>3. CanUse /\ UsesDst /\ ~WritesDst /\ At \in Covered
        BY <1>1, <1>7, CoveredFacts, ChunkFacts DEF SourceIsNext, UsesDst, WritesDst, Compares, GuardedInv
    <2>4. Readable(dst + done)
        BY <2>2, <2>3 DEF CanUse, Usable
    <2>5. ~Unmapped(dst + done) /\ Unmapped(src + done)
        BY <1>1, <1>2, <1>3, <1>7, <2>2, <2>4, HostFacts DEF Readable, Unmapped, GuardedInv, Placed, Compares
    <2>6. mem = orig /\ IsDifference(done) /\ src # dst
        BY <1>1, <1>3, <1>7, <2>5 DEF GuardedInv, Comparing, IsDifference, Flow
    <2>7. IsDifference(done)' /\ mem' = orig' /\ src' # dst'
        BY <1>1, <1>7, <2>6 DEF IsDifference, EqualTo, Unmapped, arguments, PageOf
    <2>8. Unmapped(src + done)' /\ ~Unmapped(dst + done)' /\ done \in 0 .. size' /\ done # size'
        BY <1>1, <1>3, <2>5 DEF Unmapped, arguments, PageOf
    <2>9. Comparing'
        BY <1>1, <1>7, <2>7, <2>8 DEF Comparing, Return, arguments
    <2> QED
        BY <1>7, <2>1, <2>9 DEF GuardedInv, Copying, Padding, StringCopying, Measuring, Transfers, Compares
<1>8. CASE op \in Transfers \cup {"strcpy"} /\ Return("fault") /\ UNCHANGED op
    <2>1. GuardedTyped' /\ Placed' /\ Flow' /\ Repairing'
        BY <1>1, <1>8 DEF GuardedInv, GuardedTyped, Placed, Flow, Repairing, arguments, Return, Transfers, Compares
    <2>2. At' = At /\ (UsesSrc' <=> UsesSrc) /\ (Backward' <=> Backward)
        BY <1>1, <1>8, SameChunk DEF arguments
    <2>3. StopsOnlyAtAFault'
        BY <1>1, <1>2, <2>2 DEF StopsOnlyAtAFault, arguments, PageOf
    <2>4. Copying'
        BY <1>1, <1>8, <2>2 DEF GuardedInv, Copying, CopiesLikeMemmove, arguments
    <2> QED
        BY <1>8, <2>1, <2>3, <2>4 DEF GuardedInv, Padding, StringCopying, Measuring, Comparing, Transfers, Compares, Return
<1> QED
    BY <1>5, <1>6, <1>7, <1>8 DEF SourceFault

LEMMA DestinationFaultKeeps ==
    ASSUME AccessAssumption, GuardedInv, DestinationFault
    PROVE  GuardedInv'
<1>1. /\ phase = "retest" /\ ~CanUse /\ phase' = "end"
      /\ result' = IF op \in Compares THEN "less" ELSE "fault"
      /\ UNCHANGED <<page, mem, arguments, op, done, found_null, rearmed>>
      /\ result = "none" /\ done < size
    BY DEF DestinationFault, GuardedInv, Flow, Return
<1>2. /\ UsesDst
      /\ WritesDst /\ ~rearmed => page[PageOf(dst + At)] \in {"ro", "none"}
      /\ ~WritesDst => page[PageOf(dst + At)] = "none"
    BY <1>1, DestinationIsUnusable
<1>3. size \in Nat /\ done \in Nat /\ src \in Nat /\ dst \in Nat
    BY DEF GuardedInv, GuardedTyped
<1>4. GuardedTyped' /\ Placed' /\ Flow' /\ Repairing'
    BY <1>1 DEF GuardedInv, GuardedTyped, Placed, Flow, Repairing, arguments
<1>5. At' = At /\ (WritesDst' <=> WritesDst) /\ (Backward' <=> Backward)
    BY <1>1, SameChunk DEF arguments
<1>6. StopsOnlyAtAFault'
    BY <1>1, <1>2, <1>5 DEF StopsOnlyAtAFault, arguments, PageOf, WritesDst
<1>7. Copying'
    BY <1>1, <1>5 DEF GuardedInv, Copying, CopiesLikeMemmove, arguments
<1>8. op # "strlen"
    BY <1>2 DEF UsesDst
<1>9. StringCopying'
    BY <1>1 DEF StringCopying, Compares
<1>10. \A m, n : (Written(m, n)' <=> Written(m, n)) /\ (RunsTo(n)' <=> RunsTo(n)) /\ (IsLength(n)' <=> IsLength(n))
    BY <1>1 DEF Written, RunsTo, IsLength, Unmapped, arguments, PageOf
<1>11. Padding'
    BY <1>1, <1>10 DEF GuardedInv, Padding, arguments
<1>12. ASSUME op \in Compares PROVE Comparing'
    <2>1. At = done /\ ~WritesDst
        BY <1>12 DEF At, Backward, WritesDst, Compares
    <2>2. Unmapped(dst + done)
        BY <1>2, <2>1 DEF Unmapped
    <2>3. mem = orig /\ IsDifference(done) /\ src # dst
        BY <1>1, <1>3, <1>12, <2>2 DEF GuardedInv, Comparing, IsDifference, Flow
    <2>4. IsDifference(done)' /\ mem' = orig' /\ src' # dst' /\ Unmapped(dst + done)'
        BY <1>1, <2>2, <2>3 DEF IsDifference, EqualTo, Unmapped, arguments, PageOf
    <2>5. done \in 0 .. size' /\ done # size'
        BY <1>1, <1>3 DEF arguments
    <2> QED
        BY <1>1, <1>12, <2>4, <2>5 DEF Comparing, arguments
<1>13. Comparing'
    BY <1>1, <1>12 DEF Comparing
<1> QED
    BY <1>1, <1>4, <1>6, <1>7, <1>8, <1>9, <1>11, <1>13 DEF GuardedInv, Measuring

-----------------------------------------------------------------------------
(* Steps that move or look at data. *)

LEMMA DirectKeeps ==
    ASSUME AccessAssumption, GuardedInv, Direct
    PROVE  GuardedInv'
<1>1. /\ phase \in {"start", "again"} /\ (WholeRange \/ (dst = src /\ op \in Compares \cup {"copy"}))
      /\ done' = size /\ UNCHANGED <<page, arguments, op, found_null, rearmed>>
      /\ done = 0 /\ mem = orig /\ ~found_null /\ op # "pad" /\ result = "none"
    BY DEF Direct, GuardedInv, Flow
<1>2. op \in Transfers \cup {"set"} \cup Compares
    BY <1>1 DEF WholeRange, Compares, Transfers
<1>3. size \in Nat \ {0} /\ src \in Nat /\ dst \in Nat
    BY DEF GuardedInv, GuardedTyped
<1>4. phase' = "end" /\ result' \in {"ok", "equal", "less", "greater"}
    BY DEF Direct, Return, Order
<1>5. GuardedTyped' /\ Placed' /\ Flow' /\ Repairing' /\ StopsOnlyAtAFault'
    BY <1>1, <1>2, <1>3, <1>4 DEF GuardedInv, GuardedTyped, Placed, Flow, Repairing, StopsOnlyAtAFault, arguments, Transfers, Compares
<1>6. ASSUME op \in Transfers PROVE CopiesLikeMemmove'
    <2>1. mem' = [x \in Memory |-> IF \E i \in 0 .. size - 1 : x = dst + i THEN mem[src + (x - dst)] ELSE mem[x]]
        BY <1>6 DEF Direct, Put, SourceByte, Transfers, Compares
    <2>2. Memory \subseteq Int
        BY DEF Memory
    <2>3. \A x \in Memory : mem'[x] = IF x - dst \in 0 .. size - 1 THEN orig[src + (x - dst)] ELSE orig[x]
        <3> TAKE x \in Memory
        <3>1. x \in Int /\ ((\E i \in 0 .. size - 1 : x = dst + i) <=> x - dst \in 0 .. size - 1)
            BY <1>3, <2>2
        <3> QED
            BY <1>1, <2>1, <3>1
    <2>4. (IF Backward THEN size - done .. size - 1 ELSE 0 .. done - 1)' = 0 .. size - 1
        BY <1>1, <1>3 DEF arguments
    <2> QED
        BY <1>1, <1>6, <2>3, <2>4 DEF CopiesLikeMemmove, arguments
<1>7. ASSUME op \in Compares PROVE Comparing'
    <2>1. PICK S : S = { i \in 0 .. size - 1 : dst # src /\ Decisive(i) }
        OBVIOUS
    <2>2. result' = (IF S = {} THEN "equal" ELSE Order(Min(S))) /\ mem' = mem
        BY <1>7, <2>1 DEF Direct, Return
    <2>3. CASE src = dst
        BY <1>1, <1>4, <2>1, <2>2, <2>3 DEF Comparing, arguments
    <2>4. CASE src # dst
        <3>1. op = "memcmp" /\ \A i \in 0 .. size - 1 : Readable(src + i) /\ Readable(dst + i)
            BY <1>1, <1>7, <2>4 DEF WholeRange, Compares, Transfers, UsesSrc, UsesDst, Usable, WritesDst
        <3>2. \A i \in 0 .. size - 1 : ~Unmapped(src + i) /\ ~Unmapped(dst + i)
            <4> TAKE i \in 0 .. size - 1
            <4>1. src + i < Host /\ dst + i < Host /\ src + i \in Nat /\ dst + i \in Nat
                BY <1>3, <1>7, HostFacts DEF GuardedInv, Placed
            <4> QED
                BY <3>1, <4>1, HostFacts DEF Readable, Unmapped
        <3>3. PICK n \in 0 .. size : n = IF S = {} THEN size ELSE Min(S)
            <4>1. S # {} => Min(S) \in S
                BY <1>3, <2>1, LeastExists
            <4>2. S \subseteq 0 .. size - 1
                BY <2>1
            <4>3. S # {} => Min(S) \in 0 .. size
                <5> SUFFICES ASSUME S # {} PROVE Min(S) \in 0 .. size
                    OBVIOUS
                <5>1. PICK m \in 0 .. size - 1 : m = Min(S)
                    BY <4>1, <4>2
                <5> QED
                    BY <1>3, <5>1
            <4> QED
                BY <1>3, <4>3
        <3>4. /\ \A i \in 0 .. n - 1 : mem[dst + i] = mem[src + i]
              /\ n < size => mem[dst + n] # mem[src + n]
              /\ S = {} <=> n = size
            <4>1. CASE S = {}
                BY <1>3, <2>1, <2>4, <3>1, <3>3, <4>1 DEF Decisive
            <4>2. CASE S # {}
                <5>1. Min(S) \in S /\ \A y \in S : Min(S) <= y
                    BY <1>3, <2>1, <4>2, LeastExists
                <5> QED
                    BY <1>3, <2>1, <2>4, <3>1, <3>3, <4>2, <5>1 DEF Decisive
            <4> QED
                BY <4>1, <4>2
        <3>5. IsDifference(n)'
            BY <1>1, <1>3, <2>2, <3>1, <3>2, <3>4 DEF IsDifference, EqualTo, Unmapped, arguments, PageOf
        <3>6. n < size => ~Unmapped(dst + n)' /\ ~Unmapped(src + n)' /\ Order(n)' = Order(n)
            BY <1>1, <1>3, <2>2, <3>2 DEF Unmapped, arguments, PageOf, Order
        <3>7. result' = IF n = size' THEN "equal" ELSE Order(n)
            BY <1>1, <2>2, <3>3, <3>4 DEF arguments
        <3> QED
            BY <1>1, <1>3, <1>4, <2>2, <2>4, <3>5, <3>6, <3>7 DEF Comparing, arguments
    <2> QED
        BY <2>3, <2>4
<1>8. Copying' /\ Comparing'
    BY <1>1, <1>6, <1>7 DEF Copying, Comparing
<1> QED
    BY <1>1, <1>2, <1>5, <1>8 DEF GuardedInv, Measuring, StringCopying, Padding, Transfers, Compares

\* What has been covered is one longer stretch.
LEMMA AdvanceFacts ==
    ASSUME AccessAssumption, GuardedInv, Ready
    PROVE  /\ phase \in {"test", "retest"} /\ result = "none" /\ done < size
           /\ size \in Nat \ {0} /\ src \in Nat /\ dst \in Nat /\ done \in Nat
           /\ Chunk \in 1 .. size - done
           /\ At = IF Backward THEN size - done - Chunk ELSE done
           /\ Covered = At .. At + Chunk - 1
           /\ UsesSrc /\ ~found_null /\ src + size <= Host => \A i \in Covered : ~Unmapped(src + i)
           /\ UsesDst /\ dst + size <= Host => \A i \in Covered : ~Unmapped(dst + i)
           /\ op # "copy" => ~Backward
<1>1. phase \in {"test", "retest"} /\ result = "none" /\ done < size
    BY DEF Ready, GuardedInv, Flow
<1>2. GuardedTyped
    BY DEF GuardedInv
<1>3. size \in Nat \ {0} /\ src \in Nat /\ dst \in Nat /\ done \in Nat
    BY DEF GuardedInv, GuardedTyped
<1>4. \A i \in Covered : i \in Nat /\ i < size
    BY <1>1, <1>2, CoveredFacts
<1>5. UsesSrc /\ ~found_null /\ src + size <= Host => \A i \in Covered : ~Unmapped(src + i)
    BY <1>3, <1>4, HostFacts DEF Ready, CanRead, Readable, Unmapped
<1>6. UsesDst /\ dst + size <= Host => \A i \in Covered : ~Unmapped(dst + i)
    BY <1>3, <1>4, HostFacts DEF Ready, CanUse, Usable, Writable, Readable, Unmapped
<1> QED
    BY <1>1, <1>2, <1>3, <1>5, <1>6, ChunkFacts, CoveredFacts DEF Backward

\* What advances by a chunk is typed and placed.
LEMMA ChunkStep ==
    ASSUME AccessAssumption, GuardedInv, Ready,
           UNCHANGED <<page, arguments, op, rearmed>>, found_null' \in BOOLEAN,
           found_null' => op = "strncpy", done' \in 0 .. size,
           \/ phase' = "end" /\ result' \in {"ok", "equal", "less", "greater"}
              /\ (result' = "ok" /\ op \in {"strncpy", "pad"} => done' = size)
           \/ phase' = "test" /\ result' = "none" /\ done' < size
    PROVE  GuardedTyped' /\ Placed' /\ Flow' /\ Repairing' /\ StopsOnlyAtAFault'
<1>1. phase \in {"test", "retest"}
    BY DEF Ready
<1>2. GuardedTyped'
    BY DEF GuardedInv, GuardedTyped, arguments
<1>3. Placed' /\ Repairing' /\ StopsOnlyAtAFault'
    BY DEF GuardedInv, Placed, Repairing, StopsOnlyAtAFault, arguments
<1>4. Flow'
    BY <1>1 DEF GuardedInv, Flow, arguments
<1> QED
    BY <1>2, <1>3, <1>4

LEMMA AdvanceStep ==
    ASSUME AccessAssumption, GuardedInv, Ready, Advance
    PROVE  /\ done' = done + Chunk /\ done' \in 0 .. size
           /\ \/ phase' = "end" /\ result' = "ok" /\ done' = size
              \/ phase' = "test" /\ result' = "none" /\ done' < size
    BY AdvanceFacts DEF Advance, Return

\* The bytes n .. l - 1 become the source's up to k and zeros behind it.
Extends(n, k, l) ==
    \A x \in Memory : mem'[x] = IF x - dst \in n .. l - 1
                               THEN (IF x - dst < k THEN orig[src + (x - dst)] ELSE 0) ELSE mem[x]
NowWritten(k, l) ==
    \A x \in Memory : mem'[x] = IF x \in dst .. dst + k - 1 THEN orig[src + (x - dst)]
                               ELSE IF x \in dst + k .. dst + l - 1 THEN 0 ELSE orig[x]

\* What follows a written stretch extends it.
LEMMA WrittenMore ==
    ASSUME NEW m \in Nat, NEW n \in Nat, NEW k \in Nat, NEW l \in Nat,
           m <= n, n <= l, m <= k, k <= l, m < n => k = m, dst \in Nat, Written(m, n), Extends(n, k, l)
    PROVE  NowWritten(k, l)
<1> SUFFICES \A x \in Memory : mem'[x] = IF x \in dst .. dst + k - 1 THEN orig[src + (x - dst)]
                                        ELSE IF x \in dst + k .. dst + l - 1 THEN 0 ELSE orig[x]
    BY DEF NowWritten
<1> TAKE x \in Memory
<1>1. PICK d \in Nat : d = dst
    OBVIOUS
<1>2. x \in Int
    BY DEF Memory
<1>3. mem[x] = IF x \in d .. d + m - 1 THEN orig[src + (x - dst)]
               ELSE IF x \in d + m .. d + n - 1 THEN 0 ELSE orig[x]
    BY <1>1 DEF Written
<1>4. mem'[x] = IF x - d \in n .. l - 1
                THEN (IF x - d < k THEN orig[src + (x - dst)] ELSE 0) ELSE mem[x]
    BY <1>1 DEF Extends
<1>5. PICK a, b : a = orig[src + (x - dst)] /\ b = orig[x]
    OBVIOUS
<1>6. mem[x] = IF x \in d .. d + m - 1 THEN a ELSE IF x \in d + m .. d + n - 1 THEN 0 ELSE b
    BY <1>3, <1>5
<1>7. mem'[x] = IF x - d \in n .. l - 1 THEN (IF x - d < k THEN a ELSE 0) ELSE mem[x]
    BY <1>4, <1>5
<1>8. mem'[x] = IF x \in d .. d + k - 1 THEN a ELSE IF x \in d + k .. d + l - 1 THEN 0 ELSE b
    BY <1>2, <1>6, <1>7
<1> QED
    BY <1>1, <1>5, <1>8

\* What a string is copied to is apart from it.
LEMMA SourceIsIntact ==
    ASSUME AccessAssumption, GuardedInv, op \in {"strcpy", "strncpy"}, NEW m \in Nat, NEW n \in Nat,
           m <= n, n <= size, Written(m, n), NEW i \in 0 .. size - 1
    PROVE  mem[src + i] = orig[src + i]
<1>1. src \in Nat /\ dst \in Nat /\ size \in Nat /\ src + size <= Host
      /\ (src + size <= dst \/ dst + size <= src)
    BY DEF GuardedInv, GuardedTyped, Placed, Texts
<1>2. src + i \in Memory
    BY <1>1, HostFacts
<1>3. src + i \notin dst .. dst + m - 1 /\ src + i \notin dst + m .. dst + n - 1
    BY <1>1
<1> QED
    BY <1>2, <1>3 DEF Written

LEMMA MoveChunkKeeps ==
    ASSUME AccessAssumption, GuardedInv, MoveChunk
    PROVE  GuardedInv'
<1>1. Ready /\ Advance /\ UNCHANGED <<page, arguments, op, found_null, rearmed>>
      /\ op \in Transfers \cup {"set", "pad"}
    BY DEF MoveChunk
<1>2. done' = done + Chunk /\ done' \in 0 .. size
      /\ \/ phase' = "end" /\ result' = "ok" /\ done' = size
         \/ phase' = "test" /\ result' = "none" /\ done' < size
    BY <1>1, AdvanceStep
<1>3. GuardedTyped' /\ Placed' /\ Flow' /\ Repairing' /\ StopsOnlyAtAFault'
    <2>1. found_null' \in BOOLEAN /\ (found_null' => op = "strncpy")
        BY <1>1 DEF GuardedInv, GuardedTyped, Flow
    <2> QED
        BY <1>1, <1>2, <2>1, ChunkStep
<1>4. /\ size \in Nat \ {0} /\ src \in Nat /\ dst \in Nat /\ done \in Nat
      /\ Chunk \in 1 .. size - done
      /\ At = IF Backward THEN size - done - Chunk ELSE done
      /\ Covered = At .. At + Chunk - 1 /\ (op # "copy" => ~Backward)
    BY <1>1, AdvanceFacts
<1>5. Memory \subseteq Int
    BY DEF Memory
<1>6. \A x \in Memory : (\E i \in Covered : x = dst + i) <=> x - dst \in Covered
    <2> TAKE x \in Memory
    <2>1. x \in Int /\ At \in Int
        BY <1>4, <1>5
    <2> QED
        BY <1>4, <2>1
<1>7. ASSUME op \in Transfers PROVE CopiesLikeMemmove'
    <2>1. mem' = [x \in Memory |-> IF \E i \in Covered : x = dst + i THEN mem[src + (x - dst)] ELSE mem[x]]
        BY <1>7 DEF MoveChunk, Put, SourceByte
    <2>2. PICK M : M = IF Backward THEN size - done .. size - 1 ELSE 0 .. done - 1
        OBVIOUS
    <2>3. PICK N : N = IF Backward THEN size - done' .. size - 1 ELSE 0 .. done' - 1
        OBVIOUS
    <2>4. \A x \in Memory : mem[x] = IF x - dst \in M THEN orig[src + (x - dst)] ELSE orig[x]
        BY <1>7, <2>2 DEF GuardedInv, Copying, CopiesLikeMemmove
    <2>5. N = M \cup Covered
        BY <1>2, <1>4, <2>2, <2>3
    <2>6. \A j \in Covered : mem[src + j] = orig[src + j]
        <3> TAKE j \in Covered
        <3>1. j \in 0 .. size - 1
            BY <1>4
        <3>2. src + j \in Memory
            <4>1. CASE src + size <= Host
                BY <1>4, <3>1, <4>1, HostFacts
            <4>2. CASE src = Host
                BY <1>7, <3>1, <4>2, HostFacts DEF GuardedInv, Placed
            <4> QED
                BY <1>7, <4>1, <4>2 DEF GuardedInv, Placed, Transfers
        <3>3. (src + j) - dst \notin M
            <4>1. CASE op = "copy"
                BY <1>4, <2>2, <3>1, <4>1 DEF Backward
            <4>2. CASE op = "read"
                <5>1. src + size <= Host /\ dst = Host /\ ~Backward
                    BY <4>2, <1>4 DEF GuardedInv, Placed
                <5> QED
                    BY <1>4, <2>2, <3>1, <5>1
            <4>3. CASE op = "write"
                <5>1. dst + size <= Host /\ src = Host /\ ~Backward
                    BY <4>3, <1>4 DEF GuardedInv, Placed
                <5>2. M = 0 .. done - 1 /\ done < size
                    BY <1>4, <2>2, <5>1
                <5> QED
                    BY <1>4, <3>1, <5>1, <5>2
            <4> QED
                BY <1>7, <4>1, <4>2, <4>3 DEF Transfers
        <3> QED
            BY <2>4, <3>2, <3>3
    <2>7. \A x \in Memory : mem'[x] = IF x - dst \in N THEN orig[src + (x - dst)] ELSE orig[x]
        BY <1>6, <2>1, <2>4, <2>5, <2>6
    <2>8. (IF Backward THEN size - done .. size - 1 ELSE 0 .. done - 1)' = N
        BY <1>1, <2>3 DEF Backward, arguments
    <2> QED
        BY <1>1, <2>7, <2>8 DEF CopiesLikeMemmove, arguments
<1>8. ASSUME op = "pad" PROVE Padding'
    <2>1. mem' = [x \in Memory |-> IF \E i \in Covered : x = dst + i THEN 0 ELSE mem[x]]
        BY <1>8 DEF MoveChunk, Put, Filler, Transfers
    <2>2. PICK n \in 0 .. done : n < size /\ IsLength(n) /\ Written(n, done)
        BY <1>8 DEF GuardedInv, Padding
    <2>3. IsLength(n)'
        BY <1>1, <2>2 DEF IsLength, RunsTo, Unmapped, arguments, PageOf
    <2>4. Covered = done .. done' - 1
        BY <1>2, <1>4, <1>8
    <2>5. Written(n, done)'
        <3>1. PICK l \in Nat : l = done'
            BY <1>2
        <3>2. n \in Nat /\ done \in Nat /\ dst \in Nat /\ n <= done /\ done <= l /\ n <= l /\ n <= n
            BY <1>2, <1>4, <2>2, <3>1
        <3>3. Extends(done, n, l)
            <4>1. \A x \in Memory : mem'[x] = IF x - dst \in done .. l - 1 THEN 0 ELSE mem[x]
                BY <1>6, <2>1, <2>4, <3>1
            <4>2. \A x \in Memory : x - dst \in done .. l - 1 => ~ (x - dst < n)
                BY <1>5, <3>2
            <4> QED
                BY <4>1, <4>2 DEF Extends
        <3>4. NowWritten(n, l)
            BY Zenon, <2>2, <3>2, <3>3, WrittenMore
        <3> QED
            BY <1>1, <3>1, <3>4 DEF Written, NowWritten, arguments
    <2>6. n \in 0 .. done' /\ n < size'
        BY <1>1, <1>2, <1>4, <2>2 DEF arguments
    <2> QED
        BY <1>1, <1>8, <2>3, <2>5, <2>6 DEF Padding
<1>9. Copying'
    BY <1>1, <1>7 DEF Copying
<1>10. Padding'
    BY <1>1, <1>8 DEF Padding, Transfers
<1> QED
    BY <1>1, <1>3, <1>9, <1>10 DEF GuardedInv, Measuring, StringCopying, Comparing, Transfers, Compares

LEMMA StrlenChunkKeeps ==
    ASSUME AccessAssumption, GuardedInv, StrlenChunk
    PROVE  GuardedInv'
<1>1. Ready /\ op = "strlen" /\ UNCHANGED <<page, mem, arguments, op, found_null, rearmed>>
      /\ ~found_null /\ mem = orig /\ RunsTo(done)
    BY AdvanceFacts DEF StrlenChunk, GuardedInv, Flow, Measuring, Ready
<1>2. /\ size \in Nat \ {0} /\ src \in Nat /\ done \in Nat /\ done < size
      /\ Chunk \in 1 .. size - done
      /\ Covered = done .. done + Chunk - 1
      /\ \A i \in Covered : ~Unmapped(src + i)
    BY <1>1, AdvanceFacts DEF UsesSrc, GuardedInv, Placed, Texts
<1>3. PICK S : S = Nuls(Covered)
    OBVIOUS
<1>4. \A i \in Covered : i \in S <=> orig[src + i] = 0
    BY <1>1, <1>3 DEF Nuls
<1>5. /\ done' \in 0 .. size
      /\ \/ phase' = "end" /\ result' = "ok" /\ IsLength(done')
         \/ phase' = "test" /\ result' = "none" /\ done' < size /\ RunsTo(done')
    <2>1. CASE S # {}
        <3>1. S \subseteq Covered /\ S \in SUBSET Nat
            BY <1>2, <1>3 DEF Nuls
        <3>2. PICK n \in S : n = Min(S) /\ \A y \in S : n <= y
            BY <2>1, <3>1, LeastExists
        <3>3. done' = n /\ phase' = "end" /\ result' = "ok"
            BY <1>3, <2>1, <3>2 DEF StrlenChunk, Return
        <3>4. n \in Covered /\ \A i \in Covered : i < n => i \notin S
            BY <1>2, <3>1, <3>2
        <3>5. RunsTo(n)
            BY <1>1, <1>2, <1>4, <3>4 DEF RunsTo
        <3> QED
            BY <1>2, <1>4, <3>2, <3>3, <3>4, <3>5 DEF IsLength
    <2>2. CASE S = {}
        <3>1. Advance
            BY <1>3, <2>2 DEF StrlenChunk
        <3>2. RunsTo(done + Chunk)
            BY <1>1, <1>2, <1>4, <2>2 DEF RunsTo
        <3> QED
            BY <1>1, <1>2, <3>1, <3>2, AdvanceStep DEF IsLength
    <2> QED
        BY <2>1, <2>2
<1>6. GuardedTyped' /\ Placed' /\ Flow' /\ Repairing' /\ StopsOnlyAtAFault'
    <2>1. found_null' \in BOOLEAN /\ (found_null' => op = "strncpy")
        BY <1>1 DEF GuardedInv, GuardedTyped, Flow
    <2> QED
        BY <1>1, <1>5, <2>1, ChunkStep
<1>8. (IsLength(done') => IsLength(done)') /\ (RunsTo(done') => RunsTo(done)')
    BY <1>1 DEF RunsTo, IsLength, Unmapped, arguments, PageOf
<1>9. Measuring'
    BY <1>1, <1>5, <1>8 DEF Measuring, arguments
<1> QED
    BY <1>1, <1>6, <1>9 DEF GuardedInv, Copying, StringCopying, Padding, Comparing, Transfers, Compares

LEMMA StrcpyChunkKeeps ==
    ASSUME AccessAssumption, GuardedInv, StrcpyChunk
    PROVE  GuardedInv'
<1>1. Ready /\ op = "strcpy" /\ UNCHANGED <<page, arguments, op, found_null, rearmed>>
      /\ ~found_null /\ RunsTo(done) /\ Written(done, done)
    BY AdvanceFacts DEF StrcpyChunk, GuardedInv, Flow, StringCopying, Ready
<1>2. /\ size \in Nat \ {0} /\ src \in Nat /\ dst \in Nat /\ done \in Nat /\ done < size
      /\ Chunk \in 1 .. size - done /\ At = done
      /\ Covered = done .. done + Chunk - 1
      /\ \A i \in Covered : ~Unmapped(src + i)
    BY <1>1, AdvanceFacts DEF UsesSrc, GuardedInv, Placed, Texts
<1>3. PICK S : S = Nuls(Covered)
    OBVIOUS
<1>4. \A i \in 0 .. size - 1 : mem[src + i] = orig[src + i]
    BY <1>1, <1>2, SourceIsIntact
<1>5. \A i \in Covered : i \in 0 .. size - 1 /\ (i \in S <=> orig[src + i] = 0)
    BY <1>2, <1>3, <1>4 DEF Nuls
<1>6. Memory \subseteq Int
    BY DEF Memory
<1>7. ASSUME NEW l \in Nat, done <= l, l <= size, Put(done .. l - 1, SourceByte)
      PROVE  NowWritten(l, l)
    <2>1. \A x \in Memory : mem'[x] = IF x - dst \in done .. l - 1 THEN orig[src + (x - dst)] ELSE mem[x]
        <3> TAKE x \in Memory
        <3>1. (\E i \in done .. l - 1 : x = dst + i) <=> x - dst \in done .. l - 1
            BY <1>2, <1>6, <1>7
        <3>2. x - dst \in done .. l - 1 => x - dst \in 0 .. size - 1
            BY <1>2, <1>7
        <3>3. mem'[x] = IF \E i \in done .. l - 1 : x = dst + i THEN mem[src + (x - dst)] ELSE mem[x]
            BY <1>7 DEF Put, SourceByte
        <3> QED
            BY <1>4, <3>1, <3>2, <3>3
    <2>2. \A x \in Memory : x - dst \in done .. l - 1 => x - dst < l
        BY <1>2, <1>6, <1>7
    <2>3. Extends(done, l, l)
        BY <2>1, <2>2 DEF Extends
    <2>4. done <= done /\ l <= l /\ ~ (done < done)
        BY <1>2, <1>7
    <2> QED
        BY Zenon, <1>1, <1>2, <1>7, <2>3, <2>4, WrittenMore
<1>8. \E l \in 0 .. size :
         /\ done' = l /\ NowWritten(l, l)
         /\ \/ /\ phase' = "end" /\ result' = "ok"
               /\ \E n \in 0 .. size : IsLength(n) /\ l = (IF n < size THEN n + 1 ELSE n)
            \/ phase' = "test" /\ result' = "none" /\ l < size /\ RunsTo(l)
    <2>1. CASE S # {}
        <3>1. S \subseteq Covered /\ S \in SUBSET Nat
            BY <1>2, <1>3 DEF Nuls
        <3>2. PICK n \in S : n = Min(S) /\ \A y \in S : n <= y
            BY <2>1, <3>1, LeastExists
        <3>3. done' = n + 1 /\ phase' = "end" /\ result' = "ok" /\ Put(done .. n, SourceByte)
            BY <1>2, <1>3, <2>1, <3>2 DEF StrcpyChunk, Return
        <3>4. n \in Covered /\ n \in Nat /\ n < size /\ done <= n /\ \A i \in Covered : i < n => i \notin S
            BY <1>2, <3>1, <3>2
        <3>5. RunsTo(n)
            BY <1>1, <1>2, <1>5, <3>4 DEF RunsTo
        <3>6. IsLength(n)
            BY <1>2, <1>5, <3>2, <3>4, <3>5 DEF IsLength
        <3>7. PICK l \in Nat : l = n + 1
            BY <3>4
        <3>8. l - 1 = n /\ done <= l /\ l <= size
            BY <1>2, <3>4, <3>7
        <3>9. NowWritten(l, l)
            BY <1>7, <3>3, <3>8
        <3> QED
            BY <1>2, <3>3, <3>4, <3>6, <3>7, <3>8, <3>9
    <2>2. CASE S = {}
        <3>1. Advance /\ Put(Covered, SourceByte)
            BY <1>3, <2>2 DEF StrcpyChunk
        <3>2. PICK l \in Nat : l = done + Chunk
            BY <1>2
        <3>3. l <= size /\ done <= l /\ Covered = done .. l - 1
            BY <1>2, <3>2
        <3>4. RunsTo(l)
            BY <1>1, <1>2, <1>5, <2>2, <3>3 DEF RunsTo
        <3>5. NowWritten(l, l)
            BY <1>7, <3>1, <3>3
        <3>6. done' = l /\ \/ phase' = "end" /\ result' = "ok" /\ l = size
                           \/ phase' = "test" /\ result' = "none" /\ l < size
            BY <1>1, <3>1, <3>2, AdvanceStep
        <3>7. l = size => IsLength(l)
            BY <1>2, <3>4 DEF IsLength
        <3> QED
            BY <1>2, <3>3, <3>4, <3>5, <3>6, <3>7
    <2> QED
        BY <2>1, <2>2
<1>9. PICK l \in 0 .. size :
         /\ done' = l /\ NowWritten(l, l)
         /\ \/ /\ phase' = "end" /\ result' = "ok"
               /\ \E n \in 0 .. size : IsLength(n) /\ l = (IF n < size THEN n + 1 ELSE n)
            \/ phase' = "test" /\ result' = "none" /\ l < size /\ RunsTo(l)
    BY <1>8
<1>10. GuardedTyped' /\ Placed' /\ Flow' /\ Repairing' /\ StopsOnlyAtAFault'
    <2>1. found_null' \in BOOLEAN /\ (found_null' => op = "strncpy")
        BY <1>1 DEF GuardedInv, GuardedTyped, Flow
    <2> QED
        BY <1>1, <1>9, <2>1, ChunkStep
<1>11. Written(done, done)'
    BY <1>1, <1>9 DEF Written, NowWritten, arguments
<1>12. \A n \in 0 .. size : IsLength(n) => IsLength(n)'
    BY <1>1 DEF RunsTo, IsLength, Unmapped, arguments, PageOf
<1>13. RunsTo(done') => RunsTo(done)'
    BY <1>1 DEF RunsTo, Unmapped, arguments, PageOf
<1>14. StringCopying'
    <2>1. CASE phase' = "end" /\ result' = "ok"
        <3>1. PICK n \in 0 .. size : IsLength(n) /\ l = (IF n < size THEN n + 1 ELSE n)
            BY <1>9, <2>1
        <3>2. size' = size
            BY <1>1 DEF arguments
        <3>3. n \in 0 .. size' /\ IsLength(n)' /\ done' = (IF n < size' THEN n + 1 ELSE n) /\ Written(done, done)'
            BY <1>9, <1>11, <1>12, <3>1, <3>2
        <3> QED
            BY <2>1, <3>3, Zenon DEF StringCopying
    <2>2. CASE phase' = "test" /\ result' = "none"
        BY <1>9, <1>11, <1>13, <2>2 DEF StringCopying
    <2> QED
        BY <1>9, <2>1, <2>2
<1> QED
    BY <1>1, <1>10, <1>14 DEF GuardedInv, Copying, Measuring, Padding, Comparing, Transfers, Compares

LEMMA StrncpyChunkKeeps ==
    ASSUME AccessAssumption, GuardedInv, StrncpyChunk
    PROVE  GuardedInv'
<1>1. Ready /\ op = "strncpy" /\ UNCHANGED <<page, arguments, op, rearmed>> /\ Advance
      /\ found_null' = (found_null \/ Nuls(Covered) # {})
    BY DEF StrncpyChunk
<1>2. /\ size \in Nat \ {0} /\ src \in Nat /\ dst \in Nat /\ done \in Nat /\ done < size
      /\ Chunk \in 1 .. size - done
      /\ Covered = done .. done + Chunk - 1
      /\ ~found_null => \A i \in Covered : ~Unmapped(src + i)
    BY <1>1, AdvanceFacts DEF UsesSrc, GuardedInv, Placed, Texts
<1>3. PICK S : S = Nuls(Covered)
    OBVIOUS
<1>4. PICK l \in Nat : l = done + Chunk
    BY <1>2
<1>5. l <= size /\ done <= l /\ Covered = done .. l - 1 /\ done' = l
      /\ \/ phase' = "end" /\ result' = "ok" /\ l = size
         \/ phase' = "test" /\ result' = "none" /\ l < size
    BY <1>1, <1>2, <1>4, AdvanceStep
<1>6. Memory \subseteq Int
    BY DEF Memory
<1>7. \A x \in Memory :
         mem'[x] = IF x - dst \in done .. l - 1
                   THEN (IF found_null \/ \E j \in S : j < x - dst THEN 0 ELSE mem[src + (x - dst)])
                   ELSE mem[x]
    <2> TAKE x \in Memory
    <2>1. (\E i \in Covered : x = dst + i) <=> x - dst \in done .. l - 1
        BY <1>2, <1>5, <1>6
    <2>2. mem'[x] = IF \E i \in Covered : x = dst + i
                    THEN (IF found_null \/ \E j \in S : j < x - dst THEN 0 ELSE mem[src + (x - dst)])
                    ELSE mem[x]
        BY <1>3 DEF StrncpyChunk, Put
    <2> QED
        BY <2>1, <2>2
<1>8. /\ found_null' => \E n \in 0 .. l : n < size /\ IsLength(n) /\ NowWritten(n, l)
      /\ ~found_null' => RunsTo(l) /\ NowWritten(l, l)
    <2>1. CASE found_null
        <3>1. PICK n \in 0 .. done : n < size /\ IsLength(n) /\ Written(n, done)
            BY <1>1, <2>1 DEF GuardedInv, Padding
        <3>2. n \in Nat /\ n <= done /\ n <= n /\ n <= l
            BY <1>2, <1>5, <3>1
        <3>3. Extends(done, n, l)
            <4>1. \A x \in Memory : mem'[x] = IF x - dst \in done .. l - 1 THEN 0 ELSE mem[x]
                BY <1>7, <2>1
            <4>2. \A x \in Memory : x - dst \in done .. l - 1 => ~ (x - dst < n)
                BY <1>2, <1>6, <3>2
            <4> QED
                BY <4>1, <4>2 DEF Extends
        <3>4. NowWritten(n, l)
            BY Zenon, <1>2, <1>4, <1>5, <3>1, <3>2, <3>3, WrittenMore
        <3>5. n \in 0 .. l
            BY <3>2
        <3>6. found_null'
            BY <1>1, <2>1
        <3> QED
            BY Zenon, <3>1, <3>4, <3>5, <3>6
    <2>2. CASE ~found_null
        <3>1. RunsTo(done) /\ Written(done, done)
            BY <1>1, <2>2 DEF GuardedInv, Padding
        <3>2. \A i \in 0 .. size - 1 : mem[src + i] = orig[src + i]
            BY <1>1, <1>2, <3>1, SourceIsIntact
        <3>3. \A i \in Covered : i \in 0 .. size - 1 /\ i \in Nat /\ (i \in S <=> orig[src + i] = 0)
            BY <1>2, <1>3, <3>2 DEF Nuls
        <3>4. S \subseteq Covered
            BY <1>3 DEF Nuls
        <3>5. \A x \in Memory : x - dst \in done .. l - 1 => x - dst \in Covered /\ mem[src + (x - dst)] = orig[src + (x - dst)]
            BY <1>5, <3>2, <3>3
        <3>6. done <= done /\ ~ (done < done) /\ l <= l
            BY <1>2, <1>4
        <3>7. CASE S # {}
            <4>1. S \in SUBSET Nat
                BY <3>3, <3>4
            <4>2. PICK n \in S : \A y \in S : n <= y
                BY <3>7, <4>1, LeastExists
            <4>3. n \in Covered /\ n \in Nat /\ done <= n /\ n <= l /\ n < size /\ \A i \in Covered : i < n => i \notin S
                BY <1>2, <1>5, <3>3, <3>4, <4>2
            <4>4. \A i \in Covered : (\E j \in S : j < i) <=> n < i
                BY <3>3, <3>4, <4>2, <4>3
            <4>5. Extends(done, n, l)
                <5>1. ASSUME NEW x \in Memory, x - dst \in done .. l - 1
                      PROVE  mem'[x] = IF x - dst < n THEN orig[src + (x - dst)] ELSE 0
                    <6>1. PICK i \in Covered : i = x - dst
                        BY <3>5, <5>1
                    <6>2. mem'[x] = (IF \E j \in S : j < i THEN 0 ELSE mem[src + i]) /\ mem[src + i] = orig[src + i]
                        BY <1>7, <2>2, <3>5, <5>1, <6>1
                    <6>3. mem'[x] = IF n < i THEN 0 ELSE orig[src + i]
                        BY <4>4, <6>2
                    <6>4. i = n => orig[src + i] = 0
                        BY <3>3, <4>2, <4>3
                    <6>5. i \in Nat /\ n \in Nat
                        BY <3>3, <4>3
                    <6>6. mem'[x] = IF i < n THEN orig[src + i] ELSE 0
                        BY <6>3, <6>4, <6>5
                    <6> QED
                        BY <6>1, <6>6
                <5> QED
                    BY <1>7, <5>1 DEF Extends
            <4>6. NowWritten(n, l)
                BY Zenon, <1>2, <1>4, <1>5, <3>1, <3>6, <4>3, <4>5, WrittenMore
            <4>7. RunsTo(n)
                <5>1. \A i \in 0 .. n - 1 : i \in 0 .. done - 1 \/ (i \in Covered /\ i \notin S)
                    BY <1>2, <4>3
                <5>2. ~found_null => \A i \in Covered : i \notin S => ~Unmapped(src + i) /\ orig[src + i] # 0
                    BY <1>2, <3>3
                <5> QED
                    BY <2>2, <3>1, <5>1, <5>2 DEF RunsTo
            <4>8. IsLength(n)
                BY <1>2, <3>3, <4>2, <4>3, <4>7 DEF IsLength
            <4>9. n \in 0 .. l /\ n < size
                BY <1>4, <4>3
            <4>10. found_null'
                BY <1>1, <1>3, <3>7
            <4> QED
                BY Zenon, <4>6, <4>8, <4>9, <4>10
        <3>8. CASE S = {}
            <4>1. \A x \in Memory : x - dst \in done .. l - 1 =>
                     /\ mem'[x] = orig[src + (x - dst)] /\ x - dst < l
                <5>1. \A x \in Memory : x - dst \in done .. l - 1 => x - dst < l
                    BY <1>2, <1>4, <1>6
                <5> QED
                    BY <1>7, <2>2, <3>5, <3>8, <5>1
            <4>2. Extends(done, l, l)
                BY <1>7, <4>1 DEF Extends
            <4>3. NowWritten(l, l)
                BY Zenon, <1>2, <1>4, <1>5, <3>1, <3>6, <4>2, WrittenMore
            <4>4. RunsTo(l)
                <5>1. \A i \in 0 .. l - 1 : i \in 0 .. done - 1 \/ i \in Covered
                    BY <1>2, <1>4, <1>5
                <5>2. \A i \in Covered : ~Unmapped(src + i) /\ orig[src + i] # 0
                    BY <1>2, <2>2, <3>3, <3>8
                <5> QED
                    BY <3>1, <5>1, <5>2 DEF RunsTo
            <4>5. ~found_null'
                BY <1>1, <1>3, <2>2, <3>8
            <4> QED
                BY Zenon, <4>3, <4>4, <4>5
        <3> QED
            BY <3>7, <3>8
    <2> QED
        BY <2>1, <2>2
<1>9. GuardedTyped' /\ Placed' /\ Flow' /\ Repairing' /\ StopsOnlyAtAFault'
    <2>1. found_null' \in BOOLEAN /\ done' \in 0 .. size
        BY <1>1, <1>2, <1>5 DEF GuardedInv, GuardedTyped
    <2>2. \/ phase' = "end" /\ result' \in {"ok", "equal", "less", "greater"}
             /\ (result' = "ok" /\ op \in {"strncpy", "pad"} => done' = size)
          \/ phase' = "test" /\ result' = "none" /\ done' < size
        BY <1>5
    <2> QED
        BY Zenon, <1>1, <2>1, <2>2, ChunkStep
<1>10. \A n : (NowWritten(n, l) => Written(n, done)') /\ (IsLength(n) => IsLength(n)') /\ (RunsTo(n) => RunsTo(n)')
    BY <1>1, <1>5 DEF Written, NowWritten, RunsTo, IsLength, Unmapped, arguments, PageOf
<1>11. op' = "strncpy" /\ size' = size /\ done' = l
    BY <1>1, <1>5 DEF arguments
<1>12. Padding'
    <2>1. CASE found_null'
        <3>1. PICK n \in 0 .. l : n < size /\ IsLength(n) /\ NowWritten(n, l)
            BY <1>8, <2>1
        <3>2. n \in 0 .. done' /\ n < size' /\ IsLength(n)' /\ Written(n, done)'
            BY <1>10, <1>11, <3>1
        <3> QED
            BY Zenon, <2>1, <3>2 DEF Padding
    <2>2. CASE ~found_null'
        <3>1. RunsTo(done)' /\ Written(done, done)'
            BY <1>8, <1>10, <1>11, <2>2 DEF RunsTo, Written
        <3> QED
            BY Zenon, <1>11, <2>2, <3>1 DEF Padding
    <2> QED
        BY <2>1, <2>2
<1> QED
    BY <1>1, <1>9, <1>12 DEF GuardedInv, Copying, Measuring, StringCopying, Comparing, Transfers, Compares

LEMMA CompareChunkKeeps ==
    ASSUME AccessAssumption, GuardedInv, CompareChunk
    PROVE  GuardedInv'
<1>1. Ready /\ op \in Compares /\ UNCHANGED <<page, mem, arguments, op, found_null, rearmed>>
      /\ ~found_null /\ mem = orig /\ EqualTo(done) /\ src # dst
    BY DEF CompareChunk, GuardedInv, Flow, Comparing, Ready, Compares
<1>2. /\ size \in Nat \ {0} /\ src \in Nat /\ dst \in Nat /\ done \in Nat /\ done < size
      /\ Chunk \in 1 .. size - done
      /\ Covered = done .. done + Chunk - 1
      /\ \A i \in Covered : ~Unmapped(src + i) /\ ~Unmapped(dst + i)
    BY <1>1, AdvanceFacts DEF UsesSrc, UsesDst, GuardedInv, Placed, Compares
<1>3. PICK S : S = { i \in Covered : Decisive(i) }
    OBVIOUS
<1>4. \A i \in Covered : /\ i \in 0 .. size - 1 /\ i \in Nat
                         /\ i \in S <=> orig[dst + i] # orig[src + i] \/ (op # "memcmp" /\ orig[src + i] = 0)
    BY <1>1, <1>2, <1>3 DEF Decisive
<1>5. \/ /\ phase' = "end" /\ done' \in 0 .. size
         /\ \E n \in 0 .. size : IsDifference(n) /\
               result' = IF n = size THEN "equal" ELSE IF Unmapped(dst + n) THEN "less"
                         ELSE IF Unmapped(src + n) THEN "greater" ELSE Order(n)
      \/ phase' = "test" /\ result' = "none" /\ done' \in 0 .. size /\ done' < size /\ EqualTo(done')
    <2>1. CASE S # {}
        <3>1. S \subseteq Covered /\ S \in SUBSET Nat
            BY <1>2, <1>3
        <3>2. PICK n \in S : n = Min(S) /\ \A y \in S : n <= y
            BY <2>1, <3>1, LeastExists
        <3>3. done' = done /\ phase' = "end" /\ result' = Order(n)
            BY <1>3, <2>1, <3>2 DEF CompareChunk, Return
        <3>4. n \in Covered /\ n \in 0 .. size /\ n # size /\ \A i \in Covered : i < n => i \notin S
            BY <1>2, <3>1, <3>2
        <3>5. EqualTo(n)
            <4>1. \A i \in 0 .. n - 1 : i \in 0 .. done - 1 \/ (i \in Covered /\ i \notin S)
                BY <1>2, <3>4
            <4> QED
                BY <1>1, <1>2, <1>4, <4>1 DEF EqualTo
        <3>6. IsDifference(n)
            BY <1>2, <1>4, <3>2, <3>4, <3>5 DEF IsDifference
        <3> QED
            BY <1>2, <3>3, <3>4, <3>6
    <2>2. CASE S = {}
        <3>1. done' = done + Chunk
              /\ IF done' = size THEN Return("equal") ELSE phase' = "test" /\ UNCHANGED result
            BY <1>3, <2>2 DEF CompareChunk
        <3>2. PICK l \in Nat : l = done + Chunk
            BY <1>2
        <3>3. l <= size /\ EqualTo(l)
            <4>1. l <= size /\ \A i \in 0 .. l - 1 : i \in 0 .. done - 1 \/ i \in Covered
                BY <1>2, <3>2
            <4> QED
                BY <1>1, <1>2, <1>4, <2>2, <4>1 DEF EqualTo
        <3>4. result = "none"
            BY <1>1, AdvanceFacts
        <3>5. CASE l = size
            <4>1. phase' = "end" /\ result' = "equal" /\ done' = l
                BY <3>1, <3>2, <3>5 DEF Return
            <4>2. IsDifference(l)
                BY <1>2, <3>3, <3>5 DEF IsDifference
            <4> QED
                BY <1>2, <3>5, <4>1, <4>2
        <3>6. CASE l # size
            <4>1. phase' = "test" /\ result' = "none" /\ done' = l
                BY <3>1, <3>2, <3>4, <3>6
            <4> QED
                BY <1>2, <3>2, <3>3, <3>6, <4>1
        <3> QED
            BY <3>5, <3>6
    <2> QED
        BY <2>1, <2>2
<1>6. /\ done' \in 0 .. size
      /\ \/ phase' = "end" /\ result' \in {"ok", "equal", "less", "greater"}
            /\ (result' = "ok" /\ op \in {"strncpy", "pad"} => done' = size)
         \/ phase' = "test" /\ result' = "none" /\ done' < size
    BY <1>1, <1>5 DEF Order, Compares
<1>7. GuardedTyped' /\ Placed' /\ Flow' /\ Repairing' /\ StopsOnlyAtAFault'
    <2>1. found_null' \in BOOLEAN /\ (found_null' => op = "strncpy")
        BY <1>1 DEF GuardedInv, GuardedTyped, Flow
    <2> QED
        BY Zenon, <1>1, <1>6, <2>1, ChunkStep
<1>8. \A n : /\ (EqualTo(n) => EqualTo(n)') /\ (IsDifference(n) => IsDifference(n)') /\ Order(n)' = Order(n)
             /\ Unmapped(dst + n)' = Unmapped(dst + n) /\ Unmapped(src + n)' = Unmapped(src + n)
    BY <1>1 DEF EqualTo, IsDifference, Order, Unmapped, arguments, PageOf
<1>9. mem' = orig' /\ src' # dst' /\ size' = size /\ op' = op
    BY <1>1 DEF arguments
<1>10. Comparing'
    <2>1. CASE phase' = "end"
        <3>1. PICK n \in 0 .. size : IsDifference(n) /\
                 result' = IF n = size THEN "equal" ELSE IF Unmapped(dst + n) THEN "less"
                           ELSE IF Unmapped(src + n) THEN "greater" ELSE Order(n)
            BY <1>5, <2>1
        <3>2. n \in 0 .. size' /\ IsDifference(n)'
              /\ result' = IF n = size' THEN "equal" ELSE IF Unmapped(dst + n)' THEN "less"
                           ELSE IF Unmapped(src + n)' THEN "greater" ELSE Order(n)'
            BY <1>8, <1>9, <3>1
        <3> QED
            BY Zenon, <1>9, <2>1, <3>2 DEF Comparing
    <2>2. CASE phase' = "test"
        <3>1. EqualTo(done)'
            BY <1>5, <1>8, <2>2 DEF EqualTo
        <3> QED
            BY <1>9, <2>2, <3>1 DEF Comparing
    <2> QED
        BY <1>5, <2>1, <2>2
<1> QED
    BY <1>1, <1>7, <1>10 DEF GuardedInv, Copying, Measuring, StringCopying, Padding, Transfers, Compares

-----------------------------------------------------------------------------
LEMMA InitGuarded ==
    ASSUME AccessAssumption, Init
    PROVE  GuardedInv
<1>1. /\ orig = mem /\ done = 0 /\ phase = "start"
      /\ found_null = FALSE /\ result = "none" /\ rearmed = FALSE
    BY DEF Init
<1>2. PICK H \in Nat \ {0} : H = Host
    BY HostFacts
<1>3. Guest = 0 .. H - 1
    BY <1>2 DEF Guest
<1>4. /\ op \in AccessOps /\ op # "pad" /\ size \in Nat \ {0} /\ src \in Nat /\ dst \in Nat
      /\ page \in [Pages -> PageStates]
    <2>1. CASE InitTransfer
        <3>1. op \in AccessOps /\ op # "pad"
            BY <2>1 DEF InitTransfer, AccessOps, Transfers
        <3>2. size \in Nat \ {0} /\ src \in Nat /\ dst \in Nat
            BY <1>2, <1>3, <2>1 DEF InitTransfer, AccessAssumption
        <3> QED
            BY <2>1, <3>1, <3>2 DEF InitTransfer, PageStates
    <2>2. CASE InitString
        <3>1. op \in AccessOps /\ op # "pad"
            BY <2>2 DEF InitString, AccessOps, Texts, Compares
        <3>2. src \in Nat
            BY <1>2, <1>3, <2>2 DEF InitString
        <3>3. size \in Nat \ {0} /\ dst \in Nat
            BY <1>2, <1>3, <2>2, <3>2 DEF InitString, AccessAssumption
        <3> QED
            BY <2>2, <3>1, <3>2, <3>3 DEF InitString, PageStates
    <2> QED
        BY <2>1, <2>2 DEF Init
<1>5. GuardedTyped
    <2>1. 0 \in 0 .. size
        BY <1>4
    <2>2. found_null \in BOOLEAN /\ rearmed \in BOOLEAN /\ done \in 0 .. size
        BY <1>1, <2>1
    <2> QED
        BY <1>1, <1>4, <2>2 DEF GuardedTyped
<1>6. Placed
    <2>1. CASE InitTransfer
        <3>1. op \in Transfers \cup {"set"} /\ size \in Sizes
              /\ src \in (IF op \in {"write", "set"} THEN {Host} ELSE Guest)
              /\ dst \in (IF op = "read" THEN {Host} ELSE Guest)
              /\ (src + size <= Host \/ src = Host) /\ (dst + size <= Host \/ dst = Host)
            BY <2>1 DEF InitTransfer
        <3>2. Host \notin Guest
            BY <1>2, <1>3
        <3> QED
            BY <3>1, <3>2 DEF Placed, Transfers, Texts, Compares
    <2>2. CASE InitString
        BY <2>2 DEF InitString, Placed, Transfers, Texts, Compares
    <2> QED
        BY <2>1, <2>2 DEF Init
<1>7. Flow /\ Repairing /\ StopsOnlyAtAFault
    BY <1>1, <1>4 DEF Flow, Repairing, StopsOnlyAtAFault
<1>8. Copying
    <2>1. (IF Backward THEN size - done .. size - 1 ELSE 0 .. done - 1) = {}
        BY <1>1, <1>4
    <2> QED
        BY <1>1, <2>1 DEF Copying, CopiesLikeMemmove
<1>9. RunsTo(0) /\ EqualTo(0) /\ Written(0, 0)
    <2>1. 0 .. 0 - 1 = {} /\ dst .. dst + 0 - 1 = {} /\ dst + 0 .. dst + 0 - 1 = {}
        BY <1>4
    <2> QED
        BY <1>1, <2>1 DEF RunsTo, EqualTo, Written
<1> QED
    BY <1>1, <1>4, <1>5, <1>6, <1>7, <1>8, <1>9 DEF GuardedInv, Measuring, StringCopying, Padding, Comparing

LEMMA NextGuarded ==
    ASSUME AccessAssumption, GuardedInv, Next \/ UNCHANGED guardedVars
    PROVE  GuardedInv'
<1>1. ASSUME UNCHANGED guardedVars PROVE GuardedInv'
    <2>1. UNCHANGED <<page, mem, orig, op, dst, src, size, done, phase, found_null, result, rearmed>>
        BY <1>1 DEF guardedVars
    <2>2. GuardedTyped' /\ Placed' /\ Flow' /\ Repairing' /\ StopsOnlyAtAFault' /\ Copying'
        <3>1. UNCHANGED <<op, dst, src, size, done>>
            BY <2>1
        <3>2. At' = At /\ (WritesDst' <=> WritesDst) /\ (Backward' <=> Backward) /\ (UsesSrc' <=> UsesSrc)
            BY <3>1, SameChunk
        <3> QED
            BY <2>1, <3>2 DEF GuardedInv, GuardedTyped, Placed, Flow, Repairing, StopsOnlyAtAFault, Copying,
                              CopiesLikeMemmove, PageOf
    <2>3. \A m, n : /\ (Written(m, n)' <=> Written(m, n)) /\ (RunsTo(n)' <=> RunsTo(n)) /\ (IsLength(n)' <=> IsLength(n))
                    /\ (EqualTo(n)' <=> EqualTo(n)) /\ (IsDifference(n)' <=> IsDifference(n)) /\ Order(n)' = Order(n)
                    /\ (Unmapped(dst + n)' <=> Unmapped(dst + n)) /\ (Unmapped(src + n)' <=> Unmapped(src + n))
        BY <2>1 DEF Written, RunsTo, IsLength, EqualTo, IsDifference, Order, Unmapped, PageOf
    <2>4. Measuring'
        BY <2>1, <2>3 DEF GuardedInv, Measuring
    <2>5. StringCopying'
        BY <2>1, <2>3 DEF GuardedInv, StringCopying
    <2>6. Padding'
        BY <2>1, <2>3 DEF GuardedInv, Padding
    <2>7. Comparing'
        BY <2>1, <2>3 DEF GuardedInv, Comparing
    <2> QED
        BY <2>2, <2>4, <2>5, <2>6, <2>7 DEF GuardedInv
<1> QED
    BY <1>1, DirectKeeps, GoByPagesKeeps, CommitSourceKeeps, SourceFaultKeeps, RepairDestinationKeeps,
       DestinationFaultKeeps, MoveChunkKeeps, StrlenChunkKeeps, StrcpyChunkKeeps, StrncpyChunkKeeps,
       CompareChunkKeeps, RearmKeeps DEF Next

\* The end of a text is the first byte that stops it.
LEMMA LengthIs ==
    ASSUME GuardedTyped, NEW n \in Nat, IsLength(n)
    PROVE  LengthOfString = n
<1>1. PICK S : S = {size} \cup { i \in 0 .. size - 1 : Unmapped(src + i) \/ orig[src + i] = 0 }
    OBVIOUS
<1>2. size \in Nat
    BY DEF GuardedTyped
<1>3. S \in SUBSET Nat /\ n \in S /\ \A y \in S : n <= y
    <2>1. n <= size /\ (n < size => n \in 0 .. size - 1)
        BY <1>2 DEF IsLength
    <2>2. n \in S
        BY <1>1, <1>2, <2>1 DEF IsLength
    <2>3. \A y \in 0 .. size - 1 : y < n => y \in 0 .. n - 1
        OBVIOUS
    <2>4. \A y \in S : n <= y
        BY <1>1, <1>2, <2>1, <2>3 DEF IsLength, RunsTo
    <2> QED
        BY <1>1, <1>2, <2>2, <2>4
<1>4. Min(S) = n
    BY <1>3, LeastIs
<1> QED
    BY <1>1, <1>4 DEF LengthOfString, EndOf

LEMMA DifferenceIs ==
    ASSUME GuardedTyped, NEW n \in Nat, IsDifference(n)
    PROVE  Comparison = IF n = size \/ src = dst THEN "equal"
                        ELSE IF Unmapped(dst + n) THEN "less"
                        ELSE IF Unmapped(src + n) THEN "greater" ELSE Order(n)
<1>1. PICK S : S = {size} \cup { j \in 0 .. size - 1 : \/ Unmapped(src + j) \/ Unmapped(dst + j)
                                                       \/ orig[dst + j] # orig[src + j]
                                                       \/ op # "memcmp" /\ orig[src + j] = 0 }
    OBVIOUS
<1>2. size \in Nat
    BY DEF GuardedTyped
<1>3. S \in SUBSET Nat /\ n \in S /\ \A y \in S : n <= y
    <2>1. n <= size /\ (n < size => n \in 0 .. size - 1) /\ (n < size \/ n = size)
        BY <1>2 DEF IsDifference
    <2>2. n \in S
        <3>1. CASE n = size
            BY <1>1, <3>1
        <3>2. CASE n < size
            BY <1>1, <2>1, <3>2, Zenon DEF IsDifference
        <3> QED
            BY <2>1, <3>1, <3>2
    <2>3. \A y \in 0 .. size - 1 : y < n => y \in 0 .. n - 1
        OBVIOUS
    <2>4. \A y \in S : n <= y
        BY <1>1, <1>2, <2>1, <2>3 DEF IsDifference, EqualTo
    <2> QED
        BY <1>1, <1>2, <2>2, <2>4
<1>4. Min(S) = n
    BY <1>3, LeastIs
<1> HIDE DEF IsDifference
<1> QED
    BY <1>1, <1>4, Zenon DEF Comparison, EndOf

LEMMA GuardedMatches ==
    ASSUME AccessAssumption, GuardedInv
    PROVE  CopiesLikeMemmove /\ StringsMatchReference /\ StopsOnlyAtAFault
<1>1. CopiesLikeMemmove /\ StopsOnlyAtAFault /\ GuardedTyped
    BY DEF GuardedInv, Copying, CopiesLikeMemmove
<1>2. /\ size \in Nat \ {0} /\ src \in Nat /\ dst \in Nat /\ done \in 0 .. size
      /\ op = "pad" => op \in Texts
    BY DEF GuardedInv, GuardedTyped, Texts
<1>3. Memory \subseteq Int
    BY DEF Memory
<1> SUFFICES ASSUME phase = "end" PROVE StringsMatchReference
    BY <1>1 DEF StringsMatchReference
<1>4. op = "strlen" => done = LengthOfString
    BY <1>1, <1>2, LengthIs DEF GuardedInv, Measuring
<1>5. ASSUME op \in Compares PROVE result = Comparison
    <2>1. CASE src = dst
        <3>1. result = "equal"
            BY <1>5, <2>1 DEF GuardedInv, Comparing
        <3> QED
            BY <2>1, <3>1 DEF Comparison
    <2>2. CASE src # dst
        <3>1. PICK n \in 0 .. size : IsDifference(n) /\
                    result = IF n = size THEN "equal" ELSE IF Unmapped(dst + n) THEN "less"
                             ELSE IF Unmapped(src + n) THEN "greater" ELSE Order(n)
            BY <1>5, <2>2 DEF GuardedInv, Comparing
        <3> QED
            BY <1>1, <1>2, <2>2, <3>1, DifferenceIs
    <2> QED
        BY <2>1, <2>2
<1>6. ASSUME op = "strcpy", result = "ok", NEW x \in Memory
      PROVE  mem[x] = IF x \in dst .. dst + LengthOfString /\ x < dst + size
                      THEN orig[src + (x - dst)] ELSE orig[x]
    <2>1. PICK n \in 0 .. size : /\ IsLength(n) /\ done = (IF n < size THEN n + 1 ELSE n)
                                 /\ Written(done, done)
        BY <1>6 DEF GuardedInv, StringCopying
    <2>2. LengthOfString = n
        BY <1>1, <1>2, <2>1, LengthIs
    <2>3. mem[x] = IF x \in dst .. dst + done - 1 THEN orig[src + (x - dst)]
                   ELSE IF x \in dst + done .. dst + done - 1 THEN 0 ELSE orig[x]
        BY <1>6, <2>1 DEF Written
    <2>4. x \in Int /\ n \in Nat /\ n <= size
        BY <1>2, <1>3, <1>6
    <2>5. x \notin dst + done .. dst + done - 1
        BY <1>2, <2>4
    <2>6. x \in dst .. dst + done - 1 <=> x \in dst .. dst + n /\ x < dst + size
        BY <1>2, <2>1, <2>4
    <2> QED
        BY <2>2, <2>3, <2>5, <2>6
<1>7. ASSUME op \in {"strncpy", "pad"}, result = "ok", NEW x \in Memory
      PROVE  mem[x] = CASE x \in dst .. dst + LengthOfString - 1 -> orig[src + (x - dst)]
                        [] x \in dst + LengthOfString .. dst + size - 1 -> 0
                        [] OTHER -> orig[x]
    <2>1. done = size
        BY <1>7 DEF GuardedInv, Flow
    <2>2. \E n \in 0 .. size : IsLength(n) /\ Written(n, size)
        <3>1. CASE op = "strncpy" /\ ~found_null
            <4>1. RunsTo(size) /\ Written(size, size)
                BY <1>7, <2>1, <3>1 DEF GuardedInv, Padding
            <4>2. IsLength(size)
                BY <1>2, <4>1 DEF IsLength
            <4> QED
                BY <1>2, <4>1, <4>2
        <3>2. CASE ~(op = "strncpy" /\ ~found_null)
            BY <1>7, <2>1, <3>2 DEF GuardedInv, Padding
        <3> QED
            BY <3>1, <3>2
    <2>3. PICK n \in 0 .. size : IsLength(n) /\ Written(n, size)
        BY <2>2
    <2>4. LengthOfString = n
        BY <1>1, <1>2, <2>3, LengthIs
    <2>5. mem[x] = IF x \in dst .. dst + n - 1 THEN orig[src + (x - dst)]
                   ELSE IF x \in dst + n .. dst + size - 1 THEN 0 ELSE orig[x]
        BY <1>7, <2>3 DEF Written
    <2> QED
        BY <1>2, <1>3, <1>7, <2>3, <2>4, <2>5
<1> QED
    BY <1>4, <1>5, <1>6, <1>7 DEF StringsMatchReference
=============================================================================
