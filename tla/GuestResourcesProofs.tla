------------------------ MODULE GuestResourcesProofs ------------------------
(***************************************************************************)
(* Proofs about what the emulator hands out to the guest, for any number   *)
(* of threads, descriptors, pages and sites and any bounds.                *)
(***************************************************************************)
EXTENDS GuestResources, Integers, FiniteSetTheorems, SequenceTheorems, WellFoundedInduction, TLAPS

-----------------------------------------------------------------------------
(* The descriptor table. *)

FdSteps == {"idle", "opened", "valid", "entry", "moved", "crashed"}
FdOps == {"none", "open", "read", "write", "lseek"}

\* The calls: one on a descriptor has one, the others have none.
FdCalls ==
    { c \in [op : FdOps, fd : {0} \cup Fd!Fds, step : FdSteps, handle : FileHandles \cup Sockets \cup {NoFile}] :
        /\ c.fd = 0 <=> c.step \in {"idle", "opened"}
        /\ c.step = "idle" => c = Fd!Idle
        /\ c.step = "opened" => c.handle \in FileHandles \cup Sockets }

FdTyped ==
    /\ in_use \subseteq Fd!Fds
    /\ g_next_fd \in Nat
    /\ type \in [Fd!Fds -> {"none", "file", "socket"}]
    /\ file \in [Fd!Fds -> FileHandles \cup Sockets \cup {NoFile}]
    /\ offset \in [Fd!Fds -> Nat] /\ moved \in [Fd!Fds -> Nat]
    /\ call \in [Callers -> FdCalls]

\* A descriptor that nothing disturbed has at most one call, and that call found it.
CallsAlone ==
    \A t \in Callers : call[t].fd \in Fd!Fds \ disturbed =>
        /\ call[t].fd \in in_use /\ call[t].step # "crashed"
        /\ \A u \in Callers : call[u].fd = call[t].fd => u = t

\* While a call has moved data and not advanced the offset, the offset is one behind.
OffsetsAgree ==
    \A fd \in in_use \ disturbed :
        (\A t \in Callers : call[t].fd = fd => call[t].step # "moved") => offset[fd] = moved[fd]

OffsetsBehind ==
    \A t \in Callers : call[t].fd \in Fd!Fds \ disturbed /\ call[t].step = "moved"
        => moved[call[t].fd] = offset[call[t].fd] + 1

\* What opened a handle, entry or call, is the only one to hold it.
EntriesOwn ==
    /\ \A fd \in in_use : /\ file[fd] \in open_files \cap (FileHandles \cup Sockets)
                          /\ type[fd] = IF file[fd] \in Sockets THEN "socket" ELSE "file"
    /\ \A fd, gd \in in_use : file[fd] = file[gd] => fd = gd

CallsOwn ==
    \A t \in Callers : call[t].step = "opened" =>
        /\ call[t].handle \in open_files
        /\ \A fd \in in_use : file[fd] # call[t].handle
        /\ \A u \in Callers : call[u].step = "opened" /\ call[u].handle = call[t].handle => u = t

OpenHasOwner ==
    \A h \in open_files \cap FileHandles :
        \/ \E fd \in in_use : file[fd] = h
        \/ \E t \in Callers : call[t].step = "opened" /\ call[t].handle = h

FdInv == FdTyped /\ CallsAlone /\ OffsetsAgree /\ OffsetsBehind /\ EntriesOwn /\ CallsOwn /\ OpenHasOwner

LEMMA FdsArePositive == Fd!Fds \subseteq Nat /\ 0 \notin Fd!Fds
    BY GuestResourcesAssumption DEF Fd!Fds

LEMMA FdInit == Fd!Init => FdInv
    BY FdsArePositive DEF Fd!Init, FdInv, FdTyped, CallsAlone, OffsetsAgree, OffsetsBehind, EntriesOwn,
       CallsOwn, OpenHasOwner, Fd!Idle, FdCalls, FdSteps, FdOps

\* AllocateFdLocked finds a free entry.
LEMMA FirstIsMember ==
    ASSUME NEW S \in SUBSET Nat, S # {}
    PROVE  Fd!First(S) \in S
<1>1. PICK i \in S : \A j \in S : ~ (<<j, i>> \in OpToRel(<, Nat))
    BY NatLessThanWellFounded, WFMin
<1>2. \A j \in S : j \in Nat /\ i \in Nat /\ ~ (j < i)
    BY <1>1 DEF OpToRel
<1>3. \A j \in S : i <= j
    BY <1>2
<1> QED
    BY <1>3 DEF Fd!First

LEMMA SlotIsFree == \A fd \in Fd!Slot : fd \in Fd!Fds \ in_use
<1>1. ASSUME NEW lo, NEW hi, Fd!FreeFrom(lo, hi) # {}
      PROVE  Fd!First(Fd!FreeFrom(lo, hi)) \in Fd!Fds \ in_use
    <2>1. Fd!FreeFrom(lo, hi) \in SUBSET Nat /\ Fd!FreeFrom(lo, hi) \subseteq Fd!Fds \ in_use
        BY FdsArePositive DEF Fd!FreeFrom
    <2> QED
        BY <1>1, <2>1, FirstIsMember
<1> QED
    BY <1>1 DEF Fd!Slot

\* SysOpen, AllocateFd and CloseFd change the table and who owns a handle.
LEMMA OpenKeepsFdInv ==
    ASSUME NEW t \in Callers, NEW h \in FileHandles \cup Sockets, FdInv, Fd!SysOpen(t, h)
    PROVE  FdInv'
<1> USE FdsArePositive DEF FdInv, Fd!SysOpen, Fd!Idle
<1>1. FdTyped'
    BY DEF FdTyped, FdCalls, FdSteps, FdOps
<1>2. CallsAlone' /\ OffsetsAgree' /\ OffsetsBehind'
    BY DEF FdTyped, FdCalls, CallsAlone, OffsetsAgree, OffsetsBehind
<1>3. EntriesOwn' /\ CallsOwn'
    BY DEF FdTyped, FdCalls, EntriesOwn, CallsOwn
<1>4. OpenHasOwner'
    BY DEF FdTyped, FdCalls, OpenHasOwner
<1> QED
    BY <1>1, <1>2, <1>3, <1>4

LEMMA AllocateKeepsFdInv ==
    ASSUME NEW t \in Callers, FdInv, Fd!AllocateFd(t)
    PROVE  FdInv'
<1> USE FdsArePositive
<1>0. /\ call[t].step = "opened" /\ call[t].handle \in FileHandles \cup Sockets
      /\ call' = [call EXCEPT ![t] = Fd!Idle]
    BY DEF Fd!AllocateFd, FdInv, FdTyped, FdCalls
<1>1. CASE Fd!Slot = {}
    <2>1. open_files' = open_files \ {call[t].handle}
          /\ UNCHANGED <<in_use, type, file, offset, g_next_fd, moved, disturbed>>
        BY <1>1 DEF Fd!AllocateFd
    <2>2. FdTyped'
        BY <1>0, <2>1 DEF FdInv, FdTyped, FdCalls, FdSteps, FdOps, Fd!Idle
    <2>3. CallsAlone' /\ OffsetsAgree' /\ OffsetsBehind'
        BY <1>0, <2>1 DEF FdInv, FdTyped, FdCalls, CallsAlone, OffsetsAgree, OffsetsBehind, Fd!Idle
    <2>4. EntriesOwn' /\ CallsOwn'
        BY <1>0, <2>1 DEF FdInv, FdTyped, FdCalls, EntriesOwn, CallsOwn, Fd!Idle
    <2>5. OpenHasOwner'
        BY <1>0, <2>1 DEF FdInv, FdTyped, FdCalls, OpenHasOwner, Fd!Idle
    <2> QED
        BY <2>2, <2>3, <2>4, <2>5 DEF FdInv
<1>2. CASE Fd!Slot # {}
    <2> DEFINE h == call[t].handle
    <2>1. PICK fd \in Fd!Slot :
            /\ Fd!SetEntry(fd, IF h \in Sockets THEN "socket" ELSE "file", h)
            /\ moved' = [moved EXCEPT ![fd] = 0]
            /\ disturbed' = IF Fd!Using(fd) = {} THEN disturbed \ {fd} ELSE disturbed
            /\ UNCHANGED open_files
        BY <1>2 DEF Fd!AllocateFd
    <2>2. fd \in Fd!Fds /\ fd \notin in_use /\ fd # 0
        BY SlotIsFree
    <2>3. /\ in_use' = in_use \cup {fd}
          /\ type' = [type EXCEPT ![fd] = IF h \in Sockets THEN "socket" ELSE "file"]
          /\ file' = [file EXCEPT ![fd] = h] /\ offset' = [offset EXCEPT ![fd] = 0]
          /\ g_next_fd' = fd + 1
        BY <2>1 DEF Fd!SetEntry
    <2>4. FdTyped'
        BY <1>0, <2>1, <2>2, <2>3 DEF FdInv, FdTyped, FdCalls, FdSteps, FdOps, Fd!Idle
    <2>5. CallsAlone'
        BY <1>0, <2>1, <2>2, <2>3 DEF FdInv, FdTyped, FdCalls, CallsAlone, Fd!Idle, Fd!Using
    <2>6. OffsetsAgree' /\ OffsetsBehind'
        BY <1>0, <2>1, <2>2, <2>3 DEF FdInv, FdTyped, FdCalls, CallsAlone, OffsetsAgree, OffsetsBehind, Fd!Idle, Fd!Using
    <2>7. EntriesOwn'
        BY <1>0, <2>1, <2>2, <2>3 DEF FdInv, FdTyped, FdCalls, EntriesOwn, CallsOwn
    <2>8. CallsOwn'
        BY <1>0, <2>1, <2>2, <2>3 DEF FdInv, FdTyped, FdCalls, EntriesOwn, CallsOwn, Fd!Idle
    <2>9. OpenHasOwner'
        BY <1>0, <2>1, <2>2, <2>3 DEF FdInv, FdTyped, FdCalls, OpenHasOwner, Fd!Idle
    <2> QED
        BY <2>4, <2>5, <2>6, <2>7, <2>8, <2>9 DEF FdInv
<1> QED
    BY <1>1, <1>2

LEMMA CloseKeepsFdInv ==
    ASSUME NEW t \in Callers, NEW fd \in Fd!Fds, FdInv, Fd!CloseFd(t, fd)
    PROVE  FdInv'
<1> USE FdsArePositive DEF Fd!CloseFd
<1>1. FdTyped'
    BY DEF FdInv, FdTyped, FdCalls
<1>2. CallsAlone'
    BY DEF FdInv, FdTyped, FdCalls, CallsAlone, Fd!Using
<1>3. OffsetsAgree' /\ OffsetsBehind'
    BY DEF FdInv, FdTyped, FdCalls, OffsetsAgree, OffsetsBehind
<1>4. EntriesOwn'
    BY DEF FdInv, FdTyped, FdCalls, EntriesOwn
<1>5. CallsOwn'
    BY DEF FdInv, FdTyped, FdCalls, EntriesOwn, CallsOwn
<1>6. OpenHasOwner'
    BY GuestResourcesAssumption DEF FdInv, FdTyped, FdCalls, EntriesOwn, OpenHasOwner
<1> QED
    BY <1>1, <1>2, <1>3, <1>4, <1>5, <1>6 DEF FdInv

\* The calls that work through an entry leave the table and its owners alone.
Owners == /\ UNCHANGED <<in_use, type, file, open_files>>
          /\ \A t \in Callers : (call[t].step = "opened") = (call'[t].step = "opened")
                                /\ (call[t].step = "opened" => call'[t].handle = call[t].handle)

LEMMA OwnersKept ==
    ASSUME FdInv, Owners PROVE EntriesOwn' /\ CallsOwn' /\ OpenHasOwner'
<1>1. EntriesOwn'
    BY DEF FdInv, Owners, EntriesOwn
<1>2. CallsOwn'
    BY DEF FdInv, Owners, CallsOwn
<1>3. OpenHasOwner'
    BY DEF FdInv, Owners, OpenHasOwner
<1> QED
    BY <1>1, <1>2, <1>3

LEMMA BeginKeepsFdInv ==
    ASSUME NEW t \in Callers, NEW fd \in Fd!Fds, NEW o \in {"read", "write", "lseek"}, FdInv,
           Fd!BeginCall(t, o, fd)
    PROVE  FdInv'
<1> USE FdsArePositive DEF Fd!BeginCall, Fd!table, Fd!Idle
<1>1. FdTyped'
    BY DEF FdInv, FdTyped, FdCalls, FdSteps, FdOps
<1>2. CallsAlone'
    BY DEF FdInv, FdTyped, FdCalls, CallsAlone, Fd!Using
<1>3. OffsetsAgree' /\ OffsetsBehind'
    BY DEF FdInv, FdTyped, FdCalls, OffsetsAgree, OffsetsBehind, Fd!Using
<1>4. Owners
    BY DEF FdInv, FdTyped, FdCalls, Owners
<1> QED
    BY <1>1, <1>2, <1>3, <1>4, OwnersKept DEF FdInv

LEMMA GetFdKeepsFdInv ==
    ASSUME NEW t \in Callers, FdInv, Fd!GetFd(t) PROVE FdInv'
<1> USE FdsArePositive DEF Fd!GetFd, Fd!table
<1>0. call[t].fd \in Fd!Fds /\ call[t].step = "valid"
    BY DEF FdInv, FdTyped, FdCalls
<1>1. FdTyped'
    <2> DEFINE c == [call[t] EXCEPT !.step = IF call[t].fd \in in_use THEN "entry" ELSE "crashed",
                                    !.handle = file[call[t].fd]]
    <2>1. call[t] \in FdCalls /\ file[call[t].fd] \in FileHandles \cup Sockets \cup {NoFile}
        BY <1>0 DEF FdInv, FdTyped
    <2>2. c \in [op : FdOps, fd : {0} \cup Fd!Fds, step : FdSteps, handle : FileHandles \cup Sockets \cup {NoFile}]
        BY <2>1 DEF FdCalls, FdSteps
    <2>3. c.fd = call[t].fd /\ c.step \in {"entry", "crashed"}
        BY <2>1 DEF FdCalls
    <2>4. c \in FdCalls
        BY <1>0, <2>2, <2>3 DEF FdCalls
    <2> QED
        BY <2>4 DEF FdInv, FdTyped
<1>2. CallsAlone'
    BY <1>0 DEF FdInv, FdTyped, FdCalls, CallsAlone
<1>3. OffsetsAgree' /\ OffsetsBehind'
    BY <1>0 DEF FdInv, FdTyped, FdCalls, OffsetsAgree, OffsetsBehind
<1>4. Owners
    BY <1>0 DEF FdInv, FdTyped, FdCalls, Owners
<1> QED
    BY <1>1, <1>2, <1>3, <1>4, OwnersKept DEF FdInv

LEMMA TransferKeepsFdInv ==
    ASSUME NEW t \in Callers, FdInv, Fd!Transfer(t) PROVE FdInv'
<1> USE FdsArePositive
<1> DEFINE fd == call[t].fd
<1>0. /\ fd \in Fd!Fds /\ call[t] \in FdCalls /\ call[t].step = "entry"
      /\ UNCHANGED <<in_use, type, file, offset, g_next_fd, open_files, disturbed>>
    BY DEF FdInv, FdTyped, FdCalls, Fd!Transfer, Fd!table
<1>1. PICK c \in {[call[t] EXCEPT !.step = "moved", !.handle = file[fd]], Fd!Idle} :
        /\ call' = [call EXCEPT ![t] = c]
        /\ moved' = IF c = Fd!Idle THEN moved ELSE [moved EXCEPT ![fd] = moved[fd] + 1]
    <2>1. [call[t] EXCEPT !.step = "moved", !.handle = file[fd]] # Fd!Idle
        BY <1>0 DEF Fd!Idle, FdCalls
    <2> QED
        BY <2>1 DEF Fd!Transfer, Fd!Finish
<1>2. c \in FdCalls
    <2>1. [call[t] EXCEPT !.step = "moved", !.handle = file[fd]] \in FdCalls
        BY <1>0 DEF FdInv, FdTyped, FdCalls, FdSteps, FdOps
    <2>2. Fd!Idle \in FdCalls
        BY DEF Fd!Idle, FdCalls, FdSteps, FdOps
    <2> QED
        BY <2>1, <2>2
<1>3. FdTyped'
    BY <1>0, <1>1, <1>2 DEF FdInv, FdTyped
<1>4. \/ c = Fd!Idle /\ c.fd = 0 /\ c.step = "idle"
      \/ c # Fd!Idle /\ c.fd = fd /\ c.step = "moved"
    <2>1. CASE c = [call[t] EXCEPT !.step = "moved", !.handle = file[fd]]
        BY <1>0, <2>1 DEF Fd!Idle, FdCalls
    <2>2. CASE c = Fd!Idle
        BY <2>2 DEF Fd!Idle
    <2> QED
        BY <2>1, <2>2
<1>5. CallsAlone'
    BY <1>0, <1>1, <1>4 DEF FdInv, FdTyped, CallsAlone
<1>6. OffsetsAgree'
    BY <1>0, <1>1, <1>4 DEF FdInv, FdTyped, CallsAlone, OffsetsAgree
<1>7. OffsetsBehind'
    BY <1>0, <1>1, <1>4 DEF FdInv, FdTyped, CallsAlone, OffsetsAgree, OffsetsBehind
<1>8. Owners
    BY <1>0, <1>1, <1>4 DEF FdInv, FdTyped, Owners
<1> QED
    BY <1>3, <1>5, <1>6, <1>7, <1>8, OwnersKept DEF FdInv

LEMMA AdvanceKeepsFdInv ==
    ASSUME NEW t \in Callers, FdInv, Fd!AdvanceOffset(t) PROVE FdInv'
<1> USE FdsArePositive DEF Fd!AdvanceOffset, Fd!Idle, Fd!Finish
<1> DEFINE fd == call[t].fd
<1>0. fd \in Fd!Fds /\ call[t].step = "moved"
    BY DEF FdInv, FdTyped, FdCalls
<1>1. FdTyped'
    <2>1. offset[fd] \in Nat
        BY <1>0 DEF FdInv, FdTyped
    <2>2. Fd!Idle \in FdCalls
        BY DEF FdCalls, FdSteps, FdOps
    <2>3. offset' \in [Fd!Fds -> Nat]
        BY <1>0, <2>1 DEF FdInv, FdTyped
    <2>4. call' \in [Callers -> FdCalls]
        BY <2>2 DEF FdInv, FdTyped
    <2> QED
        BY <2>3, <2>4 DEF FdInv, FdTyped
<1>2. CallsAlone'
    BY <1>0 DEF FdInv, FdTyped, FdCalls, CallsAlone
<1>3. OffsetsAgree'
    BY <1>0 DEF FdInv, FdTyped, FdCalls, CallsAlone, OffsetsAgree, OffsetsBehind
<1>4. OffsetsBehind'
    BY <1>0 DEF FdInv, FdTyped, FdCalls, CallsAlone, OffsetsBehind
<1>5. Owners
    BY <1>0 DEF FdInv, FdTyped, FdCalls, Owners
<1> QED
    BY <1>1, <1>2, <1>3, <1>4, <1>5, OwnersKept DEF FdInv

LEMMA SeekKeepsFdInv ==
    ASSUME NEW t \in Callers, NEW to \in Nat, FdInv, Fd!SysLseek(t, to) PROVE FdInv'
<1> USE FdsArePositive DEF Fd!SysLseek, Fd!Idle, Fd!Finish
<1> DEFINE fd == call[t].fd
<1>0. fd \in Fd!Fds /\ call[t].step = "entry"
    BY DEF FdInv, FdTyped, FdCalls
<1>1. FdTyped'
    BY <1>0 DEF FdInv, FdTyped, FdCalls, FdSteps, FdOps
<1>2. CallsAlone'
    BY <1>0 DEF FdInv, FdTyped, FdCalls, CallsAlone
<1>3. OffsetsAgree'
    BY <1>0 DEF FdInv, FdTyped, FdCalls, OffsetsAgree
<1>4. OffsetsBehind'
    BY <1>0 DEF FdInv, FdTyped, FdCalls, CallsAlone, OffsetsBehind
<1>5. Owners
    BY <1>0 DEF FdInv, FdTyped, FdCalls, Owners
<1> QED
    BY <1>1, <1>2, <1>3, <1>4, <1>5, OwnersKept DEF FdInv

LEMMA FdStep == FdInv /\ (Fd!Next \/ UNCHANGED fdVars) => FdInv'
<1>1. FdInv /\ UNCHANGED fdVars => FdInv'
    BY DEF fdVars, FdInv, FdTyped, FdCalls, CallsAlone, OffsetsAgree, OffsetsBehind, EntriesOwn, CallsOwn, OpenHasOwner
<1>2. ASSUME FdInv, NEW t \in Callers, Fd!GetFd(t) \/ Fd!AllocateFd(t) \/ Fd!Transfer(t) \/ Fd!AdvanceOffset(t)
      PROVE  FdInv'
    BY <1>2, GetFdKeepsFdInv, AllocateKeepsFdInv, TransferKeepsFdInv, AdvanceKeepsFdInv
<1>3. ASSUME FdInv, NEW t \in Callers, NEW to \in 0 .. MaxOffset, Fd!SysLseek(t, to) PROVE FdInv'
    <2>1. to \in Nat
        OBVIOUS
    <2> QED
        BY <1>3, <2>1, SeekKeepsFdInv
<1> QED
    BY <1>1, <1>2, <1>3, OpenKeepsFdInv, CloseKeepsFdInv, BeginKeepsFdInv DEF Fd!Next

LEMMA AtMostOne ==
    ASSUME NEW S, \A x, y \in S : x = y
    PROVE  Cardinality(S) <= 1
<1>1. CASE S = {}
    BY <1>1, FS_EmptySet
<1>2. CASE S # {}
    <2>1. PICK x : x \in S
        BY <1>2
    <2>2. S = {x}
        BY <2>1
    <2> QED
        BY <2>2, FS_Singleton
<1> QED
    BY <1>1, <1>2

\* FdTable counts with the Cardinality of its own instance of FiniteSets.
LEMMA FdCardinality == \A S : Fd!Cardinality(S) = Cardinality(S)
    BY Zenon DEF Fd!Cardinality, Cardinality, Fd!IsFiniteSet, IsFiniteSet

LEMMA FdProperties == FdInv => Fd!HandleHasOneOwner /\ Fd!OffsetFollowsTransfers /\ Fd!CrashNeedsAClose
<1> SUFFICES ASSUME FdInv
             PROVE  Fd!HandleHasOneOwner /\ Fd!OffsetFollowsTransfers /\ Fd!CrashNeedsAClose
    OBVIOUS
<1>1. ASSUME NEW h \in FileHandles \cup Sockets
      PROVE  LET owners == {fd \in in_use : file[fd] = h} \cup Fd!Opening(h) IN
             /\ Fd!Cardinality(owners) <= 1
             /\ owners # {} => h \in open_files
             /\ h \in open_files \cap FileHandles => owners # {}
    <2> DEFINE entries == {fd \in in_use : file[fd] = h}
               owners == entries \cup Fd!Opening(h)
    <2>1. \A x, y \in entries : x = y
        BY DEF FdInv, EntriesOwn
    <2>2. \A x, y \in Fd!Opening(h) : x = y
        BY DEF FdInv, CallsOwn, Fd!Opening
    <2>3. Fd!Opening(h) # {} => entries = {}
        BY DEF FdInv, CallsOwn, Fd!Opening
    <2>4. \A x, y \in owners : x = y
        BY <2>1, <2>2, <2>3
    <2>5. Fd!Cardinality(owners) <= 1
        BY <2>4, AtMostOne, FdCardinality
    <2>6. owners # {} => h \in open_files
        BY DEF FdInv, EntriesOwn, CallsOwn, Fd!Opening
    <2>7. h \in open_files \cap FileHandles => owners # {}
        BY DEF FdInv, OpenHasOwner, Fd!Opening
    <2> QED
        BY <2>5, <2>6, <2>7
<1>2. Fd!HandleHasOneOwner
    BY <1>1 DEF Fd!HandleHasOneOwner
<1>3. Fd!OffsetFollowsTransfers
    BY DEF FdInv, OffsetsAgree, Fd!OffsetFollowsTransfers, Fd!Using
<1>4. Fd!CrashNeedsAClose
    BY FdsArePositive DEF FdInv, FdTyped, FdCalls, CallsAlone, Fd!CrashNeedsAClose
<1> QED
    BY <1>2, <1>3, <1>4

-----------------------------------------------------------------------------
(* The page-state cache. *)

CacheTyped ==
    /\ generation \in Nat \ {0}
    /\ state \in [CachedPages -> BOOLEAN]
    /\ change \in [Mutators -> {Access!NoChange} \cup [page : CachedPages, phase : {"bumped", "protected"}]]
    /\ entry \in [Readers -> [page : CachedPages \cup {"none"}, generation : Nat,
                              granted : BOOLEAN, overlapped : BOOLEAN]]
    /\ asking \in [Readers -> [page : CachedPages \cup {"none"}, generation : Nat,
                               overlapped : BOOLEAN, phase : {"idle", "query", "store"}]]
    /\ answer \in [Readers -> [page : CachedPages \cup {"none"}, granted : BOOLEAN]]
    /\ \A t \in Readers : asking[t].phase # "idle" => asking[t].page \in CachedPages

Bumped(p) == \E m \in Mutators : change[m].phase = "bumped" /\ change[m].page = p

\* No generation is ahead, and what was read while a call had advanced the
\* generation and not changed the page is marked as overlapped.
EntryOK(t) ==
    /\ entry[t].generation <= generation
    /\ entry[t].generation = generation /\ Bumped(entry[t].page) => entry[t].overlapped

AskingOK(t) ==
    /\ asking[t].generation <= generation
    /\ asking[t].phase # "idle" /\ asking[t].generation = generation /\ Bumped(asking[t].page)
         => asking[t].overlapped

\* What the host said and is not in the slot yet.
AnswerOK(t) ==
    asking[t].phase = "store" /\ asking[t].generation = generation
    /\ ~ Access!Changing(asking[t].page) /\ ~ asking[t].overlapped
        => answer[t].granted = state[asking[t].page]

SlotOK(t) ==
    entry[t].generation = generation /\ entry[t].page \in CachedPages
    /\ ~ Access!Changing(entry[t].page) /\ ~ entry[t].overlapped
        => entry[t].granted = state[entry[t].page]

CacheInv == CacheTyped /\ \A t \in Readers : EntryOK(t) /\ AskingOK(t) /\ AnswerOK(t) /\ SlotOK(t)

LEMMA CacheInitInv == Access!CacheInit => CacheInv
<1> SUFFICES ASSUME Access!CacheInit PROVE CacheInv
    OBVIOUS
<1>1. CacheTyped
    BY DEF Access!CacheInit, CacheTyped, Access!NotAsking
<1>2. ASSUME NEW t \in Readers
      PROVE  generation = 1 /\ entry[t].generation = 0 /\ asking[t].generation = 0 /\ asking[t].phase = "idle"
    BY DEF Access!CacheInit, Access!NotAsking
<1> QED
    BY <1>1, <1>2 DEF CacheInv, EntryOK, AskingOK, AnswerOK, SlotOK

\* A mutator that begins a public call advances the generation past every entry.
LEMMA BeginKeepsCacheInv ==
    ASSUME NEW m \in Mutators, NEW p \in CachedPages, CacheInv, Access!BeginCall(m, p)
    PROVE  CacheInv'
<1> USE DEF Access!BeginCall, Access!Bump
<1>1. CacheTyped'
    BY DEF CacheInv, CacheTyped
<1>2. ASSUME NEW t \in Readers PROVE (EntryOK(t) /\ AskingOK(t) /\ AnswerOK(t) /\ SlotOK(t))'
    <2>1. /\ entry[t].generation <= generation /\ entry[t].generation \in Nat
          /\ asking[t].generation <= generation /\ asking[t].generation \in Nat /\ generation \in Nat
        BY DEF CacheInv, CacheTyped, EntryOK, AskingOK
    <2>2. /\ generation' = generation + 1 /\ entry' = entry /\ asking' = asking
        OBVIOUS
    <2> QED
        BY <2>1, <2>2 DEF EntryOK, AskingOK, AnswerOK, SlotOK
<1> QED
    BY <1>1, <1>2 DEF CacheInv

LEMMA BumpKeepsCacheInv ==
    ASSUME NEW m \in Mutators, CacheInv, Access!BumpAfterArming(m)
    PROVE  CacheInv'
<1> USE DEF Access!BumpAfterArming, Access!Bump
<1>1. CacheTyped'
    BY DEF CacheInv, CacheTyped
<1>2. ASSUME NEW t \in Readers PROVE (EntryOK(t) /\ AskingOK(t) /\ AnswerOK(t) /\ SlotOK(t))'
    <2>1. /\ entry[t].generation <= generation /\ entry[t].generation \in Nat
          /\ asking[t].generation <= generation /\ asking[t].generation \in Nat /\ generation \in Nat
        BY DEF CacheInv, CacheTyped, EntryOK, AskingOK
    <2>2. /\ generation' = generation + 1 /\ entry' = entry /\ asking' = asking
        OBVIOUS
    <2> QED
        BY <2>1, <2>2 DEF EntryOK, AskingOK, AnswerOK, SlotOK
<1> QED
    BY <1>1, <1>2 DEF CacheInv

\* The host's page changes: nobody who knows its generation counts as undisturbed.
LEMMA HostCallKeepsCacheInv ==
    ASSUME NEW m \in Mutators, CacheInv, Access!HostCall(m)
    PROVE  CacheInv'
<1> DEFINE p == change[m].page
<1>1. /\ p \in CachedPages /\ change[m].phase = "bumped"
      /\ state' = [state EXCEPT ![p] = ~ state[p]]
      /\ change' = [change EXCEPT ![m] = Access!NoChange]
      /\ UNCHANGED <<generation, entry, asking, answer>>
    BY DEF CacheInv, CacheTyped, Access!HostCall, Access!NoChange
<1>2. CacheTyped'
    BY <1>1 DEF CacheInv, CacheTyped
<1>3. ASSUME NEW q, Bumped(q)' PROVE Bumped(q)
    BY <1>1, <1>3 DEF CacheInv, CacheTyped, Bumped, Access!NoChange
<1>4. Bumped(p)
    BY <1>1 DEF Bumped
<1>5. ASSUME NEW q \in CachedPages, q # p, ~ Access!Changing(q)' PROVE ~ Access!Changing(q) /\ state'[q] = state[q]
    BY <1>1, <1>5 DEF CacheInv, CacheTyped, Access!Changing
<1>6. ASSUME NEW t \in Readers PROVE (EntryOK(t) /\ AskingOK(t) /\ AnswerOK(t) /\ SlotOK(t))'
    <2>1. EntryOK(t)' /\ AskingOK(t)'
        BY <1>1, <1>3 DEF CacheInv, EntryOK, AskingOK
    <2>2. AnswerOK(t)'
        BY <1>1, <1>4, <1>5 DEF CacheInv, CacheTyped, AskingOK, AnswerOK
    <2>3. SlotOK(t)'
        BY <1>1, <1>4, <1>5 DEF CacheInv, EntryOK, SlotOK
    <2> QED
        BY <2>1, <2>2, <2>3
<1> QED
    BY <1>2, <1>6 DEF CacheInv

\* Arming changes the page first: until the generation is advanced the page counts
\* as changing.
LEMMA ArmKeepsCacheInv ==
    ASSUME NEW m \in Mutators, NEW p \in CachedPages, CacheInv, Access!ArmOrDisarm(m, p)
    PROVE  CacheInv'
<1>1. /\ change[m] = Access!NoChange
      /\ state' = [state EXCEPT ![p] = ~ state[p]]
      /\ change' = [change EXCEPT ![m] = [page |-> p, phase |-> "protected"]]
      /\ UNCHANGED <<generation, entry, asking, answer>>
    BY DEF Access!ArmOrDisarm
<1>2. CacheTyped'
    BY <1>1 DEF CacheInv, CacheTyped
<1>3. ASSUME NEW q, Bumped(q)' PROVE Bumped(q)
    BY <1>1, <1>3 DEF CacheInv, CacheTyped, Bumped
<1>4. Access!Changing(p)'
    BY <1>1 DEF CacheInv, CacheTyped, Access!Changing
<1>5. ASSUME NEW q \in CachedPages, ~ Access!Changing(q)'
      PROVE  ~ Access!Changing(q) /\ state'[q] = state[q]
    BY <1>1, <1>4, <1>5, GuestResourcesAssumption DEF CacheInv, CacheTyped, Access!Changing, Access!NoChange
<1>6. ASSUME NEW t \in Readers PROVE (EntryOK(t) /\ AskingOK(t) /\ AnswerOK(t) /\ SlotOK(t))'
    <2>1. EntryOK(t)' /\ AskingOK(t)'
        BY <1>1, <1>3 DEF CacheInv, EntryOK, AskingOK
    <2>2. AnswerOK(t)'
        BY <1>1, <1>5 DEF CacheInv, CacheTyped, AnswerOK
    <2>3. SlotOK(t)'
        BY <1>1, <1>5 DEF CacheInv, CacheTyped, SlotOK
    <2> QED
        BY <2>1, <2>2, <2>3
<1> QED
    BY <1>2, <1>6 DEF CacheInv

\* A query reads the generation before it asks.
LEMMA LoadKeepsCacheInv ==
    ASSUME NEW t \in Readers, NEW p \in CachedPages, CacheInv, Access!LoadGeneration(t, p)
    PROVE  CacheInv'
<1>1. asking[t].phase = "idle" /\ UNCHANGED <<generation, state, change, entry>>
    BY DEF Access!LoadGeneration
<1>2. CASE Access!Fresh(t, p)
    <2>1. /\ UNCHANGED asking
          /\ answer' = [answer EXCEPT ![t] = [page |-> p, granted |-> entry[t].granted]]
        BY <1>2 DEF Access!LoadGeneration
    <2>2. CacheTyped'
        BY <1>1, <2>1 DEF CacheInv, CacheTyped
    <2>3. ASSUME NEW u \in Readers PROVE (EntryOK(u) /\ AskingOK(u) /\ AnswerOK(u) /\ SlotOK(u))'
        BY <1>1, <2>1 DEF CacheInv, CacheTyped, EntryOK, AskingOK, AnswerOK, SlotOK, Bumped, Access!Changing
    <2> QED
        BY <2>2, <2>3 DEF CacheInv
<1>3. CASE ~ Access!Fresh(t, p)
    <2> DEFINE a == [page |-> p, generation |-> generation, overlapped |-> Access!Unfinished(p), phase |-> "query"]
    <2>1. UNCHANGED answer /\ asking' = [asking EXCEPT ![t] = a]
        BY <1>3 DEF Access!LoadGeneration
    <2>2. Access!Unfinished(p) \in BOOLEAN
        BY DEF Access!Unfinished
    <2>3. CacheTyped'
        BY <1>1, <2>1, <2>2 DEF CacheInv, CacheTyped
    <2>4. Bumped(p) => Access!Unfinished(p)
        BY DEF CacheInv, CacheTyped, Bumped, Access!Unfinished, Access!NoChange
    <2>5. ASSUME NEW u \in Readers PROVE (EntryOK(u) /\ AskingOK(u) /\ AnswerOK(u) /\ SlotOK(u))'
        <3>1. CASE u = t
            BY <1>1, <2>1, <2>4, <3>1
               DEF CacheInv, CacheTyped, EntryOK, AskingOK, AnswerOK, SlotOK, Bumped, Access!Changing
        <3>2. CASE u # t
            BY <1>1, <2>1, <3>2
               DEF CacheInv, CacheTyped, EntryOK, AskingOK, AnswerOK, SlotOK, Bumped, Access!Changing
        <3> QED
            BY <3>1, <3>2
    <2> QED
        BY <2>3, <2>5 DEF CacheInv
<1> QED
    BY <1>2, <1>3

LEMMA AskKeepsCacheInv ==
    ASSUME NEW t \in Readers, CacheInv, Access!AskHost(t)
    PROVE  CacheInv'
<1>1. /\ asking[t].phase = "query" /\ asking[t].page \in CachedPages
      /\ UNCHANGED <<generation, state, change, entry>>
      /\ answer' = [answer EXCEPT ![t] = [page |-> asking[t].page, granted |-> state[asking[t].page]]]
      /\ asking' = [asking EXCEPT ![t] = [asking[t] EXCEPT !.phase = "store"]]
    BY DEF Access!AskHost, CacheInv, CacheTyped
<1>2. CacheTyped'
    <2>1. [page |-> asking[t].page, granted |-> state[asking[t].page]]
              \in [page : CachedPages \cup {"none"}, granted : BOOLEAN]
        BY <1>1 DEF CacheInv, CacheTyped
    <2>2. answer' \in [Readers -> [page : CachedPages \cup {"none"}, granted : BOOLEAN]]
        BY <1>1, <2>1 DEF CacheInv, CacheTyped
    <2> QED
        BY <1>1, <2>2 DEF CacheInv, CacheTyped
<1>3. ASSUME NEW u \in Readers PROVE (EntryOK(u) /\ AskingOK(u) /\ AnswerOK(u) /\ SlotOK(u))'
    <2>1. CASE u = t
        BY <1>1, <2>1 DEF CacheInv, CacheTyped, EntryOK, AskingOK, AnswerOK, SlotOK, Bumped, Access!Changing
    <2>2. CASE u # t
        BY <1>1, <2>2 DEF CacheInv, CacheTyped, EntryOK, AskingOK, AnswerOK, SlotOK, Bumped, Access!Changing
    <2> QED
        BY <2>1, <2>2
<1> QED
    BY <1>2, <1>3 DEF CacheInv

LEMMA StoreKeepsCacheInv ==
    ASSUME NEW t \in Readers, CacheInv, Access!StoreEntry(t)
    PROVE  CacheInv'
<1>1. /\ asking[t].phase = "store" /\ asking[t].page \in CachedPages
      /\ UNCHANGED <<generation, state, change, answer>>
      /\ entry' = [entry EXCEPT ![t] = [page |-> asking[t].page, generation |-> asking[t].generation,
                                        granted |-> answer[t].granted, overlapped |-> asking[t].overlapped]]
      /\ asking' = [asking EXCEPT ![t] = Access!NotAsking]
    BY DEF Access!StoreEntry, CacheInv, CacheTyped
<1>2. CacheTyped'
    BY <1>1 DEF CacheInv, CacheTyped, Access!NotAsking
<1>3. ASSUME NEW u \in Readers PROVE (EntryOK(u) /\ AskingOK(u) /\ AnswerOK(u) /\ SlotOK(u))'
    <2>1. CASE u = t
        BY <1>1, <2>1 DEF CacheInv, CacheTyped, EntryOK, AskingOK, AnswerOK, SlotOK, Bumped, Access!Changing,
                          Access!NotAsking
    <2>2. CASE u # t
        BY <1>1, <2>2 DEF CacheInv, CacheTyped, EntryOK, AskingOK, AnswerOK, SlotOK, Bumped, Access!Changing
    <2> QED
        BY <2>1, <2>2
<1> QED
    BY <1>2, <1>3 DEF CacheInv

LEMMA CacheStep == CacheInv /\ (Access!CacheNext \/ UNCHANGED cacheVars) => CacheInv'
<1>1. CacheInv /\ UNCHANGED cacheVars => CacheInv'
    BY DEF cacheVars, CacheInv, CacheTyped, EntryOK, AskingOK, AnswerOK, SlotOK, Bumped, Access!Changing
<1> QED
    BY <1>1, BeginKeepsCacheInv, BumpKeepsCacheInv, HostCallKeepsCacheInv, ArmKeepsCacheInv,
       LoadKeepsCacheInv, AskKeepsCacheInv, StoreKeepsCacheInv
       DEF Access!CacheNext

LEMMA CacheProperties == CacheInv => Access!StaleOnlyFromAnUnfinishedCall
    BY DEF CacheInv, SlotOK, Access!StaleOnlyFromAnUnfinishedCall, Access!Fresh

-----------------------------------------------------------------------------
(* Patched accesses to thread-local storage. *)

TlsPcs == {"outside", "guest", "at", "fault", "decode", "emulated", "missed", "stub", "stub fault",
           "restoring", "patching", "crashed"}
Places == Threads \cup {Shared, Nobody}

TlsTyped ==
    /\ g_enabled \in BOOLEAN
    /\ code \in [Sites -> 0 .. StubRoom + 1]
    /\ patches \in [Sites -> [stub : 0 .. StubRoom, retries : [Threads -> Nat]]]
    /\ blacklist \subseteq Sites
    /\ stubs \in Seq(Sites) /\ Len(stubs) <= StubRoom
    /\ PatchMutex \in Threads \cup {Nobody}
    /\ thread \in [Threads -> [pc : TlsPcs, site : Sites, stub : 0 .. StubRoom]]
    /\ slot \in [Threads -> Places] /\ t_tls_base \in [Threads -> Places] /\ g_threads \in [Threads -> Places]
    /\ landed \in [Threads -> {<<>>} \cup (Places \X Sites)]

Rewriting(t) == thread[t].pc \in {"restoring", "patching"}
Restoring(s) == \E t \in Threads : thread[t].pc = "restoring" /\ thread[t].site = s

\* Only who rewrites a site holds the lock, and a site that nobody rewrites is whole.
LockOK == \A t \in Threads : Rewriting(t) <=> PatchMutex = t

RewriteOK(t) ==
    /\ Rewriting(t) => g_enabled /\ code[thread[t].site] = StubRoom + 1
    /\ thread[t].pc = "restoring" => patches[thread[t].site].stub # 0
    /\ thread[t].pc = "patching" => /\ patches[thread[t].site].stub = 0 /\ thread[t].site \notin blacklist
                                    /\ Len(stubs) # 0 /\ stubs[Len(stubs)] = thread[t].site

SiteOK(s) ==
    /\ (\A t \in Threads : Rewriting(t) => thread[t].site # s) => code[s] = patches[s].stub
    /\ s \in blacklist => patches[s].stub = 0
    /\ patches[s].stub # 0 => patches[s].stub \in 1 .. Len(stubs) /\ stubs[patches[s].stub] = s
    /\ patches[s].stub = 0 => \A t \in Threads : patches[s].retries[t] = 0

StubsOK == g_enabled \/ stubs = <<>>

\* A thread in a stub is in that of its site, and one whose stub faulted cannot reach its block.
InStubOK(t) ==
    /\ thread[t].pc \in {"stub", "stub fault"} =>
        thread[t].stub \in 1 .. Len(stubs) /\ stubs[thread[t].stub] = thread[t].site
    /\ thread[t].pc = "stub fault" => Tls!StubPointer(t) \notin readable

\* The three places agree on the block of a thread.
PointerOK(t) ==
    /\ t_tls_base[t] = g_threads[t]
    /\ g_enabled => Tls!Fallback(slot[t]) = Tls!Fallback(g_threads[t])

\* A thread that faulted at a site has a retry left, unless the site is being restored;
\* one that missed the patch finds it at the last chance, or the site was restored.
FaultOK(t) ==
    /\ thread[t].pc \in {"fault", "decode", "missed"} =>
        patches[thread[t].site].retries[t] = 0 \/ Restoring(thread[t].site)
    /\ thread[t].pc = "missed" => patches[thread[t].site].stub # 0 \/ thread[t].site \in blacklist

CrashOK(t) ==
    g_enabled /\ thread[t].pc = "crashed" => Tls!BlockOf(t) \notin readable \/ thread[t].site \in blacklist

LandedOK(t) ==
    thread[t].pc \in {"guest", "emulated", "patching"} /\ landed[t] # <<>>
        => landed[t] = <<Tls!BlockOf(t), thread[t].site>>

ThreadOK(t) == RewriteOK(t) /\ InStubOK(t) /\ PointerOK(t) /\ FaultOK(t) /\ CrashOK(t) /\ LandedOK(t)

TlsInv ==
    /\ TlsTyped /\ LockOK /\ StubsOK
    /\ \A s \in Sites : SiteOK(s)
    /\ \A t \in Threads : ThreadOK(t)

LEMMA TlsInitInv == Tls!Init => TlsInv
<1> SUFFICES ASSUME Tls!Init PROVE TlsInv
    OBVIOUS
<1> USE GuestResourcesAssumption
<1>1. TlsTyped
    <2>1. (CHOOSE s \in Sites : TRUE) \in Sites
        OBVIOUS
    <2>2. thread \in [Threads -> [pc : TlsPcs, site : Sites, stub : 0 .. StubRoom]]
        BY <2>1 DEF Tls!Init, TlsPcs
    <2>3. code \in [Sites -> 0 .. StubRoom + 1]
        BY DEF Tls!Init, Tls!Original
    <2>4. patches \in [Sites -> [stub : 0 .. StubRoom, retries : [Threads -> Nat]]]
        BY DEF Tls!Init, Tls!NoPatch
    <2>5. stubs \in Seq(Sites) /\ Len(stubs) <= StubRoom
        BY DEF Tls!Init
    <2> QED
        BY <2>2, <2>3, <2>4, <2>5 DEF Tls!Init, TlsTyped, Places
<1>2. /\ \A t \in Threads : thread[t].pc = "outside" /\ landed[t] = <<>>
                            /\ slot[t] = Nobody /\ t_tls_base[t] = Nobody /\ g_threads[t] = Nobody
      /\ \A s \in Sites : code[s] = 0 /\ patches[s].stub = 0 /\ \A t \in Threads : patches[s].retries[t] = 0
      /\ blacklist = {} /\ stubs = <<>> /\ PatchMutex = Nobody
    BY DEF Tls!Init, Tls!Original, Tls!NoPatch
<1> QED
    BY <1>1, <1>2 DEF TlsInv, LockOK, StubsOK, SiteOK, ThreadOK, RewriteOK, Rewriting, InStubOK, PointerOK,
                      FaultOK, CrashOK, LandedOK

LEMMA TlsIdleInv == Tls!Idle => TlsInv
    BY TlsInitInv DEF Tls!Idle

\* While the lock is free no site is being rewritten, and every site is whole.
LEMMA FreeIsWhole ==
    ASSUME TlsInv, Tls!Free
    PROVE  /\ \A t \in Threads : ~ Rewriting(t)
           /\ \A s \in Sites : ~ Restoring(s) /\ code[s] = patches[s].stub /\ code[s] # StubRoom + 1
<1>1. \A t \in Threads : ~ Rewriting(t)
    BY GuestResourcesAssumption DEF TlsInv, LockOK, Tls!Free
<1>2. \A s \in Sites : code[s] = patches[s].stub
    BY <1>1 DEF TlsInv, SiteOK
<1>3. \A s \in Sites : patches[s].stub \in 0 .. StubRoom
    BY DEF TlsInv, TlsTyped
<1>4. \A s \in Sites : code[s] # StubRoom + 1
    BY <1>2, <1>3, GuestResourcesAssumption
<1> QED
    BY <1>1, <1>2, <1>4 DEF Restoring, Rewriting

\* What a step of one thread that neither touches the patches nor the places leaves true
\* of every site and of the other threads.
Aside(t) ==
    /\ thread' = [thread EXCEPT ![t] = thread'[t]] /\ thread'[t] \in [pc : TlsPcs, site : Sites, stub : 0 .. StubRoom]
    /\ ~ Rewriting(t) /\ thread'[t].pc \notin {"restoring", "patching"}
    /\ landed' = [landed EXCEPT ![t] = landed'[t]] /\ landed'[t] \in {<<>>} \cup (Places \X Sites)
    /\ UNCHANGED <<g_enabled, code, patches, blacklist, stubs, PatchMutex, slot, t_tls_base, g_threads, readable>>

LEMMA AsideKeeps ==
    ASSUME NEW t \in Threads, TlsInv, Aside(t)
    PROVE  /\ TlsTyped' /\ LockOK' /\ StubsOK' /\ \A s \in Sites : SiteOK(s)'
           /\ \A u \in Threads \ {t} : ThreadOK(u)'
           /\ RewriteOK(t)' /\ PointerOK(t)'
           /\ \A s \in Sites : Restoring(s)' <=> Restoring(s)
<1>1. TlsTyped'
    BY DEF TlsInv, TlsTyped, Aside
<1>2. \A u \in Threads : Rewriting(u)' <=> Rewriting(u)
    BY DEF TlsInv, TlsTyped, Aside, Rewriting
<1>3. \A u \in Threads \ {t} : thread'[u] = thread[u] /\ landed'[u] = landed[u]
    BY DEF TlsInv, TlsTyped, Aside
<1>4. LockOK' /\ StubsOK'
    BY <1>2 DEF TlsInv, LockOK, StubsOK, Aside
<1>5. \A s \in Sites : SiteOK(s)'
    BY <1>2, <1>3 DEF TlsInv, SiteOK, Aside
<1>6. \A s \in Sites : Restoring(s)' <=> Restoring(s)
    BY <1>3 DEF Restoring, Rewriting, Aside
<1>7. RewriteOK(t)' /\ PointerOK(t)'
    BY DEF TlsInv, ThreadOK, RewriteOK, PointerOK, Rewriting, Tls!Fallback, Aside
<1>8. ASSUME NEW u \in Threads \ {t} PROVE ThreadOK(u)'
    <2>1. ThreadOK(u) /\ thread'[u] = thread[u] /\ landed'[u] = landed[u] /\ thread[u].site \in Sites
        BY <1>3 DEF TlsInv, TlsTyped
    <2>2. RewriteOK(u)' /\ PointerOK(u)'
        BY <2>1 DEF ThreadOK, RewriteOK, PointerOK, Rewriting, Tls!Fallback, Aside
    <2>3. InStubOK(u)' /\ CrashOK(u)' /\ LandedOK(u)'
        BY <2>1 DEF ThreadOK, InStubOK, CrashOK, LandedOK, Tls!StubPointer, Tls!BlockOf,
                    Tls!ResolveGuestThreadPointer, Tls!Fallback, Aside
    <2>4. FaultOK(u)'
        BY <1>6, <2>1 DEF ThreadOK, FaultOK, Aside
    <2> QED
        BY <2>2, <2>3, <2>4 DEF ThreadOK
<1> QED
    BY <1>1, <1>4, <1>5, <1>6, <1>7, <1>8

LEMMA FetchKeepsTlsInv ==
    ASSUME NEW t \in Threads, TlsInv, Tls!Fetch(t) PROVE TlsInv'
<1> USE GuestResourcesAssumption
<1>1. PICK s \in Sites : thread[t].pc \in {"guest", "at"} /\ Tls!FetchSite(t, s)
    BY DEF Tls!Fetch, Tls!At, Tls!Site, TlsInv, TlsTyped
<1>2. CASE code[s] \in 1 .. StubRoom
    <2> DEFINE c == [pc |-> "stub", site |-> s, stub |-> code[s]]
    <2>1. thread' = [thread EXCEPT ![t] = c]
        BY <1>1, <1>2 DEF Tls!FetchSite
    <2>2. c \in [pc : TlsPcs, site : Sites, stub : 0 .. StubRoom]
        BY <1>2 DEF TlsPcs
    <2>9. /\ thread'[t] = c /\ landed' = landed /\ landed \in [Threads -> {<<>>} \cup (Places \X Sites)]
          /\ UNCHANGED <<g_enabled, code, patches, blacklist, stubs, PatchMutex, slot, t_tls_base, g_threads, readable>>
        BY <1>1, <2>1 DEF Tls!FetchSite, Tls!patchVars, Tls!threadVars, TlsInv, TlsTyped
    <2>10. c.pc = "stub"
        OBVIOUS
    <2>3. Aside(t)
        <3>1. thread' = [thread EXCEPT ![t] = thread'[t]]
            BY <2>1, <2>9
        <3>2. landed' = [landed EXCEPT ![t] = landed'[t]] /\ landed'[t] \in {<<>>} \cup (Places \X Sites)
            BY <2>9
        <3>3. ~ Rewriting(t) /\ thread'[t].pc \notin {"restoring", "patching"}
            BY <1>1, <2>9, <2>10 DEF Rewriting
        <3> QED
            BY <2>2, <2>9, <3>1, <3>2, <3>3 DEF Aside
    <2>4. /\ code[s] = patches[s].stub /\ patches[s].stub # 0
          /\ patches[s].stub \in 1 .. Len(stubs) /\ stubs[patches[s].stub] = s
        <3>1. ASSUME NEW u \in Threads, Rewriting(u) PROVE thread[u].site # s
            BY <1>2, <3>1 DEF TlsInv, ThreadOK, RewriteOK
        <3> QED
            BY <1>2, <3>1 DEF TlsInv, SiteOK
    <2>5. InStubOK(t)' /\ FaultOK(t)' /\ CrashOK(t)' /\ LandedOK(t)'
        BY <2>1, <2>3, <2>4 DEF InStubOK, FaultOK, CrashOK, LandedOK, Aside, TlsInv, TlsTyped
    <2> QED
        BY <2>3, <2>5, AsideKeeps DEF TlsInv, ThreadOK
<1>3. CASE code[s] \notin 1 .. StubRoom
    <2> DEFINE c == [pc |-> "fault", site |-> s, stub |-> 0]
    <2>1. thread' = [thread EXCEPT ![t] = c]
        BY <1>1, <1>3 DEF Tls!FetchSite
    <2>2. c \in [pc : TlsPcs, site : Sites, stub : 0 .. StubRoom]
        BY DEF TlsPcs
    <2>9. /\ thread'[t] = c /\ landed' = landed /\ landed \in [Threads -> {<<>>} \cup (Places \X Sites)]
          /\ UNCHANGED <<g_enabled, code, patches, blacklist, stubs, PatchMutex, slot, t_tls_base, g_threads, readable>>
        BY <1>1, <2>1 DEF Tls!FetchSite, Tls!patchVars, Tls!threadVars, TlsInv, TlsTyped
    <2>3. Aside(t)
        <3>1. thread' = [thread EXCEPT ![t] = thread'[t]]
            BY <2>1, <2>9
        <3>2. landed' = [landed EXCEPT ![t] = landed'[t]] /\ landed'[t] \in {<<>>} \cup (Places \X Sites)
            BY <2>9
        <3>3. ~ Rewriting(t) /\ thread'[t].pc \notin {"restoring", "patching"}
            BY <1>1, <2>9 DEF Rewriting
        <3> QED
            BY <2>2, <2>9, <3>1, <3>2, <3>3 DEF Aside
    <2>4. patches[s].retries[t] = 0 \/ Restoring(s)
        <3>1. CASE \E u \in Threads : Rewriting(u) /\ thread[u].site = s
            BY <3>1 DEF TlsInv, ThreadOK, RewriteOK, SiteOK, Rewriting, Restoring
        <3>2. CASE \A u \in Threads : Rewriting(u) => thread[u].site # s
            <4>1. patches[s].stub = code[s] /\ patches[s].stub \in 0 .. StubRoom
                BY <3>2 DEF TlsInv, TlsTyped, SiteOK
            <4>2. patches[s].stub = 0
                BY <1>3, <4>1
            <4> QED
                BY <4>2 DEF TlsInv, SiteOK
        <3> QED
            BY <3>1, <3>2
    <2>5. thread'[t].pc = "fault" /\ thread'[t].site = s
        BY <2>1 DEF TlsInv, TlsTyped
    <2>6. FaultOK(t)'
        BY <2>3, <2>4, <2>5, AsideKeeps DEF FaultOK, Aside
    <2>7. InStubOK(t)' /\ CrashOK(t)' /\ LandedOK(t)'
        BY <2>5 DEF InStubOK, CrashOK, LandedOK
    <2> QED
        BY <2>3, <2>6, <2>7, AsideKeeps DEF TlsInv, ThreadOK
<1> QED
    BY <1>2, <1>3

\* The thread's block: where each of the two accesses finds it.
LEMMA PointersAreOwn ==
    ASSUME NEW t \in Threads, TlsInv
    PROVE  /\ Tls!EmulatedPointer(t) = Tls!BlockOf(t)
           /\ g_enabled => Tls!StubPointer(t) = Tls!BlockOf(t)
           /\ Tls!BlockOf(t) \in Places
    BY DEF TlsInv, TlsTyped, ThreadOK, PointerOK, Tls!EmulatedPointer, Tls!StubPointer, Tls!BlockOf,
           Tls!ResolveGuestThreadPointer, Tls!Fallback, Places

LEMMA OutOfStub ==
    ASSUME NEW r \in [pc : TlsPcs, site : Sites, stub : 0 .. StubRoom]
    PROVE  LET c == [r EXCEPT !.pc = "guest", !.stub = 0] IN
           c \in [pc : TlsPcs, site : Sites, stub : 0 .. StubRoom] /\ c.pc = "guest" /\ c.site = r.site
<1>1. StubRoom \in Nat
    BY GuestResourcesAssumption
<1>2. 0 \in 0 .. StubRoom
    BY <1>1
<1>3. "guest" \in TlsPcs
    BY DEF TlsPcs
<1> QED
    BY <1>2, <1>3

LEMMA RunStubKeepsTlsInv ==
    ASSUME NEW t \in Threads, TlsInv, Tls!RunStub(t) PROVE TlsInv'
<1> DEFINE b == Tls!StubPointer(t)
           k == thread[t].stub
           s == thread[t].site
<1>0. /\ thread[t].pc = "stub" /\ k \in 1 .. Len(stubs) /\ stubs[k] = s /\ s \in Sites
      /\ g_enabled /\ b = Tls!BlockOf(t) /\ b \in Places
      /\ thread[t] \in [pc : TlsPcs, site : Sites, stub : 0 .. StubRoom]
    <2>1. thread[t].pc = "stub" /\ k \in 1 .. Len(stubs) /\ stubs[k] = s /\ s \in Sites
          /\ thread[t] \in [pc : TlsPcs, site : Sites, stub : 0 .. StubRoom]
        BY DEF Tls!RunStub, Tls!At, TlsInv, TlsTyped, ThreadOK, InStubOK
    <2>2. g_enabled
        BY <2>1 DEF TlsInv, StubsOK
    <2> QED
        BY <2>1, <2>2, PointersAreOwn
<1>1. CASE b \in readable
    <2> DEFINE c == [thread[t] EXCEPT !.pc = "guest", !.stub = 0]
    <2>1. /\ thread' = [thread EXCEPT ![t] = c] /\ landed' = [landed EXCEPT ![t] = <<b, s>>]
        BY <1>0, <1>1 DEF Tls!RunStub
    <2>2. c \in [pc : TlsPcs, site : Sites, stub : 0 .. StubRoom] /\ c.pc = "guest" /\ c.site = s
        BY <1>0, OutOfStub
    <2>3. Aside(t)
        BY <1>0, <2>1, <2>2 DEF Aside, Rewriting, Tls!RunStub, Tls!patchVars, Tls!threadVars, TlsInv, TlsTyped
    <2>4. thread'[t] = c /\ landed'[t] = <<b, s>> /\ Tls!BlockOf(t)' = Tls!BlockOf(t)
        BY <2>1, <2>3 DEF TlsInv, TlsTyped, Aside, Tls!BlockOf, Tls!Fallback
    <2>5. InStubOK(t)' /\ FaultOK(t)' /\ CrashOK(t)' /\ LandedOK(t)'
        BY <1>0, <2>2, <2>4 DEF InStubOK, FaultOK, CrashOK, LandedOK
    <2> QED
        BY <2>3, <2>5, AsideKeeps DEF TlsInv, ThreadOK
<1>2. CASE b \notin readable
    <2> DEFINE c == [thread[t] EXCEPT !.pc = "stub fault"]
    <2>1. thread' = [thread EXCEPT ![t] = c] /\ landed' = landed
        BY <1>2 DEF Tls!RunStub, Tls!Goto
    <2>2. c \in [pc : TlsPcs, site : Sites, stub : 0 .. StubRoom] /\ c.pc = "stub fault" /\ c.site = s /\ c.stub = k
        BY <1>0 DEF TlsPcs
    <2>3. Aside(t)
        BY <1>0, <2>1, <2>2 DEF Aside, Rewriting, Tls!RunStub, Tls!patchVars, Tls!threadVars, TlsInv, TlsTyped
    <2>4. thread'[t] = c /\ Tls!StubPointer(t)' = b /\ stubs' = stubs /\ readable' = readable
        BY <2>1, <2>3 DEF TlsInv, TlsTyped, Aside, Tls!StubPointer, Tls!Fallback
    <2>5. InStubOK(t)' /\ FaultOK(t)' /\ CrashOK(t)' /\ LandedOK(t)'
        BY <1>0, <1>2, <2>2, <2>4 DEF InStubOK, FaultOK, CrashOK, LandedOK
    <2> QED
        BY <2>3, <2>5, AsideKeeps DEF TlsInv, ThreadOK
<1> QED
    BY <1>1, <1>2

LEMMA LeaveKeepsTlsInv ==
    ASSUME NEW t \in Threads, TlsInv, Tls!Leave(t) PROVE TlsInv'
<1> DEFINE c == [thread[t] EXCEPT !.pc = "outside"]
<1>1. thread[t].pc = "guest" /\ thread' = [thread EXCEPT ![t] = c]
    BY DEF Tls!Leave, Tls!At, Tls!Goto
<1>2. c \in [pc : TlsPcs, site : Sites, stub : 0 .. StubRoom] /\ c.pc = "outside"
    BY DEF TlsInv, TlsTyped, TlsPcs
<1>3. Aside(t)
    BY <1>1, <1>2 DEF Aside, Rewriting, Tls!Leave, Tls!patchVars, Tls!threadVars, TlsInv, TlsTyped
<1>4. thread'[t].pc = "outside"
    BY <1>1, <1>2 DEF TlsInv, TlsTyped
<1>5. InStubOK(t)' /\ FaultOK(t)' /\ CrashOK(t)' /\ LandedOK(t)'
    BY <1>4 DEF InStubOK, FaultOK, CrashOK, LandedOK
<1> QED
    BY <1>3, <1>5, AsideKeeps DEF TlsInv, ThreadOK

LEMMA DecodeKeepsTlsInv ==
    ASSUME NEW t \in Threads, TlsInv, Tls!Decode(t) PROVE TlsInv'
<1> DEFINE s == thread[t].site
           b == Tls!EmulatedPointer(t)
<1>0. /\ thread[t].pc = "decode" /\ s \in Sites /\ Tls!Free
      /\ thread[t] \in [pc : TlsPcs, site : Sites, stub : 0 .. StubRoom]
      /\ UNCHANGED <<g_enabled, code, patches, blacklist, stubs, PatchMutex, slot, t_tls_base, g_threads, readable>>
    BY DEF Tls!Decode, Tls!At, Tls!ReadInstruction, Tls!patchVars, Tls!threadVars, TlsInv, TlsTyped
<1>1. code[s] = patches[s].stub /\ code[s] # StubRoom + 1
    BY <1>0, FreeIsWhole
<1>2. PICK p \in {"emulated", "missed", "crashed"} :
        /\ thread' = [thread EXCEPT ![t] = [thread[t] EXCEPT !.pc = p]]
        /\ p = "emulated" => landed' = [landed EXCEPT ![t] = <<b, s>>]
        /\ p # "emulated" => landed' = landed
        /\ p = "missed" => code[s] # 0
        /\ p = "crashed" => b \notin readable
    BY <1>1 DEF Tls!Decode, Tls!Emulate, Tls!Crash, Tls!Goto, Tls!Site, Tls!Torn
<1>3. b = Tls!BlockOf(t) /\ b \in Places
    BY PointersAreOwn
<1> DEFINE c == [thread[t] EXCEPT !.pc = p]
<1>4. c \in [pc : TlsPcs, site : Sites, stub : 0 .. StubRoom] /\ c.pc = p /\ c.site = s
    BY <1>0 DEF TlsPcs
<1>5. thread'[t] = c /\ (p = "emulated" => landed'[t] = <<b, s>>)
    BY <1>2 DEF TlsInv, TlsTyped
<1>6. Aside(t)
    BY <1>0, <1>2, <1>3, <1>4, <1>5 DEF Aside, Rewriting, TlsInv, TlsTyped
<1>7. Tls!BlockOf(t)' = b
    BY <1>0, <1>3 DEF Tls!BlockOf, Tls!Fallback
<1>8. patches[s].retries[t] = 0 \/ Restoring(s)
    BY <1>0 DEF TlsInv, ThreadOK, FaultOK
<1>9. InStubOK(t)' /\ CrashOK(t)' /\ LandedOK(t)'
    BY <1>0, <1>2, <1>4, <1>5, <1>7 DEF InStubOK, CrashOK, LandedOK
<1>10. FaultOK(t)'
    BY <1>0, <1>1, <1>2, <1>4, <1>5, <1>6, <1>8, AsideKeeps DEF FaultOK
<1> QED
    BY <1>6, <1>9, <1>10, AsideKeeps DEF TlsInv, ThreadOK

\* A thread moves and one site and its record change under the lock: what the other
\* threads need of it.
LEMMA OthersKept ==
    ASSUME NEW t \in Threads, NEW u \in Threads, u # t, ThreadOK(u), thread[u].site \in Sites,
           thread'[u] = thread[u], landed'[u] = landed[u],
           slot'[u] = slot[u], t_tls_base'[u] = t_tls_base[u], g_threads'[u] = g_threads[u],
           UNCHANGED <<g_enabled, readable>>,
           blacklist \subseteq blacklist',
           \A i \in 1 .. Len(stubs) : i \in 1 .. Len(stubs') /\ stubs'[i] = stubs[i]
    PROVE  PointerOK(u)' /\ InStubOK(u)' /\ CrashOK(u)' /\ LandedOK(u)'
    BY DEF ThreadOK, PointerOK, InStubOK, CrashOK, LandedOK, Tls!StubPointer, Tls!BlockOf,
           Tls!ResolveGuestThreadPointer, Tls!Fallback

\* A thread registers and binds before it runs guest code.
LEMMA EnterKeepsTlsInv ==
    ASSUME NEW t \in Threads, TlsInv, Tls!Enter(t) PROVE TlsInv'
<1> DEFINE c == [thread[t] EXCEPT !.pc = "guest"]
<1>1. /\ thread[t].pc = "outside" /\ thread' = [thread EXCEPT ![t] = c]
      /\ landed' = [landed EXCEPT ![t] = <<>>]
      /\ UNCHANGED <<g_enabled, code, patches, blacklist, stubs, PatchMutex, readable>>
    BY DEF Tls!Enter, Tls!At, Tls!Goto, Tls!patchVars
<1>2. c \in [pc : TlsPcs, site : Sites, stub : 0 .. StubRoom] /\ c.pc = "guest"
    BY DEF TlsInv, TlsTyped, TlsPcs
<1>3. thread'[t] = c /\ landed'[t] = <<>>
    BY <1>1 DEF TlsInv, TlsTyped
<1>4. CASE UNCHANGED <<slot, t_tls_base, g_threads>>
    <2>1. Aside(t)
        BY <1>1, <1>2, <1>3, <1>4 DEF Aside, Rewriting
    <2>2. InStubOK(t)' /\ FaultOK(t)' /\ CrashOK(t)' /\ LandedOK(t)'
        BY <1>2, <1>3 DEF InStubOK, FaultOK, CrashOK, LandedOK
    <2> QED
        BY <2>1, <2>2, AsideKeeps DEF TlsInv, ThreadOK
<1>5. ASSUME NEW own \in {t, Nobody},
             g_threads' = [g_threads EXCEPT ![t] = own],
             t_tls_base' = [t_tls_base EXCEPT ![t] = own],
             Tls!BindCurrentThread(t, own)
      PROVE  TlsInv'
    <2>1. slot' = IF g_enabled THEN [slot EXCEPT ![t] = Tls!Fallback(own)] ELSE slot
        BY <1>5 DEF Tls!BindCurrentThread
    <2>2. Tls!Fallback(own) \in Places /\ own \in Places
        BY DEF Places, Tls!Fallback
    <2>3. TlsTyped'
        BY <1>1, <1>2, <1>5, <2>1, <2>2 DEF TlsInv, TlsTyped
    <2>4. ASSUME NEW u \in Threads, u # t
          PROVE  /\ thread'[u] = thread[u] /\ landed'[u] = landed[u] /\ slot'[u] = slot[u]
                 /\ t_tls_base'[u] = t_tls_base[u] /\ g_threads'[u] = g_threads[u]
        BY <1>1, <1>5, <2>1, <2>4 DEF TlsInv, TlsTyped
    <2>5. \A u \in Threads : Rewriting(u)' <=> Rewriting(u)
        BY <1>1, <1>2, <1>3, <2>4 DEF Rewriting
    <2>6. LockOK' /\ StubsOK' /\ \A s \in Sites : SiteOK(s)' /\ (Restoring(s)' <=> Restoring(s))
        <3>1. LockOK' /\ StubsOK'
            BY <1>1, <2>5 DEF TlsInv, LockOK, StubsOK
        <3>2. ASSUME NEW u \in Threads, Rewriting(u) PROVE thread'[u] = thread[u]
            BY <1>1, <2>4, <3>2 DEF Rewriting
        <3>3. \A s \in Sites : SiteOK(s)'
            BY <1>1, <2>5, <3>2 DEF TlsInv, SiteOK
        <3>4. \A s \in Sites : Restoring(s)' <=> Restoring(s)
            BY <1>1, <1>2, <1>3, <2>4 DEF Restoring
        <3> QED
            BY <3>1, <3>3, <3>4
    <2>7. ASSUME NEW u \in Threads, u # t PROVE ThreadOK(u)'
        <3>1. ThreadOK(u) /\ thread[u].site \in Sites
            BY DEF TlsInv, TlsTyped
        <3>2. PointerOK(u)' /\ InStubOK(u)' /\ CrashOK(u)' /\ LandedOK(u)'
            BY <1>1, <2>4, <2>7, <3>1, OthersKept
        <3>3. FaultOK(u)'
            BY <1>1, <2>4, <2>6, <2>7, <3>1 DEF ThreadOK, FaultOK
        <3>4. RewriteOK(u)'
            BY <1>1, <2>4, <2>7, <3>1 DEF ThreadOK, RewriteOK, Rewriting
        <3> QED
            BY <3>2, <3>3, <3>4 DEF ThreadOK
    <2>8. ThreadOK(t)'
        <3>1. g_threads'[t] = own /\ t_tls_base'[t] = own
            BY <1>5 DEF TlsInv, TlsTyped
        <3>2. g_enabled => slot'[t] = Tls!Fallback(own)
            BY <2>1 DEF TlsInv, TlsTyped
        <3>3. PointerOK(t)'
            BY <1>1, <3>1, <3>2 DEF PointerOK, Tls!Fallback
        <3> QED
            BY <1>2, <1>3, <3>3 DEF ThreadOK, RewriteOK, Rewriting, InStubOK, FaultOK, CrashOK, LandedOK
    <2> QED
        BY <2>3, <2>6, <2>7, <2>8 DEF TlsInv
<1> QED
    BY <1>4, <1>5 DEF Tls!Enter, Tls!threadVars

\* The retries of a site: counted when its record is there.
LEMMA RetryKeepsTlsInv ==
    ASSUME NEW t \in Threads, TlsInv, Tls!RetryBeforeDecoding(t) \/ Tls!LastChance(t) PROVE TlsInv'
<1> DEFINE s == thread[t].site
           before == thread[t].pc
<1>0. /\ before \in {"fault", "missed"} /\ s \in Sites /\ Tls!Free
      /\ thread[t] \in [pc : TlsPcs, site : Sites, stub : 0 .. StubRoom]
      /\ UNCHANGED <<g_enabled, code, blacklist, stubs, PatchMutex, slot, t_tls_base, g_threads, readable, landed>>
      /\ Tls!Retry(t, IF before = "fault" THEN "decode" ELSE "crashed")
    BY DEF Tls!RetryBeforeDecoding, Tls!LastChance, Tls!At, Tls!threadVars, TlsInv, TlsTyped
<1>1. /\ \A u \in Threads : ~ Rewriting(u)
      /\ \A q \in Sites : ~ Restoring(q) /\ code[q] = patches[q].stub
    BY <1>0, FreeIsWhole
<1>2. patches[s].retries[t] = 0 /\ patches[s].stub \in 0 .. StubRoom
    BY <1>0, <1>1 DEF TlsInv, TlsTyped, ThreadOK, FaultOK
<1>3. Tls!ShouldRetry(t) <=> patches[s].stub # 0
    BY <1>2, GuestResourcesAssumption DEF Tls!ShouldRetry, Tls!RetriesLeft, Tls!Site
<1>4. CASE patches[s].stub # 0
    <2> DEFINE c == [thread[t] EXCEPT !.pc = "at"]
               r == [patches[s] EXCEPT !.retries = [@ EXCEPT ![t] = 1]]
    <2>1. thread' = [thread EXCEPT ![t] = c] /\ patches' = [patches EXCEPT ![s] = r]
        BY <1>0, <1>2, <1>3, <1>4 DEF Tls!Retry, Tls!Goto, Tls!Site
    <2>2. c \in [pc : TlsPcs, site : Sites, stub : 0 .. StubRoom] /\ c.pc = "at"
        BY <1>0 DEF TlsPcs
    <2>3. /\ r \in [stub : 0 .. StubRoom, retries : [Threads -> Nat]] /\ r.stub = patches[s].stub
          /\ \A u \in Threads \ {t} : r.retries[u] = patches[s].retries[u]
        <3>1. patches[s] \in [stub : 0 .. StubRoom, retries : [Threads -> Nat]]
            BY <1>0 DEF TlsInv, TlsTyped
        <3> QED
            BY <3>1
    <2>4. TlsTyped'
        BY <1>0, <2>1, <2>2, <2>3 DEF TlsInv, TlsTyped
    <2>5. /\ thread'[t] = c /\ \A u \in Threads \ {t} : thread'[u] = thread[u]
          /\ patches'[s] = r /\ \A q \in Sites \ {s} : patches'[q] = patches[q]
        BY <1>0, <2>1 DEF TlsInv, TlsTyped
    <2> HIDE DEF c, r
    <2>6. \A u \in Threads : ~ Rewriting(u)'
        BY <1>1, <2>2, <2>5 DEF Rewriting
    <2>7. LockOK' /\ StubsOK'
        BY <1>0, <1>1, <2>6 DEF TlsInv, LockOK, StubsOK
    <2>8. ASSUME NEW q \in Sites PROVE SiteOK(q)'
        <3>1. SiteOK(q) /\ patches'[q].stub = patches[q].stub /\ (q # s => patches'[q] = patches[q])
            BY <2>3, <2>5 DEF TlsInv
        <3> QED
            BY <1>0, <1>1, <1>4, <3>1 DEF SiteOK
    <2>9. ASSUME NEW u \in Threads \ {t} PROVE ThreadOK(u)'
        <3>1. ThreadOK(u) /\ thread[u].site \in Sites
            BY DEF TlsInv, TlsTyped
        <3>2. PointerOK(u)' /\ InStubOK(u)' /\ CrashOK(u)' /\ LandedOK(u)'
            BY <1>0, <2>5, <3>1, OthersKept
        <3>3. RewriteOK(u)'
            BY <2>6 DEF RewriteOK, Rewriting
        <3>4. patches'[thread[u].site].retries[u] = patches[thread[u].site].retries[u]
              /\ patches'[thread[u].site].stub = patches[thread[u].site].stub
            BY <2>3, <2>5, <3>1
        <3>5. FaultOK(u)'
            BY <1>0, <1>1, <2>5, <3>1, <3>4 DEF ThreadOK, FaultOK
        <3> QED
            BY <3>2, <3>3, <3>5 DEF ThreadOK
    <2>10. ThreadOK(t)'
        <3>1. PointerOK(t)'
            BY <1>0 DEF TlsInv, ThreadOK, PointerOK, Tls!Fallback
        <3> QED
            BY <2>2, <2>5, <3>1 DEF ThreadOK, RewriteOK, Rewriting, InStubOK, FaultOK, CrashOK, LandedOK
    <2> QED
        BY <2>4, <2>7, <2>8, <2>9, <2>10 DEF TlsInv
<1>5. CASE patches[s].stub = 0
    <2> DEFINE p == IF before = "fault" THEN "decode" ELSE "crashed"
               c == [thread[t] EXCEPT !.pc = p]
    <2>1. thread' = [thread EXCEPT ![t] = c] /\ patches' = patches
        BY <1>0, <1>3, <1>5 DEF Tls!Retry, Tls!Goto
    <2>2. c \in [pc : TlsPcs, site : Sites, stub : 0 .. StubRoom] /\ c.pc = p /\ c.site = s
        BY <1>0 DEF TlsPcs
    <2>3. thread'[t] = c
        BY <2>1 DEF TlsInv, TlsTyped
    <2>4. Aside(t)
        <3>1. thread' = [thread EXCEPT ![t] = thread'[t]]
            BY <2>1, <2>3
        <3>2. landed' = [landed EXCEPT ![t] = landed'[t]] /\ landed'[t] \in {<<>>} \cup (Places \X Sites)
            BY <1>0 DEF TlsInv, TlsTyped
        <3>3. thread'[t].pc \notin {"restoring", "patching"}
            BY <2>2, <2>3
        <3> QED
            BY <1>0, <1>1, <2>1, <2>2, <2>3, <3>1, <3>2, <3>3 DEF Aside
    <2>5. before = "missed" => s \in blacklist
        BY <1>0, <1>5 DEF TlsInv, ThreadOK, FaultOK
    <2>6. InStubOK(t)' /\ CrashOK(t)' /\ LandedOK(t)'
        BY <1>0, <2>2, <2>3, <2>5 DEF InStubOK, CrashOK, LandedOK
    <2>7. FaultOK(t)'
        BY <1>2, <2>1, <2>2, <2>3 DEF FaultOK
    <2> QED
        BY <2>4, <2>6, <2>7, AsideKeeps DEF TlsInv, ThreadOK
<1> QED
    BY <1>2, <1>4, <1>5

\* A rewrite begins: a site is torn under the lock.
Tear(t, s, p) ==
    /\ Tls!Free /\ g_enabled /\ PatchMutex' = t
    /\ thread[t].pc \in {"stub fault", "emulated"}
    /\ thread' = [thread EXCEPT ![t] = thread'[t]]
    /\ thread'[t] \in [pc : TlsPcs, site : Sites, stub : 0 .. StubRoom]
    /\ thread'[t].pc = p /\ thread'[t].site = s
    /\ code' = [code EXCEPT ![s] = StubRoom + 1]
    /\ UNCHANGED <<g_enabled, patches, blacklist, slot, t_tls_base, g_threads, readable, landed>>

TearToRestore(s) == patches[s].stub # 0 /\ stubs' = stubs

TearToPatch(t, s) ==
    /\ thread[t].pc = "emulated" /\ s = thread[t].site
    /\ patches[s].stub = 0 /\ s \notin blacklist
    /\ Len(stubs) < StubRoom /\ stubs' = Append(stubs, s)

LEMMA StubAppended ==
    ASSUME NEW w \in Seq(Sites), NEW s \in Sites
    PROVE  /\ Append(w, s) \in Seq(Sites) /\ Len(Append(w, s)) = Len(w) + 1 /\ Len(w) \in Nat
           /\ Append(w, s)[Len(w) + 1] = s
           /\ \A i \in 1 .. Len(w) : i \in 1 .. Len(Append(w, s)) /\ Append(w, s)[i] = w[i]
<1>1. Append(w, s) \in Seq(Sites) /\ Len(Append(w, s)) = Len(w) + 1 /\ Len(w) \in Nat
    OBVIOUS
<1>2. Append(w, s)[Len(w) + 1] = s
    OBVIOUS
<1>3. \A i \in 1 .. Len(w) : i \in 1 .. Len(Append(w, s)) /\ Append(w, s)[i] = w[i]
    OBVIOUS
<1> QED
    BY <1>1, <1>2, <1>3

LEMMA TearTyped ==
    ASSUME NEW t \in Threads, NEW s \in Sites, NEW p \in {"restoring", "patching"}, TlsInv, Tear(t, s, p),
           p = "restoring" => TearToRestore(s), p = "patching" => TearToPatch(t, s)
    PROVE  /\ TlsTyped'
           /\ thread'[t].pc = p /\ thread'[t].site = s /\ code'[s] = StubRoom + 1
           /\ \A u \in Threads \ {t} : thread'[u] = thread[u]
           /\ \A q \in Sites \ {s} : code'[q] = code[q]
           /\ \A i \in 1 .. Len(stubs) : i \in 1 .. Len(stubs') /\ stubs'[i] = stubs[i]
           /\ p = "patching" => Len(stubs') # 0 /\ stubs'[Len(stubs')] = s
           /\ t # Nobody /\ PatchMutex = Nobody /\ PatchMutex' = t
           /\ UNCHANGED <<g_enabled, patches, blacklist, slot, t_tls_base, g_threads, readable, landed>>
           /\ g_enabled
<1>1. StubRoom \in Nat /\ t # Nobody
    BY GuestResourcesAssumption
<1>2. StubRoom + 1 \in 0 .. StubRoom + 1
    BY <1>1
<1>3. stubs \in Seq(Sites) /\ Len(stubs) <= StubRoom
    BY DEF TlsInv, TlsTyped
<1>4. /\ thread'[t] \in [pc : TlsPcs, site : Sites, stub : 0 .. StubRoom]
      /\ thread'[t].pc = p /\ thread'[t].site = s
    BY DEF Tear
<1>5. /\ stubs' \in Seq(Sites) /\ Len(stubs') <= StubRoom
      /\ \A i \in 1 .. Len(stubs) : i \in 1 .. Len(stubs') /\ stubs'[i] = stubs[i]
      /\ p = "patching" => Len(stubs') # 0 /\ stubs'[Len(stubs')] = s
    <2>1. CASE p = "restoring"
        BY <1>3, <2>1 DEF TearToRestore
    <2>2. CASE p = "patching"
        <3>1. stubs' = Append(stubs, s) /\ Len(stubs) < StubRoom
            BY <2>2 DEF TearToPatch
        <3>2. /\ stubs' \in Seq(Sites) /\ Len(stubs') = Len(stubs) + 1 /\ Len(stubs) \in Nat
              /\ stubs'[Len(stubs) + 1] = s
              /\ \A i \in 1 .. Len(stubs) : i \in 1 .. Len(stubs') /\ stubs'[i] = stubs[i]
            BY <1>3, <3>1, StubAppended
        <3>3. Len(stubs') <= StubRoom /\ Len(stubs') # 0 /\ stubs'[Len(stubs')] = s
            BY <1>1, <3>1, <3>2
        <3> QED
            BY <3>2, <3>3
    <2> QED
        BY <2>1, <2>2
<1>6. thread' = [thread EXCEPT ![t] = thread'[t]] /\ code' = [code EXCEPT ![s] = StubRoom + 1] /\ PatchMutex' = t
      /\ UNCHANGED <<g_enabled, patches, blacklist, slot, t_tls_base, g_threads, readable, landed>>
      /\ g_enabled /\ PatchMutex = Nobody
    BY DEF Tear, Tls!Free
<1>7. /\ \A u \in Threads \ {t} : thread'[u] = thread[u]
      /\ code'[s] = StubRoom + 1 /\ \A q \in Sites \ {s} : code'[q] = code[q]
    BY <1>6 DEF TlsInv, TlsTyped
<1>8. TlsTyped'
    BY <1>2, <1>4, <1>5, <1>6 DEF TlsInv, TlsTyped
<1> QED
    BY <1>1, <1>4, <1>5, <1>6, <1>7, <1>8

LEMMA TearKeepsTlsInv ==
    ASSUME NEW t \in Threads, NEW s \in Sites, NEW p \in {"restoring", "patching"}, TlsInv, Tear(t, s, p),
           p = "restoring" => TearToRestore(s), p = "patching" => TearToPatch(t, s)
    PROVE  TlsInv'
<1>1. /\ TlsTyped' /\ thread'[t].pc = p /\ thread'[t].site = s /\ code'[s] = StubRoom + 1
      /\ \A u \in Threads \ {t} : thread'[u] = thread[u]
      /\ \A q \in Sites \ {s} : code'[q] = code[q]
      /\ \A i \in 1 .. Len(stubs) : i \in 1 .. Len(stubs') /\ stubs'[i] = stubs[i]
      /\ p = "patching" => Len(stubs') # 0 /\ stubs'[Len(stubs')] = s
    BY TearTyped
<1>2. /\ t # Nobody /\ PatchMutex' = t /\ g_enabled
      /\ UNCHANGED <<g_enabled, patches, blacklist, slot, t_tls_base, g_threads, readable, landed>>
    BY TearTyped
<1>3. /\ \A u \in Threads : ~ Rewriting(u)
      /\ \A q \in Sites : ~ Restoring(q) /\ code[q] = patches[q].stub
    BY FreeIsWhole DEF Tear
<1>4. Rewriting(t)' /\ \A u \in Threads \ {t} : ~ Rewriting(u)'
    BY <1>1, <1>3 DEF Rewriting
<1>5. LockOK' /\ StubsOK'
    BY <1>2, <1>4 DEF LockOK, StubsOK
<1>6. ASSUME NEW q \in Sites PROVE SiteOK(q)'
    <2>1. SiteOK(q)
        BY DEF TlsInv
    <2>2. (\A u \in Threads : Rewriting(u)' => thread'[u].site # q) => code'[q] = patches'[q].stub
        BY <1>1, <1>2, <1>3, <1>4
    <2>3. patches'[q].stub # 0 => patches'[q].stub \in 1 .. Len(stubs') /\ stubs'[patches'[q].stub] = q
        BY <1>1, <1>2, <2>1 DEF SiteOK
    <2> QED
        BY <1>2, <2>1, <2>2, <2>3 DEF SiteOK
<1>7. ASSUME NEW u \in Threads \ {t} PROVE ThreadOK(u)'
    <2>1. ThreadOK(u) /\ thread[u].site \in Sites /\ thread'[u] = thread[u]
        BY <1>1 DEF TlsInv, TlsTyped
    <2>2. PointerOK(u)' /\ InStubOK(u)' /\ CrashOK(u)' /\ LandedOK(u)'
        BY <1>1, <1>2, <2>1, OthersKept
    <2>3. RewriteOK(u)'
        BY <1>4 DEF RewriteOK, Rewriting
    <2>4. FaultOK(u)'
        BY <1>2, <1>3, <2>1 DEF ThreadOK, FaultOK
    <2> QED
        BY <2>2, <2>3, <2>4 DEF ThreadOK
<1>8. ThreadOK(t)'
    <2>1. ThreadOK(t)
        BY DEF TlsInv
    <2>2. PointerOK(t)'
        BY <1>2, <2>1 DEF ThreadOK, PointerOK, Tls!Fallback
    <2>3. RewriteOK(t)'
        <3>1. CASE p = "restoring"
            BY <1>1, <1>2, <3>1 DEF RewriteOK, Rewriting, TearToRestore
        <3>2. CASE p = "patching"
            BY <1>1, <1>2, <3>2 DEF RewriteOK, Rewriting, TearToPatch
        <3> QED
            BY <3>1, <3>2
    <2>4. Tls!BlockOf(t)' = Tls!BlockOf(t)
        BY <1>2 DEF Tls!BlockOf, Tls!ResolveGuestThreadPointer, Tls!Fallback
    <2>5. LandedOK(t)'
        <3>1. CASE p = "restoring"
            BY <1>1, <3>1 DEF LandedOK
        <3>2. CASE p = "patching"
            BY <1>1, <1>2, <2>1, <2>4, <3>2 DEF ThreadOK, LandedOK, TearToPatch
        <3> QED
            BY <3>1, <3>2
    <2> QED
        BY <1>1, <2>2, <2>3, <2>5 DEF ThreadOK, InStubOK, FaultOK, CrashOK
<1> QED
    BY <1>1, <1>5, <1>6, <1>7, <1>8 DEF TlsInv

LEMMA MovedTo ==
    ASSUME NEW r \in [pc : TlsPcs, site : Sites, stub : 0 .. StubRoom], NEW s \in Sites, NEW p \in TlsPcs
    PROVE  LET c == [r EXCEPT !.pc = p, !.site = s] IN
           c \in [pc : TlsPcs, site : Sites, stub : 0 .. StubRoom] /\ c.pc = p /\ c.site = s
    OBVIOUS

LEMMA HandleStubFaultKeepsTlsInv ==
    ASSUME NEW t \in Threads, TlsInv, Tls!HandleStubFault(t) PROVE TlsInv'
<1>0. /\ thread[t].pc = "stub fault" /\ Tls!Free
      /\ thread[t] \in [pc : TlsPcs, site : Sites, stub : 0 .. StubRoom]
      /\ thread[t].stub \in 1 .. Len(stubs) /\ g_enabled /\ Tls!StubPointer(t) \notin readable
      /\ UNCHANGED <<g_enabled, patches, blacklist, stubs, slot, t_tls_base, g_threads, readable, landed>>
    <2>1. thread[t].pc = "stub fault" /\ Tls!Free
          /\ UNCHANGED <<g_enabled, patches, blacklist, stubs, slot, t_tls_base, g_threads, readable, landed>>
        BY DEF Tls!HandleStubFault, Tls!At, Tls!threadVars
    <2>2. /\ thread[t] \in [pc : TlsPcs, site : Sites, stub : 0 .. StubRoom]
          /\ thread[t].stub \in 1 .. Len(stubs) /\ Tls!StubPointer(t) \notin readable
        BY <2>1 DEF TlsInv, TlsTyped, ThreadOK, InStubOK
    <2>3. g_enabled
        BY <2>2 DEF TlsInv, StubsOK
    <2> QED
        BY <2>1, <2>2, <2>3
<1>1. ASSUME NEW s \in Sites, patches[s].stub = thread[t].stub,
             code' = [code EXCEPT ![s] = Tls!Torn], PatchMutex' = t,
             thread' = [thread EXCEPT ![t].pc = "restoring", ![t].site = s]
      PROVE  TlsInv'
    <2> DEFINE c == [thread[t] EXCEPT !.pc = "restoring", !.site = s]
    <2>1. c \in [pc : TlsPcs, site : Sites, stub : 0 .. StubRoom] /\ c.pc = "restoring" /\ c.site = s
        <3>1. "restoring" \in TlsPcs
            BY DEF TlsPcs
        <3> QED
            BY <1>0, <3>1, MovedTo
    <2>3. thread' = [thread EXCEPT ![t] = c]
        BY <1>1
    <2>4. thread'[t] = c
        BY <2>3 DEF TlsInv, TlsTyped
    <2>2. patches[s].stub # 0
        <3>1. patches[s].stub = thread[t].stub
            BY <1>1
        <3>2. thread[t].stub \in 1 .. Len(stubs)
            BY <1>0
        <3>3. Len(stubs) \in Nat
            BY DEF TlsInv, TlsTyped
        <3>4. thread[t].stub # 0
            BY <3>2, <3>3
        <3> QED
            BY <3>1, <3>4
    <2> QED
        BY <1>0, <1>1, <2>1, <2>2, <2>3, <2>4, TearKeepsTlsInv DEF Tls!Torn, Tear, TearToRestore
<1>2. ASSUME Tls!Crash(t), UNCHANGED <<code, PatchMutex>> PROVE TlsInv'
    <2> DEFINE c == [thread[t] EXCEPT !.pc = "crashed"]
    <2>1. thread' = [thread EXCEPT ![t] = c]
        BY <1>2 DEF Tls!Crash, Tls!Goto
    <2>2. c \in [pc : TlsPcs, site : Sites, stub : 0 .. StubRoom] /\ c.pc = "crashed"
        BY <1>0 DEF TlsPcs
    <2>3. thread'[t] = c
        BY <2>1 DEF TlsInv, TlsTyped
    <2>4. Aside(t)
        BY <1>0, <1>2, <2>1, <2>2, <2>3 DEF Aside, Rewriting, TlsInv, TlsTyped
    <2>5. Tls!BlockOf(t)' \notin readable'
        <3>1. Tls!BlockOf(t) \notin readable
            BY <1>0, PointersAreOwn
        <3> QED
            BY <1>0, <3>1 DEF Tls!BlockOf, Tls!ResolveGuestThreadPointer, Tls!Fallback
    <2>6. InStubOK(t)' /\ FaultOK(t)' /\ CrashOK(t)' /\ LandedOK(t)'
        BY <2>2, <2>3, <2>5 DEF InStubOK, FaultOK, CrashOK, LandedOK
    <2> QED
        BY <2>4, <2>6, AsideKeeps DEF TlsInv, ThreadOK
<1> QED
    BY <1>1, <1>2 DEF Tls!HandleStubFault

LEMMA TryPatchKeepsTlsInv ==
    ASSUME NEW t \in Threads, TlsInv, Tls!TryPatchSite(t) PROVE TlsInv'
<1> DEFINE s == thread[t].site
<1>0. /\ thread[t].pc = "emulated" /\ s \in Sites
      /\ thread[t] \in [pc : TlsPcs, site : Sites, stub : 0 .. StubRoom]
      /\ UNCHANGED <<g_enabled, slot, t_tls_base, g_threads, readable, landed>>
    BY DEF Tls!TryPatchSite, Tls!At, Tls!threadVars, TlsInv, TlsTyped
<1>1. CASE Tls!Goto(t, "patching")
    <2>1. /\ g_enabled /\ Tls!Free /\ patches[s].stub = 0 /\ s \notin blacklist /\ Len(stubs) < StubRoom
          /\ stubs' = Append(stubs, s) /\ code' = [code EXCEPT ![s] = StubRoom + 1]
          /\ PatchMutex' = t /\ UNCHANGED <<patches, blacklist>>
        <3>1. thread'[t].pc = "patching"
            BY <1>1 DEF Tls!Goto, TlsInv, TlsTyped
        <3>2. ~ Tls!Goto(t, "guest")
            BY <3>1 DEF Tls!Goto, TlsInv, TlsTyped
        <3> QED
            BY <3>2 DEF Tls!TryPatchSite, Tls!Site, Tls!Torn
    <2> DEFINE c == [thread[t] EXCEPT !.pc = "patching"]
    <2>2. c \in [pc : TlsPcs, site : Sites, stub : 0 .. StubRoom] /\ c.pc = "patching" /\ c.site = s
        BY <1>0 DEF TlsPcs
    <2>3. thread' = [thread EXCEPT ![t] = c]
        BY <1>1 DEF Tls!Goto
    <2>4. thread'[t] = c
        BY <2>3 DEF TlsInv, TlsTyped
    <2> QED
        BY <1>0, <2>1, <2>2, <2>3, <2>4, TearKeepsTlsInv DEF Tear, TearToPatch
<1>2. CASE Tls!Goto(t, "guest") /\ UNCHANGED <<code, patches, blacklist, stubs, PatchMutex>>
    <2> DEFINE c == [thread[t] EXCEPT !.pc = "guest"]
    <2>1. thread' = [thread EXCEPT ![t] = c]
        BY <1>2 DEF Tls!Goto
    <2>2. c \in [pc : TlsPcs, site : Sites, stub : 0 .. StubRoom] /\ c.pc = "guest" /\ c.site = s
        BY <1>0 DEF TlsPcs
    <2>3. thread'[t] = c
        BY <2>1 DEF TlsInv, TlsTyped
    <2>4. Aside(t)
        BY <1>0, <1>2, <2>1, <2>2, <2>3 DEF Aside, Rewriting, TlsInv, TlsTyped
    <2>5. Tls!BlockOf(t)' = Tls!BlockOf(t)
        BY <1>0 DEF Tls!BlockOf, Tls!ResolveGuestThreadPointer, Tls!Fallback
    <2>6. InStubOK(t)' /\ FaultOK(t)' /\ CrashOK(t)' /\ LandedOK(t)'
        BY <1>0, <2>2, <2>3, <2>5 DEF TlsInv, ThreadOK, InStubOK, FaultOK, CrashOK, LandedOK
    <2> QED
        BY <2>4, <2>6, AsideKeeps DEF TlsInv, ThreadOK
<1> QED
    BY <1>1, <1>2 DEF Tls!TryPatchSite, Tls!patchVars


\* A rewrite ends: the site is whole again, with a new record.
Mend(t, s) ==
    /\ Rewriting(t) /\ s = thread[t].site /\ PatchMutex' = Nobody
    /\ thread' = [thread EXCEPT ![t] = thread'[t]]
    /\ thread'[t] \in [pc : TlsPcs, site : Sites, stub : 0 .. StubRoom]
    /\ thread'[t].pc \in {"at", "guest"}
    /\ patches' = [patches EXCEPT ![s] = patches'[s]]
    /\ patches'[s] \in [stub : 0 .. StubRoom, retries : [Threads -> Nat]]
    /\ \A u \in Threads : patches'[s].retries[u] = 0
    /\ code' = [code EXCEPT ![s] = patches'[s].stub]
    /\ blacklist' \in {blacklist, blacklist \cup {s}}
    /\ s \in blacklist' <=> patches'[s].stub = 0
    /\ patches'[s].stub # 0 => patches'[s].stub \in 1 .. Len(stubs) /\ stubs[patches'[s].stub] = s
    /\ UNCHANGED <<g_enabled, stubs, slot, t_tls_base, g_threads, readable, landed>>

LEMMA MendKeepsTlsInv ==
    ASSUME NEW t \in Threads, NEW s \in Sites, TlsInv, Mend(t, s), LandedOK(t)'
    PROVE  TlsInv'
<1>1. /\ s = thread[t].site /\ thread'[t].pc \in {"at", "guest"} /\ Rewriting(t) /\ PatchMutex' = Nobody
      /\ s \in blacklist' <=> patches'[s].stub = 0
      /\ patches'[s].stub # 0 => patches'[s].stub \in 1 .. Len(stubs) /\ stubs[patches'[s].stub] = s
      /\ \A u \in Threads : patches'[s].retries[u] = 0
      /\ UNCHANGED <<g_enabled, stubs, slot, t_tls_base, g_threads, readable, landed>>
    BY DEF Mend
<1>2. /\ \A u \in Threads \ {t} : thread'[u] = thread[u]
      /\ code'[s] = patches'[s].stub
      /\ \A q \in Sites \ {s} : code'[q] = code[q] /\ patches'[q] = patches[q] /\ (q \in blacklist' <=> q \in blacklist)
      /\ blacklist \subseteq blacklist'
    BY DEF Mend, TlsInv, TlsTyped
<1>3. \A u \in Threads \ {t} : ~ Rewriting(u)
    BY <1>1 DEF TlsInv, LockOK
<1>4. \A u \in Threads : ~ Rewriting(u)'
    BY <1>1, <1>2, <1>3 DEF Rewriting
<1>5. TlsTyped'
    <2>1. code' \in [Sites -> 0 .. StubRoom + 1]
        <3>1. StubRoom \in Nat
            BY GuestResourcesAssumption
        <3>2. patches'[s].stub \in 0 .. StubRoom
            BY DEF Mend
        <3>3. patches'[s].stub \in 0 .. StubRoom + 1
            BY <3>1, <3>2
        <3> QED
            BY <3>3 DEF Mend, TlsInv, TlsTyped
    <2>2. patches' \in [Sites -> [stub : 0 .. StubRoom, retries : [Threads -> Nat]]]
        BY DEF Mend, TlsInv, TlsTyped
    <2>3. blacklist' \subseteq Sites /\ PatchMutex' \in Threads \cup {Nobody}
        BY DEF Mend, TlsInv, TlsTyped
    <2>4. thread' \in [Threads -> [pc : TlsPcs, site : Sites, stub : 0 .. StubRoom]]
        BY DEF Mend, TlsInv, TlsTyped
    <2> QED
        BY <1>1, <2>1, <2>2, <2>3, <2>4 DEF TlsInv, TlsTyped
<1>6. LockOK' /\ StubsOK'
    BY <1>1, <1>4, GuestResourcesAssumption DEF TlsInv, LockOK, StubsOK
<1>7. ASSUME NEW q \in Sites PROVE SiteOK(q)'
    <2>1. CASE q = s
        BY <1>1, <1>2, <2>1 DEF SiteOK
    <2>2. CASE q # s
        <3>1. code[q] = patches[q].stub /\ SiteOK(q)
            BY <1>1, <1>3, <2>2 DEF TlsInv, SiteOK
        <3> QED
            BY <1>1, <1>2, <2>2, <3>1 DEF SiteOK
    <2> QED
        BY <2>1, <2>2
<1>8. ASSUME NEW u \in Threads \ {t} PROVE ThreadOK(u)'
    <2>1. ThreadOK(u) /\ thread[u].site \in Sites /\ thread'[u] = thread[u]
        BY <1>2 DEF TlsInv, TlsTyped
    <2>2. PointerOK(u)' /\ InStubOK(u)' /\ CrashOK(u)' /\ LandedOK(u)'
        <3>1. \A i \in 1 .. Len(stubs) : i \in 1 .. Len(stubs') /\ stubs'[i] = stubs[i]
            BY <1>1
        <3> QED
            BY <1>1, <1>2, <2>1, <3>1, OthersKept
    <2>3. RewriteOK(u)'
        BY <1>4 DEF RewriteOK, Rewriting
    <2>4. FaultOK(u)'
        <3>1. CASE thread[u].site = s
            BY <1>1, <2>1, <3>1 DEF FaultOK
        <3>2. CASE thread[u].site # s
            <4>1. ~ Restoring(thread[u].site)
                BY <1>1, <1>3, <3>2 DEF Restoring, Rewriting
            <4> QED
                BY <1>2, <2>1, <3>2, <4>1 DEF ThreadOK, FaultOK
        <3> QED
            BY <3>1, <3>2
    <2> QED
        BY <2>2, <2>3, <2>4 DEF ThreadOK
<1>9. ThreadOK(t)'
    <2>1. PointerOK(t)' 
        BY <1>1 DEF TlsInv, ThreadOK, PointerOK, Tls!Fallback
    <2>2. RewriteOK(t)' /\ InStubOK(t)' /\ FaultOK(t)' /\ CrashOK(t)'
        BY <1>1, <1>4 DEF RewriteOK, Rewriting, InStubOK, FaultOK, CrashOK
    <2> QED
        BY <2>1, <2>2 DEF ThreadOK
<1> QED
    BY <1>5, <1>6, <1>7, <1>8, <1>9 DEF TlsInv

LEMMA RestoredKeepsTlsInv ==
    ASSUME NEW t \in Threads, TlsInv, Tls!Restored(t) PROVE TlsInv'
<1> DEFINE s == thread[t].site
           c == [thread[t] EXCEPT !.pc = "at"]
<1>1. /\ thread[t].pc = "restoring" /\ s \in Sites /\ PatchMutex' = Nobody
      /\ thread' = [thread EXCEPT ![t] = c]
      /\ code' = [code EXCEPT ![s] = 0] /\ blacklist' = blacklist \cup {s}
      /\ patches' = [patches EXCEPT ![s] = Tls!NoPatch]
      /\ UNCHANGED <<g_enabled, stubs, slot, t_tls_base, g_threads, readable, landed>>
    BY DEF Tls!Restored, Tls!At, Tls!Goto, Tls!Site, Tls!Original, Tls!threadVars, TlsInv, TlsTyped
<1>2. c \in [pc : TlsPcs, site : Sites, stub : 0 .. StubRoom] /\ c.pc = "at"
    BY DEF TlsInv, TlsTyped, TlsPcs
<1>3. thread'[t] = c /\ patches'[s] = Tls!NoPatch
    BY <1>1 DEF TlsInv, TlsTyped
<1>4. /\ Tls!NoPatch \in [stub : 0 .. StubRoom, retries : [Threads -> Nat]]
      /\ Tls!NoPatch.stub = 0 /\ \A u \in Threads : Tls!NoPatch.retries[u] = 0
    BY GuestResourcesAssumption DEF Tls!NoPatch
<1>5. Mend(t, s)
    BY <1>1, <1>2, <1>3, <1>4 DEF Mend, Rewriting
<1>6. LandedOK(t)'
    BY <1>2, <1>3 DEF LandedOK
<1> QED
    BY <1>1, <1>5, <1>6, MendKeepsTlsInv

LEMMA PatchedKeepsTlsInv ==
    ASSUME NEW t \in Threads, TlsInv, Tls!Patched(t) PROVE TlsInv'
<1> DEFINE s == thread[t].site
           c == [thread[t] EXCEPT !.pc = "guest"]
           n == Len(stubs)
           r == [Tls!NoPatch EXCEPT !.stub = n]
<1>1. /\ thread[t].pc = "patching" /\ s \in Sites /\ PatchMutex' = Nobody
      /\ thread' = [thread EXCEPT ![t] = c]
      /\ code' = [code EXCEPT ![s] = n] /\ patches' = [patches EXCEPT ![s] = r]
      /\ UNCHANGED <<g_enabled, blacklist, stubs, slot, t_tls_base, g_threads, readable, landed>>
    BY DEF Tls!Patched, Tls!At, Tls!Goto, Tls!Site, Tls!threadVars, TlsInv, TlsTyped
<1>2. c \in [pc : TlsPcs, site : Sites, stub : 0 .. StubRoom] /\ c.pc = "guest" /\ c.site = s
    BY DEF TlsInv, TlsTyped, TlsPcs
<1>3. thread'[t] = c /\ patches'[s] = r
    BY <1>1 DEF TlsInv, TlsTyped
<1>4. n # 0 /\ stubs[n] = s /\ s \notin blacklist
    BY <1>1 DEF TlsInv, ThreadOK, RewriteOK
<1>5. n \in 1 .. Len(stubs) /\ n \in 0 .. StubRoom
    <2>1. n \in Nat /\ n <= StubRoom /\ StubRoom \in Nat
        BY GuestResourcesAssumption DEF TlsInv, TlsTyped
    <2> QED
        BY <1>4, <2>1
<1>6. /\ r \in [stub : 0 .. StubRoom, retries : [Threads -> Nat]]
      /\ r.stub = n /\ \A u \in Threads : r.retries[u] = 0
    BY <1>5 DEF Tls!NoPatch
<1> HIDE DEF c, n, r
<1>7. Mend(t, s)
    BY <1>1, <1>2, <1>3, <1>4, <1>5, <1>6 DEF Mend, Rewriting
<1>8. LandedOK(t)'
    <2>1. LandedOK(t) /\ Tls!BlockOf(t)' = Tls!BlockOf(t)
        BY <1>1 DEF TlsInv, ThreadOK, Tls!BlockOf, Tls!ResolveGuestThreadPointer, Tls!Fallback
    <2> QED
        BY <1>1, <1>2, <1>3, <2>1 DEF LandedOK
<1> QED
    BY <1>1, <1>7, <1>8, MendKeepsTlsInv

\* At shutdown no thread is at a site, and every patched one is put back.
LEMMA ShutdownKeepsTlsInv ==
    ASSUME TlsInv, Tls!Shutdown PROVE TlsInv'
<1>1. /\ \A t \in Threads : thread[t].pc \in {"outside", "crashed"}
      /\ g_enabled' = FALSE /\ blacklist' = {} /\ stubs' = <<>>
      /\ code' = [s \in Sites |-> IF patches[s].stub # 0 THEN 0 ELSE code[s]]
      /\ patches' = [s \in Sites |-> Tls!NoPatch]
      /\ UNCHANGED <<PatchMutex, thread, slot, t_tls_base, g_threads, readable, landed>>
    BY DEF Tls!Shutdown, Tls!Original, Tls!threadVars
<1>2. \A t \in Threads : ~ Rewriting(t)
    BY <1>1 DEF Rewriting
<1>3. \A s \in Sites : code[s] = patches[s].stub
    BY <1>2 DEF TlsInv, SiteOK
<1>4. /\ Tls!NoPatch \in [stub : 0 .. StubRoom, retries : [Threads -> Nat]]
      /\ Tls!NoPatch.stub = 0 /\ \A u \in Threads : Tls!NoPatch.retries[u] = 0
    BY GuestResourcesAssumption DEF Tls!NoPatch
<1>5. \A s \in Sites : code'[s] = 0 /\ patches'[s].stub = 0 /\ \A u \in Threads : patches'[s].retries[u] = 0
    BY <1>1, <1>3, <1>4
<1>6. TlsTyped'
    <2>1. 0 \in 0 .. StubRoom + 1 /\ Len(<<>>) <= StubRoom
        BY GuestResourcesAssumption
    <2>2. code' \in [Sites -> 0 .. StubRoom + 1]
        BY <1>1, <1>5, <2>1
    <2>3. patches' \in [Sites -> [stub : 0 .. StubRoom, retries : [Threads -> Nat]]]
        BY <1>1, <1>4
    <2>4. g_enabled' \in BOOLEAN
        BY <1>1
    <2> QED
        BY <1>1, <2>1, <2>2, <2>3, <2>4 DEF TlsInv, TlsTyped
<1>7. LockOK' /\ StubsOK'
    BY <1>1 DEF TlsInv, LockOK, StubsOK, Rewriting
<1>8. \A s \in Sites : SiteOK(s)'
    BY <1>1, <1>5 DEF SiteOK
<1>9. ASSUME NEW t \in Threads PROVE ThreadOK(t)'
    BY <1>1 DEF TlsInv, ThreadOK, RewriteOK, Rewriting, InStubOK, PointerOK, FaultOK, CrashOK, LandedOK
<1> QED
    BY <1>6, <1>7, <1>8, <1>9 DEF TlsInv

LEMMA TlsStep == TlsInv /\ (Tls!Next \/ UNCHANGED tlsVars) => TlsInv'
<1>1. ASSUME TlsInv, UNCHANGED tlsVars PROVE TlsInv'
    <2>1. UNCHANGED <<g_enabled, code, patches, blacklist, stubs, PatchMutex, thread, slot, t_tls_base, g_threads,
                      readable, landed>>
        BY <1>1 DEF tlsVars
    <2>2. TlsTyped'
        BY <1>1, <2>1 DEF TlsInv, TlsTyped
    <2>3. LockOK' /\ StubsOK'
        BY <1>1, <2>1 DEF TlsInv, LockOK, StubsOK, Rewriting
    <2>4. \A s \in Sites : SiteOK(s)'
        BY <1>1, <2>1 DEF TlsInv, SiteOK, Rewriting
    <2>5. ASSUME NEW t \in Threads PROVE ThreadOK(t)'
        <3>1. ThreadOK(t)
            BY <1>1 DEF TlsInv
        <3>2. RewriteOK(t)' /\ InStubOK(t)' /\ PointerOK(t)'
            BY <2>1, <3>1 DEF ThreadOK, RewriteOK, Rewriting, InStubOK, PointerOK, Tls!StubPointer, Tls!Fallback
        <3>3. FaultOK(t)'
            BY <2>1, <3>1 DEF ThreadOK, FaultOK, Restoring
        <3>4. CrashOK(t)' /\ LandedOK(t)'
            BY <2>1, <3>1 DEF ThreadOK, CrashOK, LandedOK, Tls!BlockOf, Tls!ResolveGuestThreadPointer, Tls!Fallback
        <3> QED
            BY <3>2, <3>3, <3>4 DEF ThreadOK
    <2> QED
        BY <2>2, <2>3, <2>4, <2>5 DEF TlsInv
<1> QED
    BY <1>1, EnterKeepsTlsInv, FetchKeepsTlsInv, RunStubKeepsTlsInv, LeaveKeepsTlsInv, HandleStubFaultKeepsTlsInv,
       RestoredKeepsTlsInv, RetryKeepsTlsInv, DecodeKeepsTlsInv, TryPatchKeepsTlsInv, PatchedKeepsTlsInv,
       ShutdownKeepsTlsInv DEF Tls!Next

LEMMA TlsProperties == TlsInv => Tls!RacesAreSurvived /\ Tls!AccessesLandInOwnBlock /\ Tls!PatchesAreWhole
<1> SUFFICES ASSUME TlsInv
             PROVE  Tls!RacesAreSurvived /\ Tls!AccessesLandInOwnBlock /\ Tls!PatchesAreWhole
    OBVIOUS
<1>1. Tls!RacesAreSurvived /\ Tls!AccessesLandInOwnBlock
    BY DEF TlsInv, ThreadOK, CrashOK, LandedOK, Tls!RacesAreSurvived, Tls!AccessesLandInOwnBlock, Tls!At, Tls!Site
<1>2. Tls!PatchesAreWhole
    BY FreeIsWhole DEF TlsInv, SiteOK, Tls!PatchesAreWhole, Tls!Original
<1> QED
    BY <1>1, <1>2

-----------------------------------------------------------------------------
(* Memory.  What GuestMemoryProofs says is said of the pool, of the window,  *)
(* of direct memory, of the libc heap and of the exceptions of this program.  *)

PoolMem   == INSTANCE GuestMemoryProofs WITH PoolSize <- PoolPages, WindowSize <- 0, MaxPending <- 1
WindowMem == INSTANCE GuestMemoryProofs WITH PoolSize <- 0, WindowSize <- WindowPages, MaxPending <- 2

\* Pool and PoolMem instantiate the same module.
LEMMA PoolSame ==
    /\ Pool!Init <=> PoolMem!Init
    /\ Pool!Next <=> PoolMem!Next
    /\ Pool!TypeOK <=> PoolMem!TypeOK
    /\ Pool!BlocksDisjoint <=> PoolMem!BlocksDisjoint
    /\ Pool!MappedIsZero <=> PoolMem!MappedIsZero
    /\ Pool!HeldIsTracked <=> PoolMem!HeldIsTracked
    /\ Pool!QueryTellsHeldFromFree <=> PoolMem!QueryTellsHeldFromFree
<1>1. Pool!Init <=> PoolMem!Init
    BY Zenon DEF Pool!Init, Pool!Pages, Pool!Pool, Pool!Window, PoolMem!Init, PoolMem!Pages,
       PoolMem!Pool, PoolMem!Window
<1>2. Pool!Next <=> PoolMem!Next
    BY Zenon DEF Pool!Pool, Pool!Window, Pool!Pages, Pool!Prots, Pool!BlockSizes, Pool!Span,
       Pool!Block, Pool!BlockOf, Pool!Disjoint, Pool!Within, Pool!Call, Pool!Region,
       Pool!Committed, Pool!Backed, Pool!Idle, Pool!Begin, Pool!Ready, Pool!IsInPool,
       Pool!Cardinality, Pool!IsFiniteSet, Pool!Next, Pool!AllocateRange, Pool!FreeInTable,
       Pool!Reserve, Pool!AdoptRange, Pool!HostAllocates, Pool!Map, Pool!MapPool,
       Pool!HasPoolBlock, Pool!Fitting, Pool!PoolBlock, Pool!FirstFit, Pool!IsCleared,
       Pool!TakeSlot, Pool!RemoveAt, Pool!TrackRegion, Pool!Unmanage, Pool!UntrackRegion,
       Pool!Exact, Pool!RecordProtection, Pool!Containing, Pool!Replace, Pool!Reprotected,
       Pool!MarkCommitted, Pool!Unmap, Pool!PoolFreeLocked, Pool!ReleaseRange, Pool!ForgetResource,
       Pool!Protect, Pool!Commit, Pool!Merged, Pool!CommitOnFault, Pool!Store, PoolMem!Pool,
       PoolMem!Window, PoolMem!Pages, PoolMem!Prots, PoolMem!BlockSizes, PoolMem!Span,
       PoolMem!Block, PoolMem!BlockOf, PoolMem!Disjoint, PoolMem!Within, PoolMem!Call,
       PoolMem!Region, PoolMem!Committed, PoolMem!Backed, PoolMem!Idle, PoolMem!Begin,
       PoolMem!Ready, PoolMem!IsInPool, PoolMem!Cardinality, PoolMem!IsFiniteSet, PoolMem!Next,
       PoolMem!AllocateRange, PoolMem!FreeInTable, PoolMem!Reserve, PoolMem!AdoptRange,
       PoolMem!HostAllocates, PoolMem!Map, PoolMem!MapPool, PoolMem!HasPoolBlock, PoolMem!Fitting,
       PoolMem!PoolBlock, PoolMem!FirstFit, PoolMem!IsCleared, PoolMem!TakeSlot, PoolMem!RemoveAt,
       PoolMem!TrackRegion, PoolMem!Unmanage, PoolMem!UntrackRegion, PoolMem!Exact,
       PoolMem!RecordProtection, PoolMem!Containing, PoolMem!Replace, PoolMem!Reprotected,
       PoolMem!MarkCommitted, PoolMem!Unmap, PoolMem!PoolFreeLocked, PoolMem!ReleaseRange,
       PoolMem!ForgetResource, PoolMem!Protect, PoolMem!Commit, PoolMem!Merged,
       PoolMem!CommitOnFault, PoolMem!Store
<1>3. /\ Pool!TypeOK <=> PoolMem!TypeOK
      /\ Pool!BlocksDisjoint <=> PoolMem!BlocksDisjoint
      /\ Pool!MappedIsZero <=> PoolMem!MappedIsZero
      /\ Pool!HeldIsTracked <=> PoolMem!HeldIsTracked
      /\ Pool!QueryTellsHeldFromFree <=> PoolMem!QueryTellsHeldFromFree
    BY Zenon DEF Pool!TypeOK, Pool!BlocksDisjoint, Pool!InUse, Pool!Arriving, Pool!MappedIsZero,
       Pool!HeldIsTracked, Pool!QueryTellsHeldFromFree, Pool!Query, Pool!RegionAt, Pool!Pool,
       Pool!Window, Pool!Pages, Pool!Prots, Pool!BlockSizes, Pool!Span, Pool!Block, Pool!BlockOf,
       Pool!Disjoint, Pool!Within, Pool!Call, Pool!Region, Pool!Committed, Pool!Backed, Pool!Idle,
       Pool!Begin, Pool!Ready, Pool!IsInPool, Pool!Cardinality, Pool!IsFiniteSet, PoolMem!TypeOK,
       PoolMem!BlocksDisjoint, PoolMem!InUse, PoolMem!Arriving, PoolMem!MappedIsZero,
       PoolMem!HeldIsTracked, PoolMem!QueryTellsHeldFromFree, PoolMem!Query, PoolMem!RegionAt,
       PoolMem!Pool, PoolMem!Window, PoolMem!Pages, PoolMem!Prots, PoolMem!BlockSizes,
       PoolMem!Span, PoolMem!Block, PoolMem!BlockOf, PoolMem!Disjoint, PoolMem!Within,
       PoolMem!Call, PoolMem!Region, PoolMem!Committed, PoolMem!Backed, PoolMem!Idle,
       PoolMem!Begin, PoolMem!Ready, PoolMem!IsInPool, PoolMem!Cardinality, PoolMem!IsFiniteSet
<1> QED
    BY Zenon, <1>1, <1>2, <1>3

LEMMA PoolInv ==
    /\ Pool!Init => PoolMem!MemoryInv
    /\ PoolMem!MemoryInv /\ (Pool!Next \/ UNCHANGED memoryVars) => PoolMem!MemoryInv'
    /\ PoolMem!MemoryInv => /\ Pool!TypeOK /\ Pool!BlocksDisjoint /\ Pool!MappedIsZero
                            /\ Pool!HeldIsTracked /\ Pool!QueryTellsHeldFromFree
<1>1. PoolMem!MemoryAssumption
    BY GuestResourcesAssumption DEF PoolMem!MemoryAssumption
<1>2. Pool!Init => PoolMem!MemoryInv
    BY Zenon, <1>1, PoolSame, PoolMem!MemoryInitInv
<1>3. UNCHANGED memoryVars => UNCHANGED PoolMem!vars
    BY Zenon DEF memoryVars, PoolMem!vars
<1>4. PoolMem!MemoryInv /\ (Pool!Next \/ UNCHANGED memoryVars) => PoolMem!MemoryInv'
    BY Zenon, <1>1, <1>3, PoolSame, PoolMem!MemoryNextInv, PoolMem!MemoryStutters
<1>5. PoolMem!MemoryInv => /\ Pool!TypeOK /\ Pool!BlocksDisjoint /\ Pool!MappedIsZero
                              /\ Pool!HeldIsTracked /\ Pool!QueryTellsHeldFromFree
    BY Zenon, <1>1, PoolSame, PoolMem!MemoryProperties
<1> QED
    BY Zenon, <1>2, <1>4, <1>5

\* Window and WindowMem instantiate the same module.
LEMMA WindowSame ==
    /\ Window!Init <=> WindowMem!Init
    /\ Window!Next <=> WindowMem!Next
    /\ Window!TypeOK <=> WindowMem!TypeOK
    /\ Window!BlocksDisjoint <=> WindowMem!BlocksDisjoint
    /\ Window!MappedIsZero <=> WindowMem!MappedIsZero
    /\ Window!HeldIsTracked <=> WindowMem!HeldIsTracked
    /\ Window!QueryTellsHeldFromFree <=> WindowMem!QueryTellsHeldFromFree
<1>1. Window!Init <=> WindowMem!Init
    BY Zenon DEF Window!Init, Window!Pages, Window!Pool, Window!Window, WindowMem!Init,
       WindowMem!Pages, WindowMem!Pool, WindowMem!Window
<1>2. Window!Next <=> WindowMem!Next
    BY Zenon DEF Window!Pool, Window!Window, Window!Pages, Window!Prots, Window!BlockSizes,
       Window!Span, Window!Block, Window!BlockOf, Window!Disjoint, Window!Within, Window!Call,
       Window!Region, Window!Committed, Window!Backed, Window!Idle, Window!Begin, Window!Ready,
       Window!IsInPool, Window!Cardinality, Window!IsFiniteSet, Window!Next, Window!AllocateRange,
       Window!FreeInTable, Window!Reserve, Window!AdoptRange, Window!HostAllocates, Window!Map,
       Window!MapPool, Window!HasPoolBlock, Window!Fitting, Window!PoolBlock, Window!FirstFit,
       Window!IsCleared, Window!TakeSlot, Window!RemoveAt, Window!TrackRegion, Window!Unmanage,
       Window!UntrackRegion, Window!Exact, Window!RecordProtection, Window!Containing,
       Window!Replace, Window!Reprotected, Window!MarkCommitted, Window!Unmap,
       Window!PoolFreeLocked, Window!ReleaseRange, Window!ForgetResource, Window!Protect,
       Window!Commit, Window!Merged, Window!CommitOnFault, Window!Store, WindowMem!Pool,
       WindowMem!Window, WindowMem!Pages, WindowMem!Prots, WindowMem!BlockSizes, WindowMem!Span,
       WindowMem!Block, WindowMem!BlockOf, WindowMem!Disjoint, WindowMem!Within, WindowMem!Call,
       WindowMem!Region, WindowMem!Committed, WindowMem!Backed, WindowMem!Idle, WindowMem!Begin,
       WindowMem!Ready, WindowMem!IsInPool, WindowMem!Cardinality, WindowMem!IsFiniteSet,
       WindowMem!Next, WindowMem!AllocateRange, WindowMem!FreeInTable, WindowMem!Reserve,
       WindowMem!AdoptRange, WindowMem!HostAllocates, WindowMem!Map, WindowMem!MapPool,
       WindowMem!HasPoolBlock, WindowMem!Fitting, WindowMem!PoolBlock, WindowMem!FirstFit,
       WindowMem!IsCleared, WindowMem!TakeSlot, WindowMem!RemoveAt, WindowMem!TrackRegion,
       WindowMem!Unmanage, WindowMem!UntrackRegion, WindowMem!Exact, WindowMem!RecordProtection,
       WindowMem!Containing, WindowMem!Replace, WindowMem!Reprotected, WindowMem!MarkCommitted,
       WindowMem!Unmap, WindowMem!PoolFreeLocked, WindowMem!ReleaseRange, WindowMem!ForgetResource,
       WindowMem!Protect, WindowMem!Commit, WindowMem!Merged, WindowMem!CommitOnFault,
       WindowMem!Store
<1>3. /\ Window!TypeOK <=> WindowMem!TypeOK
      /\ Window!BlocksDisjoint <=> WindowMem!BlocksDisjoint
      /\ Window!MappedIsZero <=> WindowMem!MappedIsZero
      /\ Window!HeldIsTracked <=> WindowMem!HeldIsTracked
      /\ Window!QueryTellsHeldFromFree <=> WindowMem!QueryTellsHeldFromFree
    BY Zenon DEF Window!TypeOK, Window!BlocksDisjoint, Window!InUse, Window!Arriving,
       Window!MappedIsZero, Window!HeldIsTracked, Window!QueryTellsHeldFromFree, Window!Query,
       Window!RegionAt, Window!Pool, Window!Window, Window!Pages, Window!Prots, Window!BlockSizes,
       Window!Span, Window!Block, Window!BlockOf, Window!Disjoint, Window!Within, Window!Call,
       Window!Region, Window!Committed, Window!Backed, Window!Idle, Window!Begin, Window!Ready,
       Window!IsInPool, Window!Cardinality, Window!IsFiniteSet, WindowMem!TypeOK,
       WindowMem!BlocksDisjoint, WindowMem!InUse, WindowMem!Arriving, WindowMem!MappedIsZero,
       WindowMem!HeldIsTracked, WindowMem!QueryTellsHeldFromFree, WindowMem!Query,
       WindowMem!RegionAt, WindowMem!Pool, WindowMem!Window, WindowMem!Pages, WindowMem!Prots,
       WindowMem!BlockSizes, WindowMem!Span, WindowMem!Block, WindowMem!BlockOf,
       WindowMem!Disjoint, WindowMem!Within, WindowMem!Call, WindowMem!Region, WindowMem!Committed,
       WindowMem!Backed, WindowMem!Idle, WindowMem!Begin, WindowMem!Ready, WindowMem!IsInPool,
       WindowMem!Cardinality, WindowMem!IsFiniteSet
<1> QED
    BY Zenon, <1>1, <1>2, <1>3

LEMMA WindowInv ==
    /\ Window!Init => WindowMem!MemoryInv
    /\ WindowMem!MemoryInv /\ (Window!Next \/ UNCHANGED memoryVars) => WindowMem!MemoryInv'
    /\ WindowMem!MemoryInv => /\ Window!TypeOK /\ Window!BlocksDisjoint /\ Window!MappedIsZero
                              /\ Window!HeldIsTracked /\ Window!QueryTellsHeldFromFree
<1>1. WindowMem!MemoryAssumption
    BY GuestResourcesAssumption DEF WindowMem!MemoryAssumption
<1>2. Window!Init => WindowMem!MemoryInv
    BY Zenon, <1>1, WindowSame, WindowMem!MemoryInitInv
<1>3. UNCHANGED memoryVars => UNCHANGED WindowMem!vars
    BY Zenon DEF memoryVars, WindowMem!vars
<1>4. WindowMem!MemoryInv /\ (Window!Next \/ UNCHANGED memoryVars) => WindowMem!MemoryInv'
    BY Zenon, <1>1, <1>3, WindowSame, WindowMem!MemoryNextInv, WindowMem!MemoryStutters
<1>5. WindowMem!MemoryInv => /\ Window!TypeOK /\ Window!BlocksDisjoint /\ Window!MappedIsZero
                                /\ Window!HeldIsTracked /\ Window!QueryTellsHeldFromFree
    BY Zenon, <1>1, WindowSame, WindowMem!MemoryProperties
<1> QED
    BY Zenon, <1>2, <1>4, <1>5

\* Direct and Libc are instances of modules that GuestMemoryProofs extends.
LEMMA DirectSame ==
    /\ Direct!DirectInit <=> PoolMem!DirectInit
    /\ Direct!DirectNext <=> PoolMem!DirectNext
    /\ Direct!DirectTypeOK <=> PoolMem!DirectTypeOK
    /\ Direct!DirectBlocksApart <=> PoolMem!DirectBlocksApart
    /\ Direct!DirectBlocksCommitted <=> PoolMem!DirectBlocksCommitted
    /\ PoolMem!DirectAssumption
<1>1. Direct!DirectInit <=> PoolMem!DirectInit
    BY Zenon DEF Direct!DirectInit, PoolMem!DirectInit
<1>2. Direct!DirectNext <=> PoolMem!DirectNext
    BY Zenon DEF Direct!DirectNext, Direct!SceKernelAllocateDirectMemory,
       Direct!SceKernelAllocateMainDirectMemory, Direct!SceKernelReleaseDirectMemory,
       Direct!MapDirectMemoryCore, Direct!CommitPhysPool, Direct!ResetPhysPool, Direct!Bump,
       Direct!Reuse, Direct!Reusable, Direct!Hand, Direct!EnsurePhysCommitted, Direct!Granted,
       Direct!PagesBelow, Direct!PhysPages, Direct!PagesOf, Direct!PageUnits, Direct!Up,
       Direct!AtLeast, Direct!Units, Direct!Offsets, Direct!RemoveAt, PoolMem!DirectNext,
       PoolMem!SceKernelAllocateDirectMemory, PoolMem!SceKernelAllocateMainDirectMemory,
       PoolMem!SceKernelReleaseDirectMemory, PoolMem!MapDirectMemoryCore, PoolMem!CommitPhysPool,
       PoolMem!ResetPhysPool, PoolMem!Bump, PoolMem!Reuse, PoolMem!Reusable, PoolMem!Hand,
       PoolMem!EnsurePhysCommitted, PoolMem!Granted, PoolMem!PagesBelow, PoolMem!PhysPages,
       PoolMem!PagesOf, PoolMem!PageUnits, PoolMem!Up, PoolMem!AtLeast, PoolMem!Units,
       PoolMem!Offsets, PoolMem!RemoveAt
<1>3. /\ Direct!DirectTypeOK <=> PoolMem!DirectTypeOK
      /\ Direct!DirectBlocksApart <=> PoolMem!DirectBlocksApart
      /\ Direct!DirectBlocksCommitted <=> PoolMem!DirectBlocksCommitted
    BY Zenon DEF Direct!DirectTypeOK, Direct!DirectBlocksApart, Direct!DirectBlocksCommitted,
       Direct!Units, Direct!PagesOf, Direct!PhysPages, Direct!PageUnits, Direct!Up, Direct!Offsets,
       PoolMem!DirectTypeOK, PoolMem!DirectBlocksApart, PoolMem!DirectBlocksCommitted,
       PoolMem!Units, PoolMem!PagesOf, PoolMem!PhysPages, PoolMem!PageUnits, PoolMem!Up,
       PoolMem!Offsets
<1>4. PoolMem!DirectAssumption
    BY Zenon, ComponentsAssumption DEF Direct!DirectAssumption, PoolMem!DirectAssumption
<1> QED
    BY Zenon, <1>1, <1>2, <1>3, <1>4

LEMMA DirectMemoryInv ==
    /\ Direct!DirectInit => PoolMem!DirectInv
    /\ PoolMem!DirectInv /\ (Direct!DirectNext \/ UNCHANGED directVars) => PoolMem!DirectInv'
    /\ PoolMem!DirectInv => /\ Direct!DirectTypeOK /\ Direct!DirectBlocksApart
                         /\ Direct!DirectBlocksCommitted
<1>1. UNCHANGED directVars => UNCHANGED PoolMem!directVars
    BY Zenon DEF directVars, PoolMem!directVars
<1>2. Direct!DirectInit => PoolMem!DirectInv
    BY Zenon, DirectSame, PoolMem!DirectInitInv
<1>3. PoolMem!DirectInv /\ (Direct!DirectNext \/ UNCHANGED directVars) => PoolMem!DirectInv'
    BY Zenon, <1>1, DirectSame, PoolMem!DirectStep
<1>4. PoolMem!DirectInv => /\ Direct!DirectTypeOK /\ Direct!DirectBlocksApart
                       /\ Direct!DirectBlocksCommitted
    BY Zenon, DirectSame, PoolMem!DirectProperties
<1> QED
    BY Zenon, <1>2, <1>3, <1>4

LEMMA HeapSame ==
    /\ Libc!HeapInit <=> PoolMem!HeapInit
    /\ Libc!HeapNext <=> PoolMem!HeapNext
    /\ Libc!BlocksAreApart <=> PoolMem!BlocksAreApart
    /\ PoolMem!HeapAssumption
<1>1. Libc!HeapInit <=> PoolMem!HeapInit
    BY Zenon DEF Libc!HeapInit, PoolMem!HeapInit
<1>2. Libc!HeapNext <=> PoolMem!HeapNext
    BY Zenon DEF Libc!HeapNext, Libc!HeapAlloc, Libc!HeapFree, Libc!ReallocBegin, Libc!ReallocEnd,
       Libc!ResetLibcHeap, Libc!AllocFromList, Libc!AllocByBump, Libc!LargeEnough, Libc!Take,
       Libc!Deliver, Libc!Place, Libc!AlignUp, Libc!Mod, Libc!BumpFits, Libc!Grow, Libc!FreedBlock,
       Libc!RemoveAt, Libc!Cardinality, Libc!IsFiniteSet, PoolMem!HeapNext, PoolMem!HeapAlloc,
       PoolMem!HeapFree, PoolMem!ReallocBegin, PoolMem!ReallocEnd, PoolMem!ResetLibcHeap,
       PoolMem!AllocFromList, PoolMem!AllocByBump, PoolMem!LargeEnough, PoolMem!Take,
       PoolMem!Deliver, PoolMem!Place, PoolMem!AlignUp, PoolMem!Mod, PoolMem!BumpFits,
       PoolMem!Grow, PoolMem!FreedBlock, PoolMem!RemoveAt, PoolMem!Cardinality,
       PoolMem!IsFiniteSet
<1>3. Libc!BlocksAreApart <=> PoolMem!BlocksAreApart
    BY Zenon DEF Libc!BlocksAreApart, Libc!Whole, Libc!Unused,
       PoolMem!BlocksAreApart, PoolMem!Whole, PoolMem!Unused
<1>4. PoolMem!HeapAssumption
    BY Zenon, ComponentsAssumption DEF Libc!HeapAssumption, PoolMem!HeapAssumption
<1> QED
    BY Zenon, <1>1, <1>2, <1>3, <1>4

LEMMA LibcHeapInv ==
    /\ Libc!HeapInit => PoolMem!HeapInv
    /\ PoolMem!HeapInv /\ (Libc!HeapNext \/ UNCHANGED heapVars) => PoolMem!HeapInv'
    /\ PoolMem!HeapInv => Libc!BlocksAreApart
<1>1. UNCHANGED heapVars => UNCHANGED PoolMem!heapVars
    BY Zenon DEF heapVars, PoolMem!heapVars
<1>2. Libc!HeapInit => PoolMem!HeapInv
    BY Zenon, HeapSame, PoolMem!HeapInitInv
<1>3. PoolMem!HeapInv /\ (Libc!HeapNext \/ UNCHANGED heapVars) => PoolMem!HeapInv'
    BY Zenon, <1>1, HeapSame, PoolMem!HeapStep
<1>4. PoolMem!HeapInv => Libc!BlocksAreApart
    BY Zenon, HeapSame, PoolMem!HeapProperties
<1> QED
    BY Zenon, <1>2, <1>3, <1>4

LEMMA ExceptionsSame ==
    /\ Libc!CxaInit <=> PoolMem!CxaInit
    /\ Libc!CxaNext <=> PoolMem!CxaNext
    /\ Libc!CxaTypeOK <=> PoolMem!CxaTypeOK
    /\ Libc!LivesUntilHandled <=> PoolMem!LivesUntilHandled
    /\ Libc!RecordsAgreeWithStack <=> PoolMem!RecordsAgreeWithStack
<1>1. Libc!CxaInit <=> PoolMem!CxaInit
    BY Zenon DEF Libc!CxaInit, PoolMem!CxaInit
<1>2. Libc!CxaNext <=> PoolMem!CxaNext
    BY Zenon DEF Libc!CxaNext, Libc!CxaThrow, Libc!CxaBeginCatch, Libc!CxaEndCatch,
       Libc!CxaRethrow, Libc!UnwindResume, Libc!CallFunction, Libc!Return, Libc!EndCatch,
       Libc!RaiseException, Libc!RunPhase2, Libc!LandOn, Libc!Forget, Libc!InFlight, Libc!Running,
       Libc!Top, Libc!Highest, Libc!Lowest, Libc!Catches, Libc!HasPad, Libc!ToSet, Libc!Front,
       Libc!Last, Libc!RemoveAt, PoolMem!CxaNext, PoolMem!CxaThrow, PoolMem!CxaBeginCatch,
       PoolMem!CxaEndCatch, PoolMem!CxaRethrow, PoolMem!UnwindResume, PoolMem!CallFunction,
       PoolMem!Return, PoolMem!EndCatch, PoolMem!RaiseException, PoolMem!RunPhase2, PoolMem!LandOn,
       PoolMem!Forget, PoolMem!InFlight, PoolMem!Running, PoolMem!Top, PoolMem!Highest,
       PoolMem!Lowest, PoolMem!Catches, PoolMem!HasPad, PoolMem!ToSet, PoolMem!Front, PoolMem!Last,
       PoolMem!RemoveAt
<1>3. /\ Libc!CxaTypeOK <=> PoolMem!CxaTypeOK
      /\ Libc!LivesUntilHandled <=> PoolMem!LivesUntilHandled
      /\ Libc!RecordsAgreeWithStack <=> PoolMem!RecordsAgreeWithStack
    BY Zenon DEF Libc!CxaTypeOK, Libc!LivesUntilHandled, Libc!RecordsAgreeWithStack, Libc!Frames,
       Libc!Top, Libc!Catches, Libc!InFlight, Libc!ToSet, Libc!Cardinality, Libc!IsFiniteSet,
       PoolMem!CxaTypeOK, PoolMem!LivesUntilHandled, PoolMem!RecordsAgreeWithStack, PoolMem!Frames,
       PoolMem!Top, PoolMem!Catches, PoolMem!InFlight, PoolMem!ToSet, PoolMem!Cardinality,
       PoolMem!IsFiniteSet
<1> QED
    BY Zenon, <1>1, <1>2, <1>3

\* A frame with a pad is removed only by its return.
PadsStay == \A f \in DOMAIN stack : f > Len(stack') /\ Libc!HasPad(f) => stack' = Libc!Front(stack)

LEMMA ExceptionsInv ==
    /\ Libc!CxaInit => PoolMem!CxaInv
    /\ PoolMem!CxaInv /\ (Libc!CxaNext \/ UNCHANGED cxaVars) => PoolMem!CxaInv' /\ (PadsStay \/ UNCHANGED cxaVars)
    /\ PoolMem!CxaInv => Libc!CxaTypeOK /\ Libc!LivesUntilHandled /\ Libc!RecordsAgreeWithStack
<1>1. UNCHANGED cxaVars <=> UNCHANGED PoolMem!cxaVars
    BY Zenon DEF cxaVars, PoolMem!cxaVars
<1>2. PoolMem!CxaAssumption
    BY Zenon, GuestResourcesAssumption DEF PoolMem!CxaAssumption
<1>3. Libc!CxaInit => PoolMem!CxaInv
    BY Zenon, <1>2, ExceptionsSame, PoolMem!CxaInitInv
<1>4. PoolMem!CxaInv /\ (Libc!CxaNext \/ UNCHANGED cxaVars) => PoolMem!CxaInv'
    BY Zenon, <1>1, <1>2, ExceptionsSame, PoolMem!CxaStep
<1>5. PadsStay <=> PoolMem!PadsAreKept
    BY Zenon DEF PadsStay, PoolMem!PadsAreKept, Libc!HasPad, PoolMem!HasPad, Libc!Front, PoolMem!Front
<1>6. PoolMem!CxaInv /\ (Libc!CxaNext \/ UNCHANGED cxaVars) => PadsStay \/ UNCHANGED cxaVars
    BY Zenon, <1>1, <1>5, ExceptionsSame, PoolMem!PadsKept
<1>7. PoolMem!CxaInv => Libc!CxaTypeOK /\ Libc!LivesUntilHandled /\ Libc!RecordsAgreeWithStack
    BY Zenon, ExceptionsSame, PoolMem!CxaProperties
<1> QED
    BY Zenon, <1>3, <1>4, <1>6, <1>7

-----------------------------------------------------------------------------
(* Guarded accesses. *)

AccessMem == INSTANCE GuestAccessProofs

\* Access and AccessMem instantiate the same module.
LEMMA AccessSame ==
    /\ Access!Init <=> AccessMem!Init
    /\ Access!Next <=> AccessMem!Next
    /\ Access!CopiesLikeMemmove <=> AccessMem!CopiesLikeMemmove
    /\ Access!StringsMatchReference <=> AccessMem!StringsMatchReference
    /\ Access!StopsOnlyAtAFault <=> AccessMem!StopsOnlyAtAFault
    /\ AccessMem!AccessAssumption
<1>1. Access!Init <=> AccessMem!Init
    BY Zenon DEF Access!Init, Access!InitTransfer, Access!InitString, Access!PageOf, Access!Transfers,
       Access!Compares, Access!Pages, Access!Host, Access!Guest, Access!Memory, Access!Min,
       Access!Max, AccessMem!Init, AccessMem!InitTransfer, AccessMem!InitString,
       AccessMem!PageOf, AccessMem!Transfers, AccessMem!Compares, AccessMem!Pages,
       AccessMem!Host, AccessMem!Guest, AccessMem!Memory, AccessMem!Min, AccessMem!Max
<1>2. Access!Next <=> AccessMem!Next
    BY Zenon DEF Access!Next, Access!Direct, Access!GoByPages, Access!CommitSource, Access!SourceFault,
       Access!RepairDestination, Access!DestinationFault, Access!MoveChunk, Access!StrlenChunk,
       Access!StrcpyChunk, Access!StrncpyChunk, Access!CompareChunk, Access!Rearm,
       Access!WholeRange, Access!SourceIsNext, Access!Ready, Access!Advance, Access!Return,
       Access!CanRead, Access!CanUse, Access!Put, Access!SourceByte, Access!Filler,
       Access!Nuls, Access!Decisive, Access!Order, Access!Readable, Access!Writable,
       Access!Usable, Access!Committed, Access!Repaired, Access!arguments, Access!UsesSrc,
       Access!UsesDst, Access!WritesDst, Access!PageOf, Access!Transfers, Access!Compares,
       Access!Backward, Access!PageRest, Access!Sides, Access!Chunk, Access!At, Access!Covered,
       Access!Pages, Access!Host, Access!Guest, Access!Memory, Access!Min, Access!Max,
       AccessMem!Next, AccessMem!Direct, AccessMem!GoByPages, AccessMem!CommitSource,
       AccessMem!SourceFault, AccessMem!RepairDestination, AccessMem!DestinationFault,
       AccessMem!MoveChunk, AccessMem!StrlenChunk, AccessMem!StrcpyChunk,
       AccessMem!StrncpyChunk, AccessMem!CompareChunk, AccessMem!Rearm, AccessMem!WholeRange,
       AccessMem!SourceIsNext, AccessMem!Ready, AccessMem!Advance, AccessMem!Return,
       AccessMem!CanRead, AccessMem!CanUse, AccessMem!Put, AccessMem!SourceByte,
       AccessMem!Filler, AccessMem!Nuls, AccessMem!Decisive, AccessMem!Order,
       AccessMem!Readable, AccessMem!Writable, AccessMem!Usable, AccessMem!Committed,
       AccessMem!Repaired, AccessMem!arguments, AccessMem!UsesSrc, AccessMem!UsesDst,
       AccessMem!WritesDst, AccessMem!PageOf, AccessMem!Transfers, AccessMem!Compares,
       AccessMem!Backward, AccessMem!PageRest, AccessMem!Sides, AccessMem!Chunk, AccessMem!At,
       AccessMem!Covered, AccessMem!Pages, AccessMem!Host, AccessMem!Guest, AccessMem!Memory,
       AccessMem!Min, AccessMem!Max
<1>3. Access!CopiesLikeMemmove <=> AccessMem!CopiesLikeMemmove
    BY Zenon DEF Access!CopiesLikeMemmove, Access!Transfers, Access!Backward, Access!Pages, Access!Host,
       Access!Guest, Access!Memory, Access!Min, Access!Max, AccessMem!CopiesLikeMemmove,
       AccessMem!Transfers, AccessMem!Backward, AccessMem!Pages, AccessMem!Host,
       AccessMem!Guest, AccessMem!Memory, AccessMem!Min, AccessMem!Max
<1>4. Access!StringsMatchReference <=> AccessMem!StringsMatchReference
    BY Zenon DEF Access!StringsMatchReference, Access!LengthOfString, Access!Comparison, Access!EndOf,
       Access!Unmapped, Access!Order, Access!PageOf, Access!Compares, Access!Pages,
       Access!Host, Access!Guest, Access!Memory, Access!Min, Access!Max,
       AccessMem!StringsMatchReference, AccessMem!LengthOfString, AccessMem!Comparison,
       AccessMem!EndOf, AccessMem!Unmapped, AccessMem!Order, AccessMem!PageOf,
       AccessMem!Compares, AccessMem!Pages, AccessMem!Host, AccessMem!Guest, AccessMem!Memory,
       AccessMem!Min, AccessMem!Max
<1>5. Access!StopsOnlyAtAFault <=> AccessMem!StopsOnlyAtAFault
    BY Zenon DEF Access!StopsOnlyAtAFault, Access!UsesSrc, Access!UsesDst, Access!WritesDst,
       Access!PageOf, Access!Transfers, Access!Compares, Access!Backward, Access!PageRest,
       Access!Sides, Access!Chunk, Access!At, Access!Covered, Access!Pages, Access!Host,
       Access!Guest, Access!Memory, Access!Min, Access!Max, AccessMem!StopsOnlyAtAFault,
       AccessMem!UsesSrc, AccessMem!UsesDst, AccessMem!WritesDst, AccessMem!PageOf,
       AccessMem!Transfers, AccessMem!Compares, AccessMem!Backward, AccessMem!PageRest,
       AccessMem!Sides, AccessMem!Chunk, AccessMem!At, AccessMem!Covered, AccessMem!Pages,
       AccessMem!Host, AccessMem!Guest, AccessMem!Memory, AccessMem!Min, AccessMem!Max
<1>6. AccessMem!AccessAssumption
    BY Zenon, ComponentsAssumption DEF Access!AccessAssumption, AccessMem!AccessAssumption
<1> QED
    BY Zenon, <1>1, <1>2, <1>3, <1>4, <1>5, <1>6

LEMMA AccessInv ==
    /\ Access!Init => AccessMem!GuardedInv
    /\ AccessMem!GuardedInv /\ (Access!Next \/ UNCHANGED guardedVars) => AccessMem!GuardedInv'
    /\ AccessMem!GuardedInv => /\ Access!CopiesLikeMemmove /\ Access!StringsMatchReference
                               /\ Access!StopsOnlyAtAFault
<1>1. UNCHANGED guardedVars => UNCHANGED AccessMem!guardedVars
    BY Zenon DEF guardedVars, AccessMem!guardedVars
<1>2. Access!Init => AccessMem!GuardedInv
    BY Zenon, AccessSame, AccessMem!InitGuarded
<1>3. AccessMem!GuardedInv /\ (Access!Next \/ UNCHANGED guardedVars) => AccessMem!GuardedInv'
    BY Zenon, <1>1, AccessSame, AccessMem!NextGuarded
<1>4. AccessMem!GuardedInv => /\ Access!CopiesLikeMemmove /\ Access!StringsMatchReference
                              /\ Access!StopsOnlyAtAFault
    BY Zenon, AccessSame, AccessMem!GuardedMatches
<1> QED
    BY Zenon, <1>2, <1>3, <1>4

-----------------------------------------------------------------------------
(* The composition: each resource keeps its invariant while the others work. *)

ManagerInv == /\ kind = "window" => WindowMem!MemoryInv
              /\ kind # "window" => PoolMem!MemoryInv

SharedInv == FdInv /\ CacheInv /\ TlsInv /\ ManagerInv
             /\ PoolMem!DirectInv /\ PoolMem!HeapInv /\ PoolMem!CxaInv
             /\ (kind = "guarded" => AccessMem!GuardedInv)

LEMMA SharedInit == Init => SharedInv
<1>1. Init => ManagerInv
    BY Zenon, PoolInv, WindowInv DEF Init, ManagerInv
<1> QED
    BY Zenon, <1>1, FdInit, CacheInitInv, TlsInitInv, TlsIdleInv, DirectMemoryInv, LibcHeapInv,
       ExceptionsInv, AccessInv
       DEF Init, SharedInv

\* A step of the program is one of the resource it uses, and leaves the others alone.
LEMMA StepOfOne ==
    ASSUME [Next]_vars
    PROVE  /\ Fd!Next \/ UNCHANGED fdVars
           /\ Access!CacheNext \/ UNCHANGED cacheVars
           /\ Tls!Next \/ UNCHANGED tlsVars
           /\ Direct!DirectNext \/ UNCHANGED directVars
           /\ Libc!HeapNext \/ UNCHANGED heapVars
           /\ Libc!CxaNext \/ UNCHANGED cxaVars
           /\ kind = "guarded" => Access!Next \/ UNCHANGED guardedVars
           /\ kind' = kind
           /\ kind = "window" => Window!Next \/ UNCHANGED memoryVars
           /\ kind # "window" => Pool!Next \/ UNCHANGED memoryVars
<1>1. CASE UNCHANGED vars
    BY Zenon, <1>1 DEF vars
<1>2. CASE Next
    <2>1. "pool" # "window"
        OBVIOUS
    <2> QED
        BY Zenon, <1>2, <2>1 DEF Next
<1> QED
    BY <1>1, <1>2

LEMMA SharedStep == SharedInv /\ [Next]_vars => SharedInv'
<1> SUFFICES ASSUME SharedInv, [Next]_vars PROVE SharedInv'
    OBVIOUS
<1>1. ManagerInv'
    BY Zenon, StepOfOne, PoolInv, WindowInv DEF SharedInv, ManagerInv
<1>2. PoolMem!DirectInv' /\ PoolMem!HeapInv' /\ PoolMem!CxaInv'
    BY Zenon, StepOfOne, DirectMemoryInv, LibcHeapInv, ExceptionsInv DEF SharedInv
<1>3. (kind = "guarded" => AccessMem!GuardedInv)'
    BY Zenon, StepOfOne, AccessInv DEF SharedInv
<1> QED
    BY Zenon, <1>1, <1>2, <1>3, StepOfOne, FdStep, CacheStep, TlsStep DEF SharedInv

LEMMA SharedInvHolds == Spec => []SharedInv
    BY PTL, SharedInit, SharedStep DEF Spec

\* Descriptors, the page cache and patched sites stand what other threads do between
\* the steps of a call: for any number of threads, descriptors, handles, pages and
\* sites, and any bounds.
THEOREM RacesSurvived == Spec => []RacesAreSurvived
<1>1. SharedInv => RacesAreSurvived
    BY Zenon, FdProperties, CacheProperties, TlsProperties DEF SharedInv, RacesAreSurvived
<1> QED
    BY PTL, SharedInvHolds, <1>1

\* Blocks of guest memory, of direct memory and of the libc heap overlap neither one
\* another nor what is free, and a host handle belongs to one descriptor or to one call
\* under way: for any sizes, alignments, bounds and number of calls and restarts.
THEOREM NothingHandedOutTwice == Spec => []NothingIsHandedOutTwice
<1>1. kind = "pool" => kind # "window"
    OBVIOUS
<1>2. SharedInv => NothingIsHandedOutTwice
    BY Zenon, <1>1, PoolInv, WindowInv, DirectMemoryInv, LibcHeapInv, FdProperties
       DEF SharedInv, ManagerInv, NothingIsHandedOutTwice
<1> QED
    BY PTL, SharedInvHolds, <1>2

\* Mapped memory is zero whoever used its pages before, and direct memory is committed
\* to its end.
THEOREM BlocksAreReady == Spec => []BlocksArriveReady
<1>1. kind = "pool" => kind # "window"
    OBVIOUS
<1>2. SharedInv => BlocksArriveReady
    BY Zenon, <1>1, PoolInv, WindowInv, DirectMemoryInv DEF SharedInv, ManagerInv, BlocksArriveReady
<1> QED
    BY PTL, SharedInvHolds, <1>2

\* Whatever the host refuses and whichever calls overlap, the region table has every
\* block the guest holds but one: a block of the window mapped while an unmap of a block
\* of the same address and size had released the pages and not yet the region, which
\* loses its region to that unmap.  Query tells of every page that is held all the same,
\* and of a page of the pool only if it is held, when no call is under way.
THEOREM TablesFollow == Spec => []TablesFollowTheHost
<1>1. kind = "pool" => kind # "window"
    OBVIOUS
<1>2. SharedInv => TablesFollowTheHost
    BY Zenon, <1>1, PoolInv, WindowInv DEF SharedInv, ManagerInv, TablesFollowTheHost
<1> QED
    BY PTL, SharedInvHolds, <1>2

\* A guarded access does what memmove, memset, strlen, strcpy, strncpy and the comparisons
\* do on the part that is mapped, however the ranges overlap and whatever the state of
\* their pages, and stops short only at a page that is not mapped or not the guest's to
\* write, or when another thread armed the page meanwhile: for any page size, size of
\* guest memory and lengths.
THEOREM AccessesMatch == Spec => []AccessesMatchReference
<1>1. SharedInv => AccessesMatchReference
    BY Zenon, AccessInv DEF SharedInv, AccessesMatchReference
<1> QED
    BY PTL, SharedInvHolds, <1>1

\* The tables of the memory manager and of direct memory, and the guest's stack with its
\* exceptions and the unwinder's records, hold what they are meant to.
THEOREM ResourcesTyped == Spec => []ResourcesTypeOK
<1>1. kind = "pool" => kind # "window"
    OBVIOUS
<1>2. SharedInv => ResourcesTypeOK
    BY Zenon, <1>1, PoolInv, WindowInv, DirectMemoryInv, ExceptionsInv
       DEF SharedInv, ManagerInv, ResourcesTypeOK
<1> QED
    BY PTL, SharedInvHolds, <1>2

\* An exception is allocated as long as it is under way or caught, the unwinder's records
\* agree with the stack, and no frame with a destructor or a clause is jumped over: for any
\* exceptions, types and depth of the stack, and however throws, rethrows and the calls of
\* destructors and clauses are nested.
THEOREM ExceptionsLive == Spec => ExceptionsLiveUntilHandled
<1>1. SharedInv => (kind = "cxa" => Libc!LivesUntilHandled /\ Libc!RecordsAgreeWithStack)
    BY Zenon, ExceptionsInv DEF SharedInv
<1>2. SharedInv /\ [Next]_vars =>
         [\A f \in DOMAIN stack : f > Len(stack') /\ Libc!HasPad(f) => stack' = Libc!Front(stack)]_(Libc!cxaVars)
    <2>1. UNCHANGED cxaVars <=> UNCHANGED Libc!cxaVars
        BY Zenon DEF cxaVars, Libc!cxaVars
    <2> QED
        BY Zenon, <2>1, StepOfOne, ExceptionsInv DEF SharedInv, PadsStay
<1> QED
    BY PTL, SharedInvHolds, <1>1, <1>2 DEF Spec, ExceptionsLiveUntilHandled, Libc!EveryPadIsLandedOn
=============================================================================
