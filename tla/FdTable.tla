------------------------------ MODULE FdTable ------------------------------
(***************************************************************************)
(* The descriptor table of src/kernel/fd_table.cpp under the system calls  *)
(* of src/kernel/syscalls.cpp.  Every table function takes g_fd_mutex, but *)
(* a call uses several of them: it tests the descriptor (IsValidFd), looks *)
(* the entry up (GetFd, which hands out a pointer into the table), and     *)
(* works through that pointer with no lock, while other guest threads      *)
(* close and open descriptors.  Descriptors 0 to 2 are the terminal and    *)
(* have no handle.                                                         *)
(***************************************************************************)
EXTENDS Naturals, FiniteSets

CONSTANTS Callers,   \* guest threads in system calls
          MAX_FDS,   \* size of the table
          FileHandles, Sockets, NoFile, \* handles of host files, host sockets; nullptr
          MaxOffset  \* bound of file offsets

Fds == 3 .. MAX_FDS - 1

VARIABLES in_use, type, file, offset, \* g_fd_table, by descriptor
          g_next_fd,
          open_files, \* handles open at the host
          call,       \* the system call of each thread
          moved,      \* history: bytes read, written or sought since the descriptor was opened
          disturbed   \* history: descriptors that calls overlapped on, or that a call outlived

vars == <<in_use, type, file, offset, g_next_fd, open_files, call, moved, disturbed>>
table == <<in_use, type, file, offset, g_next_fd, open_files>>

Idle == [op |-> "none", fd |-> 0, step |-> "idle", handle |-> NoFile]
Using(fd) == { t \in Callers : call[t].fd = fd }

-----------------------------------------------------------------------------
(* AllocateFdLocked: the first free entry from g_next_fd on, then from 3 on. *)

First(S) == CHOOSE f \in S : \A g \in S : f <= g
FreeFrom(lo, hi) == { f \in Fds : lo <= f /\ f < hi /\ f \notin in_use }

\* Variant for the mutant runs: the second search forgets to test the entry.
SlotTaken ==
    IF FreeFrom(g_next_fd, MAX_FDS) # {} THEN FreeFrom(g_next_fd, MAX_FDS)
    ELSE { f \in Fds : f < g_next_fd }

\* The set of the entry it takes; empty for EMFILE.
Slot ==
    LET after == FreeFrom(g_next_fd, MAX_FDS)
        before == FreeFrom(3, g_next_fd) IN
    IF after # {} THEN {First(after)} ELSE IF before # {} THEN {First(before)} ELSE {}

\* Variant for the mutant runs: the offset of the last user stays.
SetEntryKeepsOffset(fd, ty, h) ==
    /\ in_use' = in_use \cup {fd}
    /\ type' = [type EXCEPT ![fd] = ty]
    /\ file' = [file EXCEPT ![fd] = h]
    /\ UNCHANGED offset
    /\ g_next_fd' = fd + 1

SetEntry(fd, ty, h) ==
    /\ in_use' = in_use \cup {fd}
    /\ type' = [type EXCEPT ![fd] = ty]
    /\ file' = [file EXCEPT ![fd] = h]
    /\ offset' = [offset EXCEPT ![fd] = 0]
    /\ g_next_fd' = fd + 1

-----------------------------------------------------------------------------
(* open, socket, accept. *)

SysOpen(t, h) ==
    /\ call[t] = Idle /\ h \notin open_files
    /\ open_files' = open_files \cup {h}
    /\ call' = [call EXCEPT ![t] = [op |-> "open", fd |-> 0, step |-> "opened", handle |-> h]]
    /\ UNCHANGED <<in_use, type, file, offset, g_next_fd, moved, disturbed>>

\* AllocateFd; without a free entry the handle is closed again.
AllocateFd(t) ==
    /\ call[t].step = "opened"
    /\ IF Slot = {} THEN /\ open_files' = open_files \ {call[t].handle}
                         /\ UNCHANGED <<in_use, type, file, offset, g_next_fd, moved, disturbed>>
       ELSE \E fd \in Slot :
            /\ SetEntry(fd, IF call[t].handle \in Sockets THEN "socket" ELSE "file", call[t].handle)
            /\ moved' = [moved EXCEPT ![fd] = 0]
            /\ disturbed' = IF Using(fd) = {} THEN disturbed \ {fd} ELSE disturbed
            /\ UNCHANGED open_files
    /\ call' = [call EXCEPT ![t] = Idle]

\* Variant for the mutant runs: the handle stays open.
CloseFdKeepsHandle(t, fd) ==
    /\ call[t] = Idle /\ fd \in in_use
    /\ in_use' = in_use \ {fd}
    /\ file' = [file EXCEPT ![fd] = NoFile]
    /\ disturbed' = IF Using(fd) # {} THEN disturbed \cup {fd} ELSE disturbed
    /\ UNCHANGED <<type, offset, g_next_fd, open_files, call, moved>>

\* CloseFdLocked; the host socket of a socket stays open.
CloseFd(t, fd) ==
    /\ call[t] = Idle /\ fd \in in_use
    /\ in_use' = in_use \ {fd}
    /\ file' = [file EXCEPT ![fd] = NoFile]
    /\ open_files' = IF type[fd] = "file" THEN open_files \ {file[fd]} ELSE open_files
    /\ disturbed' = IF Using(fd) # {} THEN disturbed \cup {fd} ELSE disturbed
    /\ UNCHANGED <<type, offset, g_next_fd, call, moved>>

-----------------------------------------------------------------------------
(* read, write and lseek, and the calls on sockets. *)

\* IsValidFd; EBADF otherwise.
BeginCall(t, op, fd) ==
    /\ call[t] = Idle /\ fd \in in_use
    /\ call' = [call EXCEPT ![t] = [op |-> op, fd |-> fd, step |-> "valid", handle |-> NoFile]]
    /\ disturbed' = IF Using(fd) # {} THEN disturbed \cup {fd} ELSE disturbed
    /\ UNCHANGED <<table, moved>>

\* GetFd; a descriptor closed since gives nullptr, which the call reads through.
GetFd(t) ==
    /\ call[t].step = "valid"
    /\ call' = [call EXCEPT ![t] = [@ EXCEPT !.step = IF call[t].fd \in in_use THEN "entry" ELSE "crashed",
                                             !.handle = file[call[t].fd]]]
    /\ UNCHANGED <<table, moved, disturbed>>

Finish(t) == call' = [call EXCEPT ![t] = Idle]

\* SetFilePointerEx to the entry's offset and ReadFile or WriteFile, with the
\* handle the entry has now; an entry with none, or of a socket, answers at once.
Transfer(t) ==
    /\ call[t].step = "entry" /\ call[t].op \in {"read", "write"}
    /\ LET fd == call[t].fd IN
       IF type[fd] = "file" /\ file[fd] \in open_files /\ moved[fd] < MaxOffset
       THEN /\ call' = [call EXCEPT ![t] = [@ EXCEPT !.step = "moved", !.handle = file[fd]]]
            /\ moved' = [moved EXCEPT ![fd] = @ + 1]
       ELSE Finish(t) /\ UNCHANGED moved
    /\ UNCHANGED <<table, disturbed>>

\* entry->offset += n, into whatever the entry describes by now.
AdvanceOffset(t) ==
    /\ call[t].step = "moved"
    /\ offset' = [offset EXCEPT ![call[t].fd] = @ + 1]
    /\ Finish(t)
    /\ UNCHANGED <<in_use, type, file, g_next_fd, open_files, moved, disturbed>>

\* Variant for the mutant runs: a seek from the end forgets the size.
SysLseekFromZero(t, to) ==
    /\ call[t].step = "entry" /\ call[t].op = "lseek"
    /\ offset' = [offset EXCEPT ![call[t].fd] = 0]
    /\ moved' = [moved EXCEPT ![call[t].fd] = to]
    /\ Finish(t)
    /\ UNCHANGED <<in_use, type, file, g_next_fd, open_files, disturbed>>

\* entry->offset = new_offset.
SysLseek(t, to) ==
    /\ call[t].step = "entry" /\ call[t].op = "lseek"
    /\ offset' = [offset EXCEPT ![call[t].fd] = to]
    /\ moved' = [moved EXCEPT ![call[t].fd] = to]
    /\ Finish(t)
    /\ UNCHANGED <<in_use, type, file, g_next_fd, open_files, disturbed>>

-----------------------------------------------------------------------------
Init ==
    /\ in_use = {} /\ g_next_fd = 3 /\ open_files = {} /\ disturbed = {}
    /\ type = [fd \in Fds |-> "none"]
    /\ file = [fd \in Fds |-> NoFile]
    /\ offset = [fd \in Fds |-> 0]
    /\ moved = [fd \in Fds |-> 0]
    /\ call = [t \in Callers |-> Idle]

Next ==
    \E t \in Callers :
        \/ \E h \in FileHandles \cup Sockets : SysOpen(t, h)
        \/ AllocateFd(t) \/ GetFd(t) \/ Transfer(t) \/ AdvanceOffset(t)
        \/ \E fd \in Fds, op \in {"read", "write", "lseek"} : CloseFd(t, fd) \/ BeginCall(t, op, fd)
        \/ \E to \in 0 .. MaxOffset : SysLseek(t, to)

Spec == Init /\ [][Next]_vars

-----------------------------------------------------------------------------
(* Properties. *)

\* A handle of the host has one owner, the entry that closes it or a call that
\* has opened it and not entered it yet; what an entry names is open, and a file
\* that is open has an owner (a socket's is left open when it is closed).
Opening(h) == { t \in Callers : call[t].step = "opened" /\ call[t].handle = h }
HandleHasOneOwner ==
    \A h \in FileHandles \cup Sockets :
        LET owners == { fd \in in_use : file[fd] = h } \cup Opening(h) IN
        /\ Cardinality(owners) <= 1
        /\ owners # {} => h \in open_files
        /\ h \in open_files \cap FileHandles => owners # {}

\* The offset of a descriptor is what was moved through it since it was opened,
\* unless calls on it overlapped or one of them outlived a close: only then can
\* a call work on the entry of another file.
OffsetFollowsTransfers ==
    \A fd \in in_use \ disturbed :
        offset[fd] = moved[fd] \/ \E t \in Using(fd) : call[t].step = "moved"

\* A call reads through a null entry only when its descriptor was closed after
\* the call had tested it.
CrashNeedsAClose == \A t \in Callers : call[t].step = "crashed" => call[t].fd \in disturbed
=============================================================================
