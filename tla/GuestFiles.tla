----------------------------- MODULE GuestFiles -----------------------------
(***************************************************************************)
(* Files as libkernel gives them to the guest (src/hle/libkernel.cpp): the *)
(* descriptors of the host's C runtime, the set g_guest_fds of those the   *)
(* guest may use, and the FILE structs of the guest's libc with the map    *)
(* g_fake_file_fds from struct to descriptor.  Set and map have a mutex    *)
(* each; a call takes them one after the other.  The guest is well-behaved *)
(* here: it closes a file once and not under another call on it.           *)
(***************************************************************************)
EXTENDS Naturals, FiniteSets, Sequences

CONSTANTS Openers,
          CrtFds,     \* descriptors of the C runtime, without those of the terminal
          Structs,    \* addresses for FILE structs
          Content,    \* bytes of every file; "nl" is a newline
          MaxOpenings, MaxLine

\* 0 stands for no descriptor and no struct.
FilesAssumption ==
    /\ 0 \notin CrtFds /\ 0 \notin Structs /\ MaxOpenings \in Nat
    /\ Content \in Seq({ Content[i] : i \in DOMAIN Content })

VARIABLES crt,         \* what each descriptor of the runtime is: a number of an opening, or 0
          position, openings, \* of each opening, and how many there were
          g_guest_fds, g_fake_file_fds,
          held,        \* what the guest has: [opening, fd, struct], struct 0 for a plain descriptor
          call,        \* of each thread
          returned,    \* the call that returned in this step, else Resting
          crossed      \* history: openings that got a descriptor under an fclose

fileVars == <<crt, position, openings, g_guest_fds, g_fake_file_fds, held, call, returned, crossed>>

\* alone: no other call began on the file since this one did.
Resting == [op |-> "none", step |-> "idle", opening |-> 0, fd |-> 0, struct |-> 0, from |-> 0, got |-> <<>>, alone |-> TRUE]

Open == { fd \in CrtFds : crt[fd] # 0 }
LowestFree == { fd \in CrtFds \ Open : \A g \in CrtFds \ Open : fd <= g }
End == Len(Content)

On(o) == { t \in Openers : call[t].opening = o }
Closing(t) == call[t].op \in {"close", "fclose"}

\* A struct is unmapped when its descriptor has been closed.
Mapped(s) == (\E h \in held : h.struct = s) \/ \E t \in Openers : call[t].step \in {"begun", "erased"} /\ call[t].struct = s

\* Descriptors that an fclose has closed and not yet taken out of the set.
Untracked == { call[t].fd : t \in { t \in Openers : call[t].op # "close" /\ call[t].step \in {"fclosed", "failed"} } }

Answer(t, result) == /\ returned' = [call[t] EXCEPT !.step = result]
                     /\ call' = [call EXCEPT ![t] = Resting]
Calls(next) == call' = next /\ returned' = Resting
Go(t, step) == Calls([call EXCEPT ![t].step = step])

-----------------------------------------------------------------------------
(* KernelOpenCore and fopen. *)

\* _open: the lowest free descriptor.
CrtOpen(t, op) ==
    /\ call[t] = Resting /\ openings < MaxOpenings /\ LowestFree # {}
    /\ \E fd \in LowestFree :
         /\ crt' = [crt EXCEPT ![fd] = openings + 1]
         /\ Calls([call EXCEPT ![t] = [Resting EXCEPT !.op = op, !.step = "opened", !.opening = openings + 1, !.fd = fd]])
         /\ crossed' = IF fd \in Untracked THEN crossed \cup {openings + 1} ELSE crossed
    /\ openings' = openings + 1
    /\ UNCHANGED <<position, g_guest_fds, g_fake_file_fds, held>>

TrackGuestFd(t) ==
    /\ call[t].step = "opened"
    /\ g_guest_fds' = g_guest_fds \cup {call[t].fd}
    /\ IF call[t].op = "fopen"
       THEN Go(t, "tracked") /\ UNCHANGED held
       ELSE /\ held' = held \cup {[opening |-> call[t].opening, fd |-> call[t].fd, struct |-> 0]}
            /\ Answer(t, "served")
    /\ UNCHANGED <<crt, position, openings, g_fake_file_fds, crossed>>

\* A struct is mapped and entered; without memory the descriptor is closed again.
CreateFakeFile(t) ==
    /\ call[t].step = "tracked"
    /\ \/ \E s \in Structs : /\ g_fake_file_fds[s] = 0 /\ ~ Mapped(s)
                             /\ g_fake_file_fds' = [g_fake_file_fds EXCEPT ![s] = call[t].fd]
                             /\ held' = held \cup {[opening |-> call[t].opening, fd |-> call[t].fd, struct |-> s]}
                             /\ Answer(t, "served") /\ UNCHANGED crt
       \/ /\ crt' = [crt EXCEPT ![call[t].fd] = 0]
          /\ Go(t, "failed") /\ UNCHANGED <<g_fake_file_fds, held>>
    /\ UNCHANGED <<position, openings, g_guest_fds, crossed>>

-----------------------------------------------------------------------------
(* KernelCloseCore and fclose. *)

BeginClose(t, h) ==
    /\ call[t] = Resting /\ h \in held /\ On(h.opening) = {}
    /\ held' = held \ {h}
    /\ Calls([call EXCEPT ![t] = [Resting EXCEPT !.op = IF h.struct = 0 THEN "close" ELSE "fclose", !.step = "begun",
                                                   !.opening = h.opening, !.fd = h.fd, !.struct = h.struct]])
    /\ UNCHANGED <<crt, position, openings, g_guest_fds, g_fake_file_fds, crossed>>

\* Variant for the mutant runs: the descriptor is closed before it is taken out.
UntrackLate(t) ==
    /\ call[t].op = "close" /\ call[t].step = "begun"
    /\ crt' = [crt EXCEPT ![call[t].fd] = 0] /\ Go(t, "fclosed")
    /\ UNCHANGED <<position, openings, g_guest_fds, g_fake_file_fds, held, crossed>>

\* UntrackGuestFd says whether the guest had it; then it is closed.
UntrackGuestFd(t) ==
    /\ call[t].op = "close" /\ call[t].step = "begun"
    /\ g_guest_fds' = g_guest_fds \ {call[t].fd}
    /\ IF call[t].fd \in g_guest_fds THEN Go(t, "untracked") ELSE Answer(t, "EBADF")
    /\ UNCHANGED <<crt, position, openings, g_fake_file_fds, held, crossed>>

CrtClose(t) ==
    /\ call[t].step = "untracked"
    /\ IF crt[call[t].fd] = 0 THEN Answer(t, "abort") /\ UNCHANGED crt
       ELSE crt' = [crt EXCEPT ![call[t].fd] = 0] /\ Answer(t, "served")
    /\ UNCHANGED <<position, openings, g_guest_fds, g_fake_file_fds, held, crossed>>

\* Variant for the mutant runs: the entry of the struct stays.
DestroyKeepsEntry(t) ==
    /\ call[t].op = "fclose" /\ call[t].step = "begun"
    /\ Go(t, "erased")
    /\ UNCHANGED <<crt, position, openings, g_guest_fds, g_fake_file_fds, held, crossed>>

\* DestroyFakeFile erases the entry, then closes what it named.
DestroyFakeFile(t) ==
    /\ call[t].op = "fclose" /\ call[t].step = "begun"
    /\ g_fake_file_fds' = [g_fake_file_fds EXCEPT ![call[t].struct] = 0]
    /\ Go(t, "erased")
    /\ UNCHANGED <<crt, position, openings, g_guest_fds, held, crossed>>

CloseErased(t) ==
    /\ call[t].step = "erased"
    /\ crt' = [crt EXCEPT ![call[t].fd] = 0] /\ Go(t, "fclosed")
    /\ UNCHANGED <<position, openings, g_guest_fds, g_fake_file_fds, held, crossed>>

UntrackClosed(t) ==
    /\ call[t].step \in {"fclosed", "failed"}
    /\ g_guest_fds' = g_guest_fds \ {call[t].fd} /\ Answer(t, "served")
    /\ UNCHANGED <<crt, position, openings, g_fake_file_fds, held, crossed>>

-----------------------------------------------------------------------------
(* Calls on an open file. *)

BeginUse(t, h, op) ==
    /\ call[t] = Resting /\ h \in held
    /\ op \in IF h.struct = 0 THEN {"read", "lseek"} ELSE {"fread", "fgets", "fgetc", "feof", "fseek"}
    /\ Calls([u \in Openers |->
          IF u = t THEN [Resting EXCEPT !.op = op, !.step = "begun", !.opening = h.opening, !.fd = h.fd, !.struct = h.struct,
                                        !.from = position[h.opening], !.alone = On(h.opening) = {}]
          ELSE IF u \in On(h.opening) THEN [call[u] EXCEPT !.alone = FALSE] ELSE call[u]])
    /\ UNCHANGED <<crt, position, openings, g_guest_fds, g_fake_file_fds, held, crossed>>

\* FakeFileFd: the descriptor of a struct.
FakeFileFd(t) ==
    /\ call[t].step = "begun" /\ call[t].op \in {"fread", "fgets", "fgetc", "feof", "fseek"}
    /\ LET fd == g_fake_file_fds[call[t].struct] IN
       IF fd = 0 THEN Answer(t, "unknown")
       ELSE Calls([call EXCEPT ![t].fd = fd, ![t].step = CASE call[t].op = "fread" -> "file" [] call[t].op \in {"fgetc", "fseek"} -> "allowed" [] OTHER -> call[t].op])
    /\ UNCHANGED <<crt, position, openings, g_guest_fds, g_fake_file_fds, held, crossed>>

\* IsGuestFd; lseek and the calls on structs but fread ask nobody.
IsGuestFd(t) ==
    /\ \/ call[t].step = "begun" /\ call[t].op \in {"read", "lseek"}
       \/ call[t].step = "file"
    /\ IF call[t].op = "lseek" \/ call[t].fd \in g_guest_fds
       THEN Go(t, "allowed") ELSE Answer(t, "EBADF")
    /\ UNCHANGED <<crt, position, openings, g_guest_fds, g_fake_file_fds, held, crossed>>

\* The runtime ends the process for a descriptor that is not open.
Moves(t, n, result) ==
    LET o == crt[call[t].fd] IN
    IF o = 0 THEN Answer(t, "abort") /\ UNCHANGED position
    ELSE /\ position' = [position EXCEPT ![o] = n]
         /\ Answer(t, IF o = call[t].opening THEN result ELSE "other")

\* _read of one byte, or of none at the end; _lseeki64 back to the start.
Transfer(t) ==
    /\ call[t].step = "allowed"
    /\ LET o == crt[call[t].fd] IN
       Moves(t, IF call[t].op \in {"lseek", "fseek"} \/ o = 0 THEN 0
                ELSE IF position[o] < End THEN position[o] + 1 ELSE End, "served")
    /\ UNCHANGED <<crt, openings, g_guest_fds, g_fake_file_fds, held, crossed>>

\* Variant for the mutant runs: fgets goes on past the newline.
LineFull(got) == Len(got) = MaxLine - 1

\* size-1 bytes, or a line.
LineEnds(got) == Len(got) = MaxLine - 1 \/ (got # <<>> /\ got[Len(got)] = "nl")

\* fgets reads byte by byte.
Fgets(t) ==
    LET o == crt[call[t].fd] IN
    /\ call[t].step = "fgets"
    /\ IF o # 0 /\ ~ LineEnds(call[t].got) /\ position[o] < End
       THEN /\ Calls([call EXCEPT ![t].got = Append(@, Content[position[o] + 1])])
            /\ position' = [position EXCEPT ![o] = @ + 1]
       ELSE Moves(t, IF o = 0 THEN 0 ELSE position[o], "served")
    /\ UNCHANGED <<crt, openings, g_guest_fds, g_fake_file_fds, held, crossed>>

\* feof asks for the position, goes to the end for the size,
FeofAsks(t) ==
    LET o == crt[call[t].fd] IN
    /\ call[t].step = "feof"
    /\ IF o = 0 THEN Answer(t, "abort") /\ UNCHANGED position
       ELSE /\ Calls([call EXCEPT ![t].from = position[o], ![t].step = "end"])
            /\ position' = [position EXCEPT ![o] = End]
    /\ UNCHANGED <<crt, openings, g_guest_fds, g_fake_file_fds, held, crossed>>

\* Variant for the mutant runs: and stays there.
FeofStays(t) ==
    /\ call[t].step = "end"
    /\ Answer(t, "served")
    /\ UNCHANGED <<crt, position, openings, g_guest_fds, g_fake_file_fds, held, crossed>>

\* and comes back.
FeofReturns(t) ==
    /\ call[t].step = "end"
    /\ Moves(t, call[t].from, "served")
    /\ UNCHANGED <<crt, openings, g_guest_fds, g_fake_file_fds, held, crossed>>

-----------------------------------------------------------------------------
Init ==
    /\ crt = [fd \in CrtFds |-> 0] /\ position = [o \in 1 .. MaxOpenings |-> 0] /\ openings = 0
    /\ g_guest_fds = {} /\ g_fake_file_fds = [s \in Structs |-> 0] /\ held = {}
    /\ call = [t \in Openers |-> Resting] /\ returned = Resting /\ crossed = {}

Next ==
    \E t \in Openers :
        \/ CrtOpen(t, "open") \/ CrtOpen(t, "fopen") \/ TrackGuestFd(t) \/ CreateFakeFile(t)
        \/ UntrackGuestFd(t) \/ CrtClose(t) \/ DestroyFakeFile(t) \/ CloseErased(t) \/ UntrackClosed(t)
        \/ FakeFileFd(t) \/ IsGuestFd(t) \/ Transfer(t) \/ Fgets(t) \/ FeofAsks(t) \/ FeofReturns(t)
        \/ \E h \in held : BeginClose(t, h) \/ \E op \in {"read", "lseek", "fread", "fgets", "fgetc", "feof", "fseek"} : BeginUse(t, h, op)

Spec == Init /\ [][Next]_fileVars

-----------------------------------------------------------------------------
(* Properties. *)

\* What the guest holds stays open under the descriptor and the struct it was given.
HeldFilesStayOpen ==
    \A h \in held : crt[h.fd] = h.opening /\ (h.struct # 0 => g_fake_file_fds[h.struct] = h.fd)

\* A legal call is served, on the file it names and without the runtime ending the
\* process; only a file that got its descriptor while an fclose had closed it and not
\* yet taken it out of g_guest_fds may be refused.
LegalCallsAreServed ==
    /\ returned.step \in {"idle", "served", "EBADF"}
    /\ returned.step = "EBADF" => returned.opening \in crossed

\* A struct whose file is closed names no descriptor.
ClosedStructsAreFree ==
    \A s \in Structs : g_fake_file_fds[s] # 0 =>
        \/ \E h \in held : h.struct = s
        \/ \E t \in Openers : call[t].struct = s

\* While no calls overlap on a file, feof leaves its position alone and fgets moves
\* over the rest of a line, as far as the buffer reaches.
Line(from) == CHOOSE n \in 0 .. End - from :
                 LET Complete(k) == k = End - from \/ k = MaxLine - 1 \/ (k > 0 /\ Content[from + k] = "nl")
                 IN Complete(n) /\ \A k \in 0 .. n - 1 : ~ Complete(k)
StreamCallsAreExact ==
    returned.step = "served" /\ returned.alone =>
        /\ returned.op = "feof" => position[returned.opening] = returned.from
        /\ returned.op = "fgets" =>
              /\ position[returned.opening] = returned.from + Line(returned.from)
              /\ returned.got = SubSeq(Content, returned.from + 1, returned.from + Line(returned.from))
=============================================================================
