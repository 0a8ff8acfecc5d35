------------------------- MODULE ServicePartsProofs -------------------------
(***************************************************************************)
(* Proofs about three of the services: guest files, for any number of      *)
(* threads, descriptors, structs and openings and any content, where a     *)
(* call owns a descriptor, works on a file the guest holds, or has closed  *)
(* its own; audio ports, for any number of threads and buffers; and the    *)
(* preview player, for any tracks and files.                               *)
(***************************************************************************)
EXTENDS GuestFiles, AudioPort, SoundPlayer, Integers, FiniteSetTheorems, SequenceTheorems, TLAPS

-----------------------------------------------------------------------------
(* Shapes. *)

Bytes == { Content[i] : i \in DOMAIN Content }

LEMMA FilesConstants ==
    ASSUME FilesAssumption
    PROVE  /\ 0 \notin CrtFds /\ 0 \notin Structs /\ MaxOpenings \in Nat
           /\ Content \in Seq(Bytes) /\ Len(Content) \in Nat
<1>1. 0 \notin CrtFds /\ 0 \notin Structs /\ MaxOpenings \in Nat /\ Content \in Seq(Bytes)
    BY Zenon DEF FilesAssumption, Bytes
<1> QED
    BY <1>1, LenProperties

FileRec(r) ==
    r = [op |-> r.op, step |-> r.step, opening |-> r.opening, fd |-> r.fd, struct |-> r.struct,
         from |-> r.from, got |-> r.got, alone |-> r.alone]

\* The call has the descriptor to itself: the guest does not hold the file yet, or no longer.
Owns(r) ==
    \/ r.op \in {"open", "fopen"} /\ r.step = "opened" /\ r.struct = 0
    \/ r.op = "fopen" /\ r.step = "tracked" /\ r.struct = 0
    \/ r.op = "close" /\ r.step \in {"begun", "untracked"}
    \/ r.op = "fclose" /\ r.step = "begun" /\ r.struct \in Structs
    \/ r.op = "fclose" /\ r.step = "erased"

\* The call works on a file the guest holds.
Uses(r) ==
    \/ r.op \in {"read", "lseek"} /\ r.step \in {"begun", "allowed"}
    \/ r.op = "fread" /\ r.step \in {"begun", "file", "allowed"} /\ r.struct \in Structs
    \/ r.op \in {"fgetc", "fseek"} /\ r.step \in {"begun", "allowed"} /\ r.struct \in Structs
    \/ r.op = "fgets" /\ r.step \in {"begun", "fgets"} /\ r.struct \in Structs
    \/ r.op = "feof" /\ r.step \in {"begun", "feof", "end"} /\ r.struct \in Structs

\* The descriptor is closed and still in g_guest_fds.
Ended(r) ==
    \/ r.op = "fopen" /\ r.step = "failed"
    \/ r.op = "fclose" /\ r.step = "fclosed"

CallShape(r, n) ==
    \/ r = Resting
    \/ /\ FileRec(r) /\ (Owns(r) \/ Uses(r) \/ Ended(r))
       /\ r.opening \in 1 .. n /\ r.fd \in CrtFds /\ r.from \in 0 .. Len(Content)

HeldShape(h, n) ==
    /\ h = [opening |-> h.opening, fd |-> h.fd, struct |-> h.struct]
    /\ h.opening \in 1 .. n /\ h.fd \in CrtFds /\ h.struct \in Structs \cup {0}

FileShapes ==
    /\ crt = [fd \in CrtFds |-> crt[fd]] /\ openings \in 0 .. MaxOpenings
    /\ \A fd \in CrtFds : crt[fd] \in 0 .. openings
    /\ g_fake_file_fds = [s \in Structs |-> g_fake_file_fds[s]]
    /\ position = [o \in 1 .. MaxOpenings |-> position[o]]
    /\ \A o \in 1 .. MaxOpenings : position[o] \in 0 .. Len(Content)
    /\ call = [t \in Openers |-> call[t]]
    /\ \A t \in Openers : CallShape(call[t], openings)
    /\ \A h \in held : HeldShape(h, openings)

-----------------------------------------------------------------------------
(* Who has a descriptor. *)

SoleOn(t) == \A u \in Openers : call[u].opening = call[t].opening => u = t
HeldBy(r) == [opening |-> r.opening, fd |-> r.fd, struct |-> r.struct]

\* A descriptor is of one opening, which the guest holds once or one call owns.
CrtIsOneToOne == \A f, g \in CrtFds : crt[f] = crt[g] /\ crt[f] # 0 => f = g
HeldIsOpen ==
    /\ \A h \in held : crt[h.fd] = h.opening /\ (h.struct # 0 => g_fake_file_fds[h.struct] = h.fd)
    /\ \A h, k \in held : h.opening = k.opening => h = k
OwnersOwn ==
    \A t \in Openers : Owns(call[t]) =>
        /\ crt[call[t].fd] = call[t].opening /\ SoleOn(t)
        /\ \A h \in held : h.opening # call[t].opening
        /\ call[t].op = "fclose" /\ call[t].step = "begun" => g_fake_file_fds[call[t].struct] = call[t].fd
UsersHold == \A t \in Openers : Uses(call[t]) => HeldBy(call[t]) \in held

\* Whoever got the descriptor of a call that has yet to untrack it went on record.
EndedCross == \A t \in Openers : Ended(call[t]) => crt[call[t].fd] = 0 \/ crt[call[t].fd] \in crossed

\* Other files are in g_guest_fds.
Tracked ==
    /\ \A h \in held : h.opening \in crossed \/ h.fd \in g_guest_fds
    /\ \A t \in Openers : Owns(call[t]) /\ call[t].step \in {"tracked", "begun"} =>
          call[t].opening \in crossed \/ call[t].fd \in g_guest_fds

\* An entry is of a file the guest holds or is closing.
StructsNamed ==
    \A s \in Structs : g_fake_file_fds[s] # 0 =>
        \/ \E h \in held : h.struct = s
        \/ \E t \in Openers : call[t].op = "fclose" /\ call[t].step = "begun" /\ call[t].struct = s

FilesOwned == CrtIsOneToOne /\ HeldIsOpen /\ OwnersOwn /\ UsersHold /\ EndedCross /\ Tracked /\ StructsNamed

-----------------------------------------------------------------------------
(* Calls that are alone on theirs. *)

\* n bytes from from on make a line, or all that fits or is left.
Complete(from, n) == n = Len(Content) - from \/ n = MaxLine - 1 \/ (n > 0 /\ Content[from + n] = "nl")

\* Where the file is, as far as the call has come.
Progress(r, at) ==
    IF r.step = "fgets"
    THEN /\ r.from <= at /\ r.got = SubSeq(Content, r.from + 1, at)
         /\ \A k \in 0 .. at - r.from - 1 : ~ Complete(r.from, k)
    ELSE (r.step # "end" => at = r.from) /\ r.got = <<>>

AloneExact ==
    \A t \in Openers : Uses(call[t]) /\ call[t].alone => SoleOn(t) /\ Progress(call[t], position[call[t].opening])

FilesInv ==
    /\ FileShapes /\ FilesOwned /\ AloneExact
    /\ LegalCallsAreServed /\ StreamCallsAreExact

LEMMA RestingIsIdle ==
    LET r == Resting IN
    /\ FileRec(r) /\ r.step = "idle" /\ r.op = "none" /\ r.opening = 0
    /\ ~ Owns(r) /\ ~ Uses(r) /\ ~ Ended(r)
<1>1. PICK r : r = Resting
    OBVIOUS
<1>2. r.step = "idle" /\ r.op = "none" /\ r.opening = 0
    BY <1>1 DEF Resting
<1>3. FileRec(r)
    BY <1>1 DEF Resting, FileRec
<1>4. ~ Owns(r) /\ ~ Uses(r) /\ ~ Ended(r)
    BY <1>2 DEF Owns, Uses, Ended
<1> QED
    BY <1>1, <1>2, <1>3, <1>4, Zenon

LEMMA FilesInitInv == FilesAssumption /\ Init => FilesInv
<1> SUFFICES ASSUME FilesAssumption, Init PROVE FilesInv
    OBVIOUS
<1>1. /\ crt = [fd \in CrtFds |-> 0] /\ position = [o \in 1 .. MaxOpenings |-> 0] /\ openings = 0
      /\ g_guest_fds = {} /\ g_fake_file_fds = [s \in Structs |-> 0] /\ held = {}
      /\ call = [t \in Openers |-> Resting] /\ returned = Resting
    BY DEF Init
<1>2. FileShapes
    BY <1>1, FilesConstants DEF FileShapes, CallShape
<1>3. \A t \in Openers : ~ Owns(call[t]) /\ ~ Uses(call[t]) /\ ~ Ended(call[t])
    <2>1. \A t \in Openers : call[t] = Resting
        BY <1>1
    <2> QED
        BY <2>1, RestingIsIdle, Zenon
<1>4. FilesOwned /\ AloneExact
    BY <1>1, <1>3 DEF FilesOwned, CrtIsOneToOne, HeldIsOpen, OwnersOwn, UsersHold, EndedCross, Tracked, StructsNamed,
                      AloneExact
<1>5. LegalCallsAreServed /\ StreamCallsAreExact
    BY <1>1 DEF LegalCallsAreServed, StreamCallsAreExact, Resting
<1> QED
    BY <1>2, <1>4, <1>5 DEF FilesInv

LEMMA FilesInvImplies ==
    FilesInv => /\ HeldFilesStayOpen /\ LegalCallsAreServed
                /\ ClosedStructsAreFree /\ StreamCallsAreExact
<1> SUFFICES ASSUME FilesInv PROVE HeldFilesStayOpen /\ ClosedStructsAreFree
    BY DEF FilesInv
<1>1. HeldFilesStayOpen
    BY Zenon DEF FilesInv, FilesOwned, HeldIsOpen, HeldFilesStayOpen
<1>2. ClosedStructsAreFree
    BY Zenon DEF FilesInv, FilesOwned, StructsNamed, ClosedStructsAreFree
<1> QED
    BY <1>1, <1>2

-----------------------------------------------------------------------------
(* What a thread's step does to its record. *)

LEMMA KindsDiffer == \A r : ~ (Owns(r) /\ Uses(r)) /\ ~ (Owns(r) /\ Ended(r)) /\ ~ (Uses(r) /\ Ended(r))
BY DEF Owns, Uses, Ended

LEMMA BusyOpening ==
    ASSUME FilesAssumption, FileShapes, NEW t \in Openers, call[t].step # "idle"
    PROVE  /\ FileRec(call[t]) /\ call[t].opening \in 1 .. openings /\ call[t].fd \in CrtFds
           /\ call[t].from \in 0 .. Len(Content) /\ call[t].opening \in 1 .. MaxOpenings /\ call[t].opening # 0
<1>1. CallShape(call[t], openings) /\ call[t] # Resting
    BY RestingIsIdle, Zenon DEF FileShapes
<1>2. openings \in 0 .. MaxOpenings
    BY DEF FileShapes
<1>3. FileRec(call[t]) /\ call[t].opening \in 1 .. openings /\ call[t].fd \in CrtFds
      /\ call[t].from \in 0 .. Len(Content)
    BY <1>1, Zenon DEF CallShape
<1> QED
    BY <1>2, <1>3, FilesConstants

LEMMA KindsAreBusy == \A r : Owns(r) \/ Uses(r) \/ Ended(r) => r.step # "idle"
BY DEF Owns, Uses, Ended

\* Go: the step alone.
LEMMA StepMoves ==
    ASSUME FilesAssumption, FileShapes, NEW t \in Openers, NEW step, call[t].step # "idle"
    PROVE  LET r == [call[t] EXCEPT !.step = step] IN
           /\ FileRec(r) /\ r.step = step /\ r.op = call[t].op /\ r.opening = call[t].opening /\ r.fd = call[t].fd
           /\ r.struct = call[t].struct /\ r.from = call[t].from /\ r.got = call[t].got /\ r.alone = call[t].alone
<1>1. PICK r : r = call[t]
    OBVIOUS
<1>2. r = [op |-> r.op, step |-> r.step, opening |-> r.opening, fd |-> r.fd, struct |-> r.struct,
           from |-> r.from, got |-> r.got, alone |-> r.alone]
    BY <1>1, BusyOpening, Zenon DEF FileRec
<1>3. PICK n : n = [r EXCEPT !.step = step]
    OBVIOUS
<1>4. n = [op |-> r.op, step |-> step, opening |-> r.opening, fd |-> r.fd, struct |-> r.struct,
           from |-> r.from, got |-> r.got, alone |-> r.alone]
    BY <1>2, <1>3
<1>5. /\ n.step = step /\ n.op = r.op /\ n.opening = r.opening /\ n.fd = r.fd
      /\ n.struct = r.struct /\ n.from = r.from /\ n.got = r.got /\ n.alone = r.alone
    BY <1>4
<1>6. FileRec(n)
    BY <1>4, <1>5, Zenon DEF FileRec
<1> QED
    BY <1>1, <1>3, <1>5, <1>6, Zenon

LEMMA CallChangesAt ==
    ASSUME FilesAssumption, FileShapes, NEW t \in Openers, NEW r, call' = [call EXCEPT ![t] = r]
    PROVE  /\ call' = [u \in Openers |-> call'[u]] /\ call'[t] = r
           /\ \A u \in Openers : u # t => call'[u] = call[u]
BY DEF FileShapes

\* The others' records: their shape stays.
LEMMA ShapesStay ==
    ASSUME NEW n \in Nat, NEW m \in Nat, n <= m, NEW r, CallShape(r, n)
    PROVE  CallShape(r, m)
BY DEF CallShape

\* A call that works on a file moves on or returns, and may move the file.
LEMMA UserStep ==
    ASSUME FilesAssumption, FileShapes, FilesOwned, AloneExact, NEW t \in Openers, Uses(call[t]),
           NEW r, NEW at \in 0 .. Len(Content),
           UNCHANGED <<crt, openings, g_guest_fds, g_fake_file_fds, held, crossed>>,
           call' = [call EXCEPT ![t] = r], position' = [position EXCEPT ![call[t].opening] = at],
           \/ r = Resting
           \/ /\ FileRec(r) /\ Uses(r) /\ r.opening = call[t].opening /\ r.fd = call[t].fd /\ r.struct = call[t].struct
              /\ r.from \in 0 .. Len(Content) /\ (r.alone => call[t].alone) /\ (call[t].alone => Progress(r, at))
    PROVE  FileShapes' /\ FilesOwned' /\ AloneExact'
<1> DEFINE o == call[t].opening
<1>1. /\ call' = [u \in Openers |-> call'[u]] /\ call'[t] = r
      /\ \A u \in Openers : u # t => call'[u] = call[u]
    BY CallChangesAt
<1>2. /\ FileRec(call[t]) /\ o \in 1 .. openings /\ call[t].fd \in CrtFds /\ o \in 1 .. MaxOpenings
    BY BusyOpening, KindsAreBusy, Zenon
<1>3. /\ position' = [p \in 1 .. MaxOpenings |-> position'[p]] /\ position'[o] = at
      /\ \A p \in 1 .. MaxOpenings : p # o => position'[p] = position[p]
    BY <1>2 DEF FileShapes
<1>4. /\ r = Resting \/ (FileRec(r) /\ Uses(r)) 
      /\ r.opening \in {0, o} /\ ~ Owns(r) /\ ~ Ended(r)
      /\ Uses(r) => HeldBy(r) = HeldBy(call[t]) /\ r # Resting
    BY RestingIsIdle, KindsDiffer, Zenon DEF HeldBy
<1>5. \A u \in Openers : CallShape(call'[u], openings')
    <2>1. CallShape(r, openings)
        BY <1>2, Zenon DEF CallShape
    <2>2. \A u \in Openers : CallShape(call[u], openings)
        BY DEF FileShapes
    <2> QED
        BY <1>1, <2>1, <2>2, Zenon
<1>6. FileShapes'
    <2>1. \A p \in 1 .. MaxOpenings : position'[p] \in 0 .. Len(Content)
        BY <1>3 DEF FileShapes
    <2> QED
        BY <1>1, <1>3, <1>5, <2>1, Zenon DEF FileShapes
<1>7. ASSUME NEW u \in Openers, SoleOn(u), call[u].opening # 0 PROVE SoleOn(u)' \/ u = t
    BY <1>1, <1>4, <1>7 DEF SoleOn
<1>8. FilesOwned'
    <2>1. CrtIsOneToOne' /\ HeldIsOpen'
        BY DEF FilesOwned, CrtIsOneToOne, HeldIsOpen
    <2>2. OwnersOwn'
        <3> SUFFICES ASSUME NEW u \in Openers, Owns(call'[u])
                     PROVE  /\ crt'[call'[u].fd] = call'[u].opening /\ SoleOn(u)'
                            /\ \A h \in held' : h.opening # call'[u].opening
                            /\ call'[u].op = "fclose" /\ call'[u].step = "begun"
                                   => g_fake_file_fds'[call'[u].struct] = call'[u].fd
            BY DEF OwnersOwn
        <3>1. u # t /\ call'[u] = call[u] /\ Owns(call[u]) /\ call[u].opening # 0
            BY <1>1, <1>4, BusyOpening, KindsAreBusy, Zenon
        <3>2. /\ crt[call[u].fd] = call[u].opening /\ SoleOn(u)
              /\ \A h \in held : h.opening # call[u].opening
              /\ call[u].op = "fclose" /\ call[u].step = "begun" => g_fake_file_fds[call[u].struct] = call[u].fd
            BY <3>1, Zenon DEF FilesOwned, OwnersOwn
        <3>3. SoleOn(u)'
            BY <1>7, <3>1, <3>2, Zenon
        <3> QED
            BY <3>1, <3>2, <3>3, Zenon
    <2>3. UsersHold'
        BY <1>1, <1>4, Zenon DEF FilesOwned, UsersHold
    <2>4. EndedCross' /\ Tracked'
        BY <1>1, <1>4, Zenon DEF FilesOwned, EndedCross, Tracked
    <2>5. StructsNamed'
        <3>1. \A u \in Openers : call[u].op = "fclose" /\ call[u].step = "begun" => u # t
            BY DEF Uses
        <3> SUFFICES ASSUME NEW s \in Structs, g_fake_file_fds[s] # 0
                     PROVE  \/ \E h \in held : h.struct = s
                            \/ \E u \in Openers : call'[u].op = "fclose" /\ call'[u].step = "begun" /\ call'[u].struct = s
            BY DEF StructsNamed
        <3>2. CASE \E h \in held : h.struct = s
            BY <3>2
        <3>3. ASSUME NEW u \in Openers, call[u].op = "fclose", call[u].step = "begun", call[u].struct = s
              PROVE  call'[u].op = "fclose" /\ call'[u].step = "begun" /\ call'[u].struct = s
            BY <1>1, <3>1, <3>3, Zenon
        <3> QED
            BY <3>2, <3>3, Zenon DEF FilesOwned, StructsNamed
    <2> QED
        BY <2>1, <2>2, <2>3, <2>4, <2>5, Zenon DEF FilesOwned
<1>9. AloneExact'
    <2> SUFFICES ASSUME NEW u \in Openers, Uses(call'[u]), call'[u].alone
                 PROVE  SoleOn(u)' /\ Progress(call'[u], position'[call'[u].opening])
        BY DEF AloneExact
    <2>1. CASE u = t
        <3>1. call'[u] = r /\ r.opening = o /\ call[t].alone /\ Progress(r, at)
            BY <1>1, <1>4, <2>1, RestingIsIdle, Zenon
        <3>2. SoleOn(t)'
            <4>1. SoleOn(t)
                BY <3>1, Zenon DEF AloneExact
            <4> QED
                BY <1>1, <1>4, <3>1, <2>1, <4>1, Zenon DEF SoleOn
        <3>3. position'[call'[u].opening] = at
            BY <1>3, <3>1, Zenon
        <3> QED
            BY <2>1, <3>1, <3>2, <3>3, Zenon DEF Progress, Complete
    <2>2. CASE u # t
        <3>1. call'[u] = call[u] /\ SoleOn(u) /\ Progress(call[u], position[call[u].opening])
            BY <1>1, <2>2, Zenon DEF AloneExact
        <3>2. call[u].opening \in 1 .. MaxOpenings /\ call[u].opening # 0
            BY <1>1, <2>2, BusyOpening, KindsAreBusy, Zenon
        <3>3. call[u].opening # o
            BY <2>2, <3>1, Zenon DEF SoleOn
        <3>4. position'[call'[u].opening] = position[call[u].opening]
            BY <1>3, <3>1, <3>2, <3>3, Zenon
        <3>5. SoleOn(u)'
            BY <1>7, <2>2, <3>1, <3>2, Zenon
        <3> QED
            BY <3>1, <3>4, <3>5, Zenon DEF Progress, Complete
    <2> QED
        BY <2>1, <2>2
<1> QED
    BY <1>6, <1>8, <1>9

-----------------------------------------------------------------------------
(* Calls on an open file. *)

LEMMA UserKnows ==
    ASSUME FilesAssumption, FileShapes, FilesOwned, NEW t \in Openers, Uses(call[t])
    PROVE  /\ call[t].step # "idle" /\ HeldBy(call[t]) \in held
           /\ crt[call[t].fd] = call[t].opening /\ call[t].opening # 0
           /\ call[t].opening \in 1 .. MaxOpenings
           /\ call[t].struct \in Structs => g_fake_file_fds[call[t].struct] = call[t].fd
           /\ position[call[t].opening] \in 0 .. Len(Content)
           /\ call[t].opening \in crossed \/ call[t].fd \in g_guest_fds
<1>1. call[t].step # "idle" /\ call[t].opening \in 1 .. MaxOpenings /\ call[t].opening # 0
    BY BusyOpening, KindsAreBusy, Zenon
<1>2. HeldBy(call[t]) \in held
    BY Zenon DEF FilesOwned, UsersHold
<1>3. HeldBy(call[t]).fd = call[t].fd /\ HeldBy(call[t]).opening = call[t].opening
      /\ HeldBy(call[t]).struct = call[t].struct
    BY DEF HeldBy
<1>4. /\ crt[call[t].fd] = call[t].opening
      /\ call[t].struct # 0 => g_fake_file_fds[call[t].struct] = call[t].fd
    BY <1>2, <1>3, Zenon DEF FilesOwned, HeldIsOpen
<1>5. call[t].struct \in Structs => call[t].struct # 0
    BY FilesConstants
<1>6. call[t].opening \in crossed \/ call[t].fd \in g_guest_fds
    BY <1>2, <1>3, Zenon DEF FilesOwned, Tracked
<1>7. position[call[t].opening] \in 0 .. Len(Content)
    BY <1>1 DEF FileShapes
<1> QED
    BY <1>1, <1>2, <1>4, <1>5, <1>6, <1>7, Zenon

\* A step that answers nobody.
LEMMA SilentAnswers ==
    ASSUME returned' = Resting PROVE LegalCallsAreServed' /\ StreamCallsAreExact'
<1>1. returned'.step = "idle"
    BY RestingIsIdle, Zenon
<1>2. LegalCallsAreServed'
    BY <1>1 DEF LegalCallsAreServed
<1>3. StreamCallsAreExact'
    BY <1>1 DEF StreamCallsAreExact
<1> QED
    BY <1>2, <1>3

\* One that answers, of a call whose answer says nothing of the position.
LEMMA OtherAnswers ==
    ASSUME FilesAssumption, FileShapes, NEW t \in Openers, call[t].step # "idle", NEW result,
           Answer(t, result),
           \/ result = "served" /\ call[t].op \notin {"feof", "fgets"}
           \/ result = "EBADF" /\ call[t].opening \in crossed'
    PROVE  LegalCallsAreServed' /\ StreamCallsAreExact'
<1>1. returned' = [call[t] EXCEPT !.step = result]
    BY DEF Answer
<1>2. returned'.step = result /\ returned'.op = call[t].op /\ returned'.opening = call[t].opening
    BY <1>1, StepMoves, Zenon
<1>3. LegalCallsAreServed'
    BY <1>2 DEF LegalCallsAreServed
<1>4. StreamCallsAreExact'
    BY <1>2 DEF StreamCallsAreExact
<1> QED
    BY <1>3, <1>4

LEMMA UserKinds ==
    ASSUME FilesAssumption, FileShapes, NEW t \in Openers,
           \/ call[t].step \in {"file", "allowed", "fgets", "feof", "end"}
           \/ call[t].step = "begun" /\ call[t].op \notin {"close", "fclose"}
    PROVE  Uses(call[t])
<1>1. call[t].step # "idle"
    OBVIOUS
<1>2. Owns(call[t]) \/ Uses(call[t]) \/ Ended(call[t])
    BY <1>1, RestingIsIdle, Zenon DEF FileShapes, CallShape
<1>3. ~ Owns(call[t]) /\ ~ Ended(call[t])
    BY DEF Owns, Ended
<1> QED
    BY <1>2, <1>3

\* The position stays.
LEMMA UserStays ==
    ASSUME FilesAssumption, FileShapes, FilesOwned, AloneExact, NEW t \in Openers, Uses(call[t]), NEW r,
           UNCHANGED <<crt, position, openings, g_guest_fds, g_fake_file_fds, held, crossed>>,
           call' = [call EXCEPT ![t] = r],
           \/ r = Resting
           \/ /\ FileRec(r) /\ Uses(r) /\ r.opening = call[t].opening /\ r.fd = call[t].fd /\ r.struct = call[t].struct
              /\ r.from \in 0 .. Len(Content) /\ (r.alone => call[t].alone)
              /\ call[t].alone => Progress(r, position[call[t].opening])
    PROVE  FileShapes' /\ FilesOwned' /\ AloneExact'
<1>1. PICK at : at = position[call[t].opening]
    OBVIOUS
<1>2. at \in 0 .. Len(Content)
    BY <1>1, UserKnows
<1>3. position' = [position EXCEPT ![call[t].opening] = at]
    BY <1>1 DEF FileShapes
<1> QED
    BY <1>1, <1>2, <1>3, UserStep, Zenon

LEMMA IsGuestFdKeepsInv ==
    ASSUME FilesAssumption, FilesInv, NEW t \in Openers, IsGuestFd(t) PROVE FilesInv'
<1>1. FileShapes /\ FilesOwned /\ AloneExact
    BY DEF FilesInv
<1>2. /\ (call[t].step = "begun" /\ call[t].op \in {"read", "lseek"}) \/ call[t].step = "file"
      /\ UNCHANGED <<crt, position, openings, g_guest_fds, g_fake_file_fds, held, crossed>>
    BY DEF IsGuestFd
<1>3. Uses(call[t])
    BY <1>1, <1>2, UserKinds
<1>4. CASE Go(t, "allowed")
    <2>1. PICK r : r = [call[t] EXCEPT !.step = "allowed"]
        BY Zenon
    <2>2. call' = [call EXCEPT ![t] = r] /\ returned' = Resting
        BY <1>4, <2>1, Zenon DEF Go, Calls
    <2>3. /\ FileRec(r) /\ r.step = "allowed" /\ r.op = call[t].op /\ r.opening = call[t].opening /\ r.fd = call[t].fd
          /\ r.struct = call[t].struct /\ r.from = call[t].from /\ r.got = call[t].got /\ r.alone = call[t].alone
        BY <1>1, <1>3, <2>1, UserKnows, StepMoves, Zenon
    <2>4. Uses(r)
        BY <1>2, <1>3, <2>3 DEF Uses
    <2>5. call[t].alone => Progress(r, position[call[t].opening])
        <3>1. call[t].alone => Progress(call[t], position[call[t].opening])
            BY <1>1, <1>3, Zenon DEF AloneExact
        <3>2. call[t].step # "fgets" /\ call[t].step # "end" /\ r.step # "fgets" /\ r.step # "end"
            BY <1>2, <2>3
        <3> QED
            BY <2>3, <3>1, <3>2, Zenon DEF Progress
    <2>6. r.from \in 0 .. Len(Content)
        BY <1>1, <1>3, <2>3, BusyOpening, KindsAreBusy, Zenon
    <2>7. FileShapes' /\ FilesOwned' /\ AloneExact'
        BY <1>1, <1>2, <1>3, <2>2, <2>3, <2>4, <2>5, <2>6, UserStays, Zenon
    <2> QED
        BY <2>2, <2>7, SilentAnswers, Zenon DEF FilesInv
<1>5. CASE Answer(t, "EBADF") /\ call[t].fd \notin g_guest_fds
    <2>1. call' = [call EXCEPT ![t] = Resting]
        BY <1>5, Zenon DEF Answer
    <2>2. FileShapes' /\ FilesOwned' /\ AloneExact'
        BY <1>1, <1>2, <1>3, <2>1, UserStays, Zenon
    <2>3. call[t].opening \in crossed' /\ call[t].step # "idle"
        BY <1>1, <1>2, <1>3, <1>5, UserKnows, Zenon
    <2> QED
        BY <1>1, <1>5, <2>2, <2>3, OtherAnswers, Zenon DEF FilesInv
<1> QED
    BY <1>4, <1>5, Zenon DEF IsGuestFd

LEMMA TransferKeepsInv ==
    ASSUME FilesAssumption, FilesInv, NEW t \in Openers, Transfer(t) PROVE FilesInv'
<1>1. FileShapes /\ FilesOwned /\ AloneExact
    BY DEF FilesInv
<1>2. /\ call[t].step = "allowed"
      /\ UNCHANGED <<crt, openings, g_guest_fds, g_fake_file_fds, held, crossed>>
    BY DEF Transfer
<1>3. Uses(call[t])
    BY <1>1, <1>2, UserKinds
<1>4. /\ call[t].step # "idle" /\ crt[call[t].fd] = call[t].opening /\ call[t].opening # 0
      /\ position[call[t].opening] \in 0 .. Len(Content)
    BY <1>1, <1>3, UserKnows, Zenon
<1>5. /\ Answer(t, "served")
      /\ \E at \in 0 .. Len(Content) : position' = [position EXCEPT ![call[t].opening] = at]
    BY <1>4, FilesConstants DEF Transfer, Moves, End
<1>6. PICK at \in 0 .. Len(Content) : position' = [position EXCEPT ![call[t].opening] = at]
    BY <1>5
<1>7. call' = [call EXCEPT ![t] = Resting]
    BY <1>5, Zenon DEF Answer
<1>8. FileShapes' /\ FilesOwned' /\ AloneExact'
    BY <1>1, <1>2, <1>3, <1>6, <1>7, UserStep, Zenon
<1>9. call[t].op \notin {"feof", "fgets"}
    BY <1>2, <1>3 DEF Uses
<1>10. LegalCallsAreServed' /\ StreamCallsAreExact'
    <2> HIDE DEF Answer
    <2> QED
        BY <1>1, <1>4, <1>5, <1>9, OtherAnswers
<1> QED
    BY <1>8, <1>10, Zenon DEF FilesInv

\* FakeFileFd finds the descriptor the guest's file has.
LEMMA FakeFileFdKeepsInv ==
    ASSUME FilesAssumption, FilesInv, NEW t \in Openers, FakeFileFd(t) PROVE FilesInv'
<1> DEFINE next == CASE call[t].op = "fread" -> "file" [] call[t].op \in {"fgetc", "fseek"} -> "allowed"
                     [] OTHER -> call[t].op
<1>1. FileShapes /\ FilesOwned /\ AloneExact
    BY DEF FilesInv
<1>2. /\ call[t].step = "begun" /\ call[t].op \in {"fread", "fgets", "fgetc", "feof", "fseek"}
      /\ UNCHANGED <<crt, position, openings, g_guest_fds, g_fake_file_fds, held, crossed>>
    BY DEF FakeFileFd
<1>3. Uses(call[t])
    BY <1>1, <1>2, UserKinds
<1>4. call[t].struct \in Structs /\ call[t].fd \in CrtFds /\ FileRec(call[t])
    BY <1>1, <1>2, <1>3, BusyOpening DEF Uses
<1>5. g_fake_file_fds[call[t].struct] = call[t].fd /\ call[t].fd # 0
    BY <1>1, <1>3, <1>4, UserKnows, FilesConstants
<1>6. Calls([call EXCEPT ![t].fd = call[t].fd, ![t].step = next])
    BY <1>5, Zenon DEF FakeFileFd
<1>7. PICK step : step = next
    BY Zenon
<1>8. step = next /\ step \in {"file", "allowed", "fgets", "feof"} /\ (step = "file" => call[t].op = "fread")
      /\ (step = "allowed" => call[t].op \in {"fgetc", "fseek"}) /\ (step = "fgets" => call[t].op = "fgets")
      /\ (step = "feof" => call[t].op = "feof")
    BY <1>2, <1>7
<1> HIDE DEF next
<1>9. PICK r : r = [call[t] EXCEPT !.step = step]
    BY Zenon
<1>10. call' = [call EXCEPT ![t] = r] /\ returned' = Resting
    <2>1. call' = [call EXCEPT ![t].fd = call[t].fd, ![t].step = step] /\ returned' = Resting
        BY <1>6, <1>8, Zenon DEF Calls
    <2>2. call = [u \in Openers |-> call[u]]
        BY <1>1 DEF FileShapes
    <2>3. [call[t] EXCEPT !.fd = call[t].fd] = call[t]
        BY <1>4 DEF FileRec
    <2>4. [call EXCEPT ![t].fd = call[t].fd] = call
        BY <2>2, <2>3
    <2> QED
        BY <1>9, <2>1, <2>4, Zenon
<1>11. /\ FileRec(r) /\ r.step = step /\ r.op = call[t].op /\ r.opening = call[t].opening /\ r.fd = call[t].fd
       /\ r.struct = call[t].struct /\ r.from = call[t].from /\ r.got = call[t].got /\ r.alone = call[t].alone
    BY <1>1, <1>3, <1>9, UserKnows, StepMoves, Zenon
<1>12. Uses(r)
    BY <1>4, <1>8, <1>11 DEF Uses
<1>13. r.from \in 0 .. Len(Content)
    BY <1>1, <1>3, <1>11, BusyOpening, KindsAreBusy, Zenon
<1>14. call[t].alone => Progress(r, position[call[t].opening])
    <2> SUFFICES ASSUME call[t].alone PROVE Progress(r, position[call[t].opening])
        BY Zenon
    <2>1. Progress(call[t], position[call[t].opening])
        BY <1>1, <1>3, Zenon DEF AloneExact
    <2>2. position[call[t].opening] = r.from /\ r.got = <<>>
        BY <1>2, <1>11, <2>1 DEF Progress
    <2>3. CASE step # "fgets"
        BY <1>11, <2>2, <2>3, Zenon DEF Progress
    <2>4. CASE step = "fgets"
        <3>1. r.from \in Int /\ r.from + 1 \in Int /\ r.from < r.from + 1
            BY <1>13, FilesConstants
        <3>2. SubSeq(Content, r.from + 1, r.from) = <<>>
            BY <3>1, SubSeqEmpty, Zenon
        <3>3. r.from <= r.from /\ \A k \in 0 .. r.from - r.from - 1 : ~ Complete(r.from, k)
            BY <3>1
        <3> QED
            BY <1>11, <2>2, <2>4, <3>2, <3>3, Zenon DEF Progress
    <2> QED
        BY <2>3, <2>4
<1>15. FileShapes' /\ FilesOwned' /\ AloneExact'
    BY <1>1, <1>2, <1>3, <1>10, <1>11, <1>12, <1>13, <1>14, UserStays, Zenon
<1> QED
    BY <1>10, <1>15, SilentAnswers, Zenon DEF FilesInv

LEMMA FeofAsksKeepsInv ==
    ASSUME FilesAssumption, FilesInv, NEW t \in Openers, FeofAsks(t) PROVE FilesInv'
<1>1. FileShapes /\ FilesOwned /\ AloneExact
    BY DEF FilesInv
<1>2. /\ call[t].step = "feof"
      /\ UNCHANGED <<crt, openings, g_guest_fds, g_fake_file_fds, held, crossed>>
    BY DEF FeofAsks
<1>3. Uses(call[t])
    BY <1>1, <1>2, UserKinds
<1>4. /\ call[t].step # "idle" /\ crt[call[t].fd] = call[t].opening /\ call[t].opening # 0 /\ FileRec(call[t])
      /\ position[call[t].opening] \in 0 .. Len(Content)
    BY <1>1, <1>3, UserKnows, BusyOpening, Zenon
<1>5. PICK at \in 0 .. Len(Content) : at = position[call[t].opening]
    BY <1>4
<1>6. /\ Calls([call EXCEPT ![t].from = at, ![t].step = "end"])
      /\ position' = [position EXCEPT ![call[t].opening] = Len(Content)]
    BY <1>4, <1>5, Zenon DEF FeofAsks, End
<1>7. PICK r : r = [call[t] EXCEPT !.from = at, !.step = "end"]
    BY Zenon
<1>8. call' = [call EXCEPT ![t] = r] /\ returned' = Resting
    <2>1. call' = [call EXCEPT ![t].from = at, ![t].step = "end"] /\ returned' = Resting
        BY <1>6, Zenon DEF Calls
    <2>2. call = [u \in Openers |-> call[u]]
        BY <1>1 DEF FileShapes
    <2>3. [call EXCEPT ![t].from = at, ![t].step = "end"] = [call EXCEPT ![t] = r]
        BY <1>7, <2>2
    <2> QED
        BY <2>1, <2>3, Zenon
<1>9. r = [op |-> call[t].op, step |-> "end", opening |-> call[t].opening, fd |-> call[t].fd,
           struct |-> call[t].struct, from |-> at, got |-> call[t].got, alone |-> call[t].alone]
    BY <1>4, <1>7 DEF FileRec
<1>10. /\ r.step = "end" /\ r.op = call[t].op /\ r.opening = call[t].opening /\ r.fd = call[t].fd
       /\ r.struct = call[t].struct /\ r.from = at /\ r.got = call[t].got /\ r.alone = call[t].alone
    BY <1>9
<1>11. FileRec(r)
    BY <1>9, <1>10, Zenon DEF FileRec
<1>12. Uses(r)
    BY <1>2, <1>3, <1>10 DEF Uses
<1>13. call[t].alone => Progress(r, Len(Content))
    <2>1. call[t].alone => Progress(call[t], position[call[t].opening])
        BY <1>1, <1>3, Zenon DEF AloneExact
    <2>2. call[t].step # "fgets" /\ r.step # "fgets"
        BY <1>2, <1>10
    <2> QED
        BY <1>10, <2>1, <2>2, Zenon DEF Progress
<1>14. Len(Content) \in 0 .. Len(Content)
    BY FilesConstants
<1>15. FileShapes' /\ FilesOwned' /\ AloneExact'
    BY <1>1, <1>2, <1>3, <1>5, <1>6, <1>8, <1>10, <1>11, <1>12, <1>13, <1>14, UserStep, Zenon
<1> QED
    BY <1>8, <1>15, SilentAnswers, Zenon DEF FilesInv

\* feof comes back to where the file was.
LEMMA FeofReturnsKeepsInv ==
    ASSUME FilesAssumption, FilesInv, NEW t \in Openers, FeofReturns(t) PROVE FilesInv'
<1>1. FileShapes /\ FilesOwned /\ AloneExact
    BY DEF FilesInv
<1>2. /\ call[t].step = "end"
      /\ UNCHANGED <<crt, openings, g_guest_fds, g_fake_file_fds, held, crossed>>
    BY DEF FeofReturns
<1>3. Uses(call[t])
    BY <1>1, <1>2, UserKinds
<1>4. /\ call[t].step # "idle" /\ crt[call[t].fd] = call[t].opening /\ call[t].opening # 0
      /\ call[t].opening \in 1 .. MaxOpenings /\ call[t].from \in 0 .. Len(Content)
    BY <1>1, <1>3, UserKnows, BusyOpening, Zenon
<1>5. Answer(t, "served") /\ position' = [position EXCEPT ![call[t].opening] = call[t].from]
    BY <1>4, Zenon DEF FeofReturns, Moves
<1>6. PICK at \in 0 .. Len(Content) : at = call[t].from
    BY <1>4
<1>7. call' = [call EXCEPT ![t] = Resting] /\ returned' = [call[t] EXCEPT !.step = "served"]
    BY <1>5, Zenon DEF Answer
<1>8. FileShapes' /\ FilesOwned' /\ AloneExact'
    BY <1>1, <1>2, <1>3, <1>5, <1>6, <1>7, UserStep, Zenon
<1>9. /\ returned'.step = "served" /\ returned'.op = call[t].op /\ returned'.opening = call[t].opening
      /\ returned'.from = call[t].from
    BY <1>1, <1>4, <1>7, StepMoves, Zenon
<1>10. position'[returned'.opening] = returned'.from
    BY <1>1, <1>4, <1>5, <1>9 DEF FileShapes
<1>11. returned'.op = "feof"
    BY <1>2, <1>3, <1>9 DEF Uses
<1>12. LegalCallsAreServed'
    BY <1>9 DEF LegalCallsAreServed
<1>13. StreamCallsAreExact'
    BY <1>10, <1>11 DEF StreamCallsAreExact
<1> QED
    BY <1>8, <1>12, <1>13, Zenon DEF FilesInv

\* What fgets has read so far.
LEMMA GotIs ==
    ASSUME FilesAssumption, NEW from \in 0 .. Len(Content), NEW at \in from .. Len(Content)
    PROVE  LET got == SubSeq(Content, from + 1, at) IN
           /\ got \in Seq(Bytes) /\ Len(got) = at - from
           /\ at > from => got # <<>> /\ got[Len(got)] = Content[at]
           /\ at = from => got = <<>>
<1>1. PICK n \in Nat : n = Len(Content) /\ \A i \in 1 .. n : Content[i] \in Bytes
    BY FilesConstants, ElementOfSeq
<1>2. from + 1 \in Int /\ at \in Int /\ at \in Nat /\ from \in Nat /\ from <= at /\ at <= n
    BY <1>1
<1>3. \A i \in from + 1 .. at : Content[i] \in Bytes
    BY <1>1, <1>2
<1>4. PICK got : got = SubSeq(Content, from + 1, at)
    BY Zenon
<1>5. /\ got \in Seq(Bytes) /\ Len(got) = IF from + 1 <= at THEN at - (from + 1) + 1 ELSE 0
      /\ \A i \in 1 .. at - (from + 1) + 1 : got[i] = Content[from + 1 + i - 1]
    BY <1>2, <1>3, <1>4, SubSeqProperties
<1>6. Len(got) = at - from
    BY <1>2, <1>5
<1>7. at > from => got[at - from] = Content[at]
    <2> SUFFICES ASSUME at > from PROVE got[at - from] = Content[at]
        OBVIOUS
    <2>1. at - from \in 1 .. at - (from + 1) + 1 /\ from + 1 + (at - from) - 1 = at
        BY <1>2
    <2> QED
        BY <1>5, <2>1, Zenon
<1>8. (at > from => got # <<>>) /\ (at = from => got = <<>>)
    BY <1>2, <1>5, <1>6, EmptySeq
<1> QED
    BY <1>4, <1>5, <1>6, <1>7, <1>8, Zenon

LEMMA LineIs ==
    ASSUME FilesAssumption, NEW from \in 0 .. Len(Content), NEW n \in 0 .. Len(Content) - from, Complete(from, n),
           \A k \in 0 .. n - 1 : ~ Complete(from, k)
    PROVE  Line(from) = n
<1> DEFINE P(m) == Complete(from, m) /\ \A k \in 0 .. m - 1 : ~ Complete(from, k)
<1>1. Len(Content) \in Nat
    BY FilesConstants
<1>2. ASSUME NEW m \in 0 .. Len(Content) - from, P(m) PROVE m = n
    <2>1. ~ (m < n) /\ ~ (n < m)
        <3> HIDE DEF Complete
        <3> QED
            BY <1>1, <1>2
    <2> QED
        BY <1>1, <2>1
<1>3. Line(from) = CHOOSE m \in 0 .. Len(Content) - from : P(m)
    BY Zenon DEF Line, End, Complete
<1> HIDE DEF P
<1>4. P(n)
    BY DEF P
<1> QED
    BY <1>2, <1>3, <1>4

LEMMA FgetsMoves ==
    ASSUME FilesAssumption, NEW r, NEW at \in 0 .. Len(Content), r.step = "fgets", r.from \in 0 .. Len(Content), Progress(r, at)
    PROVE  /\ r.got = SubSeq(Content, r.from + 1, at)
           /\ (LineEnds(r.got) \/ at = Len(Content)) <=> Complete(r.from, at - r.from)
<1>1. r.from <= at /\ r.got = SubSeq(Content, r.from + 1, at)
    BY Zenon DEF Progress
<1>2. PICK from \in 0 .. Len(Content) : from = r.from
    BY Zenon
<1>3. PICK got : got = r.got
    BY Zenon
<1>4. at \in from .. Len(Content) /\ Len(Content) \in Nat
    BY <1>1, <1>2, FilesConstants
<1>5. /\ Len(got) = at - from
      /\ at > from => got # <<>> /\ got[Len(got)] = Content[at]
      /\ at = from => got = <<>>
    <2>1. got = SubSeq(Content, from + 1, at)
        BY <1>1, <1>2, <1>3, Zenon
    <2>2. LET g == SubSeq(Content, from + 1, at) IN
          /\ Len(g) = at - from
          /\ at > from => g # <<>> /\ g[Len(g)] = Content[at]
          /\ at = from => g = <<>>
        BY <1>4, GotIs
    <2> QED
        BY <2>1, <2>2, Zenon
<1>6. LineEnds(got) <=> (at - from = MaxLine - 1 \/ (at > from /\ Content[at] = "nl"))
    BY <1>4, <1>5 DEF LineEnds
<1>7. Complete(from, at - from) <=> at = Len(Content) \/ at - from = MaxLine - 1 \/ (at > from /\ Content[at] = "nl")
    <2>1. from + (at - from) = at /\ (at - from > 0 <=> at > from) /\ (at - from = Len(Content) - from <=> at = Len(Content))
        BY <1>4
    <2> QED
        BY <2>1, Zenon DEF Complete
<1>8. LineEnds(got) \/ at = Len(Content) <=> Complete(from, at - from)
    BY <1>6, <1>7
<1> QED
    BY <1>1, <1>2, <1>3, <1>8

LEMMA FgetsKeepsInv ==
    ASSUME FilesAssumption, FilesInv, NEW t \in Openers, Fgets(t) PROVE FilesInv'
<1>1. FileShapes /\ FilesOwned /\ AloneExact
    BY DEF FilesInv
<1>2. /\ call[t].step = "fgets"
      /\ UNCHANGED <<crt, openings, g_guest_fds, g_fake_file_fds, held, crossed>>
    BY Zenon DEF Fgets
<1>3. Uses(call[t])
    BY <1>1, <1>2, UserKinds
<1>4. /\ call[t].step # "idle" /\ crt[call[t].fd] = call[t].opening /\ call[t].opening # 0 /\ FileRec(call[t])
      /\ call[t].opening \in 1 .. MaxOpenings /\ call[t].from \in 0 .. Len(Content)
      /\ position[call[t].opening] \in 0 .. Len(Content)
    BY <1>1, <1>3, UserKnows, BusyOpening, Zenon
<1>5. PICK at \in 0 .. Len(Content) : at = position[call[t].opening]
    BY <1>4
<1>6. call[t].alone => Progress(call[t], at)
    BY <1>1, <1>3, <1>5, Zenon DEF AloneExact
<1>7. call[t].op = "fgets"
    BY <1>2, <1>3 DEF Uses
<1>8. CASE ~ LineEnds(call[t].got) /\ at < Len(Content)
    <2>1. PICK more : more = Append(call[t].got, Content[at + 1])
        BY Zenon
    <2>2. /\ Calls([call EXCEPT ![t].got = more])
          /\ position' = [position EXCEPT ![call[t].opening] = at + 1]
        BY <1>4, <1>5, <1>8, <2>1 DEF Fgets, End, Calls
    <2>3. PICK r : r = [call[t] EXCEPT !.got = more]
        BY Zenon
    <2>4. call' = [call EXCEPT ![t] = r] /\ returned' = Resting
        BY <2>2, <2>3, Zenon DEF Calls
    <2>5. r = [op |-> call[t].op, step |-> call[t].step, opening |-> call[t].opening, fd |-> call[t].fd,
               struct |-> call[t].struct, from |-> call[t].from, got |-> more, alone |-> call[t].alone]
        BY <1>4, <2>3 DEF FileRec
    <2>6. /\ r.step = "fgets" /\ r.op = call[t].op /\ r.opening = call[t].opening /\ r.fd = call[t].fd
          /\ r.struct = call[t].struct /\ r.from = call[t].from /\ r.got = more /\ r.alone = call[t].alone
        BY <1>2, <2>5
    <2>7. FileRec(r)
        BY <1>2, <2>5, <2>6, Zenon DEF FileRec
    <2>8. Uses(r)
        BY <1>2, <1>3, <2>6 DEF Uses
    <2>9. at + 1 \in 0 .. Len(Content) /\ Len(Content) \in Nat
        BY <1>8, FilesConstants
    <2>10. ASSUME call[t].alone PROVE Progress(r, at + 1)
        <3>1. PICK from \in 0 .. Len(Content) : from = call[t].from
            BY <1>4
        <3>2. /\ from <= at /\ call[t].got = SubSeq(Content, from + 1, at)
              /\ \A k \in 0 .. at - from - 1 : ~ Complete(from, k)
            BY <1>2, <1>6, <2>10, <3>1, Zenon DEF Progress
        <3>3. ~ Complete(from, at - from)
            <4>1. at # Len(Content)
                BY <1>8, <2>9
            <4>2. (LineEnds(call[t].got) \/ at = Len(Content)) <=> Complete(call[t].from, at - call[t].from)
                BY <1>2, <1>4, <1>6, <2>10, FgetsMoves, Zenon
            <4> QED
                BY <1>8, <3>1, <4>1, <4>2
        <3>4. \A k \in 0 .. (at + 1) - from - 1 : ~ Complete(from, k)
            <4>1. \A k \in 0 .. (at + 1) - from - 1 : k = at - from \/ k \in 0 .. at - from - 1
                BY <2>9
            <4> QED
                BY <3>2, <3>3, <4>1, Zenon
        <3>5. more = SubSeq(Content, from + 1, at + 1)
            <4>1. /\ from + 1 \in 1 .. Len(Content) /\ at + 1 \in from + 1 .. Len(Content) /\ at + 1 - 1 = at
                  /\ at + 1 \in 1 .. Len(Content) /\ at \in from .. Len(Content)
                BY <1>8, <2>9, <3>2
            <4>2. SubSeq(Content, from + 1, at + 1) = SubSeq(Content, from + 1, at + 1 - 1) \o <<Content[at + 1]>>
                <5>1. PICK m \in 1 .. Len(Content), n \in 1 .. Len(Content) : m = from + 1 /\ n = at + 1
                    BY <4>1, Zenon
                <5>2. n \in m .. Len(Content) /\ Content \in Seq(Bytes)
                    BY <4>1, <5>1, FilesConstants, Zenon
                <5>3. SubSeq(Content, m, n) = SubSeq(Content, m, n - 1) \o <<Content[n]>>
                    BY <5>2, SubSeqRecursiveSecond
                <5> QED
                    BY <5>1, <5>3
            <4>3. SubSeq(Content, from + 1, at) \in Seq(Bytes) /\ Content[at + 1] \in Bytes
                BY <4>1, GotIs, FilesConstants, ElementOfSeq, Zenon
            <4>4. Append(SubSeq(Content, from + 1, at), Content[at + 1])
                    = SubSeq(Content, from + 1, at) \o <<Content[at + 1]>>
                BY <4>3, AppendIsConcat, Zenon
            <4> QED
                BY <2>1, <3>2, <4>1, <4>2, <4>4, Zenon
        <3>6. from <= at + 1
            BY <2>9, <3>2
        <3> QED
            BY <2>6, <3>1, <3>4, <3>5, <3>6, Zenon DEF Progress
    <2>11. FileShapes' /\ FilesOwned' /\ AloneExact'
        BY <1>1, <1>2, <1>3, <1>4, <2>2, <2>4, <2>6, <2>7, <2>8, <2>9, <2>10, UserStep, Zenon
    <2> QED
        BY <2>4, <2>11, SilentAnswers, Zenon DEF FilesInv
<1>9. CASE LineEnds(call[t].got) \/ at = Len(Content)
    <2>1. Answer(t, "served") /\ position' = [position EXCEPT ![call[t].opening] = at]
        <3>1. ~ (at < Len(Content)) \/ LineEnds(call[t].got)
            BY <1>9, FilesConstants
        <3> QED
            BY <1>4, <1>5, <3>1, Zenon DEF Fgets, End, Moves
    <2>2. call' = [call EXCEPT ![t] = Resting] /\ returned' = [call[t] EXCEPT !.step = "served"]
        BY <2>1, Zenon DEF Answer
    <2>3. FileShapes' /\ FilesOwned' /\ AloneExact'
        BY <1>1, <1>2, <1>3, <2>1, <2>2, UserStep, Zenon
    <2>4. /\ returned'.step = "served" /\ returned'.op = call[t].op /\ returned'.opening = call[t].opening
          /\ returned'.from = call[t].from /\ returned'.got = call[t].got /\ returned'.alone = call[t].alone
        BY <1>1, <1>4, <2>2, StepMoves, Zenon
    <2>5. position'[returned'.opening] = at
        BY <1>1, <1>4, <2>1, <2>4 DEF FileShapes
    <2>6. LegalCallsAreServed'
        BY <2>4 DEF LegalCallsAreServed
    <2>7. ASSUME call[t].alone
          PROVE  /\ at = call[t].from + Line(call[t].from)
                 /\ call[t].got = SubSeq(Content, call[t].from + 1, call[t].from + Line(call[t].from))
        <3>1. PICK from \in 0 .. Len(Content) : from = call[t].from
            BY <1>4
        <3>2. /\ from <= at /\ call[t].got = SubSeq(Content, from + 1, at)
              /\ \A k \in 0 .. at - from - 1 : ~ Complete(from, k)
            BY <1>2, <1>6, <2>7, <3>1, Zenon DEF Progress
        <3>3. Complete(from, at - from)
            BY <1>2, <1>4, <1>6, <1>9, <2>7, <3>1, FgetsMoves, Zenon
        <3>4. at - from \in 0 .. Len(Content) - from /\ from + (at - from) = at
            BY <3>2, FilesConstants
        <3>5. Line(from) = at - from
            BY <3>2, <3>3, <3>4, LineIs, Zenon
        <3> QED
            BY <3>1, <3>2, <3>4, <3>5, Zenon
    <2>8. returned'.op = "fgets" /\ "fgets" # "feof"
        BY <1>7, <2>4
    <2>9. StreamCallsAreExact'
        <3> SUFFICES ASSUME returned'.alone
                     PROVE  /\ position'[returned'.opening] = returned'.from + Line(returned'.from)
                            /\ returned'.got = SubSeq(Content, returned'.from + 1, returned'.from + Line(returned'.from))
            BY <2>8, Zenon DEF StreamCallsAreExact, Line, End
        <3> QED
            BY <2>4, <2>5, <2>7, Zenon
    <2> QED
        BY <2>3, <2>6, <2>9, Zenon DEF FilesInv
<1>10. at < Len(Content) \/ at = Len(Content)
    BY FilesConstants
<1> QED
    BY <1>8, <1>9, <1>10, Zenon

-----------------------------------------------------------------------------
(* Opening and closing. *)

\* A step of one call that moves no file.
LEMMA OwnerStep ==
    ASSUME FilesAssumption, FileShapes, AloneExact, NEW t \in Openers, NEW r, call' = [call EXCEPT ![t] = r],
           UNCHANGED position, openings' = openings \/ openings' = openings + 1, openings' \in 0 .. MaxOpenings,
           CallShape(r, openings'), ~ Uses(r),
           r.opening \in {0, call[t].opening} \/ \A u \in Openers : call[u].opening # r.opening,
           crt' = [fd \in CrtFds |-> crt'[fd]], \A fd \in CrtFds : crt'[fd] \in 0 .. openings',
           g_fake_file_fds' = [s \in Structs |-> g_fake_file_fds'[s]],
           \A h \in held' : HeldShape(h, openings')
    PROVE  /\ FileShapes' /\ AloneExact' /\ call'[t] = r
           /\ \A u \in Openers : u # t => call'[u] = call[u]
           /\ \A u \in Openers : u # t /\ call[u].opening # 0 /\ SoleOn(u) => SoleOn(u)'
<1>1. /\ call' = [u \in Openers |-> call'[u]] /\ call'[t] = r
      /\ \A u \in Openers : u # t => call'[u] = call[u]
    BY CallChangesAt
<1>2. \A u \in Openers : CallShape(call'[u], openings')
    <2>1. openings \in Nat /\ openings' \in Nat /\ openings <= openings'
        BY FilesConstants DEF FileShapes
    <2>2. \A u \in Openers : CallShape(call[u], openings')
        BY <2>1, ShapesStay, Zenon DEF FileShapes
    <2> QED
        BY <1>1, <2>2, Zenon
<1>3. FileShapes'
    BY <1>1, <1>2, Zenon DEF FileShapes
<1>4. ASSUME NEW u \in Openers, u # t, call[u].opening # 0, SoleOn(u) PROVE SoleOn(u)'
    <2> SUFFICES ASSUME NEW v \in Openers, call'[v].opening = call'[u].opening PROVE v = u
        BY DEF SoleOn
    <2>1. CASE v = t
        <3>1. r.opening = call[u].opening
            BY <1>1, <1>4, <2>1
        <3>2. r.opening = call[t].opening
            BY <1>4, <3>1
        <3> QED
            BY <1>4, <2>1, <3>1, <3>2 DEF SoleOn
    <2>2. CASE v # t
        BY <1>1, <1>4, <2>2 DEF SoleOn
    <2> QED
        BY <2>1, <2>2
<1>5. AloneExact'
    <2> SUFFICES ASSUME NEW u \in Openers, Uses(call'[u]), call'[u].alone
                 PROVE  SoleOn(u)' /\ Progress(call'[u], position'[call'[u].opening])
        BY DEF AloneExact
    <2>1. u # t /\ call'[u] = call[u]
        BY <1>1, Zenon
    <2>2. SoleOn(u) /\ Progress(call[u], position[call[u].opening])
        BY <2>1, Zenon DEF AloneExact
    <2>3. call[u].opening # 0
        BY <2>1, BusyOpening, KindsAreBusy, Zenon
    <2> QED
        BY <1>4, <2>1, <2>2, <2>3, Zenon
<1> QED
    BY <1>1, <1>3, <1>4, <1>5, Zenon

LEMMA OwnerKnows ==
    ASSUME FilesAssumption, FileShapes, FilesOwned, NEW t \in Openers, Owns(call[t])
    PROVE  /\ call[t].step # "idle" /\ FileRec(call[t]) /\ SoleOn(t)
           /\ crt[call[t].fd] = call[t].opening /\ call[t].opening # 0 /\ call[t].fd \in CrtFds /\ call[t].fd # 0
           /\ call[t].opening \in 1 .. openings /\ call[t].from \in 0 .. Len(Content)
           /\ \A h \in held : HeldShape(h, openings) /\ h.opening # call[t].opening /\ h.fd # call[t].fd
           /\ \A u \in Openers : u # t /\ Owns(call[u]) => call[u].fd # call[t].fd
<1>1. /\ call[t].step # "idle" /\ FileRec(call[t]) /\ call[t].opening # 0 /\ call[t].fd \in CrtFds
      /\ call[t].opening \in 1 .. openings /\ call[t].from \in 0 .. Len(Content)
    BY BusyOpening, KindsAreBusy, Zenon
<1>2. SoleOn(t) /\ crt[call[t].fd] = call[t].opening /\ \A h \in held : h.opening # call[t].opening
    BY Zenon DEF FilesOwned, OwnersOwn
<1>3. \A h \in held : HeldShape(h, openings) /\ crt[h.fd] = h.opening
    BY Zenon DEF FileShapes, FilesOwned, HeldIsOpen
<1>4. \A u \in Openers : Owns(call[u]) => crt[call[u].fd] = call[u].opening
    BY Zenon DEF FilesOwned, OwnersOwn
<1>5. \A u \in Openers : u # t /\ Owns(call[u]) => call[u].fd # call[t].fd
    BY <1>2, <1>4, Zenon DEF SoleOn
<1>6. call[t].fd # 0
    BY <1>1, FilesConstants
<1>7. \A h \in held : h.fd # call[t].fd
    BY <1>2, <1>3, Zenon
<1> QED
    BY <1>1, <1>2, <1>3, <1>5, <1>6, <1>7, Zenon

LEMMA OwnerKinds ==
    ASSUME FilesAssumption, FileShapes, NEW t \in Openers
    PROVE  /\ call[t].step \in {"opened", "tracked", "untracked", "erased"} => Owns(call[t])
           /\ call[t].op \in {"close", "fclose"} /\ call[t].step = "begun" => Owns(call[t])
           /\ call[t].step \in {"fclosed", "failed"} => Ended(call[t])
<1>1. call[t].step # "idle" => Owns(call[t]) \/ Uses(call[t]) \/ Ended(call[t])
    BY RestingIsIdle, Zenon DEF FileShapes, CallShape
<1>2. call[t].step \in {"opened", "tracked", "untracked", "erased"} => ~ Uses(call[t]) /\ ~ Ended(call[t])
    BY DEF Uses, Ended
<1>3. call[t].op \in {"close", "fclose"} /\ call[t].step = "begun" => ~ Uses(call[t]) /\ ~ Ended(call[t])
    BY DEF Uses, Ended
<1>4. call[t].step \in {"fclosed", "failed"} => ~ Uses(call[t]) /\ ~ Owns(call[t])
    BY DEF Uses, Owns
<1> QED
    BY <1>1, <1>2, <1>3, <1>4

\* What the others' records say stays true.
OthersStay(t) ==
    /\ \A u \in Openers : u # t => call'[u] = call[u]
    /\ \A u \in Openers : u # t /\ call[u].opening # 0 /\ SoleOn(u) => SoleOn(u)'

\* The guest gets its file.
LEMMA HandOver ==
    ASSUME FilesAssumption, FilesInv, NEW t \in Openers, Owns(call[t]), call[t].op \in {"open", "fopen"},
           NEW struct \in Structs \cup {0}, struct # 0 => g_fake_file_fds[struct] = 0,
           Answer(t, "served"),
           held' = held \cup {[opening |-> call[t].opening, fd |-> call[t].fd, struct |-> struct]},
           g_fake_file_fds' = IF struct = 0 THEN g_fake_file_fds ELSE [g_fake_file_fds EXCEPT ![struct] = call[t].fd],
           g_guest_fds \subseteq g_guest_fds', call[t].opening \in crossed \/ call[t].fd \in g_guest_fds',
           UNCHANGED <<crt, position, openings, crossed>>
    PROVE  FilesInv'
<1> DEFINE n == [opening |-> call[t].opening, fd |-> call[t].fd, struct |-> struct]
<1>1. FileShapes /\ FilesOwned /\ AloneExact
    BY DEF FilesInv
<1>2. /\ call[t].step # "idle" /\ SoleOn(t) /\ crt[call[t].fd] = call[t].opening /\ call[t].opening # 0
      /\ call[t].fd \in CrtFds /\ call[t].fd # 0 /\ call[t].opening \in 1 .. openings
      /\ \A h \in held : HeldShape(h, openings) /\ h.opening # call[t].opening /\ h.fd # call[t].fd
    BY <1>1, OwnerKnows, Zenon
<1>3. call' = [call EXCEPT ![t] = Resting]
    BY Zenon DEF Answer
<1>4. n.opening = call[t].opening /\ n.fd = call[t].fd /\ n.struct = struct /\ HeldShape(n, openings)
    BY <1>2 DEF HeldShape
<1>5. \A h \in held' : HeldShape(h, openings)
    BY <1>2, <1>4
<1> HIDE DEF n
<1>6. /\ g_fake_file_fds' = [s \in Structs |-> g_fake_file_fds'[s]]
      /\ \A s \in Structs : s # struct => g_fake_file_fds'[s] = g_fake_file_fds[s]
      /\ struct # 0 => struct \in Structs /\ g_fake_file_fds'[struct] = call[t].fd
    BY <1>1 DEF FileShapes
<1>7. FileShapes' /\ AloneExact' /\ call'[t] = Resting /\ OthersStay(t)
    <2>1. CallShape(Resting, openings') /\ ~ Uses(Resting) /\ Resting.opening \in {0, call[t].opening}
        BY RestingIsIdle DEF CallShape
    <2>2. /\ openings' = openings /\ openings' \in 0 .. MaxOpenings /\ crt' = [fd \in CrtFds |-> crt'[fd]]
          /\ \A fd \in CrtFds : crt'[fd] \in 0 .. openings'
        BY <1>1, Zenon DEF FileShapes
    <2>3. \A h \in held' : HeldShape(h, openings')
        BY <1>5, <2>2, Zenon
    <2> QED
        BY <1>1, <1>3, <1>6, <2>1, <2>2, <2>3, OwnerStep, Zenon DEF OthersStay
<1>8. /\ \A u \in Openers : Owns(call'[u]) \/ Uses(call'[u]) \/ Ended(call'[u]) => u # t /\ call'[u] = call[u]
      /\ \A u \in Openers : call'[u].step = "begun" => u # t /\ call'[u] = call[u]
    BY <1>7, RestingIsIdle, Zenon DEF OthersStay
<1>9. held' = held \cup {n} /\ HeldIsOpen /\ OwnersOwn /\ UsersHold /\ EndedCross /\ Tracked /\ StructsNamed
    BY <1>1, Zenon DEF FilesOwned, n
<1>10. CrtIsOneToOne'
    BY <1>1 DEF FilesOwned, CrtIsOneToOne
<1>11. HeldIsOpen'
    <2>1. \A h \in held : crt[h.fd] = h.opening /\ (h.struct # 0 => g_fake_file_fds'[h.struct] = h.fd)
        <3> SUFFICES ASSUME NEW h \in held, h.struct # 0 PROVE g_fake_file_fds'[h.struct] = h.fd
            BY <1>9, Zenon DEF HeldIsOpen
        <3>1. g_fake_file_fds[h.struct] = h.fd /\ h.struct \in Structs /\ h.fd \in CrtFds
            BY <1>2, <1>9 DEF HeldIsOpen, HeldShape
        <3>2. h.struct # struct
            BY <3>1, FilesConstants
        <3> QED
            BY <1>6, <3>1, <3>2, Zenon
    <2>2. crt[n.fd] = n.opening /\ (n.struct # 0 => g_fake_file_fds'[n.struct] = n.fd)
        BY <1>2, <1>4, <1>6, Zenon
    <2>3. \A h \in held : h.opening # n.opening
        BY <1>2, <1>4, Zenon
    <2>4. \A h, k \in held' : h.opening = k.opening => h = k
        BY <1>9, <2>3, Zenon DEF HeldIsOpen
    <2>5. \A h \in held' : crt[h.fd] = h.opening /\ (h.struct # 0 => g_fake_file_fds'[h.struct] = h.fd)
        BY <1>9, <2>1, <2>2
    <2> QED
        BY <2>4, <2>5, Zenon DEF HeldIsOpen
<1>12. OwnersOwn'
    <2> SUFFICES ASSUME NEW u \in Openers, Owns(call'[u])
                 PROVE  /\ crt'[call'[u].fd] = call'[u].opening /\ SoleOn(u)'
                        /\ \A h \in held' : h.opening # call'[u].opening
                        /\ call'[u].op = "fclose" /\ call'[u].step = "begun"
                               => g_fake_file_fds'[call'[u].struct] = call'[u].fd
        BY DEF OwnersOwn
    <2>1. u # t /\ call'[u] = call[u] /\ Owns(call[u])
        BY <1>8, Zenon
    <2>2. /\ SoleOn(u) /\ crt[call[u].fd] = call[u].opening /\ call[u].opening # 0 /\ call[u].fd # 0
          /\ \A h \in held : h.opening # call[u].opening
        BY <1>1, <2>1, OwnerKnows, Zenon
    <2>3. n.opening # call[u].opening
        BY <1>4, <2>1, <2>2, Zenon DEF SoleOn
    <2>4. ASSUME call[u].op = "fclose", call[u].step = "begun" PROVE g_fake_file_fds'[call[u].struct] = call[u].fd
        <3>1. g_fake_file_fds[call[u].struct] = call[u].fd
            BY <1>9, <2>1, <2>4, Zenon DEF OwnersOwn
        <3>2. call[u].struct \in Structs
            BY <2>1, <2>4 DEF Owns
        <3>3. call[u].struct # struct
            BY <2>2, <3>1, <3>2, FilesConstants
        <3> QED
            BY <1>6, <3>1, <3>2, <3>3, Zenon
    <2>5. SoleOn(u)'
        BY <1>7, <2>1, <2>2, Zenon DEF OthersStay
    <2>6. \A h \in held' : h.opening # call[u].opening
        BY <1>9, <2>2, <2>3
    <2> QED
        BY <2>1, <2>2, <2>4, <2>5, <2>6, Zenon
<1>13. UsersHold'
    <2>1. \A h \in held : h \in held'
        BY <1>9
    <2> QED
        BY <1>8, <1>9, <2>1, Zenon DEF UsersHold
<1>14. EndedCross'
    BY <1>8, <1>9, Zenon DEF EndedCross
<1>15. Tracked'
    <2>1. \A h \in held : h.opening \in crossed \/ h.fd \in g_guest_fds'
        BY <1>9 DEF Tracked
    <2>2. \A h \in held' : h.opening \in crossed \/ h.fd \in g_guest_fds'
        BY <1>4, <1>9, <2>1
    <2>3. \A u \in Openers : Owns(call[u]) /\ call[u].step \in {"tracked", "begun"} =>
              call[u].opening \in crossed \/ call[u].fd \in g_guest_fds'
        BY <1>9 DEF Tracked
    <2> QED
        BY <1>8, <2>2, <2>3, Zenon DEF Tracked
<1>16. StructsNamed'
    <2> SUFFICES ASSUME NEW s \in Structs, g_fake_file_fds'[s] # 0
                 PROVE  \/ \E h \in held' : h.struct = s
                        \/ \E u \in Openers : call'[u].op = "fclose" /\ call'[u].step = "begun" /\ call'[u].struct = s
        BY DEF StructsNamed
    <2>1. CASE s = struct
        BY <1>4, <1>9, <2>1
    <2>2. CASE s # struct
        <3>1. g_fake_file_fds[s] # 0
            BY <1>6, <2>2
        <3>2. CASE \E h \in held : h.struct = s
            BY <1>9, <3>2
        <3>3. ASSUME NEW u \in Openers, call[u].op = "fclose", call[u].step = "begun", call[u].struct = s
              PROVE  call'[u].op = "fclose" /\ call'[u].step = "begun" /\ call'[u].struct = s
            <4>1. u # t
                BY <3>3
            <4> QED
                BY <1>7, <3>3, <4>1, Zenon DEF OthersStay
        <3> QED
            BY <1>9, <3>1, <3>2, <3>3, Zenon DEF StructsNamed
    <2> QED
        BY <2>1, <2>2
<1>17. LegalCallsAreServed' /\ StreamCallsAreExact'
    BY <1>1, <1>2, OtherAnswers
<1> QED
    BY <1>7, <1>10, <1>11, <1>12, <1>13, <1>14, <1>15, <1>16, <1>17, Zenon DEF FilesInv, FilesOwned

\* The descriptor of a call stays, or was closed before; g_guest_fds may lose it.
LEMMA OwnerMoves ==
    ASSUME FilesAssumption, FileShapes, FilesOwned, AloneExact, NEW t \in Openers, Owns(call[t]) \/ Ended(call[t]),
           call[t].op = "fclose" => call[t].step # "begun",
           NEW r, call' = [call EXCEPT ![t] = r],
           \/ r = Resting
           \/ /\ FileRec(r) /\ Owns(call[t]) /\ Owns(r) /\ r.step # "begun"
              /\ r.opening = call[t].opening /\ r.fd = call[t].fd /\ r.from = call[t].from
              /\ r.step = "tracked" => r.fd \in g_guest_fds',
           \A fd \in g_guest_fds : fd \in g_guest_fds' \/ fd = call[t].fd,
           UNCHANGED <<crt, position, openings, g_fake_file_fds, held, crossed>>
    PROVE  FileShapes' /\ FilesOwned' /\ AloneExact'
<1>1. /\ call[t].step # "idle" /\ call[t].opening \in 1 .. openings /\ call[t].fd \in CrtFds /\ call[t].opening # 0
      /\ call[t].from \in 0 .. Len(Content)
    BY BusyOpening, KindsAreBusy, Zenon
<1>2. /\ CallShape(r, openings) /\ ~ Uses(r) /\ ~ Ended(r) /\ r.opening \in {0, call[t].opening}
      /\ Owns(r) => r # Resting
    BY <1>1, RestingIsIdle, KindsDiffer, Zenon DEF CallShape
<1>3. FileShapes' /\ AloneExact' /\ call'[t] = r /\ OthersStay(t)
    <2>1. /\ openings' = openings /\ openings' \in 0 .. MaxOpenings /\ crt' = [fd \in CrtFds |-> crt'[fd]]
          /\ \A fd \in CrtFds : crt'[fd] \in 0 .. openings' 
          /\ g_fake_file_fds' = [s \in Structs |-> g_fake_file_fds'[s]]
          /\ \A h \in held' : HeldShape(h, openings')
        BY Zenon DEF FileShapes
    <2> QED
        BY <1>2, <2>1, OwnerStep, Zenon DEF OthersStay
<1>4. HeldIsOpen /\ OwnersOwn /\ UsersHold /\ EndedCross /\ Tracked /\ StructsNamed
    BY Zenon DEF FilesOwned
<1>5. CrtIsOneToOne' /\ HeldIsOpen'
    BY DEF FilesOwned, CrtIsOneToOne, HeldIsOpen
<1>6. \A u \in Openers : Uses(call'[u]) \/ Ended(call'[u]) => u # t /\ call'[u] = call[u]
    BY <1>2, <1>3, Zenon DEF OthersStay
<1>7. OwnersOwn'
    <2> SUFFICES ASSUME NEW u \in Openers, Owns(call'[u])
                 PROVE  /\ crt'[call'[u].fd] = call'[u].opening /\ SoleOn(u)'
                        /\ \A h \in held' : h.opening # call'[u].opening
                        /\ call'[u].op = "fclose" /\ call'[u].step = "begun"
                               => g_fake_file_fds'[call'[u].struct] = call'[u].fd
        BY DEF OwnersOwn
    <2>1. CASE u # t
        <3>1. call'[u] = call[u] /\ Owns(call[u])
            BY <1>3, <2>1, Zenon DEF OthersStay
        <3>2. /\ crt[call[u].fd] = call[u].opening /\ SoleOn(u) /\ call[u].opening # 0
              /\ \A h \in held : h.opening # call[u].opening
              /\ call[u].op = "fclose" /\ call[u].step = "begun" => g_fake_file_fds[call[u].struct] = call[u].fd
            BY <1>4, <3>1, OwnerKnows, Zenon DEF OwnersOwn
        <3>3. SoleOn(u)'
            BY <1>3, <2>1, <3>2, Zenon DEF OthersStay
        <3> QED
            BY <3>1, <3>2, <3>3, Zenon
    <2>2. CASE u = t
        <3>1. /\ call'[u] = r /\ Owns(call[t]) /\ r.opening = call[t].opening /\ r.fd = call[t].fd /\ r.step # "begun"
            BY <1>2, <1>3, <2>2, RestingIsIdle, Zenon
        <3>2. crt[call[t].fd] = call[t].opening /\ SoleOn(t) /\ \A h \in held : h.opening # call[t].opening
            BY <1>4, <3>1, Zenon DEF OwnersOwn
        <3>3. SoleOn(t)'
            BY <1>3, <2>2, <3>1, <3>2, Zenon DEF SoleOn, OthersStay
        <3> QED
            BY <2>2, <3>1, <3>2, <3>3, Zenon
    <2> QED
        BY <2>1, <2>2
<1>8. UsersHold' /\ EndedCross'
    <2>1. UsersHold'
        <3> SUFFICES ASSUME NEW u \in Openers, Uses(call'[u]) PROVE HeldBy(call'[u]) \in held
            BY DEF UsersHold
        <3>1. call'[u] = call[u] /\ Uses(call[u])
            BY <1>6, Zenon
        <3>2. HeldBy(call[u]) \in held
            BY <1>4, <3>1, Zenon DEF UsersHold
        <3> QED
            BY <3>1, <3>2
    <2>2. ASSUME NEW u \in Openers, Ended(call'[u])
          PROVE  crt'[call'[u].fd] = 0 \/ crt'[call'[u].fd] \in crossed'
        <3>1. call'[u] = call[u] /\ Ended(call[u])
            BY <1>6, <2>2, Zenon
        <3>2. crt[call[u].fd] = 0 \/ crt[call[u].fd] \in crossed
            BY <1>4, <3>1, Zenon DEF EndedCross
        <3> QED
            BY <3>1, <3>2
    <2> QED
        BY <2>1, <2>2, Zenon DEF EndedCross
<1>9. Tracked'
    <2>1. Ended(call[t]) => crt[call[t].fd] = 0 \/ crt[call[t].fd] \in crossed
        BY <1>4, Zenon DEF EndedCross
    <2>2. ASSUME NEW h \in held PROVE h.opening \in crossed \/ h.fd \in g_guest_fds'
        <3>1. h.opening \in crossed \/ h.fd \in g_guest_fds
            BY <1>4, Zenon DEF Tracked
        <3>2. CASE h.fd = call[t].fd
            <4>1. crt[h.fd] = h.opening /\ h.opening # 0
                BY <1>4 DEF HeldIsOpen, FileShapes, HeldShape
            <4>2. ~ Owns(call[t])
                BY <3>2, OwnerKnows, Zenon
            <4> QED
                BY <2>1, <3>2, <4>1, <4>2, Zenon
        <3> QED
            BY <3>1, <3>2, Zenon
    <2>3. ASSUME NEW u \in Openers, Owns(call'[u]), call'[u].step \in {"tracked", "begun"}
          PROVE  call'[u].opening \in crossed \/ call'[u].fd \in g_guest_fds'
        <3>1. CASE u = t
            <4>1. call'[u] = r /\ Owns(r)
                BY <1>3, <2>3, <3>1, Zenon
            <4>2. r # Resting
                BY <1>2, <4>1, Zenon
            <4> QED
                BY <2>3, <4>1, <4>2
        <3>2. CASE u # t
            <4>1. call'[u] = call[u] /\ Owns(call[u])
                BY <1>3, <2>3, <3>2, Zenon DEF OthersStay
            <4>2. call[u].opening \in crossed \/ call[u].fd \in g_guest_fds
                BY <1>4, <2>3, <4>1, Zenon DEF Tracked
            <4>3. CASE call[u].fd = call[t].fd
                <5>1. crt[call[u].fd] = call[u].opening /\ call[u].opening # 0
                    BY <4>1, OwnerKnows, Zenon
                <5>2. ~ Owns(call[t])
                    BY <3>2, <4>1, <4>3, OwnerKnows, Zenon
                <5> QED
                    BY <2>1, <4>1, <4>3, <5>1, <5>2, Zenon
            <4> QED
                BY <4>1, <4>2, <4>3, Zenon
        <3> QED
            BY <3>1, <3>2
    <2> QED
        BY <2>2, <2>3, Zenon DEF Tracked
<1>10. StructsNamed'
    <2> SUFFICES ASSUME NEW s \in Structs, g_fake_file_fds[s] # 0
                 PROVE  \/ \E h \in held : h.struct = s
                        \/ \E u \in Openers : call'[u].op = "fclose" /\ call'[u].step = "begun" /\ call'[u].struct = s
        BY DEF StructsNamed
    <2>1. ASSUME NEW u \in Openers, call[u].op = "fclose", call[u].step = "begun", call[u].struct = s
          PROVE  call'[u].op = "fclose" /\ call'[u].step = "begun" /\ call'[u].struct = s
        <3>1. u # t
            BY <2>1
        <3> QED
            BY <1>3, <2>1, <3>1, Zenon DEF OthersStay
    <2> QED
        BY <1>4, <2>1, Zenon DEF StructsNamed
<1> QED
    BY <1>3, <1>5, <1>7, <1>8, <1>9, <1>10, Zenon DEF FilesOwned

\* The descriptor of a call is closed in the runtime: nobody else's.
LEMMA OwnerCloses ==
    ASSUME FilesAssumption, FileShapes, FilesOwned, AloneExact, NEW t \in Openers, Owns(call[t]),
           call[t].op = "fclose" => call[t].step # "begun",
           NEW r, call' = [call EXCEPT ![t] = r], crt' = [crt EXCEPT ![call[t].fd] = 0],
           \/ r = Resting
           \/ /\ FileRec(r) /\ Ended(r)
              /\ r.opening = call[t].opening /\ r.fd = call[t].fd /\ r.from = call[t].from,
           UNCHANGED <<position, openings, g_guest_fds, g_fake_file_fds, held, crossed>>
    PROVE  FileShapes' /\ FilesOwned' /\ AloneExact'
<1>1. /\ call[t].step # "idle" /\ call[t].opening \in 1 .. openings /\ call[t].fd \in CrtFds /\ call[t].opening # 0
      /\ call[t].from \in 0 .. Len(Content)
      /\ SoleOn(t) /\ crt[call[t].fd] = call[t].opening
      /\ \A h \in held : HeldShape(h, openings) /\ h.opening # call[t].opening /\ h.fd # call[t].fd
      /\ \A u \in Openers : u # t /\ Owns(call[u]) => call[u].fd # call[t].fd
    BY OwnerKnows, Zenon
<1>2. /\ CallShape(r, openings) /\ ~ Uses(r) /\ ~ Owns(r) /\ r.opening \in {0, call[t].opening}
      /\ Ended(r) => r # Resting /\ r.fd = call[t].fd
    BY <1>1, RestingIsIdle, KindsDiffer, Zenon DEF CallShape
<1>3. /\ crt' = [fd \in CrtFds |-> crt'[fd]] /\ crt'[call[t].fd] = 0
      /\ \A fd \in CrtFds : fd # call[t].fd => crt'[fd] = crt[fd]
    <2>1. crt = [fd \in CrtFds |-> crt[fd]]
        BY DEF FileShapes
    <2> QED
        BY <1>1, <2>1
<1>4. openings \in Nat
    BY FilesConstants DEF FileShapes
<1>5. FileShapes' /\ AloneExact' /\ call'[t] = r /\ OthersStay(t)
    <2>1. \A fd \in CrtFds : crt'[fd] \in 0 .. openings
        BY <1>3, <1>4 DEF FileShapes
    <2>2. /\ openings' = openings /\ openings' \in 0 .. MaxOpenings 
          /\ g_fake_file_fds' = [s \in Structs |-> g_fake_file_fds'[s]]
          /\ \A h \in held' : HeldShape(h, openings')
        BY Zenon DEF FileShapes
    <2> QED
        BY <1>2, <1>3, <2>1, <2>2, OwnerStep, Zenon DEF OthersStay
<1>6. CrtIsOneToOne /\ HeldIsOpen /\ OwnersOwn /\ UsersHold /\ EndedCross /\ Tracked /\ StructsNamed
    BY Zenon DEF FilesOwned
<1>7. CrtIsOneToOne'
    BY <1>1, <1>3, <1>6 DEF CrtIsOneToOne
<1>8. HeldIsOpen'
    <2>1. \A h \in held : h.fd \in CrtFds /\ crt'[h.fd] = crt[h.fd]
        BY <1>1, <1>3 DEF HeldShape
    <2> QED
        BY <1>6, <2>1 DEF HeldIsOpen
<1>9. \A u \in Openers : Owns(call'[u]) \/ Uses(call'[u]) => u # t /\ call'[u] = call[u]
    BY <1>2, <1>5, Zenon DEF OthersStay
<1>10. OwnersOwn'
    <2> SUFFICES ASSUME NEW u \in Openers, Owns(call'[u])
                 PROVE  /\ crt'[call'[u].fd] = call'[u].opening /\ SoleOn(u)'
                        /\ \A h \in held' : h.opening # call'[u].opening
                        /\ call'[u].op = "fclose" /\ call'[u].step = "begun"
                               => g_fake_file_fds'[call'[u].struct] = call'[u].fd
        BY DEF OwnersOwn
    <2>1. u # t /\ call'[u] = call[u] /\ Owns(call[u])
        BY <1>9, Zenon
    <2>2. /\ crt[call[u].fd] = call[u].opening /\ SoleOn(u) /\ call[u].opening # 0 /\ call[u].fd \in CrtFds
          /\ \A h \in held : h.opening # call[u].opening
          /\ call[u].op = "fclose" /\ call[u].step = "begun" => g_fake_file_fds[call[u].struct] = call[u].fd
        BY <1>6, <2>1, OwnerKnows, Zenon DEF OwnersOwn
    <2>3. SoleOn(u)' /\ crt'[call[u].fd] = crt[call[u].fd]
        BY <1>1, <1>3, <1>5, <2>1, <2>2, Zenon DEF OthersStay
    <2> QED
        BY <2>1, <2>2, <2>3, Zenon
<1>11. UsersHold'
    <2> SUFFICES ASSUME NEW u \in Openers, Uses(call'[u]) PROVE HeldBy(call'[u]) \in held
        BY DEF UsersHold
    <2>1. call'[u] = call[u] /\ Uses(call[u])
        BY <1>9, Zenon
    <2>2. HeldBy(call[u]) \in held
        BY <1>6, <2>1, Zenon DEF UsersHold
    <2> QED
        BY <2>1, <2>2
<1>12. EndedCross'
    <2> SUFFICES ASSUME NEW u \in Openers, Ended(call'[u]) PROVE crt'[call'[u].fd] = 0 \/ crt'[call'[u].fd] \in crossed
        BY DEF EndedCross
    <2>1. CASE u = t
        BY <1>2, <1>3, <1>5, <2>1, Zenon
    <2>2. CASE u # t
        <3>1. call'[u] = call[u] /\ Ended(call[u])
            BY <1>5, <2>2, Zenon DEF OthersStay
        <3>2. call[u].fd \in CrtFds
            BY <3>1, BusyOpening, KindsAreBusy, Zenon
        <3>3. crt[call[u].fd] = 0 \/ crt[call[u].fd] \in crossed
            BY <1>6, <3>1, Zenon DEF EndedCross
        <3> QED
            BY <1>3, <3>1, <3>2, <3>3
    <2> QED
        BY <2>1, <2>2
<1>13. Tracked'
    <2>1. ASSUME NEW u \in Openers, Owns(call'[u]), call'[u].step \in {"tracked", "begun"}
          PROVE  call'[u].opening \in crossed \/ call'[u].fd \in g_guest_fds
        <3>1. call'[u] = call[u] /\ Owns(call[u])
            BY <1>9, <2>1, Zenon
        <3>2. call[u].opening \in crossed \/ call[u].fd \in g_guest_fds
            BY <1>6, <2>1, <3>1, Zenon DEF Tracked
        <3> QED
            BY <3>1, <3>2
    <2>2. \A h \in held : h.opening \in crossed \/ h.fd \in g_guest_fds
        BY <1>6, Zenon DEF Tracked
    <2> QED
        BY <2>1, <2>2, Zenon DEF Tracked
<1>14. StructsNamed'
    <2> SUFFICES ASSUME NEW s \in Structs, g_fake_file_fds[s] # 0
                 PROVE  \/ \E h \in held : h.struct = s
                        \/ \E u \in Openers : call'[u].op = "fclose" /\ call'[u].step = "begun" /\ call'[u].struct = s
        BY DEF StructsNamed
    <2>1. ASSUME NEW u \in Openers, call[u].op = "fclose", call[u].step = "begun", call[u].struct = s
          PROVE  call'[u].op = "fclose" /\ call'[u].step = "begun" /\ call'[u].struct = s
        <3>1. u # t
            BY <2>1
        <3> QED
            BY <1>5, <2>1, <3>1, Zenon DEF OthersStay
    <2> QED
        BY <1>6, <2>1, Zenon DEF StructsNamed
<1> QED
    BY <1>5, <1>7, <1>8, <1>10, <1>11, <1>12, <1>13, <1>14, Zenon DEF FilesOwned

\* The entry of a struct goes: nobody else's.
LEMMA DestroyFakeFileKeepsInv ==
    ASSUME FilesAssumption, FilesInv, NEW t \in Openers, DestroyFakeFile(t) PROVE FilesInv'
<1>1. FileShapes /\ FilesOwned /\ AloneExact
    BY DEF FilesInv
<1>2. /\ call[t].op = "fclose" /\ call[t].step = "begun"
      /\ g_fake_file_fds' = [g_fake_file_fds EXCEPT ![call[t].struct] = 0] /\ Go(t, "erased")
      /\ UNCHANGED <<crt, position, openings, g_guest_fds, held, crossed>>
    BY DEF DestroyFakeFile
<1>3. Owns(call[t]) /\ call[t].struct \in Structs
    <2>1. Owns(call[t])
        BY <1>1, <1>2, OwnerKinds
    <2> QED
        BY <1>2, <2>1 DEF Owns
<1>4. PICK r : r = [call[t] EXCEPT !.step = "erased"]
    BY Zenon
<1>5. call' = [call EXCEPT ![t] = r] /\ returned' = Resting
    BY <1>2, <1>4, Zenon DEF Go, Calls
<1>6. /\ call[t].opening \in 1 .. openings /\ call[t].fd \in CrtFds /\ call[t].opening # 0 /\ call[t].fd # 0
      /\ call[t].from \in 0 .. Len(Content) /\ SoleOn(t) /\ crt[call[t].fd] = call[t].opening
      /\ \A h \in held : HeldShape(h, openings) /\ h.opening # call[t].opening /\ h.fd # call[t].fd
      /\ \A u \in Openers : u # t /\ Owns(call[u]) => call[u].fd # call[t].fd
    BY <1>1, <1>3, OwnerKnows, Zenon
<1>7. /\ FileRec(r) /\ r.step = "erased" /\ r.op = "fclose" /\ r.opening = call[t].opening /\ r.fd = call[t].fd
      /\ r.from = call[t].from
    BY <1>1, <1>2, <1>3, <1>4, StepMoves, KindsAreBusy, Zenon
<1>8. Owns(r) /\ ~ Uses(r) /\ ~ Ended(r) /\ r # Resting
    BY <1>7, KindsDiffer, RestingIsIdle DEF Owns
<1>9. CallShape(r, openings)
    BY <1>6, <1>7, <1>8, Zenon DEF CallShape
<1>10. /\ g_fake_file_fds' = [s \in Structs |-> g_fake_file_fds'[s]] /\ g_fake_file_fds'[call[t].struct] = 0
       /\ \A s \in Structs : s # call[t].struct => g_fake_file_fds'[s] = g_fake_file_fds[s]
    BY <1>1, <1>2, <1>3 DEF FileShapes
<1>11. FileShapes' /\ AloneExact' /\ call'[t] = r /\ OthersStay(t)
    <2>1. /\ openings' = openings /\ openings' \in 0 .. MaxOpenings /\ crt' = [fd \in CrtFds |-> crt'[fd]]
          /\ \A fd \in CrtFds : crt'[fd] \in 0 .. openings' 
          /\ \A h \in held' : HeldShape(h, openings')
        BY <1>1, <1>2, Zenon DEF FileShapes
    <2> QED
        BY <1>1, <1>2, <1>5, <1>7, <1>8, <1>9, <1>10, <2>1, OwnerStep, Zenon DEF OthersStay
<1>12. CrtIsOneToOne /\ HeldIsOpen /\ OwnersOwn /\ UsersHold /\ EndedCross /\ Tracked /\ StructsNamed
    BY <1>1, Zenon DEF FilesOwned
<1>13. g_fake_file_fds[call[t].struct] = call[t].fd
    BY <1>2, <1>3, <1>12, Zenon DEF OwnersOwn
<1>14. CrtIsOneToOne'
    BY <1>2, <1>12 DEF CrtIsOneToOne
<1>15. HeldIsOpen'
    <2>1. \A h \in held : h.struct # 0 => g_fake_file_fds'[h.struct] = h.fd
        <3> SUFFICES ASSUME NEW h \in held, h.struct # 0 PROVE g_fake_file_fds'[h.struct] = h.fd
            OBVIOUS
        <3>1. g_fake_file_fds[h.struct] = h.fd /\ h.struct \in Structs /\ h.fd # call[t].fd
            BY <1>6, <1>12 DEF HeldIsOpen, HeldShape
        <3>2. h.struct # call[t].struct
            BY <1>13, <3>1
        <3> QED
            BY <1>10, <3>1, <3>2, Zenon
    <2> QED
        BY <1>2, <1>12, <2>1, Zenon DEF HeldIsOpen
<1>16. OwnersOwn'
    <2> SUFFICES ASSUME NEW u \in Openers, Owns(call'[u])
                 PROVE  /\ crt'[call'[u].fd] = call'[u].opening /\ SoleOn(u)'
                        /\ \A h \in held' : h.opening # call'[u].opening
                        /\ call'[u].op = "fclose" /\ call'[u].step = "begun"
                               => g_fake_file_fds'[call'[u].struct] = call'[u].fd
        BY DEF OwnersOwn
    <2>1. CASE u = t
        <3>1. SoleOn(t)'
            BY <1>6, <1>7, <1>11, Zenon DEF SoleOn, OthersStay
        <3>2. call'[u] = r /\ r.step # "begun"
            BY <1>7, <1>11, <2>1
        <3> QED
            BY <1>2, <1>6, <1>7, <2>1, <3>1, <3>2, Zenon
    <2>2. CASE u # t
        <3>1. call'[u] = call[u] /\ Owns(call[u])
            BY <1>11, <2>2, Zenon DEF OthersStay
        <3>2. /\ crt[call[u].fd] = call[u].opening /\ SoleOn(u) /\ call[u].opening # 0 /\ call[u].fd # call[t].fd
              /\ \A h \in held : h.opening # call[u].opening
              /\ call[u].op = "fclose" /\ call[u].step = "begun" => g_fake_file_fds[call[u].struct] = call[u].fd
            BY <1>1, <1>6, <1>12, <2>2, <3>1, OwnerKnows, Zenon DEF OwnersOwn
        <3>3. ASSUME call[u].op = "fclose", call[u].step = "begun" PROVE g_fake_file_fds'[call[u].struct] = call[u].fd
            <4>1. call[u].struct \in Structs
                BY <3>1, <3>3 DEF Owns
            <4>2. call[u].struct # call[t].struct
                BY <1>13, <3>2, <3>3
            <4> QED
                BY <1>10, <3>2, <3>3, <4>1, <4>2, Zenon
        <3>4. SoleOn(u)'
            BY <1>11, <2>2, <3>2, Zenon DEF OthersStay
        <3> QED
            BY <1>2, <3>1, <3>2, <3>3, <3>4, Zenon
    <2> QED
        BY <2>1, <2>2
<1>17. UsersHold'
    BY <1>2, <1>8, <1>11, <1>12, Zenon DEF UsersHold, OthersStay
<1>18. EndedCross'
    BY <1>2, <1>8, <1>11, <1>12, Zenon DEF EndedCross, OthersStay
<1>19. Tracked'
    <2>1. r.step \notin {"tracked", "begun"}
        BY <1>7
    <2> QED
        BY <1>2, <1>11, <1>12, <2>1, Zenon DEF Tracked, OthersStay
<1>20. StructsNamed'
    <2> SUFFICES ASSUME NEW s \in Structs, g_fake_file_fds'[s] # 0
                 PROVE  \/ \E h \in held : h.struct = s
                        \/ \E u \in Openers : call'[u].op = "fclose" /\ call'[u].step = "begun" /\ call'[u].struct = s
        BY <1>2, Zenon DEF StructsNamed
    <2>1. s # call[t].struct /\ g_fake_file_fds[s] # 0
        BY <1>10, Zenon
    <2>2. ASSUME NEW u \in Openers, call[u].op = "fclose", call[u].step = "begun", call[u].struct = s
          PROVE  call'[u].op = "fclose" /\ call'[u].step = "begun" /\ call'[u].struct = s
        <3>1. u # t
            BY <2>1, <2>2
        <3> QED
            BY <1>11, <2>2, <3>1, Zenon DEF OthersStay
    <2> QED
        BY <1>12, <2>1, <2>2, Zenon DEF StructsNamed
<1> QED
    BY <1>5, <1>11, <1>14, <1>15, <1>16, <1>17, <1>18, <1>19, <1>20, SilentAnswers, Zenon DEF FilesInv, FilesOwned

LEMMA TrackGuestFdKeepsInv ==
    ASSUME FilesAssumption, FilesInv, NEW t \in Openers, TrackGuestFd(t) PROVE FilesInv'
<1>1. FileShapes /\ FilesOwned /\ AloneExact
    BY DEF FilesInv
<1>2. /\ call[t].step = "opened" /\ g_guest_fds' = g_guest_fds \cup {call[t].fd}
      /\ UNCHANGED <<crt, position, openings, g_fake_file_fds, crossed>>
    BY DEF TrackGuestFd
<1>3. Owns(call[t]) /\ call[t].step # "idle"
    BY <1>1, <1>2, OwnerKinds
<1>4. call[t].op \in {"open", "fopen"} /\ call[t].struct = 0
    BY <1>2, <1>3 DEF Owns
<1>5. CASE call[t].op = "fopen"
    <2>1. Go(t, "tracked") /\ UNCHANGED held
        BY <1>5 DEF TrackGuestFd
    <2>2. PICK r : r = [call[t] EXCEPT !.step = "tracked"]
        BY Zenon
    <2>3. call' = [call EXCEPT ![t] = r] /\ returned' = Resting
        BY <2>1, <2>2, Zenon DEF Go, Calls
    <2>4. /\ FileRec(r) /\ r.step = "tracked" /\ r.op = call[t].op /\ r.opening = call[t].opening /\ r.fd = call[t].fd
          /\ r.from = call[t].from /\ r.struct = call[t].struct
        BY <1>1, <1>3, <2>2, StepMoves, Zenon
    <2>5. Owns(r) /\ r.step # "begun" /\ r.fd \in g_guest_fds'
        BY <1>2, <1>4, <1>5, <2>4 DEF Owns
    <2>6. \A fd \in g_guest_fds : fd \in g_guest_fds'
        BY <1>2
    <2>7. call[t].op = "fclose" => call[t].step # "begun"
        BY <1>5
    <2>8. FileShapes' /\ FilesOwned' /\ AloneExact'
        BY <1>1, <1>2, <1>3, <2>1, <2>3, <2>4, <2>5, <2>6, <2>7, OwnerMoves, Zenon
    <2> QED
        BY <2>3, <2>8, SilentAnswers, Zenon DEF FilesInv
<1>6. CASE call[t].op # "fopen"
    <2>1. PICK struct \in Structs \cup {0} : struct = 0
        OBVIOUS
    <2>2. /\ Answer(t, "served")
          /\ held' = held \cup {[opening |-> call[t].opening, fd |-> call[t].fd, struct |-> struct]}
        BY <1>6, <2>1 DEF TrackGuestFd
    <2>3. g_guest_fds \subseteq g_guest_fds' /\ call[t].fd \in g_guest_fds'
        BY <1>2
    <2>4. g_fake_file_fds' = IF struct = 0 THEN g_fake_file_fds ELSE [g_fake_file_fds EXCEPT ![struct] = call[t].fd]
        BY <1>2, <2>1
    <2> QED
        BY <1>2, <1>3, <1>4, <2>1, <2>2, <2>3, <2>4, HandOver, Zenon
<1> QED
    BY <1>5, <1>6

\* A call that closes its descriptor.
LEMMA CloseSteps ==
    ASSUME FilesAssumption, FilesInv, NEW t \in Openers, Owns(call[t]), call[t].op = "fclose" => call[t].step # "begun",
           crt' = [crt EXCEPT ![call[t].fd] = 0],
           UNCHANGED <<position, openings, g_guest_fds, g_fake_file_fds, held, crossed>>,
           \/ Answer(t, "served") /\ call[t].op \notin {"feof", "fgets"}
           \/ Go(t, "failed") /\ call[t].op = "fopen"
           \/ Go(t, "fclosed") /\ call[t].op = "fclose"
    PROVE  FilesInv'
<1>1. FileShapes /\ FilesOwned /\ AloneExact /\ call[t].step # "idle"
    BY OwnerKnows, Zenon DEF FilesInv
<1>2. CASE Answer(t, "served") /\ call[t].op \notin {"feof", "fgets"}
    <2>1. call' = [call EXCEPT ![t] = Resting]
        BY <1>2, Zenon DEF Answer
    <2>2. FileShapes' /\ FilesOwned' /\ AloneExact'
        BY <1>1, <2>1, OwnerCloses, Zenon
    <2>3. LegalCallsAreServed' /\ StreamCallsAreExact'
        BY <1>1, <1>2, OtherAnswers
    <2> QED
        BY <2>2, <2>3, Zenon DEF FilesInv
<1>3. ASSUME NEW step, Go(t, step),
             \/ step = "failed" /\ call[t].op = "fopen"
             \/ step = "fclosed" /\ call[t].op = "fclose"
      PROVE  FilesInv'
    <2>1. PICK r : r = [call[t] EXCEPT !.step = step]
        BY Zenon
    <2>2. call' = [call EXCEPT ![t] = r] /\ returned' = Resting
        BY <1>3, <2>1, Zenon DEF Go, Calls
    <2>3. /\ FileRec(r) /\ r.step = step /\ r.op = call[t].op /\ r.opening = call[t].opening /\ r.fd = call[t].fd
          /\ r.from = call[t].from
        BY <1>1, <2>1, StepMoves, Zenon
    <2>4. Ended(r)
        BY <1>3, <2>3 DEF Ended
    <2>5. FileShapes' /\ FilesOwned' /\ AloneExact'
        BY <1>1, <2>2, <2>3, <2>4, OwnerCloses, Zenon
    <2> QED
        BY <2>2, <2>5, SilentAnswers, Zenon DEF FilesInv
<1>4. CASE Go(t, "failed") /\ call[t].op = "fopen"
    BY <1>3, <1>4
<1>5. CASE Go(t, "fclosed") /\ call[t].op = "fclose"
    BY <1>3, <1>5
<1> QED
    BY <1>2, <1>4, <1>5

LEMMA CreateFakeFileKeepsInv ==
    ASSUME FilesAssumption, FilesInv, NEW t \in Openers, CreateFakeFile(t) PROVE FilesInv'
<1>1. FileShapes /\ FilesOwned
    BY DEF FilesInv
<1>2. /\ call[t].step = "tracked" /\ UNCHANGED <<position, openings, g_guest_fds, crossed>>
    BY DEF CreateFakeFile
<1>3. Owns(call[t])
    BY <1>1, <1>2, OwnerKinds
<1>4. call[t].op = "fopen"
    BY <1>2, <1>3 DEF Owns
<1>5. ASSUME NEW s \in Structs, g_fake_file_fds[s] = 0, UNCHANGED crt,
             g_fake_file_fds' = [g_fake_file_fds EXCEPT ![s] = call[t].fd],
             held' = held \cup {[opening |-> call[t].opening, fd |-> call[t].fd, struct |-> s]},
             Answer(t, "served")
      PROVE  FilesInv'
    <2>1. s \in Structs \cup {0} /\ s # 0
        BY FilesConstants
    <2>2. call[t].opening \in crossed \/ call[t].fd \in g_guest_fds'
        BY <1>1, <1>2, <1>3 DEF FilesOwned, Tracked
    <2>3. g_guest_fds \subseteq g_guest_fds'
        BY <1>2
    <2>4. call[t].op \in {"open", "fopen"}
        BY <1>4
    <2> QED
        BY <1>2, <1>3, <1>5, <2>1, <2>2, <2>3, <2>4, HandOver, Zenon
<1>6. CASE crt' = [crt EXCEPT ![call[t].fd] = 0] /\ Go(t, "failed") /\ UNCHANGED <<g_fake_file_fds, held>>
    <2>1. call[t].op = "fclose" => call[t].step # "begun"
        BY <1>4
    <2> QED
        BY <1>2, <1>3, <1>4, <1>6, <2>1, CloseSteps, Zenon
<1> QED
    BY <1>5, <1>6, Zenon DEF CreateFakeFile

LEMMA UntrackGuestFdKeepsInv ==
    ASSUME FilesAssumption, FilesInv, NEW t \in Openers, UntrackGuestFd(t) PROVE FilesInv'
<1>1. FileShapes /\ FilesOwned /\ AloneExact
    BY DEF FilesInv
<1>2. /\ call[t].op = "close" /\ call[t].step = "begun" /\ g_guest_fds' = g_guest_fds \ {call[t].fd}
      /\ UNCHANGED <<crt, position, openings, g_fake_file_fds, held, crossed>>
    BY DEF UntrackGuestFd
<1>3. Owns(call[t]) /\ call[t].step # "idle"
    BY <1>1, <1>2, OwnerKinds
<1>4. /\ \A fd \in g_guest_fds : fd \in g_guest_fds' \/ fd = call[t].fd
      /\ call[t].op = "fclose" => call[t].step # "begun"
    BY <1>2
<1>5. CASE Go(t, "untracked")
    <2>1. PICK r : r = [call[t] EXCEPT !.step = "untracked"]
        BY Zenon
    <2>2. call' = [call EXCEPT ![t] = r] /\ returned' = Resting
        BY <1>5, <2>1, Zenon DEF Go, Calls
    <2>3. /\ FileRec(r) /\ r.step = "untracked" /\ r.op = call[t].op /\ r.opening = call[t].opening /\ r.fd = call[t].fd
          /\ r.from = call[t].from
        BY <1>1, <1>3, <2>1, StepMoves, Zenon
    <2>4. Owns(r) /\ r.step # "begun" /\ r.step # "tracked"
        BY <1>2, <2>3 DEF Owns
    <2>5. FileShapes' /\ FilesOwned' /\ AloneExact'
        BY <1>1, <1>2, <1>3, <1>4, <2>2, <2>3, <2>4, OwnerMoves, Zenon
    <2> QED
        BY <2>2, <2>5, SilentAnswers, Zenon DEF FilesInv
<1>6. CASE Answer(t, "EBADF") /\ call[t].fd \notin g_guest_fds
    <2>1. call' = [call EXCEPT ![t] = Resting]
        BY <1>6, Zenon DEF Answer
    <2>2. FileShapes' /\ FilesOwned' /\ AloneExact'
        BY <1>1, <1>2, <1>3, <1>4, <2>1, OwnerMoves, Zenon
    <2>3. call[t].opening \in crossed'
        BY <1>1, <1>2, <1>3, <1>6 DEF FilesOwned, Tracked
    <2>4. LegalCallsAreServed' /\ StreamCallsAreExact'
        BY <1>1, <1>3, <1>6, <2>3, OtherAnswers
    <2> QED
        BY <2>2, <2>4, Zenon DEF FilesInv
<1> QED
    BY <1>5, <1>6, Zenon DEF UntrackGuestFd

LEMMA CrtCloseKeepsInv ==
    ASSUME FilesAssumption, FilesInv, NEW t \in Openers, CrtClose(t) PROVE FilesInv'
<1>1. FileShapes /\ FilesOwned
    BY DEF FilesInv
<1>2. call[t].step = "untracked"
    BY DEF CrtClose
<1>3. Owns(call[t])
    BY <1>1, <1>2, OwnerKinds
<1>4. call[t].op = "close" /\ crt[call[t].fd] # 0
    <2>1. call[t].op = "close"
        BY <1>2, <1>3 DEF Owns
    <2> QED
        BY <1>1, <1>3, <2>1, OwnerKnows, Zenon
<1>5. /\ crt' = [crt EXCEPT ![call[t].fd] = 0] /\ Answer(t, "served")
      /\ UNCHANGED <<position, openings, g_guest_fds, g_fake_file_fds, held, crossed>>
    BY <1>4, Zenon DEF CrtClose
<1>6. call[t].op \notin {"feof", "fgets"} /\ (call[t].op = "fclose" => call[t].step # "begun")
    BY <1>4
<1> QED
    BY <1>3, <1>5, <1>6, CloseSteps, Zenon

LEMMA CloseErasedKeepsInv ==
    ASSUME FilesAssumption, FilesInv, NEW t \in Openers, CloseErased(t) PROVE FilesInv'
<1>1. FileShapes
    BY DEF FilesInv
<1>2. /\ call[t].step = "erased" /\ crt' = [crt EXCEPT ![call[t].fd] = 0] /\ Go(t, "fclosed")
      /\ UNCHANGED <<position, openings, g_guest_fds, g_fake_file_fds, held, crossed>>
    BY DEF CloseErased
<1>3. Owns(call[t])
    BY <1>1, <1>2, OwnerKinds
<1>4. call[t].op = "fclose" /\ call[t].step # "begun"
    BY <1>2, <1>3 DEF Owns
<1> QED
    BY <1>2, <1>3, <1>4, CloseSteps, Zenon

LEMMA UntrackClosedKeepsInv ==
    ASSUME FilesAssumption, FilesInv, NEW t \in Openers, UntrackClosed(t) PROVE FilesInv'
<1>1. FileShapes /\ FilesOwned /\ AloneExact
    BY DEF FilesInv
<1>2. /\ call[t].step \in {"fclosed", "failed"} /\ g_guest_fds' = g_guest_fds \ {call[t].fd}
      /\ Answer(t, "served")
      /\ UNCHANGED <<crt, position, openings, g_fake_file_fds, held, crossed>>
    BY DEF UntrackClosed
<1>3. Ended(call[t])
    BY <1>1, <1>2, OwnerKinds
<1>4. call[t].op \notin {"feof", "fgets"} /\ (call[t].op = "fclose" => call[t].step # "begun") /\ call[t].step # "idle"
    BY <1>2, <1>3 DEF Ended
<1>5. \A fd \in g_guest_fds : fd \in g_guest_fds' \/ fd = call[t].fd
    BY <1>2
<1>6. call' = [call EXCEPT ![t] = Resting]
    BY <1>2, Zenon DEF Answer
<1>7. FileShapes' /\ FilesOwned' /\ AloneExact'
    BY <1>1, <1>2, <1>3, <1>4, <1>5, <1>6, OwnerMoves, Zenon
<1>8. LegalCallsAreServed' /\ StreamCallsAreExact'
    BY <1>1, <1>2, <1>4, OtherAnswers
<1> QED
    BY <1>7, <1>8, Zenon DEF FilesInv

LEMMA BeginCloseKeepsInv ==
    ASSUME FilesAssumption, FilesInv, NEW t \in Openers, NEW h \in held, BeginClose(t, h) PROVE FilesInv'
<1>1. FileShapes /\ FilesOwned /\ AloneExact
    BY DEF FilesInv
<1>2. /\ call[t] = Resting /\ held' = held \ {h}
      /\ \A u \in Openers : call[u].opening # h.opening
      /\ UNCHANGED <<crt, position, openings, g_guest_fds, g_fake_file_fds, crossed>>
    BY DEF BeginClose, On
<1>3. PICK op, o, f, s :
         op = (IF h.struct = 0 THEN "close" ELSE "fclose") /\ o = h.opening /\ f = h.fd /\ s = h.struct
    OBVIOUS
<1>4. PICK r : r = [Resting EXCEPT !.op = op, !.step = "begun", !.opening = o, !.fd = f, !.struct = s]
    BY Zenon
<1>5. call' = [call EXCEPT ![t] = r] /\ returned' = Resting
    BY <1>3, <1>4, Zenon DEF BeginClose, Calls
<1>6. /\ FileRec(r) /\ r.op = (IF h.struct = 0 THEN "close" ELSE "fclose") /\ r.step = "begun"
      /\ r.opening = h.opening /\ r.fd = h.fd /\ r.struct = h.struct /\ r.from = 0
    <2>1. r = [op |-> op, step |-> "begun", opening |-> o, fd |-> f, struct |-> s, from |-> 0, got |-> <<>>, alone |-> TRUE]
        BY <1>4 DEF Resting
    <2>2. FileRec(r) /\ r.op = op /\ r.step = "begun" /\ r.opening = o /\ r.fd = f /\ r.struct = s /\ r.from = 0
        BY <2>1 DEF FileRec
    <2> QED
        BY <1>3, <2>2, Zenon
<1>7. CrtIsOneToOne /\ HeldIsOpen /\ OwnersOwn /\ UsersHold /\ EndedCross /\ Tracked /\ StructsNamed
    BY <1>1, Zenon DEF FilesOwned
<1>8. /\ h.opening \in 1 .. openings /\ h.opening # 0 /\ h.fd \in CrtFds /\ h.struct \in Structs \cup {0}
      /\ crt[h.fd] = h.opening /\ (h.struct # 0 => g_fake_file_fds[h.struct] = h.fd)
      /\ \A k \in held : k.opening = h.opening => k = h
    BY <1>1, <1>7 DEF FileShapes, HeldShape, HeldIsOpen
<1>9. /\ Owns(r) /\ ~ Uses(r) /\ ~ Ended(r) /\ CallShape(r, openings)
    <2>1. Owns(r)
        BY <1>6, <1>8 DEF Owns
    <2>2. r.from \in 0 .. Len(Content)
        BY <1>6, FilesConstants
    <2> QED
        BY <1>6, <1>8, <2>1, <2>2, KindsDiffer, Zenon DEF CallShape
<1>10. FileShapes' /\ AloneExact' /\ call'[t] = r /\ OthersStay(t)
    <2>1. /\ openings' = openings /\ openings' \in 0 .. MaxOpenings /\ crt' = [fd \in CrtFds |-> crt'[fd]]
          /\ \A fd \in CrtFds : crt'[fd] \in 0 .. openings'
          /\ g_fake_file_fds' = [s0 \in Structs |-> g_fake_file_fds'[s0]]
        BY <1>1, <1>2, Zenon DEF FileShapes
    <2>2. \A k \in held' : HeldShape(k, openings') /\ k \in held /\ k # h
        BY <1>1, <1>2 DEF FileShapes
    <2>3. \A u \in Openers : call[u].opening # r.opening
        BY <1>2, <1>6, Zenon
    <2>4. CallShape(r, openings')
        BY <1>9, <2>1, Zenon
    <2> QED
        BY <1>1, <1>2, <1>5, <1>9, <2>1, <2>2, <2>3, <2>4, OwnerStep, Zenon DEF OthersStay
<1>11. \A k \in held' : k \in held /\ k.opening # h.opening
    BY <1>2, <1>8
<1>12. CrtIsOneToOne' /\ HeldIsOpen'
    <2>1. CrtIsOneToOne'
        BY <1>2, <1>7 DEF CrtIsOneToOne
    <2>2. HeldIsOpen'
        BY <1>2, <1>7, <1>11, Zenon DEF HeldIsOpen
    <2> QED
        BY <2>1, <2>2
<1>13. OwnersOwn'
    <2> SUFFICES ASSUME NEW u \in Openers, Owns(call'[u])
                 PROVE  /\ crt'[call'[u].fd] = call'[u].opening /\ SoleOn(u)'
                        /\ \A k \in held' : k.opening # call'[u].opening
                        /\ call'[u].op = "fclose" /\ call'[u].step = "begun"
                               => g_fake_file_fds'[call'[u].struct] = call'[u].fd
        BY DEF OwnersOwn
    <2>1. CASE u = t
        <3>1. call'[u] = r /\ r.opening = h.opening /\ r.fd = h.fd
            BY <1>6, <1>10, <2>1, Zenon
        <3>2. SoleOn(u)'
            BY <1>2, <1>10, <2>1, <3>1, Zenon DEF SoleOn, OthersStay
        <3>3. r.op = "fclose" => r.struct = h.struct /\ h.struct # 0
            BY <1>6
        <3> QED
            BY <1>2, <1>8, <1>11, <3>1, <3>2, <3>3, Zenon
    <2>2. CASE u # t
        <3>1. call'[u] = call[u] /\ Owns(call[u])
            BY <1>10, <2>2, Zenon DEF OthersStay
        <3>2. /\ SoleOn(u) /\ crt[call[u].fd] = call[u].opening /\ call[u].opening # 0
              /\ \A k \in held : k.opening # call[u].opening
              /\ call[u].op = "fclose" /\ call[u].step = "begun" => g_fake_file_fds[call[u].struct] = call[u].fd
            BY <1>1, <1>7, <3>1, OwnerKnows, Zenon DEF OwnersOwn
        <3>3. SoleOn(u)'
            BY <1>10, <2>2, <3>2, Zenon DEF OthersStay
        <3> QED
            BY <1>2, <1>11, <3>1, <3>2, <3>3, Zenon
    <2> QED
        BY <2>1, <2>2
<1>14. UsersHold'
    <2> SUFFICES ASSUME NEW u \in Openers, Uses(call'[u]) PROVE HeldBy(call'[u]) \in held'
        BY DEF UsersHold
    <2>1. call'[u] = call[u] /\ Uses(call[u])
        BY <1>9, <1>10, Zenon DEF OthersStay
    <2>2. HeldBy(call[u]) \in held /\ call[u].opening # h.opening
        BY <1>2, <1>7, <2>1, Zenon DEF UsersHold
    <2>3. HeldBy(call[u]) # h
        BY <2>2 DEF HeldBy
    <2> QED
        BY <1>2, <2>1, <2>2, <2>3
<1>15. EndedCross'
    <2> SUFFICES ASSUME NEW u \in Openers, Ended(call'[u])
                 PROVE  crt'[call'[u].fd] = 0 \/ crt'[call'[u].fd] \in crossed'
        BY DEF EndedCross
    <2>1. call'[u] = call[u] /\ Ended(call[u])
        BY <1>9, <1>10, Zenon DEF OthersStay
    <2> QED
        BY <1>2, <1>7, <2>1, Zenon DEF EndedCross
<1>16. Tracked'
    <2>1. \A k \in held' : k.opening \in crossed' \/ k.fd \in g_guest_fds'
        BY <1>2, <1>7, <1>11, Zenon DEF Tracked
    <2>2. ASSUME NEW u \in Openers, Owns(call'[u]), call'[u].step \in {"tracked", "begun"}
          PROVE  call'[u].opening \in crossed' \/ call'[u].fd \in g_guest_fds'
        <3>1. CASE u = t
            BY <1>2, <1>6, <1>7, <1>10, <3>1, Zenon DEF Tracked
        <3>2. CASE u # t
            BY <1>2, <1>7, <1>10, <2>2, <3>2, Zenon DEF Tracked, OthersStay
        <3> QED
            BY <3>1, <3>2
    <2> QED
        BY <2>1, <2>2, Zenon DEF Tracked
<1>17. StructsNamed'
    <2> SUFFICES ASSUME NEW s0 \in Structs, g_fake_file_fds'[s0] # 0
                 PROVE  \/ \E k \in held' : k.struct = s0
                        \/ \E u \in Openers : call'[u].op = "fclose" /\ call'[u].step = "begun" /\ call'[u].struct = s0
        BY DEF StructsNamed
    <2>1. g_fake_file_fds[s0] # 0 /\ s0 # 0
        BY <1>2, FilesConstants
    <2>2. ASSUME NEW k \in held, k.struct = s0
          PROVE  \/ k \in held'
                 \/ call'[t].op = "fclose" /\ call'[t].step = "begun" /\ call'[t].struct = s0
        <3>1. CASE k = h
            <4>1. r.op = "fclose" /\ r.step = "begun" /\ r.struct = s0
                BY <1>6, <2>1, <2>2, <3>1
            <4> QED
                BY <1>10, <4>1, Zenon
        <3> QED
            BY <1>2, <3>1
    <2>3. ASSUME NEW u \in Openers, call[u].op = "fclose", call[u].step = "begun", call[u].struct = s0
          PROVE  call'[u].op = "fclose" /\ call'[u].step = "begun" /\ call'[u].struct = s0
        <3>1. call[u].step # "idle"
            BY <2>3
        <3>2. u # t
            BY <1>2, <3>1, RestingIsIdle, Zenon
        <3> QED
            BY <1>10, <2>3, <3>2, Zenon DEF OthersStay
    <2> QED
        BY <1>7, <2>1, <2>2, <2>3, Zenon DEF StructsNamed
<1> QED
    BY <1>5, <1>10, <1>12, <1>13, <1>14, <1>15, <1>16, <1>17, SilentAnswers, Zenon DEF FilesInv, FilesOwned

LEMMA CrtOpenKeepsInv ==
    ASSUME FilesAssumption, FilesInv, NEW t \in Openers, NEW op \in {"open", "fopen"}, CrtOpen(t, op) PROVE FilesInv'
<1>1. FileShapes /\ FilesOwned /\ AloneExact
    BY DEF FilesInv
<1>2. PICK o : o = openings + 1
    OBVIOUS
<1>3. PICK fd \in CrtFds :
         /\ crt[fd] = 0 /\ crt' = [crt EXCEPT ![fd] = o]
         /\ Calls([call EXCEPT ![t] = [Resting EXCEPT !.op = op, !.step = "opened", !.opening = o, !.fd = fd]])
         /\ crossed' = IF fd \in Untracked THEN crossed \cup {o} ELSE crossed
    <2>1. PICK fd \in LowestFree :
             /\ crt' = [crt EXCEPT ![fd] = o]
             /\ Calls([call EXCEPT ![t] = [Resting EXCEPT !.op = op, !.step = "opened", !.opening = o, !.fd = fd]])
             /\ crossed' = IF fd \in Untracked THEN crossed \cup {o} ELSE crossed
        BY <1>2, Zenon DEF CrtOpen
    <2>2. fd \in CrtFds /\ crt[fd] = 0
        BY Zenon DEF LowestFree, Open
    <2> QED
        BY <2>1, <2>2, Zenon
<1>4. /\ call[t] = Resting /\ openings < MaxOpenings /\ openings' = o
      /\ UNCHANGED <<position, g_guest_fds, g_fake_file_fds, held>>
    BY <1>2 DEF CrtOpen
<1>5. openings \in Nat /\ o \in 1 .. MaxOpenings /\ o # 0 /\ o \notin 0 .. openings /\ openings \in 0 .. o
    BY <1>1, <1>2, <1>4, FilesConstants DEF FileShapes
<1>6. PICK r : r = [Resting EXCEPT !.op = op, !.step = "opened", !.opening = o, !.fd = fd]
    BY Zenon
<1>7. call' = [call EXCEPT ![t] = r] /\ returned' = Resting
    BY <1>3, <1>6, Zenon DEF Calls
<1>8. FileRec(r) /\ r.op = op /\ r.step = "opened" /\ r.opening = o /\ r.fd = fd /\ r.struct = 0 /\ r.from = 0
    <2>1. r = [op |-> op, step |-> "opened", opening |-> o, fd |-> fd, struct |-> 0, from |-> 0, got |-> <<>>, alone |-> TRUE]
        BY <1>6 DEF Resting
    <2> QED
        BY <2>1 DEF FileRec
<1>9. CrtIsOneToOne /\ HeldIsOpen /\ OwnersOwn /\ UsersHold /\ EndedCross /\ Tracked /\ StructsNamed
    BY <1>1, Zenon DEF FilesOwned
<1>10. Owns(r) /\ ~ Uses(r) /\ ~ Ended(r) /\ CallShape(r, o)
    <2>1. Owns(r)
        BY <1>8 DEF Owns
    <2>2. r.from \in 0 .. Len(Content) /\ r.opening \in 1 .. o
        BY <1>5, <1>8, FilesConstants
    <2> QED
        BY <1>3, <1>8, <2>1, <2>2, KindsDiffer, Zenon DEF CallShape
<1>11. /\ crt' = [f \in CrtFds |-> crt'[f]] /\ crt'[fd] = o
       /\ \A f \in CrtFds : f # fd => crt'[f] = crt[f]
       /\ \A f \in CrtFds : crt[f] \in 0 .. openings
    BY <1>1, <1>3 DEF FileShapes
<1>12. \A u \in Openers : call[u].opening # o /\ (call[u].step # "idle" => call[u].fd \in CrtFds)
    <2> SUFFICES ASSUME NEW u \in Openers PROVE call[u].opening # o /\ (call[u].step # "idle" => call[u].fd \in CrtFds)
        OBVIOUS
    <2>1. call[u].opening = 0 \/ call[u].opening \in 1 .. openings
        <3>1. CallShape(call[u], openings)
            BY <1>1, Zenon DEF FileShapes
        <3> QED
            BY <3>1, RestingIsIdle, Zenon DEF CallShape
    <2> QED
        BY <1>1, <1>5, <2>1, BusyOpening
<1>13. FileShapes' /\ AloneExact' /\ call'[t] = r /\ OthersStay(t)
    <2>1. openings' = openings + 1 /\ openings' = o /\ openings' \in 0 .. MaxOpenings
        BY <1>2, <1>4, <1>5
    <2>2. \A f \in CrtFds : crt'[f] \in 0 .. openings'
        BY <1>5, <1>11, <2>1
    <2>3. g_fake_file_fds' = [s \in Structs |-> g_fake_file_fds'[s]]
        BY <1>1, <1>4, Zenon DEF FileShapes
    <2>4. \A h \in held' : HeldShape(h, openings')
        BY <1>1, <1>4, <1>5, <2>1 DEF FileShapes, HeldShape
    <2>5. \A u \in Openers : call[u].opening # r.opening
        BY <1>8, <1>12, Zenon
    <2>6. CallShape(r, openings')
        BY <1>10, <2>1, Zenon
    <2> QED
        BY <1>1, <1>4, <1>7, <1>10, <1>11, <2>1, <2>2, <2>3, <2>4, <2>5, <2>6, OwnerStep, Zenon DEF OthersStay
<1>14. \A x : x \in crossed => x \in crossed'
    BY <1>3
<1>15. CrtIsOneToOne'
    <2>1. \A f \in CrtFds : f # fd => crt'[f] # o
        BY <1>5, <1>11
    <2> QED
        BY <1>9, <1>11, <2>1, Zenon DEF CrtIsOneToOne
<1>16. \A h \in held : h.fd \in CrtFds /\ h.fd # fd /\ h.opening # o /\ crt'[h.fd] = h.opening
    <2> SUFFICES ASSUME NEW h \in held PROVE h.fd \in CrtFds /\ h.fd # fd /\ h.opening # o /\ crt'[h.fd] = h.opening
        OBVIOUS
    <2>1. h.fd \in CrtFds /\ h.opening \in 1 .. openings /\ crt[h.fd] = h.opening
        BY <1>1, <1>9 DEF FileShapes, HeldShape, HeldIsOpen
    <2>2. h.fd # fd /\ h.opening # o
        BY <1>3, <1>5, <2>1
    <2> QED
        BY <1>11, <2>1, <2>2, Zenon
<1>17. HeldIsOpen'
    BY <1>4, <1>9, <1>16, Zenon DEF HeldIsOpen
<1>18. OwnersOwn'
    <2> SUFFICES ASSUME NEW u \in Openers, Owns(call'[u])
                 PROVE  /\ crt'[call'[u].fd] = call'[u].opening /\ SoleOn(u)'
                        /\ \A h \in held' : h.opening # call'[u].opening
                        /\ call'[u].op = "fclose" /\ call'[u].step = "begun"
                               => g_fake_file_fds'[call'[u].struct] = call'[u].fd
        BY DEF OwnersOwn
    <2>1. CASE u = t
        <3>1. call'[u] = r /\ r.opening = o /\ r.fd = fd /\ r.step # "begun"
            BY <1>8, <1>13, <2>1
        <3>2. SoleOn(u)'
            BY <1>12, <1>13, <2>1, <3>1, Zenon DEF SoleOn, OthersStay
        <3> QED
            BY <1>4, <1>11, <1>16, <3>1, <3>2, Zenon
    <2>2. CASE u # t
        <3>1. call'[u] = call[u] /\ Owns(call[u])
            BY <1>13, <2>2, Zenon DEF OthersStay
        <3>2. /\ SoleOn(u) /\ crt[call[u].fd] = call[u].opening /\ call[u].opening # 0 /\ call[u].fd \in CrtFds
              /\ \A h \in held : h.opening # call[u].opening
              /\ call[u].op = "fclose" /\ call[u].step = "begun" => g_fake_file_fds[call[u].struct] = call[u].fd
            BY <1>1, <1>9, <3>1, OwnerKnows, Zenon DEF OwnersOwn
        <3>3. SoleOn(u)'
            BY <1>13, <2>2, <3>2, Zenon DEF OthersStay
        <3>4. call[u].fd # fd
            BY <1>3, <3>2, Zenon
        <3> QED
            BY <1>4, <1>11, <3>1, <3>2, <3>3, <3>4, Zenon
    <2> QED
        BY <2>1, <2>2
<1>19. UsersHold'
    <2> SUFFICES ASSUME NEW u \in Openers, Uses(call'[u]) PROVE HeldBy(call'[u]) \in held'
        BY DEF UsersHold
    <2>1. call'[u] = call[u] /\ Uses(call[u])
        BY <1>10, <1>13, Zenon DEF OthersStay
    <2> QED
        BY <1>4, <1>9, <2>1, Zenon DEF UsersHold
<1>20. EndedCross'
    <2> SUFFICES ASSUME NEW u \in Openers, Ended(call'[u])
                 PROVE  crt'[call'[u].fd] = 0 \/ crt'[call'[u].fd] \in crossed'
        BY DEF EndedCross
    <2>1. call'[u] = call[u] /\ Ended(call[u])
        BY <1>10, <1>13, Zenon DEF OthersStay
    <2>2. call[u].fd \in CrtFds
        BY <1>12, <2>1, KindsAreBusy, Zenon
    <2>3. CASE call[u].fd = fd
        <3>1. call[u].op # "close" /\ call[u].step \in {"fclosed", "failed"}
            BY <2>1 DEF Ended
        <3>2. fd \in Untracked
            BY <2>3, <3>1 DEF Untracked
        <3>3. o \in crossed'
            BY <1>3, <3>2
        <3> QED
            BY <1>11, <2>1, <2>3, <3>3, Zenon
    <2>4. CASE call[u].fd # fd
        BY <1>9, <1>11, <1>14, <2>1, <2>2, <2>4, Zenon DEF EndedCross
    <2> QED
        BY <2>3, <2>4
<1>21. Tracked'
    <2>1. \A h \in held' : h.opening \in crossed' \/ h.fd \in g_guest_fds'
        BY <1>4, <1>9, <1>14, Zenon DEF Tracked
    <2>2. ASSUME NEW u \in Openers, Owns(call'[u]), call'[u].step \in {"tracked", "begun"}
          PROVE  call'[u].opening \in crossed' \/ call'[u].fd \in g_guest_fds'
        <3>1. u # t
            BY <1>8, <1>13, <2>2
        <3> QED
            BY <1>4, <1>9, <1>13, <1>14, <2>2, <3>1, Zenon DEF Tracked, OthersStay
    <2> QED
        BY <2>1, <2>2, Zenon DEF Tracked
<1>22. StructsNamed'
    <2> SUFFICES ASSUME NEW s \in Structs, g_fake_file_fds[s] # 0
                 PROVE  \/ \E h \in held : h.struct = s
                        \/ \E u \in Openers : call'[u].op = "fclose" /\ call'[u].step = "begun" /\ call'[u].struct = s
        BY <1>4, Zenon DEF StructsNamed
    <2>1. ASSUME NEW u \in Openers, call[u].op = "fclose", call[u].step = "begun", call[u].struct = s
          PROVE  call'[u].op = "fclose" /\ call'[u].step = "begun" /\ call'[u].struct = s
        <3>1. call[u].step # "idle"
            BY <2>1
        <3>2. u # t
            BY <1>4, <3>1, RestingIsIdle, Zenon
        <3> QED
            BY <1>13, <2>1, <3>2, Zenon DEF OthersStay
    <2> QED
        BY <1>9, <2>1, Zenon DEF StructsNamed
<1> QED
    BY <1>7, <1>13, <1>15, <1>17, <1>18, <1>19, <1>20, <1>21, <1>22, SilentAnswers, Zenon DEF FilesInv, FilesOwned

\* A call is no longer alone on its file.
LEMMA AloneDrops ==
    ASSUME FilesAssumption, FileShapes, NEW u \in Openers, call[u].step # "idle"
    PROVE  LET r == [call[u] EXCEPT !.alone = FALSE] IN
           /\ FileRec(r) /\ r.op = call[u].op /\ r.step = call[u].step /\ r.opening = call[u].opening /\ r.fd = call[u].fd
           /\ r.struct = call[u].struct /\ r.from = call[u].from /\ r.alone = FALSE
<1>1. PICK r : r = call[u]
    OBVIOUS
<1>2. r = [op |-> r.op, step |-> r.step, opening |-> r.opening, fd |-> r.fd, struct |-> r.struct,
           from |-> r.from, got |-> r.got, alone |-> r.alone]
    BY <1>1, BusyOpening, Zenon DEF FileRec
<1>3. PICK n : n = [r EXCEPT !.alone = FALSE]
    OBVIOUS
<1>4. n = [op |-> r.op, step |-> r.step, opening |-> r.opening, fd |-> r.fd, struct |-> r.struct,
           from |-> r.from, got |-> r.got, alone |-> FALSE]
    BY <1>2, <1>3
<1>5. /\ n.op = r.op /\ n.step = r.step /\ n.opening = r.opening /\ n.fd = r.fd
      /\ n.struct = r.struct /\ n.from = r.from /\ n.got = r.got /\ n.alone = FALSE
    BY <1>4
<1>6. FileRec(n)
    BY <1>4, <1>5, Zenon DEF FileRec
<1> QED
    BY <1>1, <1>3, <1>5, <1>6, Zenon

LEMMA BeginUseKeepsInv ==
    ASSUME FilesAssumption, FilesInv, NEW t \in Openers, NEW h \in held,
           NEW op \in {"read", "lseek", "fread", "fgets", "fgetc", "feof", "fseek"}, BeginUse(t, h, op)
    PROVE  FilesInv'
<1>1. FileShapes /\ FilesOwned /\ AloneExact
    BY DEF FilesInv
<1>2. /\ call[t] = Resting
      /\ op \in IF h.struct = 0 THEN {"read", "lseek"} ELSE {"fread", "fgets", "fgetc", "feof", "fseek"}
      /\ UNCHANGED <<crt, position, openings, g_guest_fds, g_fake_file_fds, held, crossed>>
      /\ returned' = Resting
    BY Zenon DEF BeginUse, Calls
<1>3. PICK o, f, s, at, b :
         /\ o = h.opening /\ f = h.fd /\ s = h.struct /\ at = position[h.opening] /\ b = (On(h.opening) = {})
    BY Zenon
<1>4. b => \A u \in Openers : call[u].opening # o
    BY <1>3 DEF On
<1>5. PICK r : r = [Resting EXCEPT !.op = op, !.step = "begun", !.opening = o, !.fd = f, !.struct = s, !.from = at,
                                         !.alone = b]
    BY Zenon
<1>6. call' = [u \in Openers |-> IF u = t THEN r ELSE IF u \in On(o) THEN [call[u] EXCEPT !.alone = FALSE] ELSE call[u]]
    BY <1>3, <1>5, Zenon DEF BeginUse, Calls
<1>7. /\ FileRec(r) /\ r.op = op /\ r.step = "begun" /\ r.opening = o /\ r.fd = f /\ r.struct = s /\ r.from = at
      /\ r.got = <<>> /\ (r.alone => b)
    <2>1. r = [op |-> op, step |-> "begun", opening |-> o, fd |-> f, struct |-> s, from |-> at, got |-> <<>>, alone |-> b]
        BY <1>5 DEF Resting
    <2>2. /\ r.op = op /\ r.step = "begun" /\ r.opening = o /\ r.fd = f /\ r.struct = s /\ r.from = at
          /\ r.got = <<>> /\ r.alone = b
        BY <2>1
    <2>3. FileRec(r)
        BY <2>1, <2>2, Zenon DEF FileRec
    <2> QED
        BY <2>2, <2>3, Zenon
<1>8. CrtIsOneToOne /\ HeldIsOpen /\ OwnersOwn /\ UsersHold /\ EndedCross /\ Tracked /\ StructsNamed
    BY <1>1, Zenon DEF FilesOwned
<1>9. /\ o \in 1 .. openings /\ o # 0 /\ f \in CrtFds /\ s \in Structs \cup {0}
      /\ at \in 0 .. Len(Content) /\ h = [opening |-> o, fd |-> f, struct |-> s]
    BY <1>1, <1>3, FilesConstants DEF FileShapes, HeldShape
<1>10. Uses(r) /\ ~ Owns(r) /\ ~ Ended(r) /\ CallShape(r, openings)
    <2>1. Uses(r)
        BY <1>2, <1>3, <1>7, <1>9 DEF Uses
    <2> QED
        BY <1>7, <1>9, <2>1, KindsDiffer, Zenon DEF CallShape
<1>11. /\ call' = [u \in Openers |-> call'[u]] /\ call'[t] = r
       /\ \A u \in Openers : u # t /\ call[u].opening = o => call'[u] = [call[u] EXCEPT !.alone = FALSE]
       /\ \A u \in Openers : u # t /\ call[u].opening # o => call'[u] = call[u]
    BY <1>6 DEF On
<1>12. \A u \in Openers : u # t =>
          /\ CallShape(call'[u], openings)
          /\ call'[u].op = call[u].op /\ call'[u].step = call[u].step /\ call'[u].opening = call[u].opening
          /\ call'[u].fd = call[u].fd /\ call'[u].struct = call[u].struct
          /\ call'[u].alone => call'[u] = call[u] /\ call[u].opening # o
    <2> SUFFICES ASSUME NEW u \in Openers, u # t
                 PROVE  /\ CallShape(call'[u], openings)
                        /\ call'[u].op = call[u].op /\ call'[u].step = call[u].step /\ call'[u].opening = call[u].opening
                        /\ call'[u].fd = call[u].fd /\ call'[u].struct = call[u].struct
                        /\ call'[u].alone => call'[u] = call[u] /\ call[u].opening # o
        OBVIOUS
    <2>1. CallShape(call[u], openings)
        BY <1>1, Zenon DEF FileShapes
    <2>2. CASE call[u].opening = o
        <3>1. call[u] # Resting
            BY <1>9, <2>2, RestingIsIdle, Zenon
        <3>2. FileRec(call[u]) /\ (Owns(call[u]) \/ Uses(call[u]) \/ Ended(call[u])) /\ call[u].opening \in 1 .. openings
              /\ call[u].fd \in CrtFds /\ call[u].from \in 0 .. Len(Content)
            BY <2>1, <3>1, Zenon DEF CallShape
        <3>3. call[u].step # "idle"
            BY <3>2, KindsAreBusy, Zenon
        <3>4. /\ FileRec(call'[u]) /\ call'[u].op = call[u].op /\ call'[u].step = call[u].step
              /\ call'[u].opening = call[u].opening /\ call'[u].fd = call[u].fd /\ call'[u].struct = call[u].struct
              /\ call'[u].from = call[u].from /\ call'[u].alone = FALSE
            BY <1>1, <1>11, <2>2, <3>3, AloneDrops, Zenon
        <3>5. Owns(call'[u]) \/ Uses(call'[u]) \/ Ended(call'[u])
            BY <3>2, <3>4, Zenon DEF Owns, Uses, Ended
        <3>6. CallShape(call'[u], openings)
            BY <3>2, <3>4, <3>5, Zenon DEF CallShape
        <3> QED
            BY <3>4, <3>6, Zenon
    <2>3. CASE call[u].opening # o
        BY <1>11, <2>1, <2>3, Zenon
    <2> QED
        BY <2>2, <2>3
<1>13. \A u \in Openers : u # t =>
          (Owns(call'[u]) => Owns(call[u])) /\ (Uses(call'[u]) => Uses(call[u])) /\ (Ended(call'[u]) => Ended(call[u]))
    BY <1>12, Zenon DEF Owns, Uses, Ended
<1>14. FileShapes'
    <2>1. \A u \in Openers : CallShape(call'[u], openings')
        BY <1>2, <1>10, <1>11, <1>12, Zenon
    <2> QED
        BY <1>1, <1>2, <1>11, <2>1, Zenon DEF FileShapes
<1>15. ASSUME NEW u \in Openers, u # t, SoleOn(u), call[u].opening # o PROVE SoleOn(u)'
    <2> SUFFICES ASSUME NEW v \in Openers, call'[v].opening = call'[u].opening PROVE v = u
        BY DEF SoleOn
    <2>1. v # t
        BY <1>7, <1>11, <1>12, <1>15, Zenon
    <2> QED
        BY <1>12, <1>15, <2>1, Zenon DEF SoleOn
<1>16. CrtIsOneToOne' /\ HeldIsOpen'
    BY <1>2, <1>8 DEF CrtIsOneToOne, HeldIsOpen
<1>17. OwnersOwn'
    <2> SUFFICES ASSUME NEW u \in Openers, Owns(call'[u])
                 PROVE  /\ crt'[call'[u].fd] = call'[u].opening /\ SoleOn(u)'
                        /\ \A k \in held' : k.opening # call'[u].opening
                        /\ call'[u].op = "fclose" /\ call'[u].step = "begun"
                               => g_fake_file_fds'[call'[u].struct] = call'[u].fd
        BY DEF OwnersOwn
    <2>1. u # t /\ Owns(call[u])
        BY <1>10, <1>11, <1>13, Zenon
    <2>2. /\ crt[call[u].fd] = call[u].opening /\ SoleOn(u) /\ \A k \in held : k.opening # call[u].opening
          /\ call[u].op = "fclose" /\ call[u].step = "begun" => g_fake_file_fds[call[u].struct] = call[u].fd
        BY <1>8, <2>1, Zenon DEF OwnersOwn
    <2>3. SoleOn(u)'
        BY <1>3, <1>15, <2>1, <2>2, Zenon
    <2>4. /\ call'[u].op = call[u].op /\ call'[u].step = call[u].step /\ call'[u].opening = call[u].opening
          /\ call'[u].fd = call[u].fd /\ call'[u].struct = call[u].struct
        BY <1>12, <2>1, Zenon
    <2> QED
        BY <1>2, <2>2, <2>3, <2>4, Zenon
<1>18. UsersHold'
    <2> SUFFICES ASSUME NEW u \in Openers, Uses(call'[u]) PROVE HeldBy(call'[u]) \in held
        BY <1>2, Zenon DEF UsersHold
    <2>1. CASE u = t
        BY <1>7, <1>9, <1>11, <2>1, Zenon DEF HeldBy
    <2>2. CASE u # t
        <3>1. HeldBy(call[u]) \in held
            BY <1>8, <1>13, <2>2, Zenon DEF UsersHold
        <3>2. HeldBy(call'[u]) = HeldBy(call[u])
            BY <1>12, <2>2, Zenon DEF HeldBy
        <3> QED
            BY <3>1, <3>2, Zenon
    <2> QED
        BY <2>1, <2>2
<1>19. EndedCross'
    <2> SUFFICES ASSUME NEW u \in Openers, Ended(call'[u])
                 PROVE  crt'[call'[u].fd] = 0 \/ crt'[call'[u].fd] \in crossed'
        BY DEF EndedCross
    <2>1. u # t /\ Ended(call[u])
        BY <1>10, <1>11, <1>13, Zenon
    <2>2. call'[u].fd = call[u].fd
        BY <1>12, <2>1, Zenon
    <2> QED
        BY <1>2, <1>8, <2>1, <2>2, Zenon DEF EndedCross
<1>20. Tracked'
    <2> SUFFICES ASSUME NEW u \in Openers, Owns(call'[u]), call'[u].step \in {"tracked", "begun"}
                 PROVE  call'[u].opening \in crossed' \/ call'[u].fd \in g_guest_fds'
        BY <1>2, <1>8, Zenon DEF Tracked
    <2>1. u # t /\ Owns(call[u])
        BY <1>10, <1>11, <1>13, Zenon
    <2>2. call'[u].fd = call[u].fd /\ call'[u].step = call[u].step /\ call'[u].opening = call[u].opening
        BY <1>12, <2>1, Zenon
    <2> QED
        BY <1>2, <1>8, <2>1, <2>2, Zenon DEF Tracked
<1>21. StructsNamed'
    <2> SUFFICES ASSUME NEW x \in Structs, g_fake_file_fds[x] # 0
                 PROVE  \/ \E k \in held : k.struct = x
                        \/ \E u \in Openers : call'[u].op = "fclose" /\ call'[u].step = "begun" /\ call'[u].struct = x
        BY <1>2, Zenon DEF StructsNamed
    <2>1. ASSUME NEW u \in Openers, call[u].op = "fclose", call[u].step = "begun", call[u].struct = x
          PROVE  call'[u].op = "fclose" /\ call'[u].step = "begun" /\ call'[u].struct = x
        <3>1. call[u].step # "idle"
            BY <2>1
        <3>2. u # t
            BY <1>2, <3>1, RestingIsIdle, Zenon
        <3> QED
            BY <1>12, <2>1, <3>2, Zenon
    <2> QED
        BY <1>8, <2>1, Zenon DEF StructsNamed
<1>22. AloneExact'
    <2> SUFFICES ASSUME NEW u \in Openers, Uses(call'[u]), call'[u].alone
                 PROVE  SoleOn(u)' /\ Progress(call'[u], position[call'[u].opening])
        BY <1>2, Zenon DEF AloneExact
    <2>1. CASE u = t
        <3>1. \A v \in Openers : call[v].opening # o
            BY <1>4, <1>7, <1>11, <2>1, Zenon
        <3>2. SoleOn(u)'
            BY <1>7, <1>11, <1>12, <2>1, <3>1, Zenon DEF SoleOn
        <3>3. Progress(r, at)
            BY <1>7 DEF Progress
        <3>4. call'[u] = r /\ position[r.opening] = at
            BY <1>3, <1>7, <1>11, <2>1
        <3> QED
            BY <3>2, <3>3, <3>4, Zenon
    <2>2. CASE u # t
        <3>1. call'[u] = call[u] /\ call[u].opening # o
            BY <1>12, <2>2, Zenon
        <3>2. SoleOn(u) /\ Progress(call[u], position[call[u].opening])
            <4>1. Uses(call[u]) /\ call[u].alone
                BY <3>1, Zenon
            <4> QED
                BY <1>1, <4>1, Zenon DEF AloneExact
        <3> QED
            BY <1>15, <2>2, <3>1, <3>2, Zenon
    <2> QED
        BY <2>1, <2>2
<1> QED
    BY <1>2, <1>14, <1>16, <1>17, <1>18, <1>19, <1>20, <1>21, <1>22, SilentAnswers, Zenon DEF FilesInv, FilesOwned

LEMMA FilesStepKeepsInv ==
    ASSUME FilesAssumption, FilesInv, [Next]_fileVars PROVE FilesInv'
<1>1. CASE UNCHANGED fileVars
    <2>1. UNCHANGED <<crt, position, openings, g_guest_fds, g_fake_file_fds, held, call, returned, crossed>>
        BY <1>1 DEF fileVars
    <2>2. FileShapes'
        BY <2>1, Zenon DEF FilesInv, FileShapes
    <2>3. CrtIsOneToOne' /\ HeldIsOpen' /\ EndedCross' /\ Tracked' /\ UsersHold' /\ StructsNamed'
        BY <2>1 DEF FilesInv, FilesOwned, CrtIsOneToOne, HeldIsOpen, EndedCross, Tracked, UsersHold, StructsNamed
    <2>4. OwnersOwn'
        BY <2>1 DEF FilesInv, FilesOwned, OwnersOwn, SoleOn
    <2>5. AloneExact'
        BY <2>1 DEF FilesInv, AloneExact, SoleOn
    <2>6. LegalCallsAreServed' /\ StreamCallsAreExact'
        BY <2>1 DEF FilesInv, LegalCallsAreServed, StreamCallsAreExact
    <2> QED
        BY <2>2, <2>3, <2>4, <2>5, <2>6, Zenon DEF FilesInv, FilesOwned
<1>2. ASSUME NEW t \in Openers,
             \/ CrtOpen(t, "open") \/ CrtOpen(t, "fopen")
             \/ TrackGuestFd(t) \/ CreateFakeFile(t)
      PROVE  FilesInv'
    BY <1>2, CrtOpenKeepsInv, TrackGuestFdKeepsInv, CreateFakeFileKeepsInv
<1>3. ASSUME NEW t \in Openers,
             \/ UntrackGuestFd(t) \/ CrtClose(t) \/ DestroyFakeFile(t)
             \/ CloseErased(t) \/ UntrackClosed(t)
             \/ \E h \in held : BeginClose(t, h)
      PROVE  FilesInv'
    BY <1>3, UntrackGuestFdKeepsInv, CrtCloseKeepsInv, DestroyFakeFileKeepsInv, CloseErasedKeepsInv,
       UntrackClosedKeepsInv, BeginCloseKeepsInv
<1>4. ASSUME NEW t \in Openers,
             \/ FakeFileFd(t) \/ IsGuestFd(t) \/ Transfer(t) \/ Fgets(t)
             \/ FeofAsks(t) \/ FeofReturns(t)
             \/ \E h \in held, op \in {"read", "lseek", "fread", "fgets", "fgetc", "feof", "fseek"} :
                    BeginUse(t, h, op)
      PROVE  FilesInv'
    BY <1>4, FakeFileFdKeepsInv, IsGuestFdKeepsInv, TransferKeepsInv, FgetsKeepsInv, FeofAsksKeepsInv,
       FeofReturnsKeepsInv, BeginUseKeepsInv
<1> QED
    BY <1>1, <1>2, <1>3, <1>4, Zenon DEF Next

-----------------------------------------------------------------------------
(* Audio ports: what a sequence holds. *)

In(s, b) == \E i \in 1 .. Len(s) : s[i] = b
Once(s) == \A i, j \in 1 .. Len(s) : s[i] = s[j] => i = j
Begins(p, s) == Len(p) <= Len(s) /\ \A i \in 1 .. Len(p) : p[i] = s[i]

LEMMA AppendHolds ==
    ASSUME NEW S, NEW s \in Seq(S), NEW e \in S
    PROVE  /\ Append(s, e) \in Seq(S) /\ Len(s) \in Nat /\ Len(Append(s, e)) = Len(s) + 1
           /\ \A i \in 1 .. Len(s) : Append(s, e)[i] = s[i]
           /\ Append(s, e)[Len(s) + 1] = e
           /\ \A b : In(Append(s, e), b) <=> In(s, b) \/ b = e
           /\ Once(s) /\ ~ In(s, e) => Once(Append(s, e))
<1>1. /\ Append(s, e) \in Seq(S) /\ Len(s) \in Nat /\ Len(Append(s, e)) = Len(s) + 1
      /\ \A i \in 1 .. Len(s) : Append(s, e)[i] = s[i]
      /\ Append(s, e)[Len(s) + 1] = e
    OBVIOUS
<1>2. \A b : In(Append(s, e), b) <=> In(s, b) \/ b = e
    BY <1>1 DEF In
<1>3. Once(s) /\ ~ In(s, e) => Once(Append(s, e))
    BY <1>1 DEF In, Once
<1> QED
    BY <1>1, <1>2, <1>3

LEMMA TailHolds ==
    ASSUME NEW S, NEW s \in Seq(S), s # <<>>
    PROVE  /\ Head(s) \in S /\ Tail(s) \in Seq(S) /\ Len(s) \in Nat \ {0} /\ Len(Tail(s)) = Len(s) - 1
           /\ Head(s) = s[1]
           /\ \A i \in 1 .. Len(s) - 1 : Tail(s)[i] = s[i + 1]
           /\ \A b : In(s, b) <=> In(Tail(s), b) \/ b = Head(s)
           /\ Once(s) => Once(Tail(s)) /\ ~ In(Tail(s), Head(s))
<1>1. /\ Head(s) \in S /\ Tail(s) \in Seq(S) /\ Len(s) \in Nat \ {0} /\ Len(Tail(s)) = Len(s) - 1
      /\ Head(s) = s[1]
      /\ \A i \in 1 .. Len(s) - 1 : Tail(s)[i] = s[i + 1]
    BY HeadTailProperties, EmptySeq
<1> DEFINE t == Tail(s)
           h == Head(s)
<1>2. /\ t \in Seq(S) /\ Len(s) \in Nat \ {0} /\ Len(t) = Len(s) - 1 /\ h = s[1]
      /\ \A i \in 1 .. Len(s) - 1 : t[i] = s[i + 1]
    BY <1>1
<1> HIDE DEF t, h
<1>3. \A b : In(s, b) <=> In(t, b) \/ b = h
    <2>1. ASSUME NEW i \in 1 .. Len(s) PROVE s[i] = h \/ In(t, s[i])
        <3>1. i # 1 => i - 1 \in 1 .. Len(t) /\ t[i - 1] = s[i]
            BY <1>2
        <3> QED
            BY <1>2, <3>1 DEF In
    <2>2. ASSUME NEW i \in 1 .. Len(t) PROVE In(s, t[i])
        BY <1>2 DEF In
    <2>3. In(s, h)
        BY <1>2 DEF In
    <2> QED
        BY <2>1, <2>2, <2>3 DEF In
<1>4. Once(s) => Once(t) /\ ~ In(t, h)
    BY <1>2 DEF Once, In
<1> QED
    BY <1>1, <1>3, <1>4 DEF t, h

LEMMA EmptyHolds == \A S : \A s \in Seq(S) : Len(s) \in Nat /\ (s = <<>> <=> Len(s) = 0) /\ (s = <<>> <=> \A b : ~ In(s, b))
<1> SUFFICES ASSUME NEW S, NEW s \in Seq(S)
    PROVE Len(s) \in Nat /\ (s = <<>> <=> Len(s) = 0) /\ (s = <<>> <=> \A b : ~ In(s, b))
    OBVIOUS
<1>1. Len(s) \in Nat /\ (s = <<>> <=> Len(s) = 0)
    BY EmptySeq
<1>2. s # <<>> => In(s, s[1])
    BY <1>1 DEF In
<1>3. s = <<>> => \A b : ~ In(s, b)
    BY <1>1 DEF In
<1> QED
    BY <1>1, <1>2, <1>3

LEMMA PrefixBegins ==
    ASSUME NEW S, NEW p \in Seq(S), NEW s \in Seq(S)
    PROVE  /\ Begins(p, s) => IsPrefix(p, s)
           /\ Begins(p, s) /\ Len(p) = Len(s) => p = s
<1>1. ASSUME Begins(p, s) PROVE SubSeq(p, 1, Len(p)) = SubSeq(s, 1, Len(p))
    <2>1. \A i \in 1 .. Len(p) : p[i] \in S /\ s[i] \in S /\ p[i] = s[i]
        BY <1>1 DEF Begins
    <2>2. /\ SubSeq(p, 1, Len(p)) \in Seq(S) /\ Len(SubSeq(p, 1, Len(p))) = Len(p)
          /\ \A i \in 1 .. Len(p) : SubSeq(p, 1, Len(p))[i] = p[i]
        BY SubSeqFull
    <2>3. /\ SubSeq(s, 1, Len(p)) \in Seq(S) /\ Len(SubSeq(s, 1, Len(p))) = Len(p)
          /\ \A i \in 1 .. Len(p) : SubSeq(s, 1, Len(p))[i] = s[i]
        BY <1>1, <2>1 DEF Begins
    <2> QED
        BY <2>1, <2>2, <2>3, SeqEqual
<1>2. Begins(p, s) /\ Len(p) = Len(s) => p = s
    BY SeqEqual DEF Begins
<1> QED
    BY <1>1, <1>2 DEF IsPrefix, Begins

-----------------------------------------------------------------------------
(* Audio ports: the inductive invariant, as long as no close overlapped an output. *)

Numbers == 0 .. kMaxBuffersInFlight - 1
BufferCalls == {"take", "filled", "asleep"}
RingCalls == {"spin", "write", "store"}
Ports2 == {"wave", "xa2"}

OutputShape(r) ==
    /\ r = [at |-> r.at, buf |-> r.buf, block |-> r.block, tail |-> r.tail]
    /\ r.at \in BufferCalls \cup RingCalls \cup {"idle"} /\ r.block \in Nat /\ r.tail \in Numbers
    /\ r.at = "idle" => r = NoOutput

AudioShapes ==
    /\ backend \in {"closed", "silent", "wave", "wasapi", "xa2"}
    /\ draining = TRUE \/ draining = FALSE
    /\ buffers \subseteq Ids /\ free \in Seq(Ids) /\ device \in Seq(Ids) /\ in_flight \in Nat
    /\ data = [b \in Ids |-> data[b]] /\ \A b \in Ids : data[b] \in Nat
    /\ ring = [i \in Numbers |-> ring[i]] /\ \A i \in Numbers : ring[i] \in Nat
    /\ head \in Numbers /\ tail \in Numbers /\ blocks \in Nat
    /\ output = [c \in Players |-> output[c]] /\ \A c \in Players : OutputShape(output[c])
    /\ submitted \in Seq(Nat) /\ played \in Seq(Nat)

\* What an open port has, and who may be inside which call.
Phases ==
    /\ draining = TRUE => backend = "wave" /\ Active = {}
    /\ \A c \in Players : /\ output[c].at \in BufferCalls => backend \in Ports2
                          /\ output[c].at \in RingCalls => backend = "wasapi"
    /\ backend \notin Ports2 => buffers = {}
    /\ backend # "wasapi" => head = tail
    /\ backend = "xa2" => Cardinality(buffers) = kMaxBuffersInFlight

\* A buffer is in one place.
Places ==
    /\ Once(free) /\ Once(device)
    /\ \A b : ~ (In(free, b) /\ In(device, b))
    /\ \A b : In(free, b) \/ In(device, b) => b \in buffers
    /\ \A c \in Filling : ~ In(free, output[c].buf) /\ ~ In(device, output[c].buf) /\ output[c].buf \in buffers
    /\ \A c, d \in Filling : output[c].buf = output[d].buf => c = d
    /\ \A b \in buffers : In(free, b) \/ In(device, b) \/ \E c \in Filling : output[c].buf = b

Counts ==
    /\ Len(free) + Len(device) + Cardinality(Filling) = Cardinality(buffers)
    /\ in_flight = Len(device) + Cardinality(Filling)
    /\ Cardinality(buffers) <= kMaxBuffersInFlight

\* What was submitted is what was played and then what the host has.
Queued ==
    /\ Begins(played, submitted) /\ Len(submitted) = Len(played) + Len(device)
    /\ \A i \in 1 .. Len(device) : submitted[Len(played) + i] = data[device[i]]
Fills == \A c \in Filling : data[output[c].buf] = output[c].block

\* Likewise what the ring holds, when one thread outputs.
Count == IF head <= tail THEN tail - head ELSE tail - head + kMaxBuffersInFlight
Slot(i) == IF head + i < kMaxBuffersInFlight THEN head + i ELSE head + i - kMaxBuffersInFlight
InRing ==
    /\ Begins(played, submitted) /\ Len(submitted) = Len(played) + Count
    /\ \A i \in 0 .. Count - 1 : ring[Slot(i)] = submitted[Len(played) + 1 + i]
Pushes ==
    /\ \A c, d \in Active : c = d
    /\ \A c \in Players :
          /\ output[c].at \in {"write", "store"} => output[c].tail = tail /\ Count < kMaxBuffersInFlight - 1
          /\ output[c].at = "store" => ring[tail] = output[c].block

Orders ==
    /\ Fills
    /\ backend \in Ports2 => Queued
    /\ outputs_crossed \/ (Pushes /\ (backend = "wasapi" => InRing) /\ Begins(played, submitted))

\* Only a full port puts a thread to sleep.
Sleepers ==
    Cardinality(Players) <= kMaxBuffersInFlight =>
        \A c \in Players : output[c].at = "asleep" =>
            /\ backend = "wave" => device # <<>>
            /\ backend = "xa2" => in_flight # 0

AudioGood == AudioShapes /\ Phases /\ Places /\ Counts /\ Orders /\ Sleepers
AudioInv == raced = TRUE \/ AudioGood

\* Finite sets.
LEMMA FillingIsFinite == AudioAssumption /\ AudioShapes =>
    /\ IsFiniteSet(Filling) /\ Cardinality(Filling) \in Nat
    /\ IsFiniteSet(buffers) /\ Cardinality(buffers) \in Nat
<1> SUFFICES ASSUME AudioAssumption, AudioShapes PROVE
    /\ IsFiniteSet(Filling) /\ Cardinality(Filling) \in Nat
    /\ IsFiniteSet(buffers) /\ Cardinality(buffers) \in Nat
    OBVIOUS
<1>1. IsFiniteSet(Players) /\ Filling \in SUBSET Players
    BY DEF AudioAssumption, Filling
<1>2. IsFiniteSet(Ids) /\ buffers \in SUBSET Ids
    <2>1. 1 \in Int /\ kMaxBuffersInFlight + 1 \in Int
        BY DEF AudioAssumption
    <2> QED
        BY <2>1, FS_Interval DEF Ids, AudioShapes
<1>3. IsFiniteSet(Filling) /\ IsFiniteSet(buffers)
    BY <1>1, <1>2, FS_Subset
<1> QED
    BY <1>3, FS_CardinalityType

LEMMA OutputMoves ==
    ASSUME NEW c \in Players, AudioShapes, NEW r, output' = [output EXCEPT ![c] = r]
    PROVE  /\ output' = [d \in Players |-> output'[d]] /\ output'[c] = r
           /\ \A d \in Players : d # c => output'[d] = output[d]
BY DEF AudioShapes

\* A thread that begins or ends to fill a buffer.
LEMMA FillingMoves ==
    ASSUME AudioAssumption, AudioShapes, NEW c \in Players,
           \A d \in Players : d # c => (output'[d].at = "filled" <=> output[d].at = "filled")
    PROVE  /\ output'[c].at = "filled" /\ output[c].at # "filled" =>
                 Filling' = Filling \cup {c} /\ c \notin Filling /\ Cardinality(Filling') = Cardinality(Filling) + 1
           /\ output'[c].at # "filled" /\ output[c].at = "filled" =>
                 Filling' = Filling \ {c} /\ c \in Filling /\ Cardinality(Filling') = Cardinality(Filling) - 1
           /\ (output'[c].at = "filled" <=> output[c].at = "filled") => Filling' = Filling
<1>1. IsFiniteSet(Filling)
    BY FillingIsFinite
<1>2. /\ output'[c].at = "filled" /\ output[c].at # "filled" => Filling' = Filling \cup {c} /\ c \notin Filling
      /\ output'[c].at # "filled" /\ output[c].at = "filled" => Filling' = Filling \ {c} /\ c \in Filling
      /\ (output'[c].at = "filled" <=> output[c].at = "filled") => Filling' = Filling
    BY DEF Filling
<1>3. c \notin Filling => Cardinality(Filling \cup {c}) = Cardinality(Filling) + 1
    BY <1>1, FS_AddElement
<1>4. c \in Filling => Cardinality(Filling \ {c}) = Cardinality(Filling) - 1
    BY <1>1, FS_RemoveElement
<1> QED
    BY <1>2, <1>3, <1>4

LEMMA NotifiedMoves ==
    ASSUME AudioShapes
    PROVE  \A c \in Players :
              /\ OutputShape(Notified[c]) /\ Notified[c].at # "asleep"
              /\ Notified[c] = output[c] \/ (output[c].at = "asleep" /\ Notified[c].at = "take")
              /\ Notified[c].buf = output[c].buf /\ Notified[c].block = output[c].block /\ Notified[c].tail = output[c].tail
<1> SUFFICES ASSUME NEW c \in Players
    PROVE /\ OutputShape(Notified[c]) /\ Notified[c].at # "asleep"
          /\ Notified[c] = output[c] \/ (output[c].at = "asleep" /\ Notified[c].at = "take")
          /\ Notified[c].buf = output[c].buf /\ Notified[c].block = output[c].block /\ Notified[c].tail = output[c].tail
    OBVIOUS
<1>1. OutputShape(output[c])
    BY DEF AudioShapes
<1>2. CASE output[c].at = "asleep"
    <2>1. Notified[c] = [output[c] EXCEPT !.at = "take"]
        BY <1>2 DEF Notified
    <2>2. Notified[c] = [at |-> "take", buf |-> output[c].buf, block |-> output[c].block, tail |-> output[c].tail]
        BY <1>1, <2>1 DEF OutputShape
    <2> QED
        BY <1>1, <1>2, <2>2 DEF OutputShape, BufferCalls
<1>3. CASE output[c].at # "asleep"
    BY <1>1, <1>3 DEF Notified
<1> QED
    BY <1>2, <1>3

-----------------------------------------------------------------------------
(* Audio ports: buffers. *)

LEMMA CallKnown ==
    ASSUME AudioShapes, NEW c \in Players
    PROVE  /\ output[c] = [at |-> output[c].at, buf |-> output[c].buf, block |-> output[c].block, tail |-> output[c].tail]
           /\ output[c].block \in Nat /\ output[c].tail \in Numbers
           /\ output[c].at \in BufferCalls \cup RingCalls \cup {"idle"}
           /\ c \in Active <=> output[c].at # "idle"
<1>1. OutputShape(output[c]) /\ NoOutput.at = "idle"
    BY DEF AudioShapes, NoOutput
<1> QED
    BY <1>1 DEF OutputShape, Active

\* What a step that only one thread takes does to who is inside.
LEMMA ActiveMoves ==
    ASSUME AudioShapes, AudioShapes', NEW c \in Players, \A d \in Players : d # c => output'[d] = output[d]
    PROVE  /\ output'[c].at # "idle" => Active' = Active \cup {c}
           /\ output'[c].at = "idle" => Active' = Active \ {c}
<1>1. \A d \in Players : d \in Active <=> output[d].at # "idle"
    BY CallKnown
<1>2. \A d \in Players : d \in Active' <=> output'[d].at # "idle"
    <2>1. \A d \in Players : OutputShape(output'[d])
        BY DEF AudioShapes
    <2>2. NoOutput.at = "idle"
        BY DEF NoOutput
    <2> QED
        BY <2>1, <2>2 DEF OutputShape, Active
<1>3. Active \subseteq Players /\ Active' \subseteq Players
    BY DEF Active
<1> QED
    BY <1>1, <1>2, <1>3

LEMMA FillIs ==
    ASSUME AudioShapes, NEW c \in Players, NEW b \in Ids, Fill(c, b)
    PROVE  /\ output'[c] = [at |-> "filled", buf |-> b, block |-> output[c].block, tail |-> output[c].tail]
           /\ output' = [d \in Players |-> output'[d]]
           /\ \A d \in Players : d # c => output'[d] = output[d]
           /\ data' = [d \in Ids |-> data'[d]] /\ data'[b] = output[c].block
           /\ \A d \in Ids : d # b => data'[d] = data[d]
           /\ \A d \in Ids : data'[d] \in Nat
           /\ in_flight' = in_flight + 1 /\ in_flight' \in Nat
           /\ \A d \in Players : OutputShape(output'[d])
<1>1. /\ output[c] = [at |-> output[c].at, buf |-> output[c].buf, block |-> output[c].block, tail |-> output[c].tail]
      /\ output[c].block \in Nat /\ output[c].tail \in Numbers
    BY CallKnown
<1>2. output' = [output EXCEPT ![c] = [output[c] EXCEPT !.at = "filled", !.buf = b]]
    <2>1. output' = [output EXCEPT ![c].at = "filled", ![c].buf = b]
        BY DEF Fill
    <2> QED
        BY <2>1 DEF AudioShapes
<1>3. [output[c] EXCEPT !.at = "filled", !.buf = b] = [at |-> "filled", buf |-> b, block |-> output[c].block, tail |-> output[c].tail]
    <2>1. PICK e : e = [output[c] EXCEPT !.at = "filled"]
        OBVIOUS
    <2>2. e = [at |-> "filled", buf |-> output[c].buf, block |-> output[c].block, tail |-> output[c].tail]
        BY <1>1, <2>1
    <2>3. [e EXCEPT !.buf = b] = [at |-> "filled", buf |-> b, block |-> output[c].block, tail |-> output[c].tail]
        BY <2>2
    <2> QED
        BY <2>1, <2>3
<1>4. /\ output'[c] = [at |-> "filled", buf |-> b, block |-> output[c].block, tail |-> output[c].tail]
      /\ output' = [d \in Players |-> output'[d]]
      /\ \A d \in Players : d # c => output'[d] = output[d]
    BY <1>2, <1>3, OutputMoves
<1>5. /\ data' = [d \in Ids |-> data'[d]] /\ data'[b] = output[c].block
      /\ \A d \in Ids : d # b => data'[d] = data[d]
    BY DEF Fill, AudioShapes
<1>6. \A d \in Ids : data'[d] \in Nat
    BY <1>1, <1>5 DEF AudioShapes
<1>7. in_flight' = in_flight + 1 /\ in_flight' \in Nat
    BY DEF Fill, AudioShapes
<1>8. OutputShape(output'[c])
    BY <1>1, <1>4 DEF OutputShape, BufferCalls
<1>9. \A d \in Players : OutputShape(output'[d])
    BY <1>4, <1>8 DEF AudioShapes
<1> QED
    BY <1>4, <1>5, <1>6, <1>7, <1>9

\* A buffer that was at no one's place is filled with the thread's block.
LEMMA FillKeeps ==
    ASSUME AudioAssumption, AudioGood, NEW c \in Players, NEW b \in Ids, Fill(c, b), output[c].at = "take",
           ~ In(device, b), \A d \in Filling : output[d].buf # b,
           UNCHANGED <<backend, draining, device, ringVars, blocks, opens, submitted, played, outputs_crossed, raced>>,
           AudioShapes'
    PROVE  /\ Cardinality(Filling') = Cardinality(Filling) + 1 /\ Filling' = Filling \cup {c} /\ c \notin Filling
           /\ backend \in Ports2 /\ Orders' /\ Sleepers'
           /\ draining' = TRUE => backend' = "wave" /\ Active' = {}
           /\ \A d \in Players : /\ output'[d].at \in BufferCalls => backend' \in Ports2
                                 /\ output'[d].at \in RingCalls => backend' = "wasapi"
<1>1. /\ output'[c] = [at |-> "filled", buf |-> b, block |-> output[c].block, tail |-> output[c].tail]
      /\ \A d \in Players : d # c => output'[d] = output[d]
      /\ data'[b] = output[c].block
      /\ \A d \in Ids : d # b => data'[d] = data[d]
      /\ in_flight' = in_flight + 1
    BY FillIs DEF AudioGood
<1>2. output'[c].at = "filled" /\ output'[c].buf = b /\ output'[c].block = output[c].block
    BY <1>1
<1>3. Filling' = Filling \cup {c} /\ c \notin Filling /\ Cardinality(Filling') = Cardinality(Filling) + 1
    BY <1>1, <1>2, FillingMoves DEF AudioGood
<1>4. backend \in Ports2 /\ c \in Active
    BY CallKnown DEF AudioGood, Phases, BufferCalls
<1>5. Active' = Active
    BY <1>1, <1>2, <1>4, ActiveMoves DEF AudioGood
<1>6. /\ draining' = TRUE => backend' = "wave" /\ Active' = {}
      /\ \A d \in Players : /\ output'[d].at \in BufferCalls => backend' \in Ports2
                            /\ output'[d].at \in RingCalls => backend' = "wasapi"
    BY <1>1, <1>2, <1>4, <1>5 DEF AudioGood, Phases, BufferCalls, RingCalls
<1>7. Fills'
    <2> SUFFICES ASSUME NEW d \in Filling' PROVE data'[output'[d].buf] = output'[d].block
        BY DEF Fills
    <2>1. CASE d = c
        BY <1>1, <1>2, <2>1
    <2>2. CASE d # c
        <3>1. d \in Filling /\ output'[d] = output[d] /\ d \in Players
            BY <1>1, <1>3, <2>2 DEF Filling
        <3>2. output[d].buf # b /\ output[d].buf \in Ids /\ data[output[d].buf] = output[d].block
            BY <3>1 DEF AudioGood, Places, AudioShapes, Orders, Fills
        <3> QED
            BY <1>1, <3>1, <3>2
    <2> QED
        BY <2>1, <2>2
<1>8. backend' \in Ports2 => Queued'
    <2>1. Queued
        BY <1>4 DEF AudioGood, Orders
    <2>2. \A i \in 1 .. Len(device) : device[i] \in Ids /\ device[i] # b
        <3>1. device \in Seq(Ids)
            BY DEF AudioGood, AudioShapes
        <3> QED
            BY <3>1, ElementOfSeq DEF In
    <2>3. \A i \in 1 .. Len(device) : data'[device[i]] = data[device[i]]
        BY <1>1, <2>2
    <2> QED
        BY <2>1, <2>3 DEF Queued, Begins
<1>9. outputs_crossed' \/ (Pushes' /\ (backend' = "wasapi" => InRing') /\ Begins(played, submitted)')
    <2>1. backend' # "wasapi"
        BY <1>4 DEF Ports2
    <2>2. Pushes => Pushes'
        <3>1. output'[c].at \notin {"write", "store"} /\ Count' = Count
            BY <1>2 DEF Count, ringVars
        <3> QED
            BY <1>1, <1>5, <3>1 DEF Pushes, ringVars
    <2> QED
        BY <2>1, <2>2 DEF AudioGood, Orders, Begins
<1>10. Sleepers'
    <2>1. in_flight' # 0
        BY <1>1 DEF AudioGood, AudioShapes
    <2> QED
        BY <1>1, <1>2, <2>1 DEF AudioGood, Sleepers
<1> QED
    BY <1>3, <1>4, <1>6, <1>7, <1>8, <1>9, <1>10 DEF Orders

LEMMA TakeFreeKeepsInv ==
    ASSUME AudioAssumption, AudioGood, NEW c \in Players, TakeFree(c) PROVE AudioGood'
<1> DEFINE b == Head(free)
<1>1. /\ output[c].at = "take" /\ free # <<>> /\ Fill(c, b) /\ free' = Tail(free)
      /\ UNCHANGED <<backend, draining, buffers, device, ringVars, blocks, opens, submitted, played, outputs_crossed, raced>>
    BY DEF TakeFree
<1>2. free \in Seq(Ids) /\ device \in Seq(Ids) /\ Len(device) \in Nat
    BY EmptyHolds DEF AudioGood, AudioShapes
<1>3. /\ b \in Ids /\ free' \in Seq(Ids) /\ Len(free) \in Nat \ {0} /\ Len(free') = Len(free) - 1
      /\ \A e : In(free, e) <=> In(free', e) \/ e = b
      /\ Once(free') /\ ~ In(free', b)
    BY <1>1, <1>2, TailHolds DEF AudioGood, Places
<1> HIDE DEF b
<1>4. ~ In(device, b) /\ (\A d \in Filling : output[d].buf # b) /\ b \in buffers
    BY <1>3 DEF AudioGood, Places
<1>5. AudioShapes'
    <2>1. /\ output' = [d \in Players |-> output'[d]] /\ \A d \in Players : OutputShape(output'[d])
          /\ data' = [d \in Ids |-> data'[d]] /\ \A d \in Ids : data'[d] \in Nat
          /\ in_flight' \in Nat
        BY <1>1, <1>3, FillIs DEF AudioGood
    <2> QED
        BY <1>1, <1>3, <2>1 DEF AudioGood, AudioShapes, ringVars
<1>6. /\ Cardinality(Filling') = Cardinality(Filling) + 1 /\ Filling' = Filling \cup {c} /\ c \notin Filling
      /\ backend \in Ports2 /\ Orders' /\ Sleepers'
      /\ draining' = TRUE => backend' = "wave" /\ Active' = {}
      /\ \A d \in Players : /\ output'[d].at \in BufferCalls => backend' \in Ports2
                            /\ output'[d].at \in RingCalls => backend' = "wasapi"
    BY <1>1, <1>3, <1>4, <1>5, FillKeeps
<1>7. Phases'
    BY <1>1, <1>6 DEF AudioGood, Phases, ringVars
<1>8. /\ output'[c].buf = b /\ \A d \in Players : d # c => output'[d] = output[d]
      /\ in_flight' = in_flight + 1
    <2>1. /\ output'[c] = [at |-> "filled", buf |-> b, block |-> output[c].block, tail |-> output[c].tail]
          /\ \A d \in Players : d # c => output'[d] = output[d]
          /\ in_flight' = in_flight + 1
        BY <1>1, <1>3, FillIs DEF AudioGood
    <2> QED
        BY <2>1
<1>9. Places'
    <2>1. Once(free') /\ Once(device') /\ (\A e : In(device', e) <=> In(device, e))
        BY <1>1, <1>3 DEF AudioGood, Places
    <2>2. \A d \in Filling' : d = c \/ (d \in Filling /\ output'[d].buf = output[d].buf /\ d \in Players)
        BY <1>6, <1>8 DEF Filling
    <2>3. \A d \in Filling : d # c /\ output'[d].buf = output[d].buf /\ d \in Filling'
        BY <1>6, <1>8 DEF Filling
    <2>4. c \in Filling'
        BY <1>6
    <2> QED
        BY <1>1, <1>3, <1>4, <1>8, <2>1, <2>2, <2>3, <2>4 DEF AudioGood, Places
<1>10. Counts'
    <2>1. Cardinality(Filling) \in Nat
        BY FillingIsFinite DEF AudioGood
    <2>2. /\ Len(free) + Len(device) + Cardinality(Filling) = Cardinality(buffers)
          /\ in_flight = Len(device) + Cardinality(Filling)
          /\ Cardinality(buffers) <= kMaxBuffersInFlight
        BY DEF AudioGood, Counts
    <2>3. device' = device /\ buffers' = buffers
        BY <1>1
    <2>4. Len(device') = Len(device) /\ Cardinality(buffers') = Cardinality(buffers)
        BY <2>3
    <2>5. Len(free) \in Nat \ {0} /\ Len(device) \in Nat /\ Len(free') = Len(free) - 1
        BY <1>2, <1>3
    <2>6. Cardinality(Filling') = Cardinality(Filling) + 1
        BY <1>6
    <2>7. Len(free') + Len(device') + Cardinality(Filling') = Cardinality(buffers')
        BY <2>1, <2>2, <2>4, <2>5, <2>6
    <2>8. in_flight' = Len(device') + Cardinality(Filling') /\ Cardinality(buffers') <= kMaxBuffersInFlight
        BY <1>8, <2>1, <2>2, <2>4, <2>5, <2>6
    <2> QED
        BY <2>7, <2>8, Zenon DEF Counts
<1> QED
    BY <1>5, <1>6, <1>7, <1>9, <1>10 DEF AudioGood

LEMMA TakeNewKeepsInv ==
    ASSUME AudioAssumption, AudioGood, NEW c \in Players, TakeNew(c) PROVE AudioGood'
<1>1. PICK b \in Ids \ buffers : Fill(c, b) /\ buffers' = buffers \cup {b}
    BY DEF TakeNew
<1>2. /\ output[c].at = "take" /\ free = <<>> /\ backend # "xa2" /\ in_flight < kMaxBuffersInFlight
      /\ UNCHANGED <<backend, draining, free, device, ringVars, blocks, opens, submitted, played, outputs_crossed, raced>>
    BY DEF TakeNew
<1>3. b \in Ids /\ ~ In(device, b) /\ ~ In(free, b) /\ (\A d \in Filling : output[d].buf # b)
    BY <1>1 DEF AudioGood, Places
<1>4. AudioShapes'
    <2>1. /\ output' = [d \in Players |-> output'[d]] /\ \A d \in Players : OutputShape(output'[d])
          /\ data' = [d \in Ids |-> data'[d]] /\ \A d \in Ids : data'[d] \in Nat
          /\ in_flight' \in Nat
        BY <1>1, <1>3, FillIs DEF AudioGood
    <2> QED
        BY <1>1, <1>2, <2>1 DEF AudioGood, AudioShapes, ringVars
<1>5. /\ Cardinality(Filling') = Cardinality(Filling) + 1 /\ Filling' = Filling \cup {c} /\ c \notin Filling
      /\ backend \in Ports2 /\ Orders' /\ Sleepers'
      /\ draining' = TRUE => backend' = "wave" /\ Active' = {}
      /\ \A d \in Players : /\ output'[d].at \in BufferCalls => backend' \in Ports2
                            /\ output'[d].at \in RingCalls => backend' = "wasapi"
    BY <1>1, <1>2, <1>3, <1>4, FillKeeps
<1>6. Phases'
    BY <1>2, <1>5 DEF AudioGood, Phases, ringVars
<1>7. /\ output'[c].buf = b /\ \A d \in Players : d # c => output'[d] = output[d]
      /\ in_flight' = in_flight + 1
    <2>1. /\ output'[c] = [at |-> "filled", buf |-> b, block |-> output[c].block, tail |-> output[c].tail]
          /\ \A d \in Players : d # c => output'[d] = output[d]
          /\ in_flight' = in_flight + 1
        BY <1>1, <1>3, FillIs DEF AudioGood
    <2> QED
        BY <2>1
<1>8. Places'
    <2>1. /\ Once(free') /\ Once(device') /\ (\A e : In(device', e) <=> In(device, e))
          /\ (\A e : In(free', e) <=> In(free, e))
        BY <1>2 DEF AudioGood, Places
    <2>2. \A d \in Filling' : d = c \/ (d \in Filling /\ output'[d].buf = output[d].buf /\ d \in Players)
        BY <1>5, <1>7 DEF Filling
    <2>3. \A d \in Filling : d # c /\ output'[d].buf = output[d].buf /\ d \in Filling'
        BY <1>5, <1>7 DEF Filling
    <2>4. c \in Filling'
        BY <1>5
    <2> QED
        BY <1>1, <1>3, <1>7, <2>1, <2>2, <2>3, <2>4 DEF AudioGood, Places
<1>9. Counts'
    <2>1. Cardinality(Filling) \in Nat /\ IsFiniteSet(buffers) /\ Cardinality(buffers) \in Nat
        BY FillingIsFinite DEF AudioGood
    <2>2. /\ Len(free) + Len(device) + Cardinality(Filling) = Cardinality(buffers)
          /\ in_flight = Len(device) + Cardinality(Filling)
        BY DEF AudioGood, Counts
    <2>3. Cardinality(buffers') = Cardinality(buffers) + 1
        BY <1>1, <2>1, FS_AddElement
    <2>4. Len(free) = 0 /\ Len(device) \in Nat /\ free' = free /\ device' = device
        BY <1>2, EmptyHolds DEF AudioGood, AudioShapes
    <2>5. Len(free') = 0 /\ Len(device') = Len(device)
        BY <2>4
    <2>6. Cardinality(Filling') = Cardinality(Filling) + 1 /\ kMaxBuffersInFlight \in Nat
        BY <1>5 DEF AudioAssumption
    <2>7. Len(free') + Len(device') + Cardinality(Filling') = Cardinality(buffers')
        BY <2>1, <2>2, <2>3, <2>4, <2>5, <2>6
    <2>8. in_flight' = Len(device') + Cardinality(Filling') /\ Cardinality(buffers') <= kMaxBuffersInFlight
        BY <1>2, <1>7, <2>1, <2>2, <2>3, <2>4, <2>5, <2>6
    <2> QED
        BY <2>7, <2>8, Zenon DEF Counts
<1> QED
    BY <1>4, <1>5, <1>6, <1>8, <1>9 DEF AudioGood

\* A call that a step of others leaves where it was, or wakes.
Like(d) ==
    /\ output'[d] = output[d] \/ (output[d].at = "asleep" /\ output'[d].at = "take")
    /\ output'[d].buf = output[d].buf /\ output'[d].block = output[d].block /\ output'[d].tail = output[d].tail

LEMMA OthersKeep ==
    ASSUME AudioGood, AudioShapes', \A d \in Players : output'[d] = NoOutput \/ Like(d),
           UNCHANGED <<backend, draining, data, ringVars, outputs_crossed, raced>>
    PROVE  /\ Active' \subseteq Active /\ Fills' /\ (Pushes => Pushes')
           /\ Filling' \subseteq Filling /\ \A d \in Filling' : output'[d] = output[d]
           /\ draining' = TRUE => backend' = "wave" /\ Active' = {}
           /\ \A d \in Players : /\ output'[d].at \in BufferCalls => backend' \in Ports2
                                 /\ output'[d].at \in RingCalls => backend' = "wasapi"
           /\ \A d \in Players : output'[d].at = "asleep" => output[d].at = "asleep"
<1>1. \A d \in Players : (d \in Active <=> output[d].at # "idle")
    BY CallKnown DEF AudioGood
<1>2. \A d \in Players : (d \in Active' <=> output'[d] # NoOutput) /\ NoOutput.at = "idle"
    BY DEF Active, NoOutput
<1>3. \A d \in Players : \/ output'[d] = NoOutput \/ output'[d] = output[d]
                         \/ /\ output[d].at = "asleep" /\ output'[d].at = "take"
                            /\ output'[d].buf = output[d].buf /\ output'[d].block = output[d].block
    BY DEF Like
<1>4. Active' \subseteq Active
    <2>1. \A d \in Players : d \in Active' => d \in Active
        BY <1>1, <1>2, <1>3 DEF Active
    <2> QED
        BY <2>1 DEF Active
<1>5. \A d \in Filling' : d \in Filling /\ output'[d] = output[d]
    BY <1>2, <1>3 DEF Filling
<1>6. Fills'
    BY <1>5 DEF AudioGood, Orders, Fills
<1>7. Pushes => Pushes'
    <2>1. Count' = Count /\ tail' = tail /\ ring' = ring
        BY DEF Count, ringVars
    <2>2. \A d \in Players : output'[d].at \in {"write", "store"} => output'[d] = output[d]
        BY <1>2, <1>3
    <2> QED
        BY <1>4, <2>1, <2>2 DEF Pushes
<1>8. \A d \in Players : output'[d].at = "asleep" => output[d].at = "asleep"
    BY <1>2, <1>3
<1>9. \A d \in Players : /\ output'[d].at \in BufferCalls => backend' \in Ports2
                         /\ output'[d].at \in RingCalls => backend' = "wasapi"
    BY <1>2, <1>3 DEF AudioGood, Phases, BufferCalls, RingCalls
<1>10. draining' = TRUE => backend' = "wave" /\ Active' = {}
    BY <1>4 DEF AudioGood, Phases
<1> QED
    BY <1>4, <1>5, <1>6, <1>7, <1>8, <1>9, <1>10

LEMMA IdleShape == AudioAssumption => OutputShape(NoOutput)
BY DEF AudioAssumption, OutputShape, NoOutput, Numbers

LEMMA PlacesStay ==
    ASSUME AudioGood, Filling' = Filling, \A d \in Filling : output'[d].buf = output[d].buf,
           UNCHANGED <<free, device, buffers, in_flight>>
    PROVE  Places' /\ Counts'
<1>1. /\ \A b : (In(free', b) <=> In(free, b)) /\ (In(device', b) <=> In(device, b))
      /\ Once(free') /\ Once(device')
    BY DEF AudioGood, Places
<1>2. Places'
    BY <1>1 DEF AudioGood, Places
<1>3. /\ Len(free') = Len(free) /\ Len(device') = Len(device) /\ Cardinality(Filling') = Cardinality(Filling)
      /\ Cardinality(buffers') = Cardinality(buffers) /\ in_flight' = in_flight
    OBVIOUS
<1>4. Counts'
    BY <1>3, Zenon DEF AudioGood, Counts
<1> QED
    BY <1>2, <1>4

LEMMA SleepKeepsInv ==
    ASSUME AudioAssumption, AudioGood, NEW c \in Players, Sleep(c) PROVE AudioGood'
<1>1. /\ output[c].at = "take" /\ free = <<>> /\ (backend # "xa2" => in_flight >= kMaxBuffersInFlight)
      /\ output' = [output EXCEPT ![c] = [output[c] EXCEPT !.at = "asleep"]]
      /\ UNCHANGED <<backend, draining, bufferVars, ringVars, blocks, opens, submitted, played, outputs_crossed, raced>>
    BY DEF Sleep
<1>2. output'[c] = [output[c] EXCEPT !.at = "asleep"] /\ output' = [d \in Players |-> output'[d]]
      /\ \A d \in Players : d # c => output'[d] = output[d]
    BY <1>1, OutputMoves DEF AudioGood
<1>3. /\ output[c] = [at |-> output[c].at, buf |-> output[c].buf, block |-> output[c].block, tail |-> output[c].tail]
      /\ output[c].block \in Nat /\ output[c].tail \in Numbers
    BY CallKnown DEF AudioGood
<1>4. output'[c] = [at |-> "asleep", buf |-> output[c].buf, block |-> output[c].block, tail |-> output[c].tail]
    BY <1>2, <1>3
<1>5. output'[c].at = "asleep" /\ output'[c].buf = output[c].buf
    BY <1>4
<1>6. AudioShapes'
    <2>1. OutputShape(output'[c])
        BY <1>3, <1>4 DEF OutputShape, BufferCalls
    <2>2. \A d \in Players : OutputShape(output'[d])
        BY <1>2, <2>1 DEF AudioGood, AudioShapes
    <2> QED
        BY <1>1, <1>2, <2>2 DEF AudioGood, AudioShapes, bufferVars, ringVars
<1>7. Filling' = Filling /\ \A d \in Filling : output'[d] = output[d]
    BY <1>1, <1>2, <1>5 DEF Filling
<1>8. Active' = Active
    <2>1. c \in Active
        BY <1>1, CallKnown DEF AudioGood
    <2>2. AudioShapes /\ output'[c].at # "idle"
        BY <1>5 DEF AudioGood
    <2>3. Active' = Active \cup {c}
        BY <1>2, <1>6, <2>2, ActiveMoves, Zenon
    <2> QED
        BY <2>1, <2>3
<1>9. backend \in Ports2
    BY <1>1 DEF AudioGood, Phases, BufferCalls
<1>10. Phases'
    BY <1>1, <1>2, <1>5, <1>8, <1>9 DEF AudioGood, Phases, BufferCalls, RingCalls, bufferVars, ringVars
<1>11. Places' /\ Counts'
    BY <1>1, <1>7, PlacesStay DEF bufferVars
<1>12. Orders'
    <2>1. Fills'
        BY <1>1, <1>7 DEF AudioGood, Orders, Fills, bufferVars
    <2>2. Queued => Queued'
        BY <1>1 DEF Queued, Begins, bufferVars
    <2>3. Pushes => Pushes'
        <3>1. Count' = Count
            BY <1>1 DEF Count, ringVars
        <3> QED
            BY <1>1, <1>2, <1>5, <1>8, <3>1 DEF Pushes, ringVars
    <2>4. backend # "wasapi"
        BY <1>9 DEF Ports2
    <2> QED
        BY <1>1, <2>1, <2>2, <2>3, <2>4 DEF AudioGood, Orders, Begins
<1>13. Sleepers'
    <2> SUFFICES ASSUME Cardinality(Players) <= kMaxBuffersInFlight, NEW d \in Players, output'[d].at = "asleep"
        PROVE /\ backend' = "wave" => device' # <<>>
              /\ backend' = "xa2" => in_flight' # 0
        BY DEF Sleepers
    <2>1. CASE d # c
        BY <1>1, <1>2, <2>1 DEF AudioGood, Sleepers, bufferVars
    <2>2. CASE d = c
        <3>1. /\ Cardinality(Filling) \in Nat /\ Len(device) \in Nat /\ Len(free) = 0
              /\ in_flight = Len(device) + Cardinality(Filling)
              /\ Len(free) + Len(device) + Cardinality(Filling) = Cardinality(buffers)
              /\ kMaxBuffersInFlight \in Nat \ {0}
            BY <1>1, FillingIsFinite, EmptyHolds DEF AudioGood, AudioShapes, Counts, AudioAssumption
        <3>2. Cardinality(Filling) < kMaxBuffersInFlight
            <4>1. IsFiniteSet(Players) /\ Cardinality(Players) \in Nat
                BY FS_CardinalityType DEF AudioAssumption
            <4>2. IsFiniteSet(Players \ {c}) /\ Cardinality(Players \ {c}) = Cardinality(Players) - 1
                BY <4>1, FS_RemoveElement
            <4>3. Filling \in SUBSET (Players \ {c})
                BY <1>1 DEF Filling
            <4>4. Cardinality(Filling) <= Cardinality(Players \ {c})
                BY <4>2, <4>3, FS_Subset
            <4> QED
                BY <3>1, <4>1, <4>2, <4>4
        <3>3. backend = "wave" => Len(device) # 0
            BY <1>1, <3>1, <3>2
        <3>4. backend = "xa2" => in_flight # 0
            <4>1. backend = "xa2" => Cardinality(buffers) = kMaxBuffersInFlight
                BY DEF AudioGood, Phases
            <4> QED
                BY <3>1, <4>1
        <3>5. device # <<>> \/ Len(device) = 0
            BY EmptyHolds DEF AudioGood, AudioShapes
        <3> QED
            BY <1>1, <3>3, <3>4, <3>5 DEF bufferVars
    <2> QED
        BY <2>1, <2>2
<1> QED
    BY <1>6, <1>10, <1>11, <1>12, <1>13 DEF AudioGood

\* Submit, SubmitFails and PrepareFails: the buffer leaves its thread.
LEMMA FillEnds ==
    ASSUME AudioAssumption, AudioGood, AudioShapes', NEW c \in Players, output[c].at = "filled", output'[c] = NoOutput,
           \A d \in Players : d # c => Like(d),
           UNCHANGED <<backend, draining, data, ringVars, outputs_crossed, raced>>
    PROVE  /\ Filling' = Filling \ {c} /\ c \in Filling /\ Cardinality(Filling') = Cardinality(Filling) - 1
           /\ \A d \in Filling' : output'[d] = output[d]
           /\ backend \in Ports2 /\ draining = FALSE
<1>1. \A d \in Players : output'[d] = NoOutput \/ Like(d)
    OBVIOUS
<1>2. \A d \in Filling' : output'[d] = output[d]
    BY <1>1, OthersKeep
<1>3. \A d \in Players : d # c => (output'[d].at = "filled" <=> output[d].at = "filled")
    BY DEF Like
<1>4. output'[c].at # "filled"
    BY DEF NoOutput
<1>5. Filling' = Filling \ {c} /\ c \in Filling /\ Cardinality(Filling') = Cardinality(Filling) - 1
    BY <1>3, <1>4, FillingMoves DEF AudioGood
<1>6. backend \in Ports2 /\ c \in Active
    BY CallKnown DEF AudioGood, Phases, BufferCalls
<1>7. draining = FALSE
    BY <1>6 DEF AudioGood, Phases, AudioShapes
<1> QED
    BY <1>2, <1>5, <1>6, <1>7

LEMMA SubmitKeepsInv ==
    ASSUME AudioAssumption, AudioGood, NEW c \in Players, Submit(c) PROVE AudioGood'
<1> DEFINE b == output[c].buf
<1>1. /\ output[c].at = "filled" /\ backend \in Ports2 /\ ~ draining
      /\ device' = Append(device, b) /\ submitted' = Append(submitted, output[c].block)
      /\ output' = [output EXCEPT ![c] = NoOutput]
      /\ UNCHANGED <<backend, draining, buffers, free, in_flight, data, ringVars, blocks, opens, played, outputs_crossed, raced>>
    BY DEF Submit, Ports2
<1>2. output'[c] = NoOutput /\ output' = [d \in Players |-> output'[d]] /\ \A d \in Players : d # c => output'[d] = output[d]
    BY <1>1, OutputMoves DEF AudioGood
<1>3. c \in Filling /\ b \in buffers /\ ~ In(free, b) /\ ~ In(device, b) /\ b \in Ids
      /\ output[c].block \in Nat /\ data[b] = output[c].block
    BY <1>1, CallKnown DEF AudioGood, Places, Filling, AudioShapes, Orders, Fills
<1>4. /\ device' \in Seq(Ids) /\ Len(device) \in Nat /\ Len(device') = Len(device) + 1
      /\ \A i \in 1 .. Len(device) : device'[i] = device[i]
      /\ device'[Len(device) + 1] = b
      /\ \A e : In(device', e) <=> In(device, e) \/ e = b
      /\ Once(device')
    BY <1>1, <1>3, AppendHolds DEF AudioGood, AudioShapes, Places
<1>5. /\ submitted' \in Seq(Nat) /\ Len(submitted) \in Nat /\ Len(submitted') = Len(submitted) + 1
      /\ \A i \in 1 .. Len(submitted) : submitted'[i] = submitted[i]
      /\ submitted'[Len(submitted) + 1] = output[c].block
    BY <1>1, <1>3, AppendHolds DEF AudioGood, AudioShapes
<1>6. AudioShapes'
    <2>1. \A d \in Players : OutputShape(output'[d])
        BY <1>2, IdleShape DEF AudioGood, AudioShapes
    <2> QED
        BY <1>1, <1>2, <1>4, <1>5, <2>1 DEF AudioGood, AudioShapes, ringVars
<1>7. \A d \in Players : d # c => Like(d)
    BY <1>2 DEF Like
<1>8. /\ Filling' = Filling \ {c} /\ Cardinality(Filling') = Cardinality(Filling) - 1
      /\ \A d \in Filling' : output'[d] = output[d]
    BY <1>1, <1>2, <1>6, <1>7, FillEnds
<1>9. /\ Active' \subseteq Active /\ Fills' /\ (Pushes => Pushes')
      /\ draining' = TRUE => backend' = "wave" /\ Active' = {}
      /\ \A d \in Players : /\ output'[d].at \in BufferCalls => backend' \in Ports2
                            /\ output'[d].at \in RingCalls => backend' = "wasapi"
      /\ \A d \in Players : output'[d].at = "asleep" => output[d].at = "asleep"
    BY <1>1, <1>2, <1>6, <1>7, OthersKeep
<1>10. Phases'
    BY <1>1, <1>9 DEF AudioGood, Phases, ringVars
<1>11. Places'
    BY <1>1, <1>3, <1>4, <1>8 DEF AudioGood, Places
<1>12. Counts'
    <2>1. /\ Len(free) + Len(device) + Cardinality(Filling) = Cardinality(buffers)
          /\ in_flight = Len(device) + Cardinality(Filling)
          /\ Cardinality(buffers) <= kMaxBuffersInFlight
          /\ Len(free) \in Nat
        BY EmptyHolds DEF AudioGood, Counts, AudioShapes
    <2>2. Cardinality(Filling) \in Nat
        BY FillingIsFinite DEF AudioGood
    <2>3. Len(free') = Len(free) /\ Cardinality(buffers') = Cardinality(buffers) /\ in_flight' = in_flight
        BY <1>1
    <2>4. Len(free') + Len(device') + Cardinality(Filling') = Cardinality(buffers')
        BY <1>4, <1>8, <2>1, <2>2, <2>3
    <2>5. in_flight' = Len(device') + Cardinality(Filling') /\ Cardinality(buffers') <= kMaxBuffersInFlight
        BY <1>4, <1>8, <2>1, <2>2, <2>3
    <2> QED
        BY <2>4, <2>5, Zenon DEF Counts
<1>13. Queued'
    <2>1. Begins(played, submitted) /\ Len(submitted) = Len(played) + Len(device)
          /\ (\A i \in 1 .. Len(device) : submitted[Len(played) + i] = data[device[i]])
          /\ Len(played) \in Nat
        BY <1>1, EmptyHolds DEF AudioGood, Orders, Queued, AudioShapes
    <2>2. Begins(played, submitted') /\ Len(submitted') = Len(played) + Len(device')
        BY <1>4, <1>5, <2>1 DEF Begins
    <2>3. ASSUME NEW i \in 1 .. Len(device') PROVE submitted'[Len(played) + i] = data[device'[i]]
        <3>1. CASE i \in 1 .. Len(device)
            <4>1. Len(played) + i \in 1 .. Len(submitted)
                BY <2>1, <3>1, <1>4
            <4> QED
                BY <1>4, <1>5, <2>1, <3>1, <4>1
        <3>2. CASE i = Len(device) + 1
            <4>1. Len(played) + i = Len(submitted) + 1
                BY <2>1, <3>2, <1>4
            <4>2. submitted'[Len(played) + i] = output[c].block
                BY <1>5, <4>1
            <4> QED
                BY <1>3, <1>4, <3>2, <4>2
        <3> QED
            BY <1>4, <3>1, <3>2
    <2> QED
        BY <1>1, <2>2, <2>3 DEF Queued
<1>14. Orders'
    <2>1. backend' # "wasapi"
        BY <1>1 DEF Ports2
    <2> QED
        BY <1>1, <1>9, <1>13, <2>1 DEF AudioGood, Orders, Queued
<1>15. Sleepers'
    <2>1. device' # <<>>
        BY <1>4, EmptyHolds
    <2> QED
        BY <1>1, <1>9, <2>1 DEF AudioGood, Sleepers
<1> QED
    BY <1>6, <1>10, <1>11, <1>12, <1>14, <1>15 DEF AudioGood

\* A buffer goes back to the free list, from a thread or from the host.
LEMMA SubmitFailsKeepsInv ==
    ASSUME AudioAssumption, AudioGood, NEW c \in Players, SubmitFails(c) PROVE AudioGood'
<1> DEFINE b == output[c].buf
           N == IF backend = "xa2" THEN Notified ELSE output
<1>1. /\ output[c].at = "filled" /\ b \in buffers
      /\ free' = Append(free, b) /\ in_flight' = in_flight - 1
      /\ output' = [N EXCEPT ![c] = NoOutput]
      /\ UNCHANGED <<backend, draining, buffers, device, data, ringVars, blocks, opens, submitted, played, outputs_crossed, raced>>
    BY DEF SubmitFails
<1>2. N = [d \in Players |-> N[d]]
    BY DEF AudioGood, AudioShapes, Notified
<1>3. \A d \in Players :
         /\ OutputShape(N[d]) /\ (backend = "xa2" => N[d].at # "asleep")
         /\ N[d] = output[d] \/ (output[d].at = "asleep" /\ N[d].at = "take")
         /\ N[d].buf = output[d].buf /\ N[d].block = output[d].block /\ N[d].tail = output[d].tail
    <2>1. CASE backend = "xa2"
        BY <2>1, NotifiedMoves DEF AudioGood
    <2>2. CASE backend # "xa2"
        BY <2>2 DEF AudioGood, AudioShapes
    <2> QED
        BY <2>1, <2>2
<1> HIDE DEF N
<1>4. output'[c] = NoOutput /\ output' = [d \in Players |-> output'[d]] /\ \A d \in Players : d # c => output'[d] = N[d]
    BY <1>1, <1>2
<1>5. c \in Filling /\ b \in buffers /\ ~ In(free, b) /\ ~ In(device, b) /\ b \in Ids
    BY <1>1 DEF AudioGood, Places, Filling, AudioShapes
<1>6. /\ free' \in Seq(Ids) /\ Len(free) \in Nat /\ Len(free') = Len(free) + 1
      /\ \A e : In(free', e) <=> In(free, e) \/ e = b
      /\ Once(free')
    BY <1>1, <1>5, AppendHolds DEF AudioGood, AudioShapes, Places
<1>7. /\ Len(free) + Len(device) + Cardinality(Filling) = Cardinality(buffers)
      /\ in_flight = Len(device) + Cardinality(Filling)
      /\ Cardinality(buffers) <= kMaxBuffersInFlight
      /\ Len(device) \in Nat /\ Cardinality(Filling) \in Nat \ {0}
    <2>1. Cardinality(Filling) \in Nat /\ IsFiniteSet(Filling)
        BY FillingIsFinite DEF AudioGood
    <2>2. Cardinality(Filling) # 0
        BY <1>5, <2>1, FS_EmptySet
    <2> QED
        BY <2>1, <2>2, EmptyHolds DEF AudioGood, Counts, AudioShapes
<1>8. AudioShapes'
    <2>1. \A d \in Players : OutputShape(output'[d])
        BY <1>3, <1>4, IdleShape
    <2>2. in_flight' \in Nat
        BY <1>1, <1>7
    <2> QED
        BY <1>1, <1>4, <1>6, <2>1, <2>2 DEF AudioGood, AudioShapes, ringVars
<1>9. \A d \in Players : d # c => Like(d)
    BY <1>3, <1>4 DEF Like
<1>10. /\ Filling' = Filling \ {c} /\ Cardinality(Filling') = Cardinality(Filling) - 1
       /\ \A d \in Filling' : output'[d] = output[d]
       /\ backend \in Ports2
    BY <1>1, <1>4, <1>8, <1>9, FillEnds
<1>11. /\ Active' \subseteq Active /\ Fills' /\ (Pushes => Pushes')
       /\ draining' = TRUE => backend' = "wave" /\ Active' = {}
       /\ \A d \in Players : /\ output'[d].at \in BufferCalls => backend' \in Ports2
                             /\ output'[d].at \in RingCalls => backend' = "wasapi"
       /\ \A d \in Players : output'[d].at = "asleep" => output[d].at = "asleep"
    BY <1>1, <1>4, <1>8, <1>9, OthersKeep
<1>12. Phases'
    BY <1>1, <1>11 DEF AudioGood, Phases, ringVars
<1>13. Places'
    <2>1. \A e : In(device', e) <=> In(device, e)
        BY <1>1
    <2> QED
        BY <1>1, <1>5, <1>6, <1>10, <2>1 DEF AudioGood, Places
<1>14. Counts'
    <2>1. Len(device') = Len(device) /\ Cardinality(buffers') = Cardinality(buffers)
        BY <1>1
    <2>2. Len(free') + Len(device') + Cardinality(Filling') = Cardinality(buffers')
        BY <1>6, <1>7, <1>10, <2>1
    <2>3. in_flight' = Len(device') + Cardinality(Filling') /\ Cardinality(buffers') <= kMaxBuffersInFlight
        BY <1>1, <1>7, <1>10, <2>1
    <2> QED
        BY <2>2, <2>3, Zenon DEF Counts
<1>15. Orders'
    <2>1. backend' # "wasapi"
        BY <1>1, <1>10 DEF Ports2
    <2>2. Queued => Queued'
        BY <1>1 DEF Queued, Begins
    <2> QED
        BY <1>1, <1>11, <2>1, <2>2 DEF AudioGood, Orders, Begins
<1>16. Sleepers'
    <2>1. \A d \in Players : output'[d].at = "asleep" => backend # "xa2"
        <3>1. NoOutput.at # "asleep"
            BY DEF NoOutput
        <3> QED
            BY <1>3, <1>4, <3>1
    <2> QED
        BY <1>1, <1>11, <2>1 DEF AudioGood, Sleepers
<1> QED
    BY <1>8, <1>12, <1>13, <1>14, <1>15, <1>16 DEF AudioGood

LEMMA PrepareFailsKeepsInv ==
    ASSUME AudioAssumption, AudioGood, NEW c \in Players, PrepareFails(c) PROVE AudioGood'
<1> DEFINE b == output[c].buf
<1>1. /\ output[c].at = "filled" /\ b \in buffers /\ backend # "xa2"
      /\ buffers' = buffers \ {b} /\ in_flight' = in_flight - 1
      /\ output' = [output EXCEPT ![c] = NoOutput]
      /\ UNCHANGED <<backend, draining, free, device, data, ringVars, blocks, opens, submitted, played, outputs_crossed, raced>>
    BY DEF PrepareFails
<1>2. output'[c] = NoOutput /\ output' = [d \in Players |-> output'[d]] /\ \A d \in Players : d # c => output'[d] = output[d]
    BY <1>1, OutputMoves DEF AudioGood
<1>3. c \in Filling /\ b \in buffers /\ ~ In(free, b) /\ ~ In(device, b) /\ b \in Ids
    BY <1>1 DEF AudioGood, Places, Filling, AudioShapes
<1>4. /\ Len(free) + Len(device) + Cardinality(Filling) = Cardinality(buffers)
      /\ in_flight = Len(device) + Cardinality(Filling)
      /\ Cardinality(buffers) <= kMaxBuffersInFlight
      /\ Len(free) \in Nat /\ Len(device) \in Nat /\ Cardinality(Filling) \in Nat \ {0} /\ Cardinality(buffers) \in Nat
      /\ Cardinality(buffers') = Cardinality(buffers) - 1 /\ kMaxBuffersInFlight \in Nat
    <2>1. Cardinality(Filling) \in Nat /\ IsFiniteSet(Filling) /\ IsFiniteSet(buffers) /\ Cardinality(buffers) \in Nat
        BY FillingIsFinite DEF AudioGood
    <2>2. Cardinality(Filling) # 0
        BY <1>3, <2>1, FS_EmptySet
    <2>3. Cardinality(buffers \ {b}) = Cardinality(buffers) - 1
        BY <1>1, <2>1, FS_RemoveElement
    <2> QED
        BY <1>1, <2>1, <2>2, <2>3, EmptyHolds DEF AudioGood, Counts, AudioShapes, AudioAssumption
<1>5. AudioShapes'
    <2>1. \A d \in Players : OutputShape(output'[d])
        BY <1>2, IdleShape DEF AudioGood, AudioShapes
    <2>2. in_flight' \in Nat
        <3>1. in_flight = Len(device) + Cardinality(Filling) /\ Len(device) \in Nat /\ Cardinality(Filling) \in Nat \ {0}
            BY <1>4
        <3> QED
            BY <1>1, <3>1
    <2> QED
        BY <1>1, <1>2, <2>1, <2>2 DEF AudioGood, AudioShapes, ringVars
<1>6. \A d \in Players : d # c => Like(d)
    BY <1>2 DEF Like
<1>7. /\ Filling' = Filling \ {c} /\ Cardinality(Filling') = Cardinality(Filling) - 1
      /\ \A d \in Filling' : output'[d] = output[d]
      /\ backend \in Ports2
    BY <1>1, <1>2, <1>5, <1>6, FillEnds
<1>8. /\ Active' \subseteq Active /\ Fills' /\ (Pushes => Pushes')
      /\ draining' = TRUE => backend' = "wave" /\ Active' = {}
      /\ \A d \in Players : /\ output'[d].at \in BufferCalls => backend' \in Ports2
                            /\ output'[d].at \in RingCalls => backend' = "wasapi"
      /\ \A d \in Players : output'[d].at = "asleep" => output[d].at = "asleep"
    BY <1>1, <1>2, <1>5, <1>6, OthersKeep
<1>9. Phases'
    BY <1>1, <1>7, <1>8 DEF AudioGood, Phases, ringVars
<1>10. Places'
    <2>1. \A e : (In(device', e) <=> In(device, e)) /\ (In(free', e) <=> In(free, e))
        BY <1>1
    <2>2. Once(free') /\ Once(device')
        BY <1>1 DEF AudioGood, Places
    <2> QED
        BY <1>1, <1>3, <1>7, <2>1, <2>2 DEF AudioGood, Places
<1>11. Counts'
    <2>1. Len(device') = Len(device) /\ Len(free') = Len(free)
        BY <1>1
    <2>2. Len(free') + Len(device') + Cardinality(Filling') = Cardinality(buffers')
        BY <1>4, <1>7, <2>1
    <2>3. in_flight' = Len(device') + Cardinality(Filling') /\ Cardinality(buffers') <= kMaxBuffersInFlight
        BY <1>1, <1>4, <1>7, <2>1
    <2> QED
        BY <2>2, <2>3, Zenon DEF Counts
<1>12. Orders'
    <2>1. backend' # "wasapi"
        BY <1>1, <1>7 DEF Ports2
    <2>2. Queued => Queued'
        BY <1>1 DEF Queued, Begins
    <2> QED
        BY <1>1, <1>8, <2>1, <2>2 DEF AudioGood, Orders, Begins
<1>13. Sleepers'
    BY <1>1, <1>8 DEF AudioGood, Sleepers
<1> QED
    BY <1>5, <1>9, <1>10, <1>11, <1>12, <1>13 DEF AudioGood

LEMMA BufferEndKeepsInv ==
    ASSUME AudioAssumption, AudioGood, BufferEnd PROVE AudioGood'
<1> DEFINE b == Head(device)
<1>1. /\ device # <<>> /\ device' = Tail(device) /\ free' = Append(free, b) /\ in_flight' = in_flight - 1
      /\ played' = Append(played, data[b]) /\ output' = Notified
      /\ UNCHANGED <<backend, draining, buffers, data, ringVars, blocks, opens, submitted, outputs_crossed, raced>>
    BY DEF BufferEnd
<1>2. /\ b \in Ids /\ device' \in Seq(Ids) /\ Len(device) \in Nat \ {0} /\ Len(device') = Len(device) - 1
      /\ b = device[1]
      /\ \A i \in 1 .. Len(device) - 1 : device'[i] = device[i + 1]
      /\ \A e : In(device, e) <=> In(device', e) \/ e = b
      /\ Once(device') /\ ~ In(device', b)
    BY <1>1, TailHolds DEF AudioGood, AudioShapes, Places
<1> HIDE DEF b
<1>3. b \in buffers /\ ~ In(free, b) /\ (\A d \in Filling : output[d].buf # b) /\ data[b] \in Nat
    BY <1>2 DEF AudioGood, Places, AudioShapes
<1>4. /\ free' \in Seq(Ids) /\ Len(free) \in Nat /\ Len(free') = Len(free) + 1
      /\ \A e : In(free', e) <=> In(free, e) \/ e = b
      /\ Once(free')
    BY <1>1, <1>2, <1>3, AppendHolds DEF AudioGood, AudioShapes, Places
<1>5. /\ played' \in Seq(Nat) /\ Len(played) \in Nat /\ Len(played') = Len(played) + 1
      /\ \A i \in 1 .. Len(played) : played'[i] = played[i]
      /\ played'[Len(played) + 1] = data[b]
    BY <1>1, <1>3, AppendHolds DEF AudioGood, AudioShapes
<1>6. /\ output' = [d \in Players |-> output'[d]]
      /\ \A d \in Players : OutputShape(output'[d]) /\ Like(d) /\ output'[d].at # "asleep"
    <2>1. Notified = [d \in Players |-> Notified[d]]
        BY DEF Notified
    <2>2. \A d \in Players : OutputShape(Notified[d]) /\ Notified[d].at # "asleep"
        BY NotifiedMoves DEF AudioGood
    <2>3. \A d \in Players : Like(d)
        BY <1>1, NotifiedMoves DEF AudioGood, Like
    <2> QED
        BY <1>1, <2>1, <2>2, <2>3
<1>7. /\ Len(free) + Len(device) + Cardinality(Filling) = Cardinality(buffers)
      /\ in_flight = Len(device) + Cardinality(Filling)
      /\ Cardinality(buffers) <= kMaxBuffersInFlight
      /\ Cardinality(Filling) \in Nat
    BY FillingIsFinite DEF AudioGood, Counts
<1>8. AudioShapes'
    <2>1. in_flight' \in Nat
        BY <1>1, <1>2, <1>7
    <2> QED
        BY <1>1, <1>2, <1>4, <1>5, <1>6, <2>1 DEF AudioGood, AudioShapes, ringVars
<1>9. /\ Active' \subseteq Active /\ Fills' /\ (Pushes => Pushes')
      /\ Filling' \subseteq Filling
      /\ draining' = TRUE => backend' = "wave" /\ Active' = {}
      /\ \A d \in Players : /\ output'[d].at \in BufferCalls => backend' \in Ports2
                            /\ output'[d].at \in RingCalls => backend' = "wasapi"
    BY <1>1, <1>6, <1>8, OthersKeep
<1>10. Filling' = Filling /\ \A d \in Filling : output'[d].buf = output[d].buf
    BY <1>6, <1>9 DEF Filling, Like
<1>11. Phases'
    BY <1>1, <1>9 DEF AudioGood, Phases, ringVars
<1>12. Places'
    BY <1>1, <1>2, <1>3, <1>4, <1>10 DEF AudioGood, Places
<1>13. Counts'
    <2>1. Cardinality(Filling') = Cardinality(Filling) /\ Cardinality(buffers') = Cardinality(buffers)
        BY <1>1, <1>10
    <2>2. Len(free') + Len(device') + Cardinality(Filling') = Cardinality(buffers')
        BY <1>2, <1>4, <1>7, <2>1
    <2>3. in_flight' = Len(device') + Cardinality(Filling') /\ Cardinality(buffers') <= kMaxBuffersInFlight
        BY <1>1, <1>2, <1>7, <2>1
    <2> QED
        BY <2>2, <2>3, Zenon DEF Counts
<1>14. backend \in Ports2
    BY <1>3 DEF AudioGood, Phases
<1>15. Queued'
    <2>1. Begins(played, submitted) /\ Len(submitted) = Len(played) + Len(device)
          /\ (\A i \in 1 .. Len(device) : submitted[Len(played) + i] = data[device[i]])
        BY <1>14 DEF AudioGood, Orders, Queued
    <2>2. submitted[Len(played) + 1] = data[b]
        BY <1>2, <2>1
    <2>3. Begins(played', submitted) /\ Len(submitted) = Len(played') + Len(device')
        <3>1. Len(submitted) = Len(played') + Len(device') /\ Len(played') <= Len(submitted)
            BY <1>2, <1>5, <2>1
        <3>2. ASSUME NEW i \in 1 .. Len(played') PROVE played'[i] = submitted[i]
            <4>1. i \in 1 .. Len(played) \/ i = Len(played) + 1
                BY <1>5
            <4> QED
                BY <1>5, <2>1, <2>2, <4>1 DEF Begins
        <3> QED
            BY <3>1, <3>2 DEF Begins
    <2>4. ASSUME NEW i \in 1 .. Len(device') PROVE submitted[Len(played') + i] = data[device'[i]]
        <3>1. i + 1 \in 1 .. Len(device) /\ Len(played') + i = Len(played) + (i + 1) /\ i \in 1 .. Len(device) - 1
            BY <1>2, <1>5
        <3>2. submitted[Len(played) + (i + 1)] = data[device[i + 1]]
            BY <2>1, <3>1
        <3> QED
            BY <1>2, <3>1, <3>2
    <2> QED
        BY <1>1, <2>3, <2>4 DEF Queued
<1>16. Orders'
    <2>1. backend' # "wasapi"
        BY <1>1, <1>14 DEF Ports2
    <2> QED
        BY <1>1, <1>9, <1>15, <2>1 DEF AudioGood, Orders, Queued
<1>17. Sleepers'
    BY <1>6 DEF Sleepers
<1> QED
    BY <1>8, <1>11, <1>12, <1>13, <1>16, <1>17 DEF AudioGood

-----------------------------------------------------------------------------
(* Audio ports: calls and the ring. *)

LEMMA OutputKeepsInv ==
    ASSUME AudioAssumption, AudioGood, NEW c \in Players, Output(c) PROVE AudioGood'
<1> DEFINE a == IF backend = "wasapi" THEN "spin" ELSE "take"
           r == [at |-> a, buf |-> 0, block |-> blocks + 1, tail |-> 0]
<1>1. /\ output[c] = NoOutput /\ backend \in {"wave", "wasapi", "xa2"} /\ draining # TRUE
      /\ blocks' = blocks + 1
      /\ output' = [output EXCEPT ![c] = [NoOutput EXCEPT !.at = a, !.block = blocks + 1]]
      /\ outputs_crossed' = (outputs_crossed \/ Active # {})
      /\ UNCHANGED <<backend, draining, bufferVars, ringVars, opens, submitted, played, raced>>
    BY DEF Output
<1>2. [NoOutput EXCEPT !.at = a, !.block = blocks + 1] = r
    <2>1. PICK e : e = [NoOutput EXCEPT !.at = a]
        OBVIOUS
    <2>2. e = [at |-> a, buf |-> 0, block |-> 0, tail |-> 0]
        BY <2>1 DEF NoOutput
    <2>3. [e EXCEPT !.block = blocks + 1] = r
        BY <2>2
    <2> QED
        BY <2>1, <2>3
<1>3. output'[c] = r /\ output' = [d \in Players |-> output'[d]] /\ \A d \in Players : d # c => output'[d] = output[d]
    BY <1>1, <1>2, OutputMoves DEF AudioGood
<1>4. output'[c].at = a /\ a \in {"spin", "take"}
    BY <1>3
<1> HIDE DEF a
<1>5. AudioShapes'
    <2>1. blocks \in Nat /\ 0 \in Numbers /\ blocks' \in Nat
        BY <1>1 DEF AudioGood, AudioShapes, Numbers, AudioAssumption
    <2>2. OutputShape(r)
        BY <1>4, <2>1 DEF OutputShape, BufferCalls, RingCalls
    <2>3. \A d \in Players : OutputShape(output'[d])
        BY <1>3, <2>2 DEF AudioGood, AudioShapes
    <2> QED
        BY <1>1, <1>3, <2>1, <2>3 DEF AudioGood, AudioShapes, bufferVars, ringVars
<1>6. Filling' = Filling /\ \A d \in Filling : output'[d] = output[d]
    <2>1. output[c].at # "filled"
        BY <1>1 DEF NoOutput
    <2> QED
        BY <1>3, <1>4, <2>1 DEF Filling
<1>7. Active' = Active \cup {c}
    <2>1. AudioShapes /\ output'[c].at # "idle"
        BY <1>4 DEF AudioGood
    <2> QED
        BY <1>3, <1>5, <2>1, ActiveMoves, Zenon
<1>8. Phases'
    <2>1. a = "spin" => backend = "wasapi"
        BY DEF a
    <2>2. a = "take" => backend \in Ports2
        BY <1>1 DEF a, Ports2
    <2>3. \A d \in Players : /\ output'[d].at \in BufferCalls => backend' \in Ports2
                             /\ output'[d].at \in RingCalls => backend' = "wasapi"
        BY <1>1, <1>3, <1>4, <2>1, <2>2 DEF AudioGood, Phases, BufferCalls, RingCalls
    <2> QED
        BY <1>1, <2>3 DEF AudioGood, Phases, bufferVars, ringVars
<1>9. Places' /\ Counts'
    BY <1>1, <1>6, PlacesStay DEF bufferVars
<1>10. Orders'
    <2>1. Fills'
        BY <1>1, <1>6 DEF AudioGood, Orders, Fills, bufferVars
    <2>2. (Queued => Queued') /\ (InRing => InRing') /\ (Begins(played, submitted) => Begins(played, submitted)')
        BY <1>1 DEF Queued, Begins, InRing, Slot, Count, bufferVars, ringVars
    <2>3. ~ outputs_crossed' => Pushes'
        <3> SUFFICES ASSUME ~ outputs_crossed' PROVE Pushes'
            OBVIOUS
        <3>1. Active = {}
            BY <1>1
        <3>2. \A d \in Players : d # c => output[d].at = "idle"
            BY <3>1, CallKnown DEF AudioGood
        <3>3. \A d \in Players : output'[d].at \notin {"write", "store"}
            BY <1>3, <1>4, <3>2
        <3> QED
            BY <1>7, <3>1, <3>3 DEF Pushes
    <2>4. ~ outputs_crossed' => ~ outputs_crossed
        BY <1>1
    <2> QED
        BY <1>1, <2>1, <2>2, <2>3, <2>4 DEF AudioGood, Orders
<1>11. Sleepers'
    BY <1>1, <1>3, <1>4 DEF AudioGood, Sleepers, bufferVars
<1> QED
    BY <1>5, <1>8, <1>9, <1>10, <1>11 DEF AudioGood

LEMMA NextSlot ==
    ASSUME AudioAssumption, NEW i \in Numbers
    PROVE  /\ AfterSlot(i) = IF i + 1 < kMaxBuffersInFlight THEN i + 1 ELSE 0
           /\ AfterSlot(i) \in Numbers
<1>1. kMaxBuffersInFlight \in Nat \ {0} /\ i \in Nat /\ i < kMaxBuffersInFlight
    BY DEF AudioAssumption, Numbers
<1>2. CASE i + 1 < kMaxBuffersInFlight
    <2>1. (i + 1) % kMaxBuffersInFlight = i + 1
        BY <1>1, <1>2
    <2> QED
        BY <1>1, <1>2, <2>1 DEF AfterSlot, Numbers
<1>3. CASE i + 1 = kMaxBuffersInFlight
    <2>1. (i + 1) % kMaxBuffersInFlight = 0
        BY <1>1, <1>3
    <2> QED
        BY <1>1, <1>3, <2>1 DEF AfterSlot, Numbers
<1> QED
    BY <1>1, <1>2, <1>3

\* The ring is full when one slot is left.
LEMMA FullRing ==
    ASSUME AudioAssumption, AudioShapes
    PROVE  /\ Count \in Nat /\ Count < kMaxBuffersInFlight /\ (Count = 0 <=> head = tail)
           /\ ~ Full => Count < kMaxBuffersInFlight - 1
           /\ \A i \in 0 .. Count - 1 : Slot(i) \in Numbers /\ Slot(i) # tail
           /\ Slot(Count) = tail
<1>1. /\ kMaxBuffersInFlight \in Nat \ {0} /\ head \in Nat /\ tail \in Nat
      /\ head < kMaxBuffersInFlight /\ tail < kMaxBuffersInFlight
    BY DEF AudioAssumption, AudioShapes, Numbers
<1>2. AfterSlot(tail) = IF tail + 1 < kMaxBuffersInFlight THEN tail + 1 ELSE 0
    BY NextSlot DEF AudioShapes
<1>3. Count \in Nat /\ Count < kMaxBuffersInFlight /\ (Count = 0 <=> head = tail)
    BY <1>1 DEF Count
<1>4. ~ Full => Count < kMaxBuffersInFlight - 1
    BY <1>1, <1>2 DEF Count, Full
<1>5. \A i \in 0 .. Count - 1 : Slot(i) \in Numbers /\ Slot(i) # tail
    BY <1>1 DEF Count, Slot, Numbers
<1>6. Slot(Count) = tail
    BY <1>1 DEF Count, Slot
<1> QED
    BY <1>3, <1>4, <1>5, <1>6

\* A step inside the ring's push leaves the buffers alone.
LEMMA RingStep ==
    ASSUME AudioAssumption, AudioGood, AudioShapes', NEW c \in Players, output[c].at \in RingCalls,
           output'[c].at \in RingCalls \cup {"idle"}, \A d \in Players : d # c => output'[d] = output[d],
           UNCHANGED <<backend, draining, bufferVars, outputs_crossed, raced>>
    PROVE  /\ backend = "wasapi" /\ c \in Active /\ Phases' /\ Places' /\ Counts' /\ Fills' /\ Sleepers'
           /\ Active' \subseteq Active
<1>1. backend = "wasapi" /\ backend \notin Ports2
    BY DEF AudioGood, Phases, Ports2
<1>2. c \in Active
    BY CallKnown DEF AudioGood, RingCalls
<1>3. Active' \subseteq Active
    <2>1. AudioShapes
        BY DEF AudioGood
    <2>2. Active' = Active \cup {c} \/ Active' = Active \ {c}
        BY <2>1, ActiveMoves, Zenon
    <2> QED
        BY <1>2, <2>2
<1>4. Filling' = Filling /\ \A d \in Filling : output'[d] = output[d]
    <2>1. output[c].at # "filled" /\ output'[c].at # "filled"
        BY DEF RingCalls
    <2> QED
        BY <2>1 DEF Filling
<1>5. Phases'
    <2>1. \A d \in Players : output'[d].at \in BufferCalls => FALSE
        <3>1. \A d \in Players : output[d].at \notin BufferCalls
            BY <1>1 DEF AudioGood, Phases
        <3>2. output'[c].at \notin BufferCalls
            BY DEF BufferCalls, RingCalls
        <3> QED
            BY <3>1, <3>2
    <2> QED
        BY <1>1, <1>3, <2>1 DEF AudioGood, Phases, bufferVars
<1>6. Places' /\ Counts'
    BY <1>4, PlacesStay DEF bufferVars
<1>7. Fills'
    BY <1>4 DEF AudioGood, Orders, Fills, bufferVars
<1>8. Sleepers'
    BY <1>1 DEF Sleepers
<1> QED
    BY <1>1, <1>2, <1>3, <1>5, <1>6, <1>7, <1>8

LEMMA PushBeginsKeepsInv ==
    ASSUME AudioAssumption, AudioGood, NEW c \in Players, PushBegins(c) PROVE AudioGood'
<1>1. /\ output[c].at = "spin" /\ ~ Full
      /\ output' = [output EXCEPT ![c].at = "write", ![c].tail = tail]
      /\ UNCHANGED <<backend, draining, bufferVars, ringVars, blocks, opens, submitted, played, outputs_crossed, raced>>
    BY DEF PushBegins
<1>2. output' = [output EXCEPT ![c] = [output[c] EXCEPT !.at = "write", !.tail = tail]]
    BY <1>1 DEF AudioGood, AudioShapes
<1>3. /\ output'[c] = [output[c] EXCEPT !.at = "write", !.tail = tail]
      /\ output' = [d \in Players |-> output'[d]]
      /\ \A d \in Players : d # c => output'[d] = output[d]
    BY <1>2, OutputMoves DEF AudioGood
<1>4. output'[c] = [at |-> "write", buf |-> output[c].buf, block |-> output[c].block, tail |-> tail] /\ output[c].block \in Nat
    <2>1. PICK e : e = [output[c] EXCEPT !.at = "write"]
        OBVIOUS
    <2>2. /\ output[c] = [at |-> output[c].at, buf |-> output[c].buf, block |-> output[c].block, tail |-> output[c].tail]
          /\ output[c].block \in Nat
        BY CallKnown DEF AudioGood
    <2>3. e = [at |-> "write", buf |-> output[c].buf, block |-> output[c].block, tail |-> output[c].tail]
        BY <2>1, <2>2
    <2>4. [e EXCEPT !.tail = tail] = [at |-> "write", buf |-> output[c].buf, block |-> output[c].block, tail |-> tail]
        BY <2>3
    <2> QED
        BY <1>3, <2>1, <2>2, <2>4
<1>5. output'[c].at = "write" /\ output'[c].tail = tail
    BY <1>4
<1>6. AudioShapes'
    <2>1. OutputShape(output'[c])
        BY <1>4 DEF AudioGood, AudioShapes, OutputShape, RingCalls
    <2>2. \A d \in Players : OutputShape(output'[d])
        BY <1>3, <2>1 DEF AudioGood, AudioShapes
    <2> QED
        BY <1>1, <1>3, <2>2 DEF AudioGood, AudioShapes, bufferVars, ringVars
<1>7. /\ backend = "wasapi" /\ c \in Active /\ Phases' /\ Places' /\ Counts' /\ Fills' /\ Sleepers'
      /\ Active' \subseteq Active
    BY <1>1, <1>3, <1>5, <1>6, RingStep DEF RingCalls
<1>8. Orders'
    <2>1. Count' = Count /\ (InRing => InRing') /\ (Begins(played, submitted) => Begins(played, submitted)')
        BY <1>1 DEF Begins, InRing, Slot, Count, ringVars
    <2>2. Count < kMaxBuffersInFlight - 1
        BY <1>1, FullRing DEF AudioGood
    <2>3. Pushes => Pushes'
        BY <1>1, <1>3, <1>5, <1>7, <2>1, <2>2 DEF Pushes, ringVars
    <2> QED
        BY <1>1, <1>7, <2>1, <2>3 DEF AudioGood, Orders, Ports2
<1> QED
    BY <1>6, <1>7, <1>8 DEF AudioGood

LEMMA PushWritesKeepsInv ==
    ASSUME AudioAssumption, AudioGood, NEW c \in Players, PushWrites(c) PROVE AudioGood'
<1>1. /\ output[c].at = "write" /\ ring' = [ring EXCEPT ![output[c].tail] = output[c].block]
      /\ output' = [output EXCEPT ![c] = [output[c] EXCEPT !.at = "store"]]
      /\ UNCHANGED <<backend, draining, bufferVars, head, tail, blocks, opens, submitted, played, outputs_crossed, raced>>
    BY DEF PushWrites
<1>2. output'[c] = [output[c] EXCEPT !.at = "store"] /\ output' = [d \in Players |-> output'[d]]
      /\ \A d \in Players : d # c => output'[d] = output[d]
    BY <1>1, OutputMoves DEF AudioGood
<1>3. /\ output[c] = [at |-> output[c].at, buf |-> output[c].buf, block |-> output[c].block, tail |-> output[c].tail]
      /\ output[c].block \in Nat /\ output[c].tail \in Numbers
    BY CallKnown DEF AudioGood
<1>4. output'[c] = [at |-> "store", buf |-> output[c].buf, block |-> output[c].block, tail |-> output[c].tail]
    BY <1>2, <1>3
<1>5. output'[c].at = "store" /\ output'[c].tail = output[c].tail /\ output'[c].block = output[c].block
    BY <1>4
<1>6. /\ ring' = [i \in Numbers |-> ring'[i]] /\ ring'[output[c].tail] = output[c].block
      /\ \A i \in Numbers : i # output[c].tail => ring'[i] = ring[i]
    BY <1>1, <1>3 DEF AudioGood, AudioShapes
<1>7. AudioShapes'
    <2>1. OutputShape(output'[c])
        BY <1>3, <1>4 DEF OutputShape, RingCalls
    <2>2. \A d \in Players : OutputShape(output'[d])
        BY <1>2, <2>1 DEF AudioGood, AudioShapes
    <2>3. \A i \in Numbers : ring'[i] \in Nat
        BY <1>3, <1>6 DEF AudioGood, AudioShapes
    <2> QED
        BY <1>1, <1>2, <1>6, <2>2, <2>3 DEF AudioGood, AudioShapes, bufferVars
<1>8. /\ backend = "wasapi" /\ c \in Active /\ Phases' /\ Places' /\ Counts' /\ Fills' /\ Sleepers'
      /\ Active' \subseteq Active
    BY <1>1, <1>2, <1>5, <1>7, RingStep DEF RingCalls
<1>9. Orders'
    <2>1. Count' = Count /\ (Begins(played, submitted) => Begins(played, submitted)')
        BY <1>1 DEF Begins, Count
    <2>2. Pushes => Pushes' /\ output[c].tail = tail
        <3> SUFFICES ASSUME Pushes PROVE Pushes' /\ output[c].tail = tail
            OBVIOUS
        <3>1. output[c].tail = tail /\ Count < kMaxBuffersInFlight - 1
            BY <1>1 DEF Pushes
        <3>2. \A d \in Players : d # c => output'[d].at = "idle"
            <4>1. \A d \in Players : d # c => d \notin Active
                BY <1>8 DEF Pushes
            <4>2. \A d \in Players : d \notin Active => output[d].at = "idle"
                BY CallKnown DEF AudioGood
            <4> QED
                BY <1>2, <4>1, <4>2
        <3>3. ring'[tail'] = output'[c].block /\ output'[c].tail = tail' /\ Count' < kMaxBuffersInFlight - 1
            BY <1>1, <1>5, <1>6, <2>1, <3>1
        <3> QED
            BY <1>8, <3>1, <3>2, <3>3 DEF Pushes
    <2>3. Pushes /\ InRing => InRing'
        <3> SUFFICES ASSUME Pushes, InRing PROVE InRing'
            OBVIOUS
        <3>1. \A i \in 0 .. Count - 1 : ring'[Slot(i)] = ring[Slot(i)]
            BY <1>6, <2>2, FullRing DEF AudioGood
        <3>2. \A i : Slot(i)' = Slot(i)
            BY <1>1 DEF Slot
        <3> QED
            BY <1>1, <2>1, <3>1, <3>2 DEF InRing, Begins
    <2> QED
        BY <1>1, <1>8, <2>1, <2>2, <2>3 DEF AudioGood, Orders, Ports2
<1> QED
    BY <1>7, <1>8, <1>9 DEF AudioGood

LEMMA PushStoresKeepsInv ==
    ASSUME AudioAssumption, AudioGood, NEW c \in Players, PushStores(c) PROVE AudioGood'
<1>1. /\ output[c].at = "store" /\ tail' = AfterSlot(output[c].tail) /\ submitted' = Append(submitted, output[c].block)
      /\ output' = [output EXCEPT ![c] = NoOutput]
      /\ UNCHANGED <<backend, draining, bufferVars, ring, head, blocks, opens, played, outputs_crossed, raced>>
    BY DEF PushStores
<1>2. output'[c] = NoOutput /\ output' = [d \in Players |-> output'[d]] /\ \A d \in Players : d # c => output'[d] = output[d]
    BY <1>1, OutputMoves DEF AudioGood
<1>3. output[c].block \in Nat /\ output[c].tail \in Numbers /\ output'[c].at = "idle"
    <2>1. NoOutput.at = "idle"
        BY DEF NoOutput
    <2> QED
        BY <1>2, <2>1, CallKnown DEF AudioGood
<1>4. /\ submitted' \in Seq(Nat) /\ Len(submitted) \in Nat /\ Len(submitted') = Len(submitted) + 1
      /\ \A i \in 1 .. Len(submitted) : submitted'[i] = submitted[i]
      /\ submitted'[Len(submitted) + 1] = output[c].block
    BY <1>1, <1>3, AppendHolds DEF AudioGood, AudioShapes
<1>5. tail' \in Numbers /\ tail' = IF output[c].tail + 1 < kMaxBuffersInFlight THEN output[c].tail + 1 ELSE 0
    BY <1>1, <1>3, NextSlot
<1>6. AudioShapes'
    <2>1. \A d \in Players : OutputShape(output'[d])
        BY <1>2, IdleShape DEF AudioGood, AudioShapes
    <2> QED
        BY <1>1, <1>2, <1>4, <1>5, <2>1 DEF AudioGood, AudioShapes, bufferVars
<1>7. /\ backend = "wasapi" /\ c \in Active /\ Phases' /\ Places' /\ Counts' /\ Fills' /\ Sleepers'
      /\ Active' \subseteq Active
    BY <1>1, <1>2, <1>3, <1>6, RingStep DEF RingCalls
<1>8. Orders'
    <2>1. backend \notin Ports2 /\ (outputs_crossed \/ (Pushes /\ InRing))
        BY <1>7 DEF AudioGood, Orders, Ports2
    <2>2. ASSUME Pushes, InRing PROVE Pushes' /\ InRing'
        <3>1. \A d \in Players : d # c => output[d].at = "idle"
            BY <1>7, <2>2, CallKnown DEF AudioGood, Pushes
        <3>2. Pushes'
            <4>1. \A d \in Players : output'[d].at \notin {"write", "store"}
                BY <1>2, <1>3, <3>1
            <4> QED
                BY <1>7, <2>2, <4>1 DEF Pushes
        <3>3. output[c].tail = tail /\ Count < kMaxBuffersInFlight - 1 /\ ring[tail] = output[c].block
            BY <1>1, <2>2 DEF Pushes
        <3>4. /\ kMaxBuffersInFlight \in Nat \ {0} /\ head \in Nat /\ tail \in Nat
              /\ head < kMaxBuffersInFlight /\ tail < kMaxBuffersInFlight
            BY DEF AudioAssumption, AudioGood, AudioShapes, Numbers
        <3>5. Count' = Count + 1 /\ Count \in Nat
            <4>1. Count' = IF head <= tail' THEN tail' - head ELSE tail' - head + kMaxBuffersInFlight
                BY <1>1 DEF Count
            <4> QED
                BY <1>5, <3>3, <3>4, <4>1 DEF Count
        <3>6. Slot(Count) = tail
            BY FullRing DEF AudioGood
        <3>7. \A i : Slot(i)' = Slot(i)
            BY <1>1 DEF Slot
        <3>8. /\ Len(played) \in Nat /\ Len(played) <= Len(submitted) /\ Len(submitted) = Len(played) + Count
              /\ \A i \in 1 .. Len(played) : played[i] = submitted[i]
              /\ \A i \in 0 .. Count - 1 : ring[Slot(i)] = submitted[Len(played) + 1 + i]
            BY <2>2, EmptyHolds DEF AudioGood, AudioShapes, InRing, Begins
        <3>9. Begins(played, submitted')
            BY <1>4, <3>8 DEF Begins
        <3>10. Len(submitted') = Len(played) + Count'
            BY <1>4, <3>5, <3>8
        <3>11. ASSUME NEW i \in 0 .. Count' - 1 PROVE ring[Slot(i)] = submitted'[Len(played) + 1 + i]
            <4>1. CASE i \in 0 .. Count - 1
                <5>1. Len(played) + 1 + i \in 1 .. Len(submitted)
                    BY <3>5, <3>8, <4>1
                <5> QED
                    BY <1>4, <3>8, <4>1, <5>1
            <4>2. CASE i = Count
                <5>1. Len(played) + 1 + i = Len(submitted) + 1
                    BY <3>5, <3>8, <4>2
                <5>2. submitted'[Len(played) + 1 + i] = output[c].block
                    BY <1>4, <5>1
                <5> QED
                    BY <3>3, <3>6, <4>2, <5>2
            <4> QED
                BY <3>5, <4>1, <4>2
        <3> QED
            BY <1>1, <3>2, <3>7, <3>9, <3>10, <3>11 DEF InRing
    <2> QED
        BY <1>1, <1>7, <2>1, <2>2 DEF Orders, InRing
<1> QED
    BY <1>6, <1>7, <1>8 DEF AudioGood

LEMMA PopKeepsInv ==
    ASSUME AudioAssumption, AudioGood, Pop PROVE AudioGood'
<1>1. /\ backend = "wasapi" /\ head # tail /\ played' = Append(played, ring[head]) /\ head' = AfterSlot(head)
      /\ UNCHANGED <<backend, draining, bufferVars, ring, tail, output, blocks, opens, submitted, outputs_crossed, raced>>
    BY DEF Pop
<1>2. head \in Numbers /\ ring[head] \in Nat
    BY DEF AudioGood, AudioShapes
<1>3. /\ played' \in Seq(Nat) /\ Len(played) \in Nat /\ Len(played') = Len(played) + 1
      /\ \A i \in 1 .. Len(played) : played'[i] = played[i]
      /\ played'[Len(played) + 1] = ring[head]
    BY <1>1, <1>2, AppendHolds DEF AudioGood, AudioShapes
<1>4. head' \in Numbers /\ head' = IF head + 1 < kMaxBuffersInFlight THEN head + 1 ELSE 0
    BY <1>1, <1>2, NextSlot
<1>5. AudioShapes'
    BY <1>1, <1>3, <1>4 DEF AudioGood, AudioShapes, bufferVars
<1>6. Filling' = Filling /\ Active' = Active
    BY <1>1 DEF Filling, Active
<1>7. Phases'
    BY <1>1, <1>6 DEF AudioGood, Phases, Ports2, bufferVars
<1>8. Places' /\ Counts'
    BY <1>1, <1>6, PlacesStay DEF bufferVars
<1>9. Orders'
    <2>1. backend \notin Ports2 /\ Fills' /\ (outputs_crossed \/ (Pushes /\ InRing))
        BY <1>1, <1>6 DEF AudioGood, Orders, Fills, Ports2, bufferVars
    <2>2. ASSUME Pushes, InRing PROVE Pushes' /\ InRing'
        <3>1. /\ kMaxBuffersInFlight \in Nat \ {0} /\ head \in Nat /\ tail \in Nat
              /\ head < kMaxBuffersInFlight /\ tail < kMaxBuffersInFlight
            BY DEF AudioAssumption, AudioGood, AudioShapes, Numbers
        <3>2. Count' = Count - 1 /\ Count \in Nat \ {0}
            <4>1. Count' = IF head' <= tail THEN tail - head' ELSE tail - head' + kMaxBuffersInFlight
                BY <1>1 DEF Count
            <4> QED
                BY <1>1, <1>4, <3>1, <4>1 DEF Count
        <3>3. \A i \in 0 .. Count - 2 : Slot(i)' = Slot(i + 1)
            <4>1. \A i : Slot(i)' = IF head' + i < kMaxBuffersInFlight THEN head' + i ELSE head' + i - kMaxBuffersInFlight
                BY <1>1 DEF Slot
            <4>2. Count <= kMaxBuffersInFlight
                BY <3>1 DEF Count
            <4> QED
                BY <1>4, <3>1, <3>2, <4>1, <4>2 DEF Slot
        <3>4. Slot(0) = head
            BY <3>1 DEF Slot
        <3>5. /\ Len(played) <= Len(submitted) /\ Len(submitted) = Len(played) + Count
              /\ \A i \in 1 .. Len(played) : played[i] = submitted[i]
              /\ \A i \in 0 .. Count - 1 : ring[Slot(i)] = submitted[Len(played) + 1 + i]
            BY <2>2 DEF InRing, Begins
        <3>6. ring[head] = submitted[Len(played) + 1]
            <4>1. 0 \in 0 .. Count - 1 /\ Len(played) + 1 + 0 = Len(played) + 1
                BY <1>3, <3>2
            <4> QED
                BY <3>4, <3>5, <4>1
        <3>7. Len(submitted) = Len(played') + Count' /\ Len(played') <= Len(submitted)
            BY <1>3, <3>2, <3>5
        <3>8. ASSUME NEW i \in 1 .. Len(played') PROVE played'[i] = submitted[i]
            <4>1. i \in 1 .. Len(played) \/ i = Len(played) + 1
                BY <1>3
            <4> QED
                BY <1>3, <3>5, <3>6, <4>1
        <3>9. ASSUME NEW i \in 0 .. Count' - 1 PROVE ring[Slot(i)'] = submitted[Len(played') + 1 + i]
            <4>1. i \in 0 .. Count - 2 /\ i + 1 \in 0 .. Count - 1 /\ Len(played') + 1 + i = Len(played) + 1 + (i + 1)
                BY <1>3, <3>2
            <4> QED
                BY <3>3, <3>5, <4>1
        <3>10. InRing'
            BY <1>1, <3>7, <3>8, <3>9 DEF InRing, Begins
        <3>11. Count' < Count /\ Count' < kMaxBuffersInFlight - 1
            <4>1. Count < kMaxBuffersInFlight
                BY <3>1 DEF Count
            <4> QED
                BY <3>1, <3>2, <4>1
        <3>12. Pushes'
            BY <1>1, <1>6, <2>2, <3>11 DEF Pushes
        <3> QED
            BY <3>10, <3>12
    <2> QED
        BY <1>1, <2>1, <2>2 DEF Orders, InRing
<1>10. Sleepers'
    BY <1>1 DEF Sleepers
<1> QED
    BY <1>5, <1>7, <1>8, <1>9, <1>10 DEF AudioGood

-----------------------------------------------------------------------------
(* Audio ports: open and close. *)

\* A port without buffers, and with nobody inside.
LEMMA NoBuffers ==
    ASSUME AudioAssumption, AudioGood, buffers = {}
    PROVE  /\ free = <<>> /\ device = <<>> /\ Filling = {} /\ in_flight = 0
           /\ Cardinality(Filling) = 0 /\ Cardinality(buffers) = 0
<1>1. free = <<>> /\ device = <<>>
    BY EmptyHolds DEF AudioGood, AudioShapes, Places
<1>2. Filling = {}
    BY DEF AudioGood, Places
<1>3. Cardinality(Filling) = 0 /\ Cardinality(buffers) = 0
    BY <1>2, FS_EmptySet
<1>4. in_flight = 0
    BY <1>1, <1>3, EmptyHolds DEF AudioGood, AudioShapes, Counts
<1> QED
    BY <1>1, <1>2, <1>3, <1>4

\* With nobody inside, nobody fills, pushes or sleeps.
LEMMA NobodyInside ==
    ASSUME AudioShapes, Active = {}
    PROVE  Filling = {} /\ Cardinality(Filling) = 0 /\ \A c \in Players : output[c].at = "idle"
<1>1. \A c \in Players : output[c].at = "idle"
    BY CallKnown
<1>2. Filling = {}
    BY <1>1 DEF Filling
<1> QED
    BY <1>1, <1>2, FS_EmptySet

LEMMA OpenKeepsInv ==
    ASSUME AudioAssumption, AudioGood, NEW b \in {"silent", "wave", "wasapi", "xa2"}, OpenPort(b) PROVE AudioGood'
<1> DEFINE pool == [i \in 1 .. kMaxBuffersInFlight |-> i]
<1>1. /\ backend = "closed" /\ backend' = b /\ submitted' = <<>> /\ played' = <<>>
      /\ b = "xa2" => buffers' = 1 .. kMaxBuffersInFlight /\ free' = free \o pool
      /\ b # "xa2" => buffers' = buffers /\ free' = free
      /\ UNCHANGED <<draining, in_flight, device, data, ringVars, output, blocks, outputs_crossed, raced>>
    BY DEF OpenPort
<1>2. buffers = {} /\ head = tail /\ draining = FALSE
    BY <1>1 DEF AudioGood, AudioShapes, Phases, Ports2
<1>3. /\ free = <<>> /\ device = <<>> /\ Filling = {} /\ in_flight = 0
      /\ Cardinality(Filling) = 0 /\ Cardinality(buffers) = 0
    BY <1>2, NoBuffers
<1>4. Active = {} /\ \A c \in Players : output[c].at = "idle"
    <2>1. \A c \in Players : output[c].at = "idle"
        BY <1>1, CallKnown DEF AudioGood, Phases, Ports2
    <2> QED
        BY <2>1, CallKnown DEF AudioGood, Active
<1>5. kMaxBuffersInFlight \in Nat \ {0}
    BY DEF AudioAssumption
<1>6. pool \in Seq(Ids) /\ Len(pool) = kMaxBuffersInFlight /\ Once(pool)
      /\ \A e : In(pool, e) <=> e \in 1 .. kMaxBuffersInFlight
    <2>1. pool \in Seq(Ids) /\ Len(pool) = kMaxBuffersInFlight
        BY <1>5 DEF Ids
    <2> QED
        BY <2>1 DEF Once, In
<1> HIDE DEF pool
<1>7. b = "xa2" => free' = pool
    <2>1. <<>> \o pool = pool
        BY <1>6, ConcatEmptySeq
    <2> QED
        BY <1>1, <1>3, <2>1
<1>8. IsFiniteSet(buffers') /\ (b = "xa2" => Cardinality(buffers') = kMaxBuffersInFlight)
    <2>1. IsFiniteSet(1 .. kMaxBuffersInFlight) /\ Cardinality(1 .. kMaxBuffersInFlight) = kMaxBuffersInFlight
        BY <1>5, FS_Interval
    <2> QED
        BY <1>1, <1>2, <2>1, FS_EmptySet
<1>9. Filling' = {} /\ Active' = {} /\ Cardinality(Filling') = 0
    BY <1>1, <1>3, <1>4 DEF Filling, Active
<1>10. <<>> \in Seq(Nat) /\ Len(<<>>) = 0
    BY EmptySeq
<1>11. AudioShapes'
    <2>1. buffers' \subseteq Ids /\ free' \in Seq(Ids)
        <3>1. CASE b = "xa2"
            <4>1. 1 .. kMaxBuffersInFlight \subseteq Ids
                BY <1>5 DEF Ids
            <4> QED
                BY <1>1, <1>6, <1>7, <3>1, <4>1
        <3>2. CASE b # "xa2"
            BY <1>1, <3>2 DEF AudioGood, AudioShapes
        <3> QED
            BY <3>1, <3>2
    <2> QED
        BY <1>1, <1>10, <2>1 DEF AudioGood, AudioShapes, ringVars
<1>12. Phases'
    <2>1. draining' = FALSE /\ head' = tail'
        BY <1>1, <1>2 DEF ringVars
    <2>2. \A c \in Players : output'[c].at = "idle"
        BY <1>1, <1>4
    <2>3. backend' \notin Ports2 => buffers' = {}
        BY <1>1, <1>2 DEF Ports2
    <2> QED
        BY <1>1, <1>8, <2>1, <2>2, <2>3 DEF Phases, BufferCalls, RingCalls
<1>13. Places'
    <2>1. \A e : ~ In(device', e)
        BY <1>1, <1>3, <1>10 DEF In
    <2>2. Once(device')
        BY <1>1, <1>3, <1>10 DEF Once
    <2>3. CASE b = "xa2"
        BY <1>1, <1>6, <1>7, <1>9, <2>1, <2>2, <2>3 DEF Places
    <2>4. CASE b # "xa2"
        <3>1. buffers' = {} /\ free' = <<>>
            BY <1>1, <1>2, <1>3, <2>4
        <3>2. Once(free') /\ \A e : ~ In(free', e)
            BY <1>10, <3>1 DEF Once, In
        <3> QED
            BY <1>9, <2>1, <2>2, <3>1, <3>2 DEF Places
    <2> QED
        BY <2>3, <2>4
<1>14. Counts'
    <2>1. Len(device') = 0 /\ in_flight' = 0
        BY <1>1, <1>3, <1>10
    <2>2. Len(free') = Cardinality(buffers') /\ Cardinality(buffers') \in {0, kMaxBuffersInFlight}
        BY <1>1, <1>3, <1>6, <1>7, <1>8, <1>10
    <2> QED
        BY <1>5, <1>9, <2>1, <2>2 DEF Counts
<1>15. Orders'
    <2>1. Begins(played', submitted') /\ Len(submitted') = 0 /\ Len(played') = 0
        BY <1>1, <1>10 DEF Begins
    <2>2. Len(device') = 0
        BY <1>1, <1>3, <1>10
    <2>3. Queued'
        BY <2>1, <2>2 DEF Queued
    <2>4. InRing'
        <3>1. Count' = 0
            BY <1>1, <1>2 DEF Count, ringVars, AudioGood, AudioShapes, Numbers
        <3> QED
            BY <2>1, <3>1 DEF InRing
    <2>5. Pushes' /\ Fills'
        BY <1>1, <1>4, <1>9 DEF Pushes, Fills
    <2> QED
        BY <2>1, <2>3, <2>4, <2>5 DEF Orders
<1>16. Sleepers'
    BY <1>1, <1>4 DEF Sleepers
<1> QED
    BY <1>11, <1>12, <1>13, <1>14, <1>15, <1>16 DEF AudioGood

LEMMA CloseKeepsInv ==
    ASSUME AudioAssumption, AudioGood, Close PROVE raced' = TRUE \/ AudioGood'
<1>1. /\ backend # "closed" /\ draining # TRUE
      /\ raced' = (raced \/ Active # {})
      /\ draining' = (backend = "wave")
      /\ backend' = IF backend = "wave" THEN backend ELSE "closed"
      /\ backend = "wasapi" => head' = 0 /\ tail' = 0
      /\ backend # "wasapi" => head' = head /\ tail' = tail
      /\ backend = "xa2" => buffers' = {} /\ free' = <<>> /\ device' = <<>> /\ in_flight' = 0
      /\ backend # "xa2" => UNCHANGED <<buffers, free, device, in_flight>>
      /\ UNCHANGED <<data, ring, output, blocks, opens, submitted, played, outputs_crossed>>
    BY DEF Close
<1> SUFFICES ASSUME Active = {} PROVE AudioGood'
    BY <1>1
<1>2. Filling = {} /\ Cardinality(Filling) = 0 /\ \A c \in Players : output[c].at = "idle"
    BY NobodyInside DEF AudioGood
<1>3. Filling' = {} /\ Active' = {} /\ Cardinality(Filling') = 0 /\ \A c \in Players : output'[c].at = "idle"
    BY <1>1, <1>2 DEF Filling, Active
<1>4. /\ <<>> \in Seq(Ids) /\ Len(<<>>) = 0 /\ Cardinality({}) = 0 /\ kMaxBuffersInFlight \in Nat \ {0}
    BY EmptySeq, FS_EmptySet DEF AudioAssumption
<1>5. AudioShapes'
    <2>1. head' \in Numbers /\ tail' \in Numbers
        BY <1>1, <1>4 DEF AudioGood, AudioShapes, Numbers
    <2>2. buffers' \subseteq Ids /\ free' \in Seq(Ids) /\ device' \in Seq(Ids) /\ in_flight' \in Nat
        <3>1. CASE backend = "xa2"
            <4>1. buffers' = {} /\ free' = <<>> /\ device' = <<>> /\ in_flight' = 0
                BY <1>1, <3>1
            <4> QED
                BY <1>4, <4>1
        <3>2. CASE backend # "xa2"
            BY <1>1, <3>2 DEF AudioGood, AudioShapes
        <3> QED
            BY <3>1, <3>2
    <2>3. backend' \in {"closed", "silent", "wave", "wasapi", "xa2"} /\ (draining' = TRUE \/ draining' = FALSE)
        BY <1>1
    <2> QED
        BY <1>1, <2>1, <2>2, <2>3 DEF AudioGood, AudioShapes
<1>6. backend' \notin Ports2 => buffers' = {}
    BY <1>1 DEF AudioGood, Phases, Ports2
<1>7. Phases'
    <2>1. head' = tail'
        BY <1>1 DEF AudioGood, Phases
    <2>2. draining' = TRUE => backend' = "wave"
        BY <1>1
    <2>3. backend' # "xa2"
        BY <1>1
    <2> QED
        BY <1>3, <1>6, <2>1, <2>2, <2>3 DEF Phases, BufferCalls, RingCalls
<1>8. Places' /\ Counts'
    <2>1. CASE backend = "xa2"
        <3>1. buffers' = {} /\ free' = <<>> /\ device' = <<>> /\ in_flight' = 0
            BY <1>1, <2>1
        <3>2. Once(free') /\ Once(device') /\ \A e : ~ In(free', e) /\ ~ In(device', e)
            BY <1>4, <3>1 DEF Once, In
        <3>3. Places'
            BY <1>3, <3>1, <3>2 DEF Places
        <3>4. Counts'
            BY <1>3, <1>4, <3>1 DEF Counts
        <3> QED
            BY <3>3, <3>4
    <2>2. CASE backend # "xa2"
        BY <1>1, <1>2, <1>3, <2>2, PlacesStay
    <2> QED
        BY <2>1, <2>2
<1>9. Orders'
    <2>1. Fills' /\ (Pushes => Pushes')
        BY <1>3 DEF Fills, Pushes
    <2>2. backend' \in Ports2 => Queued'
        <3>1. backend' \in Ports2 => backend = "wave"
            BY <1>1 DEF Ports2
        <3>2. backend = "wave" => Queued /\ device' = device
            BY <1>1 DEF AudioGood, Orders, Ports2
        <3> QED
            BY <1>1, <3>1, <3>2 DEF Queued, Begins
    <2>3. backend' # "wasapi"
        BY <1>1
    <2> QED
        BY <1>1, <2>1, <2>2, <2>3 DEF AudioGood, Orders, Begins
<1>10. Sleepers'
    BY <1>3 DEF Sleepers
<1> QED
    BY <1>5, <1>7, <1>8, <1>9, <1>10 DEF AudioGood

LEMMA CloseDrainedKeepsInv ==
    ASSUME AudioAssumption, AudioGood, CloseDrained PROVE raced' = TRUE \/ AudioGood'
<1>1. /\ draining = TRUE /\ draining' = FALSE /\ backend' = "closed"
      /\ buffers' = buffers \ ToSet(free) /\ free' = <<>> /\ in_flight' = 0
      /\ raced' = (raced \/ in_flight # 0)
      /\ UNCHANGED <<device, data, ringVars, output, blocks, opens, submitted, played, outputs_crossed>>
    BY DEF CloseDrained, AudioGood, AudioShapes
<1> SUFFICES ASSUME in_flight = 0 PROVE AudioGood'
    BY <1>1
<1>2. backend = "wave" /\ Active = {}
    BY <1>1 DEF AudioGood, Phases
<1>3. Filling = {} /\ Cardinality(Filling) = 0 /\ \A c \in Players : output[c].at = "idle"
    BY <1>2, NobodyInside DEF AudioGood
<1>4. Filling' = {} /\ Active' = {} /\ Cardinality(Filling') = 0 /\ \A c \in Players : output'[c].at = "idle"
    BY <1>1, <1>2, <1>3 DEF Filling, Active
<1>5. device = <<>>
    <2>1. Len(device) \in Nat /\ (device = <<>> <=> Len(device) = 0)
        BY EmptyHolds DEF AudioGood, AudioShapes
    <2> QED
        BY <1>3, <2>1 DEF AudioGood, Counts
<1>6. buffers' = {}
    <2>1. \A e : ~ In(device, e)
        BY <1>5, EmptyHolds DEF AudioGood, AudioShapes
    <2>2. ToSet(free) = { e \in Ids : In(free, e) }
        <3>1. DOMAIN free = 1 .. Len(free) /\ \A i \in 1 .. Len(free) : free[i] \in Ids
            BY LenProperties, ElementOfSeq DEF AudioGood, AudioShapes
        <3> QED
            BY <3>1 DEF ToSet, In
    <2>3. buffers \subseteq { e \in Ids : In(free, e) }
        BY <1>3, <2>1 DEF AudioGood, Places, AudioShapes
    <2> QED
        BY <1>1, <2>2, <2>3
<1>7. /\ <<>> \in Seq(Ids) /\ Len(<<>>) = 0 /\ Cardinality({}) = 0 /\ kMaxBuffersInFlight \in Nat \ {0}
    BY EmptySeq, FS_EmptySet DEF AudioAssumption
<1>8. AudioShapes'
    BY <1>1, <1>6, <1>7 DEF AudioGood, AudioShapes, ringVars
<1>9. Phases'
    <2>1. head' = tail'
        BY <1>1, <1>2 DEF AudioGood, Phases, ringVars
    <2> QED
        BY <1>1, <1>4, <1>6, <2>1 DEF Phases, BufferCalls, RingCalls
<1>10. Places' /\ Counts'
    <2>1. Once(free') /\ Once(device') /\ \A e : ~ In(free', e) /\ ~ In(device', e)
        BY <1>1, <1>5, <1>7 DEF Once, In
    <2>2. Places'
        BY <1>4, <1>6, <2>1 DEF Places
    <2>3. Len(device') = 0 /\ Len(free') = 0
        BY <1>1, <1>5, <1>7
    <2>4. Counts'
        <3>1. Cardinality(buffers') = 0
            BY <1>6, <1>7
        <3> QED
            BY <1>1, <1>4, <1>7, <2>3, <3>1 DEF Counts
    <2> QED
        BY <2>2, <2>4
<1>11. Orders'
    <2>1. Fills' /\ (Pushes => Pushes')
        BY <1>4 DEF Fills, Pushes
    <2>2. backend' # "wasapi" /\ backend' \notin Ports2
        BY <1>1 DEF Ports2
    <2> QED
        BY <1>1, <2>1, <2>2 DEF AudioGood, Orders, Begins
<1>12. Sleepers'
    BY <1>4 DEF Sleepers
<1> QED
    BY <1>8, <1>9, <1>10, <1>11, <1>12 DEF AudioGood

-----------------------------------------------------------------------------
(* Audio ports: all steps. *)

LEMMA AudioInitInv == AudioAssumption /\ AudioInit => AudioInv
<1> SUFFICES ASSUME AudioAssumption, AudioInit PROVE AudioGood
    BY DEF AudioInv
<1>1. /\ backend = "closed" /\ draining = FALSE /\ buffers = {} /\ free = <<>> /\ in_flight = 0 /\ device = <<>>
      /\ data = [b \in Ids |-> 0] /\ ring = [i \in Numbers |-> 0] /\ head = 0 /\ tail = 0
      /\ output = [c \in Players |-> NoOutput] /\ blocks = 0 /\ submitted = <<>> /\ played = <<>>
    BY DEF AudioInit, Numbers
<1>2. kMaxBuffersInFlight \in Nat \ {0} /\ 0 \in Numbers
    BY DEF AudioAssumption, Numbers
<1>3. \A c \in Players : output[c] = NoOutput /\ output[c].at = "idle" /\ OutputShape(output[c])
    BY <1>1, IdleShape DEF NoOutput
<1>4. AudioShapes
    <2>1. \A S : <<>> \in Seq(S)
        BY EmptySeq
    <2> QED
        BY <1>1, <1>2, <1>3, <2>1 DEF AudioShapes
<1>5. Active = {} /\ Filling = {} /\ Cardinality({}) = 0
    BY <1>3, FS_EmptySet DEF Active, Filling
<1>6. Phases
    BY <1>1, <1>3 DEF Phases, Ports2, BufferCalls, RingCalls
<1>7. Places
    BY <1>1, <1>5 DEF Places, Once, In
<1>8. Counts
    BY <1>1, <1>2, <1>5 DEF Counts
<1>9. Orders
    <2>1. Begins(played, submitted)
        BY <1>1 DEF Begins
    <2>2. Pushes
        BY <1>3, <1>5 DEF Pushes
    <2> QED
        BY <1>1, <1>5, <2>1, <2>2 DEF Orders, Fills, Ports2
<1>10. Sleepers
    BY <1>1 DEF Sleepers
<1> QED
    BY <1>4, <1>6, <1>7, <1>8, <1>9, <1>10 DEF AudioGood

LEMMA AudioStays == AudioGood /\ UNCHANGED audioVars => AudioGood'
<1> SUFFICES ASSUME AudioGood, UNCHANGED audioVars PROVE AudioGood'
    OBVIOUS
<1>1. UNCHANGED <<backend, draining, buffers, free, in_flight, device, data, ring, head, tail, output, blocks, submitted, played, outputs_crossed>>
    BY DEF audioVars, bufferVars, ringVars
<1>2. Active' = Active /\ Filling' = Filling /\ Count' = Count /\ \A i : Slot(i)' = Slot(i)
    BY <1>1 DEF Active, Filling, Count, Slot
<1>3. AudioShapes' /\ Sleepers'
    BY <1>1 DEF AudioGood, AudioShapes, Sleepers
<1>4. Phases' /\ Places' /\ Counts'
    BY <1>1, <1>2 DEF AudioGood, Phases, Places, Counts
<1>5. Fills' /\ (Queued => Queued') /\ (InRing => InRing') /\ (Pushes => Pushes')
    BY <1>1, <1>2 DEF AudioGood, Orders, Fills, Queued, InRing, Pushes
<1>6. Orders'
    BY <1>1, <1>5 DEF AudioGood, Orders
<1> QED
    BY <1>3, <1>4, <1>6 DEF AudioGood

LEMMA AudioStepKeepsInv == AudioAssumption /\ AudioInv /\ [AudioNext]_audioVars => AudioInv'
<1> SUFFICES ASSUME AudioAssumption, AudioInv, [AudioNext]_audioVars PROVE AudioInv'
    OBVIOUS
<1>1. CASE raced = TRUE
    <2>1. raced' = raced \/ raced' = (raced \/ Active # {}) \/ raced' = (raced \/ in_flight # 0)
        <3>1. CASE UNCHANGED audioVars
            BY <3>1 DEF audioVars
        <3>2. CASE AudioNext
            BY <3>2, Zenon
               DEF AudioNext, OpenPort, Output, TakeFree, TakeNew, Sleep, Submit, SubmitFails, PrepareFails,
                   PushBegins, PushWrites, PushStores, BufferEnd, Pop, Close, CloseDrained
        <3> QED
            BY <3>1, <3>2
    <2> QED
        BY <1>1, <2>1 DEF AudioInv
<1>2. CASE AudioGood
    <2>1. CASE UNCHANGED audioVars
        BY <1>2, <2>1, AudioStays DEF AudioInv
    <2>2. ASSUME NEW b \in {"silent", "wave", "wasapi", "xa2"}, OpenPort(b) PROVE AudioGood'
        BY <1>2, <2>2, OpenKeepsInv
    <2>3. ASSUME NEW c \in Players, Output(c) \/ TakeFree(c) \/ TakeNew(c) \/ Sleep(c) PROVE AudioGood'
        BY <1>2, <2>3, OutputKeepsInv, TakeFreeKeepsInv, TakeNewKeepsInv, SleepKeepsInv
    <2>4. ASSUME NEW c \in Players, Submit(c) \/ SubmitFails(c) \/ PrepareFails(c) PROVE AudioGood'
        BY <1>2, <2>4, SubmitKeepsInv, SubmitFailsKeepsInv, PrepareFailsKeepsInv
    <2>5. ASSUME NEW c \in Players, PushBegins(c) \/ PushWrites(c) \/ PushStores(c) PROVE AudioGood'
        BY <1>2, <2>5, PushBeginsKeepsInv, PushWritesKeepsInv, PushStoresKeepsInv
    <2>6. BufferEnd \/ Pop => AudioGood'
        BY <1>2, BufferEndKeepsInv, PopKeepsInv
    <2>7. Close \/ CloseDrained => raced' = TRUE \/ AudioGood'
        BY <1>2, CloseKeepsInv, CloseDrainedKeepsInv
    <2> QED
        BY <2>1, <2>2, <2>3, <2>4, <2>5, <2>6, <2>7, Zenon DEF AudioNext, AudioInv
<1> QED
    BY <1>1, <1>2 DEF AudioInv

-----------------------------------------------------------------------------
(* Audio ports: what the invariant says. *)

\* Free buffers and those at the host, as one sequence.
LEMMA FreeAndQueued ==
    ASSUME AudioGood
    PROVE  /\ IsInjective(free \o device)
           /\ \A b : b \in ToSet(free \o device) <=> In(free, b) \/ In(device, b)
<1> DEFINE m == Len(free)
           n == Len(device)
           s == free \o device
<1>1. /\ m \in Nat /\ n \in Nat /\ DOMAIN s = 1 .. m + n
      /\ \A i \in 1 .. m + n : s[i] = IF i <= m THEN free[i] ELSE device[i - m]
    <2>1. /\ s \in Seq(Ids) /\ Len(s) = m + n
          /\ \A i \in 1 .. m + n : s[i] = IF i <= m THEN free[i] ELSE device[i - m]
        BY ConcatProperties DEF AudioGood, AudioShapes
    <2>2. DOMAIN s = 1 .. Len(s)
        BY <2>1, LenProperties
    <2> QED
        BY <2>1, <2>2, LenProperties DEF AudioGood, AudioShapes
<1> HIDE DEF s
<1>2. /\ \A i, j \in 1 .. m : free[i] = free[j] => i = j
      /\ \A i, j \in 1 .. n : device[i] = device[j] => i = j
      /\ \A i \in 1 .. m, j \in 1 .. n : free[i] # device[j]
    BY DEF AudioGood, Places, Once, In
<1> HIDE DEF m, n
<1>3. \A i \in 1 .. m + n : IF i <= m THEN i \in 1 .. m /\ s[i] = free[i] ELSE i - m \in 1 .. n /\ s[i] = device[i - m]
    BY <1>1
<1>4. IsInjective(s)
    <2> SUFFICES ASSUME NEW i \in 1 .. m + n, NEW j \in 1 .. m + n, s[i] = s[j] PROVE i = j
        BY <1>1 DEF IsInjective
    <2>1. CASE i <= m /\ j <= m
        BY <1>2, <1>3, <2>1
    <2>2. CASE ~ (i <= m) /\ ~ (j <= m)
        <3>1. i - m = j - m
            BY <1>2, <1>3, <2>2
        <3> QED
            BY <1>1, <3>1
    <2>3. (i <= m <=> j <= m)
        BY <1>2, <1>3
    <2> QED
        BY <2>1, <2>2, <2>3
<1>5. \A b : b \in ToSet(s) <=> (\E i \in 1 .. m : free[i] = b) \/ (\E i \in 1 .. n : device[i] = b)
    <2>1. ASSUME NEW i \in 1 .. m PROVE i \in 1 .. m + n /\ s[i] = free[i]
        BY <1>1
    <2>2. ASSUME NEW i \in 1 .. n PROVE m + i \in 1 .. m + n /\ s[m + i] = device[i]
        BY <1>1
    <2>3. \A b : b \in ToSet(s) <=> \E i \in 1 .. m + n : s[i] = b
        BY <1>1 DEF ToSet
    <2>4. \A i \in 1 .. m + n : (\E k \in 1 .. m : s[i] = free[k]) \/ (\E k \in 1 .. n : s[i] = device[k])
        BY <1>3
    <2>5. ASSUME NEW b, b \in ToSet(s) PROVE (\E i \in 1 .. m : free[i] = b) \/ (\E i \in 1 .. n : device[i] = b)
        <3>1. PICK i \in 1 .. m + n : s[i] = b
            BY <2>3, <2>5
        <3> QED
            BY <2>4, <3>1, Zenon
    <2>6. ASSUME NEW b, (\E i \in 1 .. m : free[i] = b) \/ (\E i \in 1 .. n : device[i] = b) PROVE b \in ToSet(s)
        <3>1. \E i \in 1 .. m + n : s[i] = b
            BY <2>1, <2>2, <2>6, Zenon
        <3> QED
            BY <2>3, <3>1, Zenon
    <2> QED
        BY <2>5, <2>6, Zenon
<1> QED
    BY <1>4, <1>5 DEF In, s, m, n

LEMMA AudioInvAccounts == AudioAssumption /\ AudioInv => BuffersAreAccounted
<1> SUFFICES ASSUME AudioAssumption, AudioGood PROVE
        /\ IsInjective(free \o device)
        /\ ToSet(free \o device) \cap { output[c].buf : c \in Filling } = {}
        /\ ToSet(free \o device) \cup { output[c].buf : c \in Filling } = buffers
        /\ Len(free) + Len(device) + Cardinality(Filling) = Cardinality(buffers)
        /\ in_flight = Len(device) + Cardinality(Filling)
        /\ Cardinality(buffers) <= kMaxBuffersInFlight
        /\ backend = "closed" => buffers = {} /\ head = tail
    BY DEF AudioInv, BuffersAreAccounted
<1> DEFINE s == ToSet(free \o device)
<1>1. IsInjective(free \o device) /\ \A b : b \in s <=> In(free, b) \/ In(device, b)
    BY FreeAndQueued
<1> HIDE DEF s
<1>2. s \cap { output[c].buf : c \in Filling } = {} /\ s \cup { output[c].buf : c \in Filling } = buffers
    BY <1>1 DEF AudioGood, Places
<1>3. backend = "closed" => buffers = {} /\ head = tail
    BY DEF AudioGood, Phases, Ports2
<1> QED
    BY <1>1, <1>2, <1>3 DEF AudioGood, Counts, s

LEMMA AudioInvPlays == AudioAssumption /\ AudioInv => PlayedAsSubmitted
<1> SUFFICES ASSUME AudioAssumption, AudioGood PROVE
        /\ ~ outputs_crossed =>
             /\ IsPrefix(played, submitted)
             /\ backend \in {"wave", "wasapi", "xa2"} /\ Active = {} /\ device = <<>> /\ head = tail
                   => played = submitted
        /\ backend \in {"wave", "xa2"} => IsPrefix(played, submitted)
    BY DEF AudioInv, PlayedAsSubmitted
<1>1. /\ Begins(played, submitted) => IsPrefix(played, submitted)
      /\ Begins(played, submitted) /\ Len(played) = Len(submitted) => played = submitted
    BY PrefixBegins DEF AudioGood, AudioShapes
<1>2. backend \in {"wave", "xa2"} => Begins(played, submitted) /\ (device = <<>> => Len(played) = Len(submitted))
    <2>1. Len(played) \in Nat /\ (device = <<>> => Len(device) = 0)
        BY EmptyHolds DEF AudioGood, AudioShapes
    <2> QED
        BY <2>1 DEF AudioGood, Orders, Queued, Ports2
<1>3. ~ outputs_crossed /\ backend = "wasapi" => Begins(played, submitted) /\ (head = tail => Len(played) = Len(submitted))
    <2>1. Len(played) \in Nat /\ (head = tail => Count = 0)
        BY EmptyHolds, FullRing DEF AudioGood, AudioShapes
    <2> QED
        BY <2>1 DEF AudioGood, Orders, InRing
<1>4. ~ outputs_crossed => Begins(played, submitted)
    BY DEF AudioGood, Orders
<1> QED
    BY <1>1, <1>2, <1>3, <1>4

LEMMA AudioInvWakes == AudioAssumption /\ AudioInv => SleeperIsWoken
<1> SUFFICES ASSUME AudioAssumption, AudioGood, Cardinality(Players) <= kMaxBuffersInFlight,
                    NEW c \in Players, output[c].at = "asleep"
             PROVE  device # <<>> \/ Filling # {}
    BY DEF AudioInv, SleeperIsWoken
<1>1. backend \in Ports2
    BY DEF AudioGood, Phases, BufferCalls
<1>2. (backend = "wave" => device # <<>>) /\ (backend = "xa2" => in_flight # 0)
    BY DEF AudioGood, Sleepers
<1>3. Filling = {} => Cardinality(Filling) = 0
    BY FS_EmptySet
<1>4. device = <<>> => Len(device) = 0
    BY EmptyHolds DEF AudioGood, AudioShapes
<1>5. in_flight = Len(device) + Cardinality(Filling)
    BY DEF AudioGood, Counts
<1>6. device = <<>> /\ Filling = {} => in_flight = 0
    BY <1>3, <1>4, <1>5
<1> QED
    BY <1>1, <1>2, <1>6 DEF Ports2

-----------------------------------------------------------------------------
(* The preview player. *)

\* A wav is empty or that of its track.
WavOf(f, w) ==
    w # <<>> =>
        /\ f \in Tracks /\ w[1].of = f
        /\ File[f].ext # "at9" => w[1].pcm = [i \in 1 .. File[f].samples |-> i]
        /\ File[f].ext = "at9" /\ File[f].delay <= File[f].superframe =>
              w[1].pcm = [i \in 1 .. File[f].samples - File[f].delay |-> i + File[f].delay]

\* The worker's request is of a track, its wav and the cached one are of their paths.
SoundShapes ==
    /\ requested_path_ \in Tracks \cup {NoTrack}
    /\ ui = [at |-> ui.at, path |-> ui.path] /\ (ui.at = "play" => ui.path \in Tracks)
    /\ worker = [at |-> worker.at, path |-> worker.path, my_gen |-> worker.my_gen, wav |-> worker.wav]
    /\ worker.at # "wait" => worker.path \in Tracks
    /\ WavOf(worker.path, worker.wav)
    /\ WavOf(cached_path_, cached_wav_)

SoundInv == SoundShapes /\ OneEngine

LEMMA WaitingIs ==
    /\ Waiting.at = "wait" /\ WavOf(Waiting.path, Waiting.wav)
    /\ Waiting = [at |-> Waiting.at, path |-> Waiting.path, my_gen |-> Waiting.my_gen, wav |-> Waiting.wav]
BY DEF Waiting, WavOf

LEMMA DecodedIsOfItsTrack ==
    ASSUME NEW f \in Tracks PROVE WavOf(f, Decode(f))
<1>1. WavOf(f, <<>>)
    BY DEF WavOf
<1>2. ASSUME File[f].ext # "at9" PROVE WavOf(f, DecodeOggToWav(f))
    <2> DEFINE w == <<[of |-> f, pcm |-> [i \in 1 .. File[f].samples |-> i]]>>
    <2>1. w[1].of = f /\ w[1].pcm = [i \in 1 .. File[f].samples |-> i]
        OBVIOUS
    <2>2. DecodeOggToWav(f) = w \/ DecodeOggToWav(f) = <<>>
        BY DEF DecodeOggToWav
    <2> HIDE DEF w
    <2>3. WavOf(f, w)
        BY <1>2, <2>1 DEF WavOf
    <2> QED
        BY <1>1, <2>2, <2>3
<1>3. ASSUME File[f].ext = "at9" PROVE WavOf(f, DecodeAt9ToWav(f))
    <2> DEFINE delay == File[f].delay
               skipped == IF delay <= File[f].superframe THEN delay ELSE File[f].superframe
               w == <<[of |-> f, pcm |-> [i \in 1 .. File[f].samples - delay |-> i + skipped]]>>
    <2>1. w[1].of = f /\ w[1].pcm = [i \in 1 .. File[f].samples - delay |-> i + skipped]
        OBVIOUS
    <2>2. DecodeAt9ToWav(f) = w \/ DecodeAt9ToWav(f) = <<>>
        BY DEF DecodeAt9ToWav
    <2> HIDE DEF w
    <2>3. WavOf(f, w)
        BY <1>3, <2>1 DEF WavOf
    <2> QED
        BY <1>1, <2>2, <2>3
<1> QED
    BY <1>2, <1>3 DEF Decode

LEMMA SoundInitInv == SoundAssumption /\ SoundInit => SoundInv
<1> SUFFICES ASSUME SoundInit PROVE SoundInv
    OBVIOUS
<1>1. /\ requested_path_ = NoTrack /\ cached_wav_ = <<>> /\ ui = Idle /\ worker = Waiting
      /\ mci_open_ = FALSE /\ playing_ = FALSE /\ paused_ = FALSE /\ loop_active_ = FALSE
      /\ loop_thread_ = "none" /\ wave_out_ = NoTrack
    BY DEF SoundInit
<1>2. ui = [at |-> ui.at, path |-> ui.path] /\ ui.at = "idle"
    BY <1>1 DEF Idle
<1>3. SoundShapes
    BY <1>1, <1>2, WaitingIs DEF SoundShapes, WavOf
<1>4. OneEngine
    BY <1>1 DEF OneEngine
<1> QED
    BY <1>3, <1>4 DEF SoundInv

\* Whatever played before, one engine at most plays after a start or a stop.
LEMMA StoppedIsOneEngine == StopAndForget => OneEngine'
BY DEF StopAndForget, Stopped, OneEngine

LEMMA StartedIsOneEngine ==
    ASSUME SoundAssumption, NEW f \in Tracks, NEW w, WavOf(f, w), StartLocked(f, w) PROVE OneEngine'
<1>1. PICK ok \in BOOLEAN :
        \/ w # <<>> /\ StartWaveOut(w[1], ok)
        \/ w = <<>> /\ File[f].ext = "wav" /\ StartWaveOut([of |-> f, pcm |-> <<>>], ok)
        \/ w = <<>> /\ File[f].ext = "mp3" /\ StartMci(ok)
        \/ /\ w = <<>> /\ File[f].ext \notin {"wav", "mp3"}
           /\ wave_out_' = NoTrack /\ playing_' = FALSE /\ paused_' = FALSE
           /\ UNCHANGED last_started_wav_ /\ Stopped
    BY DEF StartLocked
<1>2. ASSUME NEW r, StartWaveOut(r, ok), r.of # NoTrack PROVE OneEngine'
    BY <1>2 DEF StartWaveOut, Stopped, OneEngine
<1>3. StartMci(ok) => OneEngine'
    BY DEF StartMci, OneEngine
<1>4. wave_out_' = NoTrack /\ playing_' = FALSE /\ paused_' = FALSE /\ Stopped => OneEngine'
    BY DEF Stopped, OneEngine
<1>5. w # <<>> => w[1].of # NoTrack
    BY DEF WavOf, SoundAssumption
<1>6. [of |-> f, pcm |-> <<>>].of # NoTrack
    BY DEF SoundAssumption
<1> QED
    BY <1>1, <1>2, <1>3, <1>4, <1>5, <1>6, Zenon

\* Steps of the UI thread.
LEMMA UiKeepsShapes ==
    ASSUME SoundShapes, UNCHANGED <<requested_path_, cache, worker>>,
           ui' = [at |-> ui'.at, path |-> ui'.path], ui'.at = "play" => ui'.path \in Tracks
    PROVE  SoundShapes'
BY DEF SoundShapes, cache, WavOf

LEMMA UiStepKeepsInv ==
    ASSUME SoundAssumption, SoundInv,
           \/ \E f \in Tracks : Play(f)
           \/ \E on \in BOOLEAN : Stop(on)
           \/ SetEnabled \/ PlayLocked \/ StopLocked \/ StopJoined \/ Pause \/ Resume
    PROVE  SoundInv'
<1> USE DEF SoundInv
<1>1. ASSUME NEW at, NEW path, Call(at, path), at = "play" => path \in Tracks
      PROVE ui' = [at |-> ui'.at, path |-> ui'.path] /\ (ui'.at = "play" => ui'.path \in Tracks)
    <2>1. ui' = [at |-> at, path |-> path]
        BY <1>1 DEF Call
    <2> QED
        BY <1>1, <2>1
<1>2. ASSUME ui' = Idle PROVE ui' = [at |-> ui'.at, path |-> ui'.path] /\ (ui'.at = "play" => ui'.path \in Tracks)
    BY <1>2 DEF Idle
<1>3. ASSUME NEW f \in Tracks, Play(f) PROVE SoundInv'
    <2>1. Call("play", f) /\ UNCHANGED <<request, cache, engine, loop_thread_, joiner, worker>>
        BY <1>3 DEF Play
    <2>2. SoundShapes'
        BY <1>1, <2>1, UiKeepsShapes DEF request
    <2>3. OneEngine'
        BY <2>1 DEF OneEngine, engine
    <2> QED
        BY <2>2, <2>3
<1>4. ASSUME NEW on \in BOOLEAN, Stop(on) PROVE SoundInv'
    <2>1. Call("stop", NoTrack) /\ UNCHANGED <<request, cache, engine, loop_thread_, joiner, worker>>
        BY <1>4 DEF Stop
    <2>2. SoundShapes'
        BY <1>1, <2>1, UiKeepsShapes DEF request
    <2>3. OneEngine'
        BY <2>1 DEF OneEngine, engine
    <2> QED
        BY <2>2, <2>3
<1>5. ASSUME SetEnabled PROVE SoundInv'
    <2>1. Call("idle", NoTrack) /\ UNCHANGED <<request, cache, engine, loop_thread_, joiner, worker>>
        BY <1>5 DEF SetEnabled
    <2>2. SoundShapes'
        BY <1>1, <2>1, UiKeepsShapes DEF request
    <2>3. OneEngine'
        BY <2>1 DEF OneEngine, engine
    <2> QED
        BY <2>2, <2>3
<1>6. ASSUME Pause \/ Resume PROVE SoundInv'
    <2>1. Call("idle", NoTrack) /\ UNCHANGED <<request, cache, worker>>
        BY <1>6 DEF Pause, Resume
    <2>2. SoundShapes'
        BY <1>1, <2>1, UiKeepsShapes DEF request
    <2>3. OneEngine'
        BY <1>6 DEF Pause, Resume, OneEngine, Free
    <2> QED
        BY <2>2, <2>3
<1>7. ASSUME PlayLocked PROVE SoundInv'
    <2>1. /\ ui.at = "play" /\ ui' = Idle
          /\ requested_path_' = requested_path_ \/ requested_path_' = ui.path
          /\ UNCHANGED <<cache, engine, loop_thread_, joiner, worker>>
        BY <1>7 DEF PlayLocked, request
    <2>2. requested_path_' \in Tracks \cup {NoTrack}
        BY <2>1 DEF SoundShapes
    <2>3. SoundShapes'
        BY <1>2, <2>1, <2>2 DEF SoundShapes, cache, WavOf
    <2>4. OneEngine'
        BY <2>1 DEF OneEngine, engine
    <2> QED
        BY <2>3, <2>4
<1>8. ASSUME StopLocked PROVE SoundInv'
    <2>1. ui.at = "stop" /\ requested_path_' = NoTrack /\ worker' = worker
        BY <1>8 DEF StopLocked
    <2>2. CASE loop_active_
        <3>1. joiner' = "ui" /\ ui' = [ui EXCEPT !.at = "join"] /\ UNCHANGED cache
            BY <1>8, <2>2 DEF StopLocked, StopBeforeJoin
        <3>2. ui' = [at |-> "join", path |-> ui.path]
            BY <3>1 DEF SoundShapes
        <3>3. ui' = [at |-> ui'.at, path |-> ui'.path] /\ ui'.at = "join"
            BY <3>2
        <3>4. SoundShapes'
            BY <2>1, <3>1, <3>3 DEF SoundShapes, cache, WavOf
        <3>5. OneEngine'
            BY <3>1 DEF OneEngine
        <3> QED
            BY <3>4, <3>5
    <2>3. CASE ~ loop_active_
        <3>1. StopAndForget /\ ui' = Idle
            BY <1>8, <2>3 DEF StopLocked
        <3>2. cached_wav_' = <<>>
            BY <3>1 DEF StopAndForget
        <3>3. SoundShapes'
            BY <1>2, <2>1, <3>1, <3>2 DEF SoundShapes, WavOf
        <3> QED
            BY <3>1, <3>3, StoppedIsOneEngine
    <2> QED
        BY <2>2, <2>3
<1>9. ASSUME StopJoined PROVE SoundInv'
    <2>1. StopAndForget /\ ui' = Idle /\ UNCHANGED <<request, worker>>
        BY <1>9 DEF StopJoined
    <2>2. cached_wav_' = <<>>
        BY <2>1 DEF StopAndForget
    <2>3. SoundShapes'
        BY <1>2, <2>1, <2>2 DEF SoundShapes, WavOf, request
    <2> QED
        BY <2>1, <2>3, StoppedIsOneEngine
<1> QED
    BY <1>3, <1>4, <1>5, <1>6, <1>7, <1>8, <1>9

\* Steps of the worker.
LEMMA WorkerKeepsShapes ==
    ASSUME SoundShapes, UNCHANGED <<requested_path_, ui>>,
           worker' = [at |-> worker'.at, path |-> worker'.path, my_gen |-> worker'.my_gen, wav |-> worker'.wav],
           worker'.at # "wait" => worker'.path \in Tracks,
           WavOf(worker'.path, worker'.wav), WavOf(cached_path_', cached_wav_')
    PROVE  SoundShapes'
BY DEF SoundShapes, WavOf

LEMMA WorkerStepKeepsInv ==
    ASSUME SoundAssumption, SoundInv,
           Consume \/ Sample \/ Debounce \/ DecodeTrack \/ Start \/ StartJoined
    PROVE  SoundInv'
<1> USE DEF SoundInv
<1>1. /\ worker = [at |-> worker.at, path |-> worker.path, my_gen |-> worker.my_gen, wav |-> worker.wav]
      /\ worker.at # "wait" => worker.path \in Tracks
      /\ WavOf(worker.path, worker.wav) /\ WavOf(cached_path_, cached_wav_)
    BY DEF SoundShapes
<1>2. ASSUME NEW at, NEW path, NEW gen, NEW w, at # "wait" => path \in Tracks, WavOf(path, w),
             worker' = [at |-> at, path |-> path, my_gen |-> gen, wav |-> w],
             UNCHANGED <<requested_path_, ui, cache>>
      PROVE  SoundShapes'
    <2>1. /\ worker'.at = at /\ worker'.path = path /\ worker'.wav = w
          /\ worker' = [at |-> worker'.at, path |-> worker'.path, my_gen |-> worker'.my_gen, wav |-> worker'.wav]
        BY <1>2
    <2>2. cached_path_' = cached_path_ /\ cached_wav_' = cached_wav_ /\ UNCHANGED <<requested_path_, ui>>
        BY <1>2 DEF cache
    <2>3. WavOf(cached_path_', cached_wav_')
        BY <1>1, <2>2
    <2> QED
        BY <1>2, <2>1, <2>2, <2>3, WorkerKeepsShapes
<1>3. ASSUME UNCHANGED <<engine, loop_thread_, joiner>> PROVE OneEngine'
    BY <1>3 DEF OneEngine, engine
<1>4. ASSUME worker' = Waiting, UNCHANGED <<requested_path_, ui>>, WavOf(cached_path_', cached_wav_') PROVE SoundShapes'
    BY <1>4, WaitingIs, WorkerKeepsShapes
<1>5. ASSUME Consume PROVE SoundInv'
    <2> DEFINE at == IF requested_path_ = NoTrack THEN "wait" ELSE "sample"
    <2>1. /\ worker' = [Waiting EXCEPT !.at = at, !.path = requested_path_]
          /\ UNCHANGED <<requested_path_, ui, cache>> /\ UNCHANGED <<engine, loop_thread_, joiner>>
        BY <1>5 DEF Consume, others
    <2>2. worker' = [at |-> at, path |-> requested_path_, my_gen |-> 0, wav |-> <<>>]
        <3>1. PICK e : e = [Waiting EXCEPT !.at = at]
            OBVIOUS
        <3>2. e = [at |-> at, path |-> NoTrack, my_gen |-> 0, wav |-> <<>>]
            BY <3>1 DEF Waiting
        <3>3. [e EXCEPT !.path = requested_path_] = [at |-> at, path |-> requested_path_, my_gen |-> 0, wav |-> <<>>]
            BY <3>2
        <3> QED
            BY <2>1, <3>1, <3>3
    <2>3. at # "wait" => requested_path_ \in Tracks
        BY DEF SoundShapes
    <2>4. WavOf(requested_path_, <<>>)
        BY DEF WavOf
    <2>5. SoundShapes'
        BY <1>2, <2>1, <2>2, <2>3, <2>4
    <2> QED
        BY <1>3, <2>1, <2>5
<1>6. ASSUME Sample PROVE SoundInv'
    <2>1. /\ worker.at = "sample" /\ worker' = [worker EXCEPT !.at = "debounce", !.my_gen = generation_]
          /\ UNCHANGED <<requested_path_, ui, cache>> /\ UNCHANGED <<engine, loop_thread_, joiner>>
        BY <1>6 DEF Sample, others
    <2>2. worker' = [at |-> "debounce", path |-> worker.path, my_gen |-> generation_, wav |-> worker.wav]
        <3>1. PICK e : e = [worker EXCEPT !.at = "debounce"]
            OBVIOUS
        <3>2. e = [at |-> "debounce", path |-> worker.path, my_gen |-> worker.my_gen, wav |-> worker.wav]
            BY <1>1, <3>1
        <3>3. [e EXCEPT !.my_gen = generation_] = [at |-> "debounce", path |-> worker.path, my_gen |-> generation_, wav |-> worker.wav]
            BY <3>2
        <3> QED
            BY <2>1, <3>1, <3>3
    <2>3. worker.path \in Tracks
        BY <1>1, <2>1
    <2>4. SoundShapes'
        BY <1>1, <1>2, <2>1, <2>2, <2>3
    <2> QED
        BY <1>3, <2>1, <2>4
<1>7. ASSUME Debounce PROVE SoundInv'
    <2> DEFINE w == IF cached_path_ = worker.path THEN cached_wav_ ELSE <<>>
    <2>1. /\ worker.at = "debounce"
          /\ worker' = Waiting \/ worker' = [worker EXCEPT !.at = "decode", !.wav = w]
          /\ UNCHANGED <<requested_path_, ui, cache>> /\ UNCHANGED <<engine, loop_thread_, joiner>>
        BY <1>7 DEF Debounce, others
    <2>2. [worker EXCEPT !.at = "decode", !.wav = w] = [at |-> "decode", path |-> worker.path, my_gen |-> worker.my_gen, wav |-> w]
        <3>1. PICK e : e = [worker EXCEPT !.at = "decode"]
            OBVIOUS
        <3>2. e = [at |-> "decode", path |-> worker.path, my_gen |-> worker.my_gen, wav |-> worker.wav]
            BY <1>1, <3>1
        <3>3. [e EXCEPT !.wav = w] = [at |-> "decode", path |-> worker.path, my_gen |-> worker.my_gen, wav |-> w]
            BY <3>2
        <3> QED
            BY <3>1, <3>3
    <2>3. worker.path \in Tracks /\ WavOf(worker.path, w)
        BY <1>1, <2>1 DEF WavOf
    <2> HIDE DEF w
    <2>4. worker' # Waiting => SoundShapes'
        BY <1>2, <2>1, <2>2, <2>3
    <2>5. worker' = Waiting => SoundShapes'
        <3>1. WavOf(cached_path_', cached_wav_')
            BY <1>1, <2>1 DEF cache
        <3> QED
            BY <1>4, <2>1, <3>1
    <2> QED
        BY <1>3, <2>1, <2>4, <2>5
<1>8. ASSUME DecodeTrack PROVE SoundInv'
    <2> DEFINE w == IF worker.wav # <<>> THEN worker.wav ELSE Decode(worker.path)
    <2>1. /\ worker.at = "decode"
          /\ worker' = Waiting \/ worker' = [worker EXCEPT !.at = "start", !.wav = w]
          /\ UNCHANGED <<requested_path_, ui, cache>> /\ UNCHANGED <<engine, loop_thread_, joiner>>
        BY <1>8 DEF DecodeTrack, others
    <2>2. worker.path \in Tracks /\ WavOf(worker.path, w)
        BY <1>1, <2>1, DecodedIsOfItsTrack
    <2> HIDE DEF w
    <2>3. [worker EXCEPT !.at = "start", !.wav = w] = [at |-> "start", path |-> worker.path, my_gen |-> worker.my_gen, wav |-> w]
        <3>1. PICK e : e = [worker EXCEPT !.at = "start"]
            OBVIOUS
        <3>2. e = [at |-> "start", path |-> worker.path, my_gen |-> worker.my_gen, wav |-> worker.wav]
            BY <1>1, <3>1
        <3>3. [e EXCEPT !.wav = w] = [at |-> "start", path |-> worker.path, my_gen |-> worker.my_gen, wav |-> w]
            BY <3>2
        <3> QED
            BY <3>1, <3>3
    <2>4. worker' # Waiting => SoundShapes'
        BY <1>2, <2>1, <2>2, <2>3
    <2>5. worker' = Waiting => SoundShapes'
        <3>1. WavOf(cached_path_', cached_wav_')
            BY <1>1, <2>1 DEF cache
        <3> QED
            BY <1>4, <2>1, <3>1
    <2> QED
        BY <1>3, <2>1, <2>4, <2>5
<1>9. ASSUME Start PROVE SoundInv'
    <2>1. worker.path \in Tracks
        BY <1>1, <1>9 DEF Start
    <2>2. cached_path_' = worker.path /\ (cached_wav_' = <<>> \/ cached_wav_' = worker.wav)
        BY <1>9 DEF Start, CacheFile
    <2>3. WavOf(cached_path_', cached_wav_')
        BY <1>1, <2>2 DEF WavOf
    <2>4. UNCHANGED <<requested_path_, ui>>
        BY <1>9 DEF Start, others
    <2>5. CASE loop_active_
        <3>1. joiner' = "worker" /\ worker' = [worker EXCEPT !.at = "join"]
            BY <1>9, <2>5 DEF Start, StopBeforeJoin
        <3>2. worker' = [at |-> "join", path |-> worker.path, my_gen |-> worker.my_gen, wav |-> worker.wav]
            BY <1>1, <3>1
        <3>3. worker'.path = worker.path /\ worker'.wav = worker.wav
            BY <3>2
        <3>4. worker' = [at |-> worker'.at, path |-> worker'.path, my_gen |-> worker'.my_gen, wav |-> worker'.wav]
            BY <3>2
        <3>5. SoundShapes'
            BY <1>1, <2>1, <2>3, <2>4, <3>3, <3>4, WorkerKeepsShapes
        <3>6. OneEngine'
            BY <3>1 DEF OneEngine
        <3> QED
            BY <3>5, <3>6
    <2>6. CASE ~ loop_active_
        <3>1. StartLocked(worker.path, worker.wav) /\ worker' = Waiting
            BY <1>9, <2>6 DEF Start
        <3> QED
            BY <1>1, <1>4, <2>1, <2>3, <2>4, <3>1, StartedIsOneEngine
    <2> QED
        BY <2>5, <2>6
<1>10. ASSUME StartJoined PROVE SoundInv'
    <2>1. /\ worker.path \in Tracks /\ StartLocked(worker.path, worker.wav) /\ worker' = Waiting
          /\ UNCHANGED <<requested_path_, ui, cache>>
        BY <1>1, <1>10 DEF StartJoined, others
    <2>2. WavOf(cached_path_', cached_wav_')
        BY <1>1, <2>1 DEF cache
    <2> QED
        BY <1>1, <1>4, <2>1, <2>2, StartedIsOneEngine
<1> QED
    BY <1>5, <1>6, <1>7, <1>8, <1>9, <1>10

LEMMA SoundStepKeepsInv == SoundAssumption /\ SoundInv /\ [SoundNext]_playerVars => SoundInv'
<1> SUFFICES ASSUME SoundAssumption, SoundInv, [SoundNext]_playerVars PROVE SoundInv'
    OBVIOUS
<1>1. ASSUME UNCHANGED <<requested_path_, ui, worker, cached_path_, cached_wav_>> PROVE SoundShapes'
    BY <1>1 DEF SoundInv, SoundShapes, WavOf
<1>2. CASE UNCHANGED playerVars
    <2>1. OneEngine'
        BY <1>2 DEF playerVars, SoundInv, OneEngine
    <2> QED
        BY <1>1, <1>2, <2>1 DEF playerVars, SoundInv
<1>3. CASE LoopWakes \/ LoopLocks \/ LoopPolls \/ TrackEnds
    <2>1. SoundShapes'
        BY <1>1, <1>3 DEF LoopWakes, LoopLocks, LoopPolls, TrackEnds, loop, request, cache
    <2>2. /\ UNCHANGED <<joiner, mci_open_, wave_out_, playing_, paused_, loop_active_>>
          /\ (loop_thread_' # "none") = (loop_thread_ # "none")
        BY <1>3 DEF LoopWakes, LoopLocks, LoopPolls, TrackEnds, loop
    <2>3. OneEngine'
        BY <2>2 DEF SoundInv, OneEngine
    <2> QED
        BY <2>1, <2>3 DEF SoundInv
<1>4. CASE \/ \E f \in Tracks : Play(f)
           \/ \E on \in BOOLEAN : Stop(on)
           \/ SetEnabled \/ PlayLocked \/ StopLocked \/ StopJoined \/ Pause \/ Resume
    BY <1>4, UiStepKeepsInv
<1>5. CASE Consume \/ Sample \/ Debounce \/ DecodeTrack \/ Start \/ StartJoined
    BY <1>5, WorkerStepKeepsInv
<1> QED
    BY <1>2, <1>3, <1>4, <1>5, Zenon DEF SoundNext

LEMMA SoundInvImplies == SoundInv => CacheHoldsItsTrack /\ OneEngine
BY DEF SoundInv, SoundShapes, WavOf, CacheHoldsItsTrack
=============================================================================
