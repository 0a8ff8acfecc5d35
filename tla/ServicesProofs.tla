---------------------------- MODULE ServicesProofs ----------------------------
(***************************************************************************)
(* Proofs about the services around the guest program, for any number of   *)
(* threads, ports, queues, frames, files and tracks and any bounds.  Each  *)
(* service has an inductive invariant of its own; a step of one leaves the *)
(* variables of the others alone.                                          *)
(***************************************************************************)
EXTENDS Services, Integers, SequencesExt, FiniteSetTheorems, SequenceTheorems, TLAPS

-----------------------------------------------------------------------------
(* Facts about sequences. *)

\* What is left when the last element goes.
LEMMA RemoveLast ==
    ASSUME NEW S, NEW w \in Seq(S), w # <<>>
    PROVE  LET f == SubSeq(w, 1, Len(w) - 1) \o SubSeq(w, Len(w) + 1, Len(w)) IN
           /\ f \in Seq(S) /\ Len(f) = Len(w) - 1
           /\ \A i \in 1 .. Len(w) - 1 : f[i] = w[i]
<1> DEFINE a == SubSeq(w, 1, Len(w) - 1)
           b == SubSeq(w, Len(w) + 1, Len(w))
<1>1. Len(w) \in Nat \ {0} /\ \A i \in 1 .. Len(w) : w[i] \in S
    BY LenProperties, ElementOfSeq, EmptySeq
<1>2. Len(w) - 1 \in Nat /\ \A i \in 1 .. Len(w) - 1 : w[i] \in S
    BY <1>1
<1>3. a \in Seq(S) /\ Len(a) = Len(w) - 1 /\ \A i \in 1 .. Len(w) - 1 : a[i] = w[i]
    <2>1. /\ a \in Seq(S)
          /\ Len(a) = IF 1 <= Len(w) - 1 THEN Len(w) - 1 - 1 + 1 ELSE 0
          /\ \A i \in 1 .. Len(w) - 1 - 1 + 1 : a[i] = w[1 + i - 1]
        BY <1>1, <1>2, SubSeqProperties
    <2> HIDE DEF a
    <2>2. Len(a) = Len(w) - 1
        <3>1. \A n \in Nat \ {0} : n - 1 = IF 1 <= n - 1 THEN n - 1 - 1 + 1 ELSE 0
            OBVIOUS
        <3> QED
            BY <1>1, <2>1, <3>1, Zenon
    <2>3. \A i \in 1 .. Len(w) - 1 : i \in 1 .. Len(w) - 1 - 1 + 1 /\ 1 + i - 1 = i
        BY <1>1
    <2>4. \A i \in 1 .. Len(w) - 1 : a[i] = w[i]
        BY <2>1, <2>3, Zenon
    <2> QED
        BY <2>1, <2>2, <2>4, Zenon
<1>4. b = <<>>
    BY <1>1, SubSeqEmpty
<1>5. a \o b = a
    BY <1>3, <1>4, ConcatEmptySeq
<1> QED
    BY <1>3, <1>5

-----------------------------------------------------------------------------
(* The session. *)

ApiStates == {"down", "init", "initialized", "loaded", "loop", "stopping", "returned", "teardown"}
Up == Session!ToSet(m_initialized)

\* A subsystem is up once and after all it depends on.
UpInOrder ==
    \A i \in 1 .. Len(m_initialized) :
        /\ \A j \in 1 .. Len(m_initialized) : m_initialized[i] = m_initialized[j] => i = j
        /\ \A d \in Session!Dependencies(m_initialized[i]) : \E j \in 1 .. i - 1 : m_initialized[j] = d

\* From the end of pcsx5_init to pcsx5_shutdown all are up, and the guest's main
\* thread runs inside pcsx5_run only.
SessionInv ==
    /\ api \in ApiStates
    /\ m_initialized \in Seq(Session!Subsystems)
    /\ UpInOrder
    /\ api \in {"initialized", "loaded", "loop", "stopping", "returned"} => Up = Session!Subsystems
    /\ Session!Running("main") => api \in {"loop", "stopping"}

LEMMA SessionInitInv == Session!Init => SessionInv
<1> SUFFICES ASSUME Session!Init PROVE SessionInv
    OBVIOUS
<1>1. api = "down" /\ main = "none" /\ m_initialized = <<>> /\ Len(m_initialized) = 0
    BY DEF Session!Init
<1>2. UpInOrder
    BY <1>1 DEF UpInOrder
<1> QED
    BY <1>1, <1>2 DEF SessionInv, ApiStates, Session!Running

\* A step that leaves the subsystems alone.
LEMMA SessionKeepsOrder ==
    ASSUME SessionInv, UNCHANGED m_initialized
    PROVE  m_initialized' \in Seq(Session!Subsystems) /\ UpInOrder' /\ (Up = Session!Subsystems => Up' = Session!Subsystems)
    BY DEF SessionInv, UpInOrder, Up, Session!ToSet

LEMMA InitializeSubsystemKeepsInv ==
    ASSUME NEW s \in Session!Subsystems, SessionInv, Session!InitializeSubsystem(s)
    PROVE  SessionInv'
<1> DEFINE m == m_initialized
           n == m_initialized'
<1>1. /\ m \in Seq(Session!Subsystems) /\ Len(m) \in Nat
      /\ s \notin Session!ToSet(m) /\ Session!Dependencies(s) \subseteq Session!ToSet(m)
      /\ n = Append(m, s) /\ api = "init"
    BY DEF SessionInv, Session!InitializeSubsystem
<1>2. /\ n \in Seq(Session!Subsystems) /\ Len(n) = Len(m) + 1 /\ n[Len(m) + 1] = s
      /\ \A i \in 1 .. Len(m) : n[i] = m[i]
    BY <1>1
<1>3. UpInOrder'
    <2> SUFFICES ASSUME NEW i \in 1 .. Len(n)
                 PROVE  /\ \A j \in 1 .. Len(n) : n[i] = n[j] => i = j
                        /\ \A d \in Session!Dependencies(n[i]) : \E j \in 1 .. i - 1 : n[j] = d
        BY DEF UpInOrder
    <2>1. \A k \in 1 .. Len(m) : m[k] # s
        BY <1>1 DEF Session!ToSet
    <2>2. \A d \in Session!Dependencies(s) : \E j \in 1 .. Len(m) : m[j] = d
        BY <1>1 DEF Session!ToSet
    <2>3. CASE i = Len(m) + 1
        BY <1>1, <1>2, <2>1, <2>2, <2>3
    <2>4. CASE i \in 1 .. Len(m)
        <3>1. \A j \in 1 .. Len(m) : m[i] = m[j] => i = j
            BY <2>4 DEF SessionInv, UpInOrder
        <3>2. \A j \in 1 .. Len(n) : n[i] = n[j] => i = j
            BY <1>1, <1>2, <2>1, <2>4, <3>1
        <3>3. \A d \in Session!Dependencies(m[i]) : \E j \in 1 .. i - 1 : m[j] = d
            BY <2>4 DEF SessionInv, UpInOrder
        <3> QED
            BY <1>1, <1>2, <2>4, <3>2, <3>3
    <2>5. i = Len(m) + 1 \/ i \in 1 .. Len(m)
        BY <1>1, <1>2
    <2> QED
        BY <2>3, <2>4, <2>5
<1>4. api' \in {"init", "initialized"} /\ (api' = "initialized" => Up' = Session!Subsystems)
    BY DEF Session!InitializeSubsystem, Up
<1>5. ~ Session!Running("main")'
    BY <1>1 DEF SessionInv, Session!InitializeSubsystem, Session!Running, Session!guest
<1> QED
    BY <1>2, <1>3, <1>4, <1>5 DEF SessionInv, ApiStates

\* TeardownAll takes the last one away, which nothing that is up depends on.
LEMMA TeardownSubsystemKeepsInv ==
    ASSUME SessionInv, Session!TeardownSubsystem PROVE SessionInv'
<1> DEFINE m == m_initialized
           n == m_initialized'
<1>1. /\ m \in Seq(Session!Subsystems) /\ Len(m) \in Nat /\ m # <<>>
      /\ n = Session!RemoveAt(m, Len(m)) /\ api = "teardown" /\ api' = api /\ main' = main
    BY DEF SessionInv, Session!TeardownSubsystem, Session!NextToTearDown
<1>2. Len(m) > 0 /\ \A i \in 1 .. Len(m) : m[i] \in Session!Subsystems
    BY <1>1
<1>3. /\ n \in Seq(Session!Subsystems) /\ Len(n) = Len(m) - 1
      /\ \A i \in 1 .. Len(m) - 1 : n[i] = m[i]
    BY <1>1, RemoveLast DEF Session!RemoveAt
<1>6. UpInOrder'
    <2>1. Len(n) = Len(m) - 1 /\ \A i \in 1 .. Len(m) - 1 : n[i] = m[i]
        BY <1>3
    <2> SUFFICES ASSUME NEW i \in 1 .. Len(n)
                 PROVE  /\ \A j \in 1 .. Len(n) : n[i] = n[j] => i = j
                        /\ \A d \in Session!Dependencies(n[i]) : \E j \in 1 .. i - 1 : n[j] = d
        BY DEF UpInOrder
    <2>2. /\ i \in 1 .. Len(m) /\ n[i] = m[i]
          /\ \A j \in 1 .. Len(n) : j \in 1 .. Len(m) /\ n[j] = m[j]
          /\ \A j \in 1 .. i - 1 : n[j] = m[j]
        BY <1>1, <2>1
    <2>3. /\ \A j \in 1 .. Len(m) : m[i] = m[j] => i = j
          /\ \A d \in Session!Dependencies(m[i]) : \E j \in 1 .. i - 1 : m[j] = d
        BY <2>2 DEF SessionInv, UpInOrder
    <2> QED
        BY <2>2, <2>3
<1>7. ~ Session!Running("main")'
    BY <1>1 DEF SessionInv, Session!Running
<1> QED
    BY <1>1, <1>3, <1>6, <1>7 DEF SessionInv, ApiStates

\* A thread other than the frontend's does not move the session, nor does it start
\* the main thread.
LEMMA SessionStepKeepsInv ==
    ASSUME SessionInv, [Session!Next]_sessionVars PROVE SessionInv'
<1>1. CASE UNCHANGED sessionVars
    BY <1>1 DEF sessionVars, SessionInv, UpInOrder, Up, Session!ToSet, Session!Running
<1>2. CASE \E s \in Session!Subsystems : Session!InitializeSubsystem(s)
    BY <1>2, InitializeSubsystemKeepsInv
<1>3. CASE Session!TeardownSubsystem
    BY <1>3, TeardownSubsystemKeepsInv
<1>4. CASE Session!Pcsx5Init \/ Session!InitializeFails \/ Session!Pcsx5Load \/ Session!Pcsx5Shutdown \/ Session!TeardownEnds
    <2>1. UNCHANGED m_initialized /\ api' \in {"init", "loaded", "teardown", "down"} /\ main' \in {"none", main}
          /\ api \notin {"loop", "stopping"} /\ (api' = "loaded" => api = "initialized")
        BY <1>4 DEF Session!Pcsx5Init, Session!InitializeFails, Session!Pcsx5Load, Session!Pcsx5Shutdown,
                    Session!TeardownEnds, Session!guest
    <2> QED
        BY <2>1, SessionKeepsOrder DEF SessionInv, ApiStates, Session!Running
<1>5. CASE Session!RunLoop
    <2>1. UNCHANGED m_initialized /\ api' \in {"loop", "stopping", "returned"} /\ api \in {"loaded", "loop", "stopping"}
          /\ (Session!Running("main")' => api' \in {"loop", "stopping"})
        BY <1>5 DEF Session!RunLoop, Session!Pcsx5Run, Session!SeeStop, Session!ForceStopTimeout, Session!LoopEnds,
                    Session!Running, Session!guest
    <2> QED
        BY <2>1, SessionKeepsOrder DEF SessionInv, ApiStates
<1>6. CASE \/ Session!Pcsx5Stop \/ Session!Pcsx5ForceStop \/ (\E on \in BOOLEAN : Session!Pcsx5Pause(on))
           \/ Session!StartGuestCaptured \/ Session!GuestDone \/ (\E crash \in BOOLEAN : Session!ProgramEnds(crash))
           \/ (\E t \in Session!Threads : Session!Dispatch(t) \/ Session!CallHandler(t) \/ Session!GuestExit(t))
           \/ (\E w \in Workers : Session!CreateWorker(w) \/ Session!WorkerEnds(w))
    <2>1. UNCHANGED <<m_initialized, api>> /\ (Session!Running("main")' => Session!Running("main"))
        BY <1>6 DEF Session!Pcsx5Stop, Session!Pcsx5ForceStop, Session!Pcsx5Pause, Session!StartGuestCaptured,
                    Session!GuestDone, Session!ProgramEnds, Session!Dispatch, Session!CallHandler, Session!GuestExit,
                    Session!CreateWorker, Session!WorkerEnds, Session!Running, Session!guest, Session!KillMain,
                    Session!ExitGuestProcess
    <2> QED
        BY <2>1, SessionKeepsOrder DEF SessionInv
<1> QED
    BY <1>1, <1>2, <1>3, <1>4, <1>5, <1>6, Zenon DEF Session!Next

LEMMA SessionInvImplies == SessionInv => Session!SubsystemsOutliveTheirUsers
<1> SUFFICES ASSUME SessionInv PROVE Session!SubsystemsOutliveTheirUsers
    OBVIOUS
<1>1. ASSUME NEW s \in Session!ToSet(m_initialized) PROVE Session!Dependencies(s) \subseteq Session!ToSet(m_initialized)
    <2>1. PICK i \in 1 .. Len(m_initialized) : m_initialized[i] = s
        BY DEF Session!ToSet, SessionInv
    <2>2. \A d \in Session!Dependencies(s) : \E j \in 1 .. i - 1 : m_initialized[j] = d
        BY <2>1 DEF SessionInv, UpInOrder
    <2> QED
        BY <2>1, <2>2 DEF Session!ToSet, SessionInv
<1>2. Session!Running("main") => Session!ToSet(m_initialized) = Session!Subsystems
    BY DEF SessionInv, Up
<1> QED
    BY <1>1, <1>2 DEF Session!SubsystemsOutliveTheirUsers

\* A subsystem is up only with all it depends on, and none goes down under a guest
\* thread that pcsx5_run has not joined (teardownAll, pcsx5_shutdown).
THEOREM SubsystemsOutlive == Spec => []SubsystemsOutliveTheirUsers
<1>1. Init => SessionInv
    BY SessionInitInv, Zenon DEF Init
<1>2. SessionInv /\ [Next]_vars => SessionInv'
    <2>1. [Next]_vars => [Session!Next]_sessionVars
        BY Zenon DEF Next, vars, guestVars
    <2> QED
        BY <2>1, SessionStepKeepsInv, Zenon
<1>3. SessionInv => SubsystemsOutliveTheirUsers
    BY SessionInvImplies, Zenon DEF SubsystemsOutliveTheirUsers
<1> QED
    BY <1>1, <1>2, <1>3, PTL DEF Spec

-----------------------------------------------------------------------------
(* Flips. *)

FlipStates ==
    /\ flip = [c \in Flippers |-> flip[c]]
    /\ \A c \in Flippers :
          \/ flip[c] = Video!NoFlip
          \/ /\ flip[c].at \in {"post", "present"}
             /\ flip[c] = [at |-> flip[c].at, arg |-> flip[c].arg, frame |-> flip[c].frame, post |-> flip[c].post]

\* The queue is told of flips since its registration only, and so of none before.
ListeningFollows ==
    /\ port.count \in Nat /\ flips_before \in Nat /\ flips_before <= port.count
    /\ ~ listening => event = 0 /\ \A c \in Flippers : ~ flip[c].post

\* What the queue is to have been told last.
Heard == IF port.count > flips_before THEN port.arg ELSE 0

\* What is shown and what the queue was told, as long as flips did not overlap.
Settled ==
    /\ Video!Flipping = {}
    /\ shown = port.frame
    /\ listening => event = Heard

\* The one flip that is under way is the last; only its own event may be missing.
Flips(c) ==
    /\ Video!Flipping = {c}
    /\ flip[c].frame = port.frame /\ flip[c].arg = port.arg
    /\ listening => event = Heard \/ (flip[c].at = "post" /\ flip[c].post)
    /\ flip[c].post => port.count > flips_before

FlipInv ==
    /\ FlipStates /\ ListeningFollows
    /\ flips_crossed \/ Settled \/ \E c \in Flippers : Flips(c)

LEMMA FlipInitInv == Video!FlipInit => FlipInv
BY DEF Video!FlipInit, FlipInv, FlipStates, ListeningFollows, Settled, Heard, Video!Flipping, Video!NoFlip

LEMMA SubmitFlipKeepsInv ==
    ASSUME NEW c \in Flippers, NEW f, FlipInv, Video!SubmitFlip(c, f) PROVE FlipInv'
<1>1. /\ flip[c] = Video!NoFlip /\ port' = [count |-> port.count + 1, arg |-> port.count + 1, frame |-> f]
      /\ flip' = [flip EXCEPT ![c] = [at |-> "post", arg |-> port.count + 1, frame |-> f, post |-> listening]]
      /\ flips_crossed' = (Video!Flipping # {}) /\ UNCHANGED <<listening, flips_before, event, shown>>
    BY DEF Video!SubmitFlip
<1>2. /\ flip' = [d \in Flippers |-> flip'[d]]
      /\ flip'[c] = [at |-> "post", arg |-> port.count + 1, frame |-> f, post |-> listening]
      /\ \A d \in Flippers : d # c => flip'[d] = flip[d]
    BY <1>1 DEF FlipInv, FlipStates
<1>3. flip'[c] # Video!NoFlip /\ flip'[c].at = "post"
    BY <1>2 DEF Video!NoFlip
<1>4. FlipStates'
    BY <1>2, <1>3 DEF FlipInv, FlipStates
<1>6. port'.count > flips_before'
    BY <1>1 DEF FlipInv, ListeningFollows
<1>5. ASSUME Video!Flipping = {} PROVE Flips(c)'
    <2>1. Video!Flipping' = {c}
        BY <1>2, <1>3, <1>5 DEF Video!Flipping
    <2>2. flip'[c].frame = port'.frame /\ flip'[c].arg = port'.arg
        BY <1>1, <1>2
    <2>3. flip'[c].post = listening
        BY <1>2
    <2> QED
        BY <1>1, <1>3, <1>6, <2>1, <2>2, <2>3, Zenon DEF Flips
<1>7. ListeningFollows'
    <2>1. port'.count \in Nat /\ flips_before' \in Nat /\ flips_before' <= port'.count
        BY <1>1 DEF FlipInv, ListeningFollows
    <2>2. ~ listening' => event' = 0 /\ \A d \in Flippers : ~ flip'[d].post
        <3> SUFFICES ASSUME ~ listening PROVE event' = 0 /\ \A d \in Flippers : ~ flip'[d].post
            BY <1>1
        <3>1. event = 0 /\ \A d \in Flippers : ~ flip[d].post
            BY Zenon DEF FlipInv, ListeningFollows
        <3>2. flip'[c].post = listening
            BY <1>2
        <3>3. ~ flip'[c].post
            BY <3>2, Zenon
        <3>4. \A d \in Flippers : ~ flip'[d].post
            BY <1>2, <3>1, <3>3, Zenon
        <3> QED
            BY <1>1, <3>1, <3>4, Zenon
    <2> QED
        BY <2>1, <2>2, Zenon DEF ListeningFollows
<1> QED
    BY <1>1, <1>4, <1>5, <1>7, Zenon DEF FlipInv

LEMMA PostFlipKeepsInv ==
    ASSUME NEW c \in Flippers, FlipInv, Video!PostFlip(c) PROVE FlipInv'
<1>1. /\ flip[c].at = "post" /\ event' = (IF flip[c].post THEN flip[c].arg ELSE event)
      /\ flip' = [flip EXCEPT ![c] = [flip[c] EXCEPT !.at = "present"]]
      /\ UNCHANGED <<port, listening, flips_before, shown, flips_crossed>>
    BY DEF Video!PostFlip
<1>2. /\ flip' = [d \in Flippers |-> flip'[d]] /\ flip'[c] = [flip[c] EXCEPT !.at = "present"]
      /\ \A d \in Flippers : d # c => flip'[d] = flip[d]
    BY <1>1 DEF FlipInv, FlipStates
<1>3. flip[c] = [at |-> "post", arg |-> flip[c].arg, frame |-> flip[c].frame, post |-> flip[c].post]
    BY <1>1 DEF FlipInv, FlipStates, Video!NoFlip
<1>4. flip'[c] = [at |-> "present", arg |-> flip[c].arg, frame |-> flip[c].frame, post |-> flip[c].post]
    BY <1>2, <1>3
<1>5. /\ flip[c] # Video!NoFlip /\ flip'[c] # Video!NoFlip /\ flip'[c].at = "present"
      /\ flip'[c].arg = flip[c].arg /\ flip'[c].frame = flip[c].frame /\ flip'[c].post = flip[c].post
    BY <1>1, <1>4 DEF Video!NoFlip
<1>6. FlipStates'
    BY <1>2, <1>4 DEF FlipInv, FlipStates
<1>7. Video!Flipping' = Video!Flipping /\ c \in Video!Flipping
    BY <1>2, <1>5 DEF Video!Flipping
<1>8. ASSUME NEW d \in Flippers, Flips(d) PROVE Flips(d)'
    <2>1. d = c
        BY <1>7, <1>8 DEF Flips
    <2>2. flip[c].arg = port.arg /\ flip[c].frame = port.frame
        BY <1>8, <2>1 DEF Flips
    <2>4. Heard' = Heard /\ (flip[c].post => Heard = port.arg)
        BY <1>1, <1>8, <2>1 DEF Flips, Heard
    <2>5. flip'[c].post => port'.count > flips_before'
        BY <1>1, <1>5, <1>8, <2>1 DEF Flips
    <2>3. listening => event' = Heard
        <3>1. CASE flip[c].post
            BY <1>1, <2>2, <2>4, <3>1, Zenon
        <3>2. CASE ~ flip[c].post
            <4>1. listening => event = Heard
                BY <1>8, <2>1, <3>2, Zenon DEF Flips
            <4> QED
                BY <1>1, <3>2, <4>1, Zenon
        <3> QED
            BY <3>1, <3>2
    <2> QED
        BY <1>1, <1>5, <1>7, <1>8, <2>1, <2>2, <2>3, <2>4, <2>5, Zenon DEF Flips
<1>9. ~ Settled
    BY <1>7 DEF Settled
<1>10. ListeningFollows'
    <2>1. \A d \in Flippers : flip'[d].post = flip[d].post
        BY <1>2, <1>5
    <2>2. ~ listening => event = 0 /\ ~ flip[c].post /\ \A d \in Flippers : ~ flip[d].post
        BY Zenon DEF FlipInv, ListeningFollows
    <2>3. ~ listening' => event' = 0 /\ \A d \in Flippers : ~ flip'[d].post
        BY <1>1, <2>1, <2>2, Zenon
    <2>4. port'.count \in Nat /\ flips_before' \in Nat /\ flips_before' <= port'.count
        BY <1>1 DEF FlipInv, ListeningFollows
    <2> QED
        BY <2>3, <2>4, Zenon DEF ListeningFollows
<1> QED
    BY <1>1, <1>6, <1>8, <1>9, <1>10, Zenon DEF FlipInv

LEMMA PresentFlipKeepsInv ==
    ASSUME NEW c \in Flippers, FlipInv, Video!PresentFlip(c) PROVE FlipInv'
<1>1. /\ flip[c].at = "present" /\ shown' = flip[c].frame
      /\ flip' = [flip EXCEPT ![c] = Video!NoFlip]
      /\ UNCHANGED <<port, listening, flips_before, event, flips_crossed>>
    BY DEF Video!PresentFlip, Video!Presented
<1>2. /\ flip' = [d \in Flippers |-> flip'[d]] /\ flip'[c] = Video!NoFlip
      /\ \A d \in Flippers : d # c => flip'[d] = flip[d]
    BY <1>1 DEF FlipInv, FlipStates
<1>3. c \in Video!Flipping
    BY <1>1 DEF Video!NoFlip, Video!Flipping
<1>4. FlipStates'
    BY <1>2 DEF FlipInv, FlipStates
<1>5. ASSUME NEW d \in Flippers, Flips(d) PROVE Settled'
    <2>1. d = c
        BY <1>3, <1>5 DEF Flips
    <2>2. Video!Flipping' = {}
        BY <1>2, <1>5, <2>1 DEF Flips, Video!Flipping
    <2>3. flip[c].frame = port.frame /\ (listening => event = Heard)
        <3>1. flip[c].at # "post"
            BY <1>1
        <3> QED
            BY <1>5, <2>1, <3>1, Zenon DEF Flips
    <2>4. Heard' = Heard
        BY <1>1 DEF Heard
    <2> QED
        BY <1>1, <2>2, <2>3, <2>4, Zenon DEF Settled
<1>6. ~ Settled
    BY <1>3 DEF Settled
<1>7. ListeningFollows'
    <2>1. ~ flip'[c].post
        BY <1>2 DEF Video!NoFlip
    <2>2. ~ listening => event = 0 /\ \A d \in Flippers : ~ flip[d].post
        BY Zenon DEF FlipInv, ListeningFollows
    <2>3. ~ listening' => event' = 0 /\ \A d \in Flippers : ~ flip'[d].post
        BY <1>1, <1>2, <2>1, <2>2, Zenon
    <2>4. port'.count \in Nat /\ flips_before' \in Nat /\ flips_before' <= port'.count
        BY <1>1 DEF FlipInv, ListeningFollows
    <2> QED
        BY <2>3, <2>4, Zenon DEF ListeningFollows
<1> QED
    BY <1>1, <1>4, <1>5, <1>6, <1>7, Zenon DEF FlipInv

LEMMA FlipStepKeepsInv ==
    ASSUME FlipInv, [Video!FlipNext]_flipVars PROVE FlipInv'
<1>1. CASE UNCHANGED <<port, listening, flips_before, event, shown, flip, flips_crossed>>
    BY <1>1 DEF FlipInv, FlipStates, ListeningFollows, Settled, Flips, Heard, Video!Flipping
<1>2. CASE Video!AddFlipEvent
    <2>1. UNCHANGED <<port, event, shown, flip, flips_crossed>> /\ ~ listening /\ listening' = TRUE
          /\ flips_before' = port.count
        BY <1>2, Zenon DEF Video!AddFlipEvent
    <2>2. event = 0 /\ \A c \in Flippers : ~ flip[c].post
        BY <2>1, Zenon DEF FlipInv, ListeningFollows
    <2>3. FlipStates' /\ Video!Flipping' = Video!Flipping
        BY <2>1 DEF FlipInv, FlipStates, Video!Flipping
    <2>4. Heard' = 0 /\ ListeningFollows'
        BY <2>1 DEF FlipInv, ListeningFollows, Heard
    <2>5. Settled => Settled'
        BY <2>1, <2>2, <2>3, <2>4, Zenon DEF Settled
    <2>6. \A c \in Flippers : Flips(c) => Flips(c)'
        BY <2>1, <2>2, <2>3, <2>4, Zenon DEF Flips
    <2> QED
        BY <2>1, <2>3, <2>4, <2>5, <2>6, Zenon DEF FlipInv
<1>3. ASSUME NEW c \in Flippers, NEW f, Video!SubmitFlip(c, f) PROVE FlipInv'
    BY <1>3, SubmitFlipKeepsInv
<1>4. ASSUME NEW c \in Flippers, Video!PostFlip(c) PROVE FlipInv'
    BY <1>4, PostFlipKeepsInv
<1>5. ASSUME NEW c \in Flippers, Video!PresentFlip(c) PROVE FlipInv'
    BY <1>5, PresentFlipKeepsInv
<1>6. [Video!FlipNext]_flipVars =>
          \/ UNCHANGED <<port, listening, flips_before, event, shown, flip, flips_crossed>> \/ Video!AddFlipEvent
          \/ \E c \in Flippers : Video!PostFlip(c) \/ Video!PresentFlip(c) \/ \E f : Video!SubmitFlip(c, f)
    BY Zenon DEF Video!FlipNext, Video!RegisterBuffer, Video!UnregisterBuffers, flipVars
<1> QED
    BY <1>1, <1>2, <1>3, <1>4, <1>5, <1>6, Zenon

LEMMA FlipInvImplies == FlipInv => Video!DisplayFollowsFlips
<1>1. ASSUME NEW c \in Flippers, Flips(c) PROVE Video!Flipping # {}
    BY <1>1 DEF Flips
<1> QED
    BY <1>1, Zenon DEF FlipInv, Settled, Heard, Video!DisplayFollowsFlips

-----------------------------------------------------------------------------
(* The vblank pump: shapes, and what an edge owes. *)

PumpShapes ==
    /\ g_vo_ports \subseteq Ports
    /\ vblank_events = [p \in Ports |-> vblank_events[p]]
    /\ pump = [n \in Video!Pumps |-> pump[n]] /\ todo = [n \in Video!Pumps |-> todo[n]]
    /\ due = [n \in Video!Pumps |-> due[n]]
    /\ client = [c \in Clients |-> client[c]]
    /\ \A c \in Clients : client[c] = [op |-> client[c].op, at |-> client[c].at]

\* What is due is on a port that is still to be signalled, to a queue registered there.
DuesAreToCome ==
    \A n \in Video!Pumps :
        /\ due[n] # {} => pump[n] = "signal"
        /\ \A d \in due[n] : \E p \in todo[n] : \E q \in vblank_events[p] : p \in Ports /\ d = <<p, q>>

LEMMA CallMoves ==
    ASSUME PumpShapes, NEW c \in Clients, NEW at, Video!Goto(c, at)
    PROVE  /\ client' = [k \in Clients |-> client'[k]]
           /\ client'[c] = [op |-> client[c].op, at |-> at] /\ client'[c].at = at /\ client'[c].op = client[c].op
           /\ \A k \in Clients : k # c => client'[k] = client[k]
           /\ \A k \in Clients : client'[k] = [op |-> client'[k].op, at |-> client'[k].at]
<1>1. client' = [client EXCEPT ![c] = [client[c] EXCEPT !.at = at]]
    BY DEF Video!Goto
<1>2. client' = [k \in Clients |-> client'[k]] /\ client'[c] = [client[c] EXCEPT !.at = at]
      /\ \A k \in Clients : k # c => client'[k] = client[k]
    BY <1>1 DEF PumpShapes
<1>3. client[c] = [op |-> client[c].op, at |-> client[c].at]
    BY DEF PumpShapes
<1>4. client'[c] = [op |-> client[c].op, at |-> at]
    BY <1>2, <1>3
<1> QED
    BY <1>2, <1>4 DEF PumpShapes

LEMMA CallChanges ==
    ASSUME PumpShapes, NEW c \in Clients, NEW r, client' = [client EXCEPT ![c] = r], r = [op |-> r.op, at |-> r.at]
    PROVE  /\ client' = [k \in Clients |-> client'[k]] /\ client'[c] = r
           /\ \A k \in Clients : k # c => client'[k] = client[k]
           /\ \A k \in Clients : client'[k] = [op |-> client'[k].op, at |-> client'[k].at]
BY DEF PumpShapes

LEMMA PumpInitShapes == Video!PumpInit => PumpShapes /\ DuesAreToCome
BY DEF Video!PumpInit, PumpShapes, DuesAreToCome, Video!NoCall, Video!Pumps

\* A call of a client.
ClientStep(c) ==
    \/ Video!CallOpen(c) \/ Video!CallWaitVblank(c) \/ Video!Ensure(c) \/ Video!EnsureClearStop(c)
    \/ Video!EnsureLock(c) \/ Video!EnsureStart(c) \/ Video!OpenReturns(c) \/ Video!WaitVblankReturns(c)

LEMMA ClientStepChanges ==
    ASSUME PumpShapes, NEW c \in Clients, ClientStep(c)
    PROVE  /\ client' = [k \in Clients |-> client'[k]]
           /\ \A k \in Clients : k # c => client'[k] = client[k]
           /\ \A k \in Clients : client'[k] = [op |-> client'[k].op, at |-> client'[k].at]
<1>1. CASE \E at : Video!Goto(c, at)
    <2>1. PICK at : Video!Goto(c, at)
        BY <1>1
    <2> QED
        BY <2>1, CallMoves, Zenon
<1>2. CASE client' = [client EXCEPT ![c] = Video!NoCall]
    BY <1>2, CallChanges DEF Video!NoCall
<1>3. CASE \E op : client' = [client EXCEPT ![c] = Video!Call(op)]
    BY <1>3, CallChanges DEF Video!Call
<1>4. (\E at : Video!Goto(c, at)) \/ client' = [client EXCEPT ![c] = Video!NoCall]
      \/ \E op : client' = [client EXCEPT ![c] = Video!Call(op)]
    BY Zenon DEF ClientStep, Video!CallOpen, Video!CallWaitVblank, Video!Ensure, Video!EnsureVblankPumpStarted,
                 Video!EnsureClearStop, Video!EnsureLock, Video!EnsureStart, Video!OpenReturns,
                 Video!WaitVblankReturns, Video!Enter, Video!Return
<1> QED
    BY <1>1, <1>2, <1>3, <1>4, Zenon

LEMMA ClientStepKeepsShapes ==
    ASSUME PumpShapes, DuesAreToCome, NEW c \in Clients, ClientStep(c)
    PROVE  PumpShapes' /\ DuesAreToCome'
<1>1. UNCHANGED <<vblank_events, todo, due>> /\ g_vo_ports' \subseteq Ports
    BY DEF PumpShapes, ClientStep, Video!CallOpen, Video!CallWaitVblank, Video!Ensure,
           Video!EnsureVblankPumpStarted, Video!EnsureClearStop, Video!EnsureLock, Video!EnsureStart,
           Video!OpenReturns, Video!WaitVblankReturns, Video!portVars, Video!pumpVars, Video!control
<1>2. UNCHANGED pump \/ \E n \in Video!Pumps \ Video!Created : pump' = [pump EXCEPT ![n] = "wait"]
    BY DEF ClientStep, Video!CallOpen, Video!CallWaitVblank, Video!Ensure,
           Video!EnsureVblankPumpStarted, Video!EnsureClearStop, Video!EnsureLock, Video!EnsureStart,
           Video!OpenReturns, Video!WaitVblankReturns, Video!portVars, Video!pumpVars, Video!control
<1>3. pump' = [n \in Video!Pumps |-> pump'[n]]
      /\ \A n \in Video!Pumps : pump'[n] = pump[n] \/ pump[n] = "none"
    BY <1>2 DEF PumpShapes, Video!Created
<1>4. PumpShapes'
    BY <1>1, <1>3, ClientStepChanges DEF PumpShapes
<1>5. DuesAreToCome'
    BY <1>1, <1>3 DEF DuesAreToCome
<1> QED
    BY <1>4, <1>5

LEMMA PumpEdgeKeepsShapes ==
    ASSUME PumpShapes, DuesAreToCome, NEW n \in Video!Pumps, Video!PumpEdge(n)
    PROVE  PumpShapes' /\ DuesAreToCome'
<1> DEFINE owed == UNION { {p} \X vblank_events[p] : p \in g_vo_ports }
<1>1. /\ UNCHANGED <<g_vo_ports, vblank_events, client>>
      /\ todo' = [todo EXCEPT ![n] = Video!PortsToSignal] /\ due' = [due EXCEPT ![n] = owed]
      /\ pump' = [pump EXCEPT ![n] = IF Video!PortsToSignal = {} THEN "wait" ELSE "signal"]
    BY DEF Video!PumpEdge, Video!PumpAt, Video!portVars
<1>2. PumpShapes'
    BY <1>1 DEF PumpShapes
<1>3. \A d \in owed : \E p \in Video!PortsToSignal : \E q \in vblank_events[p] : p \in Ports /\ d = <<p, q>>
    BY DEF PumpShapes, Video!PortsToSignal
<1>4. /\ todo'[n] = Video!PortsToSignal /\ due'[n] = owed
      /\ pump'[n] = IF Video!PortsToSignal = {} THEN "wait" ELSE "signal"
      /\ \A k \in Video!Pumps : k # n => todo'[k] = todo[k] /\ due'[k] = due[k] /\ pump'[k] = pump[k]
    BY <1>1 DEF PumpShapes
<1>5. owed # {} => pump'[n] = "signal"
    BY <1>3, <1>4
<1> HIDE DEF owed
<1>6. DuesAreToCome'
    BY <1>1, <1>3, <1>4, <1>5 DEF DuesAreToCome
<1> QED
    BY <1>2, <1>6

LEMMA PumpSignalsKeepsShapes ==
    ASSUME PumpShapes, DuesAreToCome, NEW n \in Video!Pumps, NEW p \in Ports, Video!PumpSignals(n, p)
    PROVE  PumpShapes' /\ DuesAreToCome'
<1>1. /\ UNCHANGED <<g_vo_ports, vblank_events, client>> /\ p \in todo[n]
      /\ todo' = [todo EXCEPT ![n] = todo[n] \ {p}] /\ due' = [due EXCEPT ![n] = due[n] \ ({p} \X vblank_events[p])]
      /\ pump' = [pump EXCEPT ![n] = IF todo[n] = {p} THEN "wait" ELSE "signal"]
    BY DEF Video!PumpSignals, Video!PumpAt, Video!portVars
<1>2. PumpShapes'
    <2>1. todo' = [k \in Video!Pumps |-> todo'[k]]
        BY <1>1 DEF PumpShapes
    <2>2. due' = [k \in Video!Pumps |-> due'[k]]
        <3>1. PICK rest : due' = [due EXCEPT ![n] = rest]
            BY <1>1
        <3>2. due = [k \in Video!Pumps |-> due[k]]
            BY DEF PumpShapes
        <3> QED
            BY <3>1, <3>2
    <2>3. pump' = [k \in Video!Pumps |-> pump'[k]]
        <3>1. PICK at : pump' = [pump EXCEPT ![n] = at]
            BY <1>1
        <3>2. pump = [k \in Video!Pumps |-> pump[k]]
            BY DEF PumpShapes
        <3> QED
            BY <3>1, <3>2
    <2> QED
        BY <1>1, <2>1, <2>2, <2>3 DEF PumpShapes
<1>3. /\ todo'[n] = todo[n] \ {p} /\ due'[n] = due[n] \ ({p} \X vblank_events[p])
      /\ pump'[n] = IF todo[n] = {p} THEN "wait" ELSE "signal"
      /\ \A k \in Video!Pumps : k # n => todo'[k] = todo[k] /\ due'[k] = due[k] /\ pump'[k] = pump[k]
    BY <1>1 DEF PumpShapes
<1>4. \A d \in due[n] \ ({p} \X vblank_events[p]) :
          \E k \in todo[n] \ {p} : \E q \in vblank_events[k] : k \in Ports /\ d = <<k, q>>
    BY DEF DuesAreToCome
<1>5. due'[n] # {} => pump'[n] = "signal"
    BY <1>3, <1>4
<1>6. DuesAreToCome'
    BY <1>1, <1>3, <1>4, <1>5 DEF DuesAreToCome
<1> QED
    BY <1>2, <1>6

LEMMA PumpStepKeepsShapes ==
    ASSUME PumpShapes, DuesAreToCome, [Video!PumpNext]_videoVars
    PROVE  PumpShapes' /\ DuesAreToCome'
<1>1. CASE UNCHANGED <<g_vo_ports, vblank_events, pump, todo, due, client>>
    BY <1>1 DEF PumpShapes, DuesAreToCome
<1>2. ASSUME NEW c \in Clients, ClientStep(c) PROVE PumpShapes' /\ DuesAreToCome'
    BY <1>2, ClientStepKeepsShapes
<1>3. ASSUME NEW c \in Clients, NEW p \in Ports, NEW q \in Queues, Video!AddVblankEvent(c, p, q)
      PROVE  PumpShapes' /\ DuesAreToCome'
    <2>1. UNCHANGED <<g_vo_ports, pump, todo, due, client>>
          /\ vblank_events' = [vblank_events EXCEPT ![p] = vblank_events[p] \cup {q}]
        BY <1>3 DEF Video!AddVblankEvent, Video!pumpVars
    <2>2. vblank_events' = [k \in Ports |-> vblank_events'[k]] /\ \A k \in Ports : vblank_events[k] \subseteq vblank_events'[k]
        <3>1. vblank_events = [k \in Ports |-> vblank_events[k]]
            BY DEF PumpShapes
        <3>2. vblank_events' = [k \in Ports |-> IF k = p THEN vblank_events[p] \cup {q} ELSE vblank_events[k]]
            BY <2>1, <3>1, Zenon
        <3> QED
            BY <3>2
    <2>3. PumpShapes'
        BY <2>1, <2>2 DEF PumpShapes
    <2>4. DuesAreToCome'
        BY <2>1, <2>2 DEF DuesAreToCome
    <2> QED
        BY <2>3, <2>4
<1>4. ASSUME NEW p \in Ports, Video!Close(p) PROVE PumpShapes' /\ DuesAreToCome'
    <2>1. UNCHANGED <<vblank_events, pump, todo, client>> /\ g_vo_ports' = g_vo_ports \ {p}
          /\ due' = [n \in Video!Pumps |-> { d \in due[n] : d[1] # p }]
        BY <1>4 DEF Video!Close
    <2>2. PumpShapes'
        BY <2>1 DEF PumpShapes
    <2>3. due' = [n \in Video!Pumps |-> due'[n]] /\ \A n \in Video!Pumps : due'[n] \subseteq due[n]
        BY <2>1
    <2>4. DuesAreToCome'
        BY <2>1, <2>3 DEF DuesAreToCome
    <2> QED
        BY <2>2, <2>4
<1>5. ASSUME NEW n \in Video!Pumps, Video!PumpWakes(n) PROVE PumpShapes' /\ DuesAreToCome'
    <2>1. UNCHANGED <<g_vo_ports, vblank_events, todo, due, client>> /\ pump[n] = "wait"
          /\ pump' = [pump EXCEPT ![n] = IF g_vblank_stop THEN "ended" ELSE "edge"]
        BY <1>5 DEF Video!PumpWakes, Video!PumpAt, Video!portVars
    <2>2. pump' = [k \in Video!Pumps |-> pump'[k]] /\ \A k \in Video!Pumps : k # n => pump'[k] = pump[k]
        BY <2>1 DEF PumpShapes
    <2>3. PumpShapes'
        BY <2>1, <2>2 DEF PumpShapes
    <2>4. DuesAreToCome'
        BY <2>1, <2>2 DEF DuesAreToCome
    <2> QED
        BY <2>3, <2>4
<1>6. ASSUME NEW n \in Video!Pumps, Video!PumpEdge(n) PROVE PumpShapes' /\ DuesAreToCome'
    BY <1>6, PumpEdgeKeepsShapes
<1>7. ASSUME NEW n \in Video!Pumps, NEW p \in Ports, Video!PumpSignals(n, p) PROVE PumpShapes' /\ DuesAreToCome'
    BY <1>7, PumpSignalsKeepsShapes
<1>8. CASE Video!ResetClears
    <2>1. UNCHANGED <<vblank_events, pump, todo, client>> /\ g_vo_ports' = {} /\ due' = [n \in Video!Pumps |-> {}]
        BY <1>8 DEF Video!ResetClears, Video!control
    <2> QED
        BY <2>1 DEF PumpShapes, DuesAreToCome
<1>9. CASE Video!ResetBegins \/ Video!ResetNotifies \/ Video!ResetJoins \/ Video!ResetStarted \/ Video!ResetStop
    <2>1. UNCHANGED <<g_vo_ports, vblank_events, pump, todo, due, client>>
        BY <1>9 DEF Video!ResetBegins, Video!ResetNotifies, Video!ResetJoins, Video!ResetStarted, Video!ResetStop,
                    Video!portVars, Video!pumpVars
    <2> QED
        BY <1>1, <2>1
<1>10. [Video!PumpNext]_videoVars =>
          \/ UNCHANGED <<g_vo_ports, vblank_events, pump, todo, due, client>>
          \/ \E c \in Clients : ClientStep(c) \/ \E p \in Ports, q \in Queues : Video!AddVblankEvent(c, p, q)
          \/ \E p \in Ports : Video!Close(p)
          \/ \E n \in Video!Pumps : Video!PumpWakes(n) \/ Video!PumpEdge(n) \/ \E p \in Ports : Video!PumpSignals(n, p)
          \/ Video!ResetClears
          \/ Video!ResetBegins \/ Video!ResetNotifies \/ Video!ResetJoins \/ Video!ResetStarted \/ Video!ResetStop
    BY Zenon DEF Video!PumpNext, Video!Reset, ClientStep, videoVars
<1> QED
    BY <1>1, <1>2, <1>3, <1>4, <1>5, <1>6, <1>7, <1>8, <1>9, <1>10, Zenon

-----------------------------------------------------------------------------
(* The vblank pump: one at a time. *)

Runs(n) == pump[n] \notin {"none", "ended"}

\* The client that won the exchange, until it has started the pump.
Starts(c) == client[c].at \in {"clear", "lock", "start"}

\* OpenImpl has its port and has yet to ask for the pump.
Opens(c) == client[c].op = "open" /\ client[c].at = "ensure"

Down ==
    /\ g_vblank_started = FALSE /\ g_vblank_stop = FALSE /\ g_vblank_thread = 0
    /\ \A c \in Clients : ~Starts(c)
    /\ g_vo_ports # {} => \E c \in Clients : Opens(c)
ComingUp ==
    /\ g_vblank_started = TRUE /\ g_vblank_stop = FALSE /\ g_vblank_thread = 0
    /\ \E c \in Clients : Starts(c) /\ \A d \in Clients : Starts(d) => d = c
Running ==
    /\ g_vblank_started = TRUE /\ g_vblank_stop = FALSE /\ g_vblank_thread \in Video!Pumps /\ Runs(g_vblank_thread)
    /\ \A c \in Clients : ~Starts(c)

\* Between the steps of ResetVideoOut nobody looks after the pump.
Resetting ==
    /\ \A c \in Clients : ~ Video!Ensuring(c)
    /\ resetting \in {"clear", "started", "stop"} => g_vblank_thread = 0
    /\ resetting \in {"started", "stop"} => g_vo_ports = {}
    /\ resetting = "stop" => g_vblank_started = FALSE

OwnPump == \A n \in Video!Pumps : Runs(n) => n = g_vblank_thread
Steady == Down \/ ComingUp \/ Running
PumpIsKept == IF resetting = "idle" THEN Steady ELSE Resetting

LEMMA PumpInitKept == Video!PumpInit => PumpIsKept /\ OwnPump
BY DEF Video!PumpInit, PumpIsKept, OwnPump, Steady, Down, Runs, Starts, Video!NoCall

LEMMA PumpsAreNotZero == \A n \in Video!Pumps : n # 0
BY DEF Video!Pumps

\* Whatever overlaps what: a pump is started only when the one of the handle has
\* ended, and the handle is dropped only then.
LEMMA OwnPumpStays ==
    ASSUME PumpShapes, OwnPump, [Video!PumpNext]_videoVars PROVE OwnPump'
<1>1. CASE UNCHANGED <<pump, g_vblank_thread>>
    BY <1>1 DEF OwnPump, Runs
<1>2. ASSUME NEW c \in Clients, Video!EnsureStart(c) PROVE OwnPump'
    <2>1. PICK n \in Video!Pumps : g_vblank_thread' = n /\ pump' = [pump EXCEPT ![n] = "wait"]
        BY <1>2 DEF Video!EnsureStart
    <2>2. pump'[n] = "wait" /\ \A k \in Video!Pumps : k # n => pump'[k] = pump[k]
        BY <2>1 DEF PumpShapes
    <2>3. g_vblank_thread # 0 => pump[g_vblank_thread] = "ended"
        BY <1>2 DEF Video!EnsureStart
    <2>4. \A k \in Video!Pumps : ~ Runs(k)
        BY <2>3, PumpsAreNotZero DEF OwnPump, Runs
    <2> QED
        BY <2>1, <2>2, <2>4 DEF OwnPump, Runs
<1>3. ASSUME NEW n \in Video!Pumps,
             Video!PumpWakes(n) \/ Video!PumpEdge(n) \/ \E p \in Ports : Video!PumpSignals(n, p)
      PROVE  OwnPump'
    <2>1. UNCHANGED g_vblank_thread /\ Runs(n) /\ \E at : pump' = [pump EXCEPT ![n] = at]
        BY <1>3 DEF Video!PumpWakes, Video!PumpEdge, Video!PumpSignals, Video!PumpAt, Video!control, Video!portVars, Runs
    <2>2. \A k \in Video!Pumps : k # n => pump'[k] = pump[k]
        BY <2>1 DEF PumpShapes
    <2> QED
        BY <2>1, <2>2 DEF OwnPump, Runs
<1>4. CASE Video!ResetJoins
    <2>1. UNCHANGED pump /\ (g_vblank_thread # 0 => pump[g_vblank_thread] = "ended")
        BY <1>4 DEF Video!ResetJoins
    <2>2. \A k \in Video!Pumps : ~ Runs(k)
        BY <2>1, PumpsAreNotZero DEF OwnPump, Runs
    <2> QED
        BY <2>1, <2>2 DEF OwnPump, Runs
<1>5. [Video!PumpNext]_videoVars =>
          \/ UNCHANGED <<pump, g_vblank_thread>> \/ Video!ResetJoins
          \/ \E c \in Clients : Video!EnsureStart(c)
          \/ \E n \in Video!Pumps : Video!PumpWakes(n) \/ Video!PumpEdge(n) \/ \E p \in Ports : Video!PumpSignals(n, p)
    BY Zenon DEF Video!PumpNext, Video!CallOpen, Video!CallWaitVblank, Video!Ensure,
                 Video!EnsureClearStop, Video!EnsureLock, Video!OpenReturns,
                 Video!WaitVblankReturns, Video!AddVblankEvent, Video!Close, Video!Reset, Video!ResetBegins,
                 Video!ResetNotifies, Video!ResetClears, Video!ResetStarted, Video!ResetStop,
                 videoVars, Video!pumpVars, Video!control
<1> QED
    BY <1>1, <1>2, <1>3, <1>4, <1>5, Zenon

\* Steps that move no client of the control, and no part of it.
LEMMA ControlUnchanged ==
    ASSUME PumpIsKept, UNCHANGED <<g_vblank_started, g_vblank_stop, g_vblank_thread, client, resetting>>,
           g_vo_ports' \subseteq g_vo_ports,
           \A n \in Video!Pumps : Runs(n)' <=> Runs(n)
    PROVE  PumpIsKept'
<1>2. (Down => Down') /\ (ComingUp => ComingUp') /\ (Running => Running') /\ (Resetting => Resetting')
    <2>1. Down => Down'
        BY DEF Down, Starts, Opens
    <2>2. ComingUp => ComingUp'
        BY DEF ComingUp, Starts
    <2>3. Running => Running'
        BY DEF Running, Starts
    <2>4. Resetting => Resetting'
        BY DEF Resetting, Video!Ensuring
    <2> QED
        BY <2>1, <2>2, <2>3, <2>4
<1> QED
    BY <1>2, Zenon DEF PumpIsKept, Steady

\* A call that leaves the control alone; the port it may open waits for it.
LEMMA CallsOnly ==
    ASSUME PumpShapes, PumpIsKept, NEW c \in Clients, ClientStep(c), resetting = "idle",
           UNCHANGED <<g_vblank_started, g_vblank_stop, g_vblank_thread, pump, resetting>>,
           Starts(c)' <=> Starts(c),
           ~ Opens(c) \/ g_vblank_started = TRUE, g_vo_ports' = g_vo_ports \/ Opens(c)'
    PROVE  PumpIsKept'
<1>1. \A d \in Clients : Starts(d)' <=> Starts(d)
    BY ClientStepChanges DEF Starts
<1>2. ~ Opens(c) => \A d \in Clients : Opens(d) => Opens(d)'
    BY ClientStepChanges DEF Opens
<1>4. Down => Down'
    <2> SUFFICES ASSUME Down PROVE Down'
        OBVIOUS
    <2>1. ~ Opens(c)
        BY DEF Down
    <2> QED
        BY <1>1, <1>2, <2>1, Zenon DEF Down
<1>5. ComingUp => ComingUp'
    BY <1>1, Zenon DEF ComingUp
<1>6. Running => Running'
    BY <1>1, Zenon DEF Running, Runs
<1> QED
    BY <1>4, <1>5, <1>6, Zenon DEF PumpIsKept, Steady

LEMMA EnsuringMeetsNoReset ==
    ASSUME PumpIsKept, NEW c \in Clients, Video!Ensuring(c) PROVE resetting = "idle" /\ Steady
BY DEF PumpIsKept, Resetting

\* EnsureVblankPumpStarted.
LEMMA EnsureKeepsPump ==
    ASSUME PumpShapes, PumpIsKept, NEW c \in Clients, Video!Ensure(c) PROVE PumpIsKept'
<1>1. /\ client[c].at = "ensure"
      /\ UNCHANGED <<g_vo_ports, g_vblank_stop, g_vblank_thread, pump, resetting>>
    BY DEF Video!Ensure, Video!portVars
<1>2. resetting = "idle" /\ Steady
    BY <1>1, EnsuringMeetsNoReset DEF Video!Ensuring
<1>3. ClientStep(c)
    BY DEF ClientStep
<1>4. CASE g_vblank_started = TRUE
    <2>1. UNCHANGED g_vblank_started /\ \E at \in {"unlock", "waiting"} : Video!Goto(c, at)
        BY <1>4 DEF Video!Ensure, Video!EnsureVblankPumpStarted
    <2>2. PICK at \in {"unlock", "waiting"} : Video!Goto(c, at)
        BY <2>1
    <2>3. client'[c].at = at
        BY <2>2, CallMoves
    <2>4. ~ Starts(c) /\ ~ Starts(c)'
        BY <1>1, <2>3 DEF Starts
    <2> QED
        BY <1>1, <1>2, <1>3, <1>4, <2>1, <2>4, CallsOnly
<1>5. CASE g_vblank_started = FALSE
    <2>1. g_vblank_started' = TRUE /\ Video!Goto(c, "clear")
        BY <1>5 DEF Video!Ensure, Video!EnsureVblankPumpStarted
    <2>2. Starts(c)' /\ \A d \in Clients : d # c => client'[d] = client[d]
        BY <2>1, CallMoves DEF Starts
    <2>3. Down
        BY <1>2, <1>5 DEF Steady, ComingUp, Running
    <2>4. ComingUp'
        BY <1>1, <2>1, <2>2, <2>3 DEF Down, ComingUp, Starts
    <2> QED
        BY <1>1, <1>2, <2>4 DEF PumpIsKept, Steady
<1> QED
    BY <1>2, <1>4, <1>5 DEF Steady, Down, ComingUp, Running

LEMMA EnsureStartKeepsPump ==
    ASSUME PumpShapes, PumpIsKept, NEW c \in Clients, Video!EnsureStart(c) PROVE PumpIsKept'
<1>1. /\ client[c].at = "start"
      /\ UNCHANGED <<g_vblank_started, g_vblank_stop, resetting>>
      /\ \E at \in {"unlock", "waiting"} : Video!Goto(c, at)
    BY DEF Video!EnsureStart
<1>2. resetting = "idle" /\ Steady /\ Starts(c)
    BY <1>1, EnsuringMeetsNoReset DEF Starts, Video!Ensuring
<1>3. ComingUp
    BY <1>2 DEF Steady, Down, Running
<1>4. PICK n \in Video!Pumps : g_vblank_thread' = n /\ pump' = [pump EXCEPT ![n] = "wait"]
    BY DEF Video!EnsureStart
<1>5. pump'[n] = "wait" /\ \A k \in Video!Pumps : k # n => pump'[k] = pump[k]
    BY <1>4 DEF PumpShapes
<1>7. Runs(g_vblank_thread)'
    BY <1>4, <1>5 DEF Runs
<1>8. \A d \in Clients : ~ Starts(d)'
    <2>1. PICK at \in {"unlock", "waiting"} : Video!Goto(c, at)
        BY <1>1
    <2>2. client'[c].at = at /\ \A d \in Clients : d # c => client'[d] = client[d]
        BY <2>1, CallMoves
    <2>3. \A d \in Clients : d # c => ~ Starts(d)
        BY <1>2, <1>3 DEF ComingUp
    <2> QED
        BY <2>2, <2>3 DEF Starts
<1>9. Running'
    BY <1>1, <1>3, <1>4, <1>7, <1>8 DEF ComingUp, Running
<1> QED
    BY <1>1, <1>2, <1>7, <1>9 DEF PumpIsKept, Steady

\* Every step of a call.
LEMMA ClientStepKeepsPump ==
    ASSUME PumpShapes, PumpIsKept, NEW c \in Clients, ClientStep(c), ~ overlapped'
    PROVE  PumpIsKept'
<1>1. CASE Video!Ensure(c)
    BY <1>1, EnsureKeepsPump
<1>2. CASE Video!EnsureStart(c)
    BY <1>2, EnsureStartKeepsPump
<1>3. CASE Video!CallOpen(c) \/ Video!CallWaitVblank(c)
    <2>1. \E op : Video!Enter(c, Video!Call(op)) /\ (op = "open" \/ g_vo_ports' = g_vo_ports)
        BY <1>3, Zenon DEF Video!CallOpen, Video!CallWaitVblank, Video!portVars
    <2>2. PICK op : Video!Enter(c, Video!Call(op)) /\ (op = "open" \/ g_vo_ports' = g_vo_ports)
        BY <2>1
    <2>3. resetting = "idle"
        BY <2>2, Zenon DEF Video!Enter
    <2>4. UNCHANGED <<g_vblank_started, g_vblank_stop, g_vblank_thread, pump, resetting>>
        BY <1>3 DEF Video!CallOpen, Video!CallWaitVblank, Video!pumpVars, Video!control
    <2>5. client[c] = Video!NoCall /\ client'[c] = Video!Call(op)
        <3>1. client[c] = Video!NoCall /\ client' = [client EXCEPT ![c] = Video!Call(op)]
            BY <2>2, Zenon DEF Video!Enter
        <3> QED
            BY <3>1, CallChanges DEF Video!Call
    <2>6. ~ Starts(c) /\ ~ Starts(c)' /\ ~ Opens(c) /\ (op = "open" => Opens(c)')
        BY <2>5 DEF Starts, Opens, Video!NoCall, Video!Call
    <2> QED
        BY <2>2, <2>3, <2>4, <2>6, CallsOnly
<1>4. CASE Video!OpenReturns(c) \/ Video!WaitVblankReturns(c)
    <2>1. /\ client[c].at \in {"unlock", "waiting"} /\ client' = [client EXCEPT ![c] = Video!NoCall]
          /\ UNCHANGED <<g_vo_ports, g_vblank_started, g_vblank_stop, g_vblank_thread, pump, resetting>>
        BY <1>4 DEF Video!OpenReturns, Video!WaitVblankReturns, Video!Return, Video!pumpVars, Video!control,
                    Video!portVars
    <2>2. client'[c] = Video!NoCall
        BY <2>1, CallChanges DEF Video!NoCall
    <2>3. ~ Starts(c) /\ ~ Starts(c)' /\ ~ Opens(c)
        BY <2>1, <2>2 DEF Starts, Opens, Video!NoCall
    <2>4. CASE resetting = "idle"
        BY <2>1, <2>3, <2>4, CallsOnly
    <2>5. CASE resetting # "idle"
        <3>1. \A d \in Clients : d # c => client'[d] = client[d]
            BY <2>1, CallChanges DEF Video!NoCall
        <3>2. ~ Video!Ensuring(c)'
            BY <2>2 DEF Video!Ensuring, Video!NoCall
        <3>3. \A d \in Clients : d # c => (Video!Ensuring(d)' <=> Video!Ensuring(d))
            BY <3>1 DEF Video!Ensuring
        <3> QED
            BY <2>1, <2>5, <3>2, <3>3 DEF PumpIsKept, Resetting
    <2> QED
        BY <2>4, <2>5
<1>5. CASE Video!EnsureClearStop(c) \/ Video!EnsureLock(c)
    <2>1. /\ client[c].at \in {"clear", "lock"} /\ \E at \in {"lock", "start"} : Video!Goto(c, at)
          /\ UNCHANGED <<g_vo_ports, g_vblank_started, g_vblank_thread, pump, resetting>>
          /\ g_vblank_stop' \in {FALSE, g_vblank_stop}
        BY <1>5 DEF Video!EnsureClearStop, Video!EnsureLock, Video!pumpVars, Video!control, Video!portVars
    <2>2. PICK at \in {"lock", "start"} : Video!Goto(c, at)
        BY <2>1
    <2>3. client'[c].at = at
        BY <2>2, CallMoves
    <2>4. Starts(c) /\ Starts(c)' /\ ~ Opens(c)
        BY <2>1, <2>3 DEF Starts, Opens
    <2>5. resetting = "idle" /\ g_vblank_stop = FALSE
        BY <2>1, EnsuringMeetsNoReset DEF Steady, Down, ComingUp, Running, Video!Ensuring
    <2> QED
        BY <2>1, <2>4, <2>5, CallsOnly
<1> QED
    BY <1>1, <1>2, <1>3, <1>4, <1>5, Zenon DEF ClientStep

\* The pump thread goes round, or sees the stop.
LEMMA PumpTurnKeepsPump ==
    ASSUME PumpShapes, PumpIsKept, NEW n \in Video!Pumps,
           Video!PumpWakes(n) \/ Video!PumpEdge(n) \/ \E p \in Ports : Video!PumpSignals(n, p)
    PROVE  PumpIsKept'
<1>1. /\ UNCHANGED <<g_vblank_started, g_vblank_stop, g_vblank_thread, client, resetting, g_vo_ports>>
      /\ Runs(n)
      /\ \E at : /\ pump' = [pump EXCEPT ![n] = at]
                 /\ at \in {"wait", "edge", "signal"} \/ (at = "ended" /\ g_vblank_stop)
    BY DEF Video!PumpWakes, Video!PumpEdge, Video!PumpSignals, Video!PumpAt, Video!control, Video!portVars, Runs
<1>2. PICK at : /\ pump' = [pump EXCEPT ![n] = at]
                /\ at \in {"wait", "edge", "signal"} \/ (at = "ended" /\ g_vblank_stop)
    BY <1>1
<1>3. pump'[n] = at /\ \A k \in Video!Pumps : k # n => pump'[k] = pump[k]
    BY <1>2 DEF PumpShapes
<1>4. CASE at # "ended"
    <2>1. \A k \in Video!Pumps : Runs(k)' <=> Runs(k)
        BY <1>1, <1>2, <1>3, <1>4 DEF Runs
    <2> QED
        BY <1>1, <2>1, ControlUnchanged
<1>5. CASE at = "ended"
    <2>1. g_vblank_stop
        BY <1>2, <1>5
    <2>2. resetting # "idle" /\ Resetting
        BY <2>1 DEF PumpIsKept, Steady, Down, ComingUp, Running
    <2>3. Resetting'
        BY <1>1, <2>2 DEF Resetting, Video!Ensuring
    <2> QED
        BY <1>1, <2>2, <2>3 DEF PumpIsKept
<1> QED
    BY <1>4, <1>5

\* ResetVideoOut: it begins from any state, when nobody looks after the pump.
LEMMA ResetBeginsAnew ==
    ASSUME Video!ResetBegins, ~ overlapped' PROVE PumpIsKept'
<1>1. resetting' = "notify" /\ UNCHANGED client /\ \A c \in Clients : ~ Video!Ensuring(c)
    BY Zenon DEF Video!ResetBegins
<1> QED
    BY <1>1 DEF PumpIsKept, Resetting, Video!Ensuring

LEMMA ResetKeepsPump ==
    ASSUME PumpShapes, PumpIsKept, Video!Reset, ~ overlapped' PROVE PumpIsKept'
<1> USE DEF Video!Ensuring
<1>1. UNCHANGED <<pump, client>> /\ resetting \in {"idle", "notify", "join", "clear", "started", "stop"}
    BY DEF Video!Reset, Video!ResetBegins, Video!ResetNotifies, Video!ResetJoins, Video!ResetClears,
           Video!ResetStarted, Video!ResetStop, Video!pumpVars
<1>2. CASE Video!ResetBegins
    BY <1>2, ResetBeginsAnew
<1>3. CASE Video!ResetNotifies
    <2>1. resetting = "notify" /\ resetting' = "join" /\ UNCHANGED g_vblank_thread
        BY <1>3 DEF Video!ResetNotifies, Video!pumpVars, Video!control
    <2> QED
        BY <1>1, <2>1 DEF PumpIsKept, Resetting
<1>4. CASE Video!ResetJoins
    <2>1. /\ resetting = "join" /\ resetting' = "clear" /\ g_vblank_thread' = 0
          /\ g_vblank_thread # 0 => pump[g_vblank_thread] = "ended"
        BY <1>4 DEF Video!ResetJoins
    <2> QED
        BY <1>1, <2>1 DEF PumpIsKept, Resetting
<1>5. CASE Video!ResetClears
    <2>1. resetting = "clear" /\ resetting' = "started" /\ g_vo_ports' = {} /\ UNCHANGED g_vblank_thread
        BY <1>5 DEF Video!ResetClears, Video!control
    <2> QED
        BY <1>1, <2>1 DEF PumpIsKept, Resetting
<1>6. CASE Video!ResetStarted
    <2>1. resetting = "started" /\ resetting' = "stop" /\ g_vblank_started' = FALSE
          /\ UNCHANGED <<g_vblank_thread, g_vo_ports>>
        BY <1>6 DEF Video!ResetStarted, Video!portVars
    <2> QED
        BY <1>1, <2>1 DEF PumpIsKept, Resetting
<1>7. CASE Video!ResetStop
    <2>1. resetting = "stop" /\ resetting' = "idle" /\ g_vblank_stop' = FALSE
          /\ UNCHANGED <<g_vblank_started, g_vblank_thread, g_vo_ports>>
        BY <1>7 DEF Video!ResetStop, Video!portVars
    <2>2. Down'
        BY <1>1, <2>1 DEF PumpIsKept, Resetting, Down, Starts, Video!NoCall
    <2> QED
        BY <1>1, <2>1, <2>2 DEF PumpIsKept, Steady
<1> QED
    BY <1>2, <1>3, <1>4, <1>5, <1>6, <1>7, Zenon DEF Video!Reset

PumpInv ==
    /\ PumpShapes /\ DuesAreToCome /\ OwnPump
    /\ overlapped \/ PumpIsKept

LEMMA PumpStepKeepsInv ==
    ASSUME PumpInv, [Video!PumpNext]_videoVars PROVE PumpInv'
<1>1. PumpShapes' /\ DuesAreToCome'
    BY PumpStepKeepsShapes, Zenon DEF PumpInv
<1>5. OwnPump'
    BY OwnPumpStays, Zenon DEF PumpInv
<1>2. overlapped /\ ~ Video!ResetBegins => overlapped'
    BY Zenon DEF Video!PumpNext, Video!CallOpen, Video!CallWaitVblank, Video!Enter, Video!Ensure,
                 Video!EnsureClearStop, Video!EnsureLock, Video!EnsureStart, Video!OpenReturns,
                 Video!WaitVblankReturns, Video!AddVblankEvent, Video!Close, Video!PumpWakes, Video!PumpEdge,
                 Video!PumpSignals, Video!Reset, Video!ResetNotifies, Video!ResetJoins,
                 Video!ResetClears, Video!ResetStarted, Video!ResetStop, videoVars
<1>4. ASSUME Video!ResetBegins, ~ overlapped' PROVE PumpIsKept'
    BY <1>4, ResetBeginsAnew
<1>3. ASSUME PumpIsKept, ~ overlapped' PROVE PumpIsKept'
    <2>1. PumpShapes
        BY DEF PumpInv
    <2>2. ASSUME NEW c \in Clients, ClientStep(c) PROVE PumpIsKept'
        BY <1>3, <2>1, <2>2, ClientStepKeepsPump
    <2>3. ASSUME NEW n \in Video!Pumps,
                 Video!PumpWakes(n) \/ Video!PumpEdge(n) \/ \E p \in Ports : Video!PumpSignals(n, p)
          PROVE  PumpIsKept'
        BY <1>3, <2>1, <2>3, PumpTurnKeepsPump
    <2>4. CASE Video!Reset
        BY <1>3, <2>1, <2>4, ResetKeepsPump
    <2>5. CASE \/ UNCHANGED videoVars
               \/ \E p \in Ports : Video!Close(p) \/ \E c \in Clients, q \in Queues : Video!AddVblankEvent(c, p, q)
        <3>1. UNCHANGED <<g_vblank_started, g_vblank_stop, g_vblank_thread, client, resetting, pump>>
              /\ g_vo_ports' \subseteq g_vo_ports
            BY <2>5 DEF videoVars, Video!Close, Video!AddVblankEvent, Video!control, Video!pumpVars
        <3> QED
            BY <1>3, <3>1, ControlUnchanged DEF Runs
    <2>6. [Video!PumpNext]_videoVars =>
              \/ UNCHANGED videoVars \/ Video!Reset \/ \E c \in Clients : ClientStep(c)
              \/ \E p \in Ports : Video!Close(p) \/ \E c \in Clients, q \in Queues : Video!AddVblankEvent(c, p, q)
              \/ \E n \in Video!Pumps : Video!PumpWakes(n) \/ Video!PumpEdge(n) \/ \E p \in Ports : Video!PumpSignals(n, p)
        BY Zenon DEF Video!PumpNext, ClientStep
    <2> QED
        BY <2>2, <2>3, <2>4, <2>5, <2>6, Zenon
<1> QED
    BY <1>1, <1>2, <1>3, <1>4, <1>5, Zenon DEF PumpInv

LEMMA PumpInvImplies == PumpInv => Video!OnePump /\ Video!EdgeReachesItsQueues
<1> SUFFICES ASSUME PumpInv PROVE Video!OnePump /\ Video!EdgeReachesItsQueues
    OBVIOUS
<1>1. Video!EdgeReachesItsQueues
    BY DEF PumpInv, DuesAreToCome, Video!EdgeReachesItsQueues
<1>5. \A n \in Video!Pumps : Runs(n) => n = g_vblank_thread
    BY DEF PumpInv, OwnPump
<1>2. ASSUME ~ overlapped, g_vo_ports # {}, resetting = "idle", \A c \in Clients : client[c] = Video!NoCall
      PROVE  Running
    <2>1. PumpIsKept
        BY <1>2, Zenon DEF PumpInv
    <2>2. (\A c \in Clients : client[c] = Video!NoCall) => \A c \in Clients : ~ Starts(c) /\ ~ Opens(c)
        BY DEF Starts, Opens, Video!NoCall
    <2> QED
        BY <1>2, <2>1, <2>2, Zenon DEF PumpIsKept, Steady, Down, ComingUp
<1>3. Running => /\ g_vblank_started /\ ~ g_vblank_stop
                 /\ g_vblank_thread \in { n \in Video!Pumps : pump[n] \notin {"none", "ended"} }
    BY DEF Running, Runs
<1>6. ASSUME ~ overlapped, NEW c \in Clients, client[c].at = "start" PROVE g_vblank_thread = 0
    <2>1. PumpIsKept
        BY <1>6, Zenon DEF PumpInv
    <2>2. Starts(c) /\ Video!Ensuring(c)
        BY <1>6 DEF Starts, Video!Ensuring
    <2> QED
        BY <2>1, <2>2, Zenon DEF PumpIsKept, Resetting, Steady, Down, ComingUp, Running
<1>4. Video!OnePump
    BY <1>2, <1>3, <1>5, <1>6, Zenon DEF Video!OnePump, Runs
<1> QED
    BY <1>1, <1>4

\* Whatever overlaps what, no two pumps tick; after a reset that overlapped no call
\* which looked after the pump, it ticks while a port is open and nobody joins it with
\* its lock held.  Edges reach the registered queues; what is shown is the last flip
\* of the port, and what a queue was told last is that flip if there was one since it
\* was registered, unless flips crossed (VblankPumpLoop, EnsureVblankPumpStarted,
\* ResetVideoOut, AddEventImpl, SubmitFlipImpl).
THEOREM DisplayServes == Spec => []DisplayServesItsClients
<1>1. Init => PumpInv /\ FlipInv
    BY PumpInitShapes, PumpInitKept, FlipInitInv, Zenon DEF Init, PumpInv
<1>2. PumpInv /\ FlipInv /\ [Next]_vars => PumpInv' /\ FlipInv'
    <2>1. [Next]_vars => [Video!PumpNext]_videoVars /\ [Video!FlipNext]_flipVars
        BY Zenon DEF Next, vars, guestVars
    <2> QED
        BY <2>1, PumpStepKeepsInv, FlipStepKeepsInv, Zenon
<1>3. PumpInv /\ FlipInv => DisplayServesItsClients
    BY PumpInvImplies, FlipInvImplies, Zenon DEF DisplayServesItsClients
<1> QED
    BY <1>1, <1>2, <1>3, PTL DEF Spec

-----------------------------------------------------------------------------
(* Guest files; the invariant is that of ServicePartsProofs. *)

Guest == INSTANCE ServicePartsProofs WITH crossed <- files_crossed

\* Files and Guest instantiate the same module.
LEMMA SameFiles ==
    /\ Guest!FilesAssumption
    /\ Files!Init <=> Guest!Init
    /\ [Files!Next]_fileVars <=> [Guest!Next]_(Guest!fileVars)
<1>1. Guest!FilesAssumption
    BY ServicesAssumption, Zenon DEF ServicesAssumption, Files!FilesAssumption, Guest!FilesAssumption
<1>2. Files!Init <=> Guest!Init
    BY Zenon DEF Files!Init, Files!Resting, Guest!Init, Guest!Resting
<1>3. ASSUME NEW t \in Openers, NEW op
      PROVE  Files!CrtOpen(t, op) <=> Guest!CrtOpen(t, op)
    BY Zenon
       DEF Files!CrtOpen, Files!Resting, Files!LowestFree, Files!Open, Files!Untracked, Files!Calls,
           Guest!CrtOpen, Guest!Resting, Guest!LowestFree, Guest!Open, Guest!Untracked, Guest!Calls
<1>4. ASSUME NEW t \in Openers
      PROVE  /\ Files!TrackGuestFd(t) <=> Guest!TrackGuestFd(t)
             /\ Files!CreateFakeFile(t) <=> Guest!CreateFakeFile(t)
    BY Zenon
       DEF Files!TrackGuestFd, Files!CreateFakeFile, Files!Mapped, Files!Go, Files!Calls, Files!Answer, Files!Resting,
           Guest!TrackGuestFd, Guest!CreateFakeFile, Guest!Mapped, Guest!Go, Guest!Calls, Guest!Answer, Guest!Resting
<1>5. ASSUME NEW t \in Openers
      PROVE  /\ Files!UntrackGuestFd(t) <=> Guest!UntrackGuestFd(t)
             /\ Files!CrtClose(t) <=> Guest!CrtClose(t)
             /\ Files!DestroyFakeFile(t) <=> Guest!DestroyFakeFile(t)
             /\ Files!CloseErased(t) <=> Guest!CloseErased(t)
             /\ Files!UntrackClosed(t) <=> Guest!UntrackClosed(t)
    BY Zenon
       DEF Files!UntrackGuestFd, Files!CrtClose, Files!DestroyFakeFile, Files!CloseErased, Files!UntrackClosed,
           Files!Go, Files!Calls, Files!Answer, Files!Resting,
           Guest!UntrackGuestFd, Guest!CrtClose, Guest!DestroyFakeFile, Guest!CloseErased, Guest!UntrackClosed,
           Guest!Go, Guest!Calls, Guest!Answer, Guest!Resting
<1>6. ASSUME NEW t \in Openers
      PROVE  /\ Files!FakeFileFd(t) <=> Guest!FakeFileFd(t)
             /\ Files!IsGuestFd(t) <=> Guest!IsGuestFd(t)
             /\ Files!Transfer(t) <=> Guest!Transfer(t)
    BY Zenon
       DEF Files!FakeFileFd, Files!IsGuestFd, Files!Transfer, Files!Moves, Files!End,
           Files!Go, Files!Calls, Files!Answer, Files!Resting,
           Guest!FakeFileFd, Guest!IsGuestFd, Guest!Transfer, Guest!Moves, Guest!End,
           Guest!Go, Guest!Calls, Guest!Answer, Guest!Resting
<1>7. ASSUME NEW t \in Openers
      PROVE  /\ Files!Fgets(t) <=> Guest!Fgets(t)
             /\ Files!FeofAsks(t) <=> Guest!FeofAsks(t)
             /\ Files!FeofReturns(t) <=> Guest!FeofReturns(t)
    BY Zenon
       DEF Files!Fgets, Files!FeofAsks, Files!FeofReturns, Files!LineEnds, Files!Moves, Files!End,
           Files!Calls, Files!Answer, Files!Resting,
           Guest!Fgets, Guest!FeofAsks, Guest!FeofReturns, Guest!LineEnds, Guest!Moves, Guest!End,
           Guest!Calls, Guest!Answer, Guest!Resting
<1>8. ASSUME NEW t \in Openers, NEW h, NEW op
      PROVE  /\ Files!BeginClose(t, h) <=> Guest!BeginClose(t, h)
             /\ Files!BeginUse(t, h, op) <=> Guest!BeginUse(t, h, op)
    BY Zenon
       DEF Files!BeginClose, Files!BeginUse, Files!On, Files!Calls, Files!Resting,
           Guest!BeginClose, Guest!BeginUse, Guest!On, Guest!Calls, Guest!Resting
<1>9. Files!Next <=> Guest!Next
    BY <1>3, <1>4, <1>5, <1>6, <1>7, <1>8, Zenon DEF Files!Next, Guest!Next
<1> QED
    BY <1>1, <1>2, <1>9, Zenon DEF fileVars, Guest!fileVars

LEMMA SameFileProperties ==
    /\ Guest!HeldFilesStayOpen => Files!HeldFilesStayOpen
    /\ Guest!LegalCallsAreServed => Files!LegalCallsAreServed
    /\ Guest!ClosedStructsAreFree => Files!ClosedStructsAreFree
    /\ Guest!StreamCallsAreExact => Files!StreamCallsAreExact
BY Zenon
   DEF Files!HeldFilesStayOpen, Files!LegalCallsAreServed, Files!ClosedStructsAreFree, Files!StreamCallsAreExact,
       Files!Line, Files!End,
       Guest!HeldFilesStayOpen, Guest!LegalCallsAreServed, Guest!ClosedStructsAreFree, Guest!StreamCallsAreExact,
       Guest!Line, Guest!End

\* What the guest holds stays open as its own, legal calls are served but where a
\* file crossed an fclose, closed structs name nothing, and calls alone on a file
\* leave it where they should (KernelOpenCore, KernelCloseCore, FakeFileFd, fgets, feof).
THEOREM FilesKeepOwner == Spec => []FilesKeepTheirOwner
<1>1. Init => Guest!FilesInv
    BY SameFiles, Guest!FilesInitInv, Zenon DEF Init
<1>2. Guest!FilesInv /\ [Next]_vars => Guest!FilesInv'
    <2>1. [Next]_vars => [Files!Next]_fileVars
        BY Zenon DEF Next, vars, guestVars
    <2> QED
        BY <2>1, SameFiles, Guest!FilesStepKeepsInv, Zenon
<1>3. Guest!FilesInv => FilesKeepTheirOwner
    BY SameFileProperties, Guest!FilesInvImplies, Zenon DEF FilesKeepTheirOwner
<1> QED
    BY <1>1, <1>2, <1>3, PTL DEF Spec

-----------------------------------------------------------------------------
(* Audio ports, likewise. *)

LEMMA SameAudio ==
    /\ Guest!AudioAssumption
    /\ Audio!AudioInit <=> Guest!AudioInit
    /\ [Audio!AudioNext]_audioVars <=> [Guest!AudioNext]_(Guest!audioVars)
<1>1. Guest!AudioAssumption
    BY ServicesAssumption, Zenon
       DEF ServicesAssumption, Audio!AudioAssumption, Audio!IsFiniteSet, Guest!AudioAssumption, Guest!IsFiniteSet
<1>2. Audio!AudioInit <=> Guest!AudioInit
    BY Zenon
       DEF Audio!AudioInit, Audio!NoOutput, Audio!Ids, Guest!AudioInit, Guest!NoOutput, Guest!Ids
<1>3. ASSUME NEW b PROVE Audio!OpenPort(b) <=> Guest!OpenPort(b)
    BY Zenon
       DEF Audio!OpenPort, Audio!ringVars, Guest!OpenPort, Guest!ringVars
<1>4. ASSUME NEW c \in Players PROVE Audio!Output(c) <=> Guest!Output(c)
    BY Zenon
       DEF Audio!Output, Audio!Active, Audio!bufferVars, Audio!ringVars, Audio!NoOutput, Guest!Output,
           Guest!Active, Guest!bufferVars, Guest!ringVars, Guest!NoOutput
<1>5. ASSUME NEW c \in Players
      PROVE  /\ Audio!TakeFree(c) <=> Guest!TakeFree(c)
             /\ Audio!TakeNew(c) <=> Guest!TakeNew(c)
             /\ Audio!Sleep(c) <=> Guest!Sleep(c)
    BY Zenon
       DEF Audio!TakeFree, Audio!TakeNew, Audio!Sleep, Audio!Fill, Audio!Ids, Audio!bufferVars,
           Audio!ringVars, Guest!TakeFree, Guest!TakeNew, Guest!Sleep, Guest!Fill, Guest!Ids,
           Guest!bufferVars, Guest!ringVars
<1>6. ASSUME NEW c \in Players
      PROVE  /\ Audio!Submit(c) <=> Guest!Submit(c)
             /\ Audio!SubmitFails(c) <=> Guest!SubmitFails(c)
             /\ Audio!PrepareFails(c) <=> Guest!PrepareFails(c)
    BY Zenon
       DEF Audio!Submit, Audio!SubmitFails, Audio!PrepareFails, Audio!Notified, Audio!NoOutput,
           Audio!ringVars, Guest!Submit, Guest!SubmitFails, Guest!PrepareFails, Guest!Notified,
           Guest!NoOutput, Guest!ringVars
<1>7. ASSUME NEW c \in Players
      PROVE  /\ Audio!PushBegins(c) <=> Guest!PushBegins(c)
             /\ Audio!PushWrites(c) <=> Guest!PushWrites(c)
             /\ Audio!PushStores(c) <=> Guest!PushStores(c)
    BY Zenon
       DEF Audio!PushBegins, Audio!PushWrites, Audio!PushStores, Audio!Full, Audio!AfterSlot,
           Audio!bufferVars, Audio!ringVars, Audio!NoOutput, Guest!PushBegins, Guest!PushWrites,
           Guest!PushStores, Guest!Full, Guest!AfterSlot, Guest!bufferVars, Guest!ringVars,
           Guest!NoOutput
<1>8. /\ Audio!BufferEnd <=> Guest!BufferEnd
      /\ Audio!Pop <=> Guest!Pop
    BY Zenon
       DEF Audio!BufferEnd, Audio!Pop, Audio!Notified, Audio!AfterSlot, Audio!bufferVars,
           Audio!ringVars, Guest!BufferEnd, Guest!Pop, Guest!Notified, Guest!AfterSlot,
           Guest!bufferVars, Guest!ringVars
<1>9. /\ Audio!Close <=> Guest!Close
      /\ Audio!CloseDrained <=> Guest!CloseDrained
    BY Zenon
       DEF Audio!Close, Audio!CloseDrained, Audio!Active, Audio!NoOutput, Audio!ToSet, Audio!ringVars,
           Guest!Close, Guest!CloseDrained, Guest!Active, Guest!NoOutput, Guest!ToSet, Guest!ringVars
<1>10. Audio!AudioNext <=> Guest!AudioNext
    BY <1>3, <1>4, <1>5, <1>6, <1>7, <1>8, <1>9, Zenon DEF Audio!AudioNext, Guest!AudioNext
<1> QED
    BY <1>1, <1>2, <1>10, Zenon DEF audioVars, Guest!audioVars, Guest!bufferVars, Guest!ringVars

LEMMA SameAudioProperties ==
    /\ Guest!BuffersAreAccounted => Audio!BuffersAreAccounted
    /\ Guest!PlayedAsSubmitted => Audio!PlayedAsSubmitted
    /\ Guest!SleeperIsWoken => Audio!SleeperIsWoken
<1>1. Guest!BuffersAreAccounted => Audio!BuffersAreAccounted
    BY Zenon
       DEF Audio!BuffersAreAccounted, Audio!IsInjective, Audio!ToSet, Audio!Filling, Audio!Cardinality,
           Guest!BuffersAreAccounted, Guest!IsInjective, Guest!ToSet, Guest!Filling, Guest!Cardinality
<1>2. Guest!PlayedAsSubmitted => Audio!PlayedAsSubmitted
    BY Zenon
       DEF Audio!PlayedAsSubmitted, Audio!IsPrefix, Audio!Active, Audio!NoOutput,
           Guest!PlayedAsSubmitted, Guest!IsPrefix, Guest!Active, Guest!NoOutput
<1>3. Guest!SleeperIsWoken => Audio!SleeperIsWoken
    BY Zenon
       DEF Audio!SleeperIsWoken, Audio!Filling, Audio!Cardinality, Guest!SleeperIsWoken, Guest!Filling,
           Guest!Cardinality
<1> QED
    BY <1>1, <1>2, <1>3

-----------------------------------------------------------------------------
(* The preview player, likewise. *)

LEMMA SameSound ==
    /\ Guest!SoundAssumption
    /\ Sound!SoundInit <=> Guest!SoundInit
    /\ [Sound!SoundNext]_playerVars <=> [Guest!SoundNext]_(Guest!playerVars)
<1>1. Guest!SoundAssumption
    BY ServicesAssumption, Zenon DEF ServicesAssumption, Sound!SoundAssumption, Guest!SoundAssumption
<1>2. Sound!SoundInit <=> Guest!SoundInit
    BY Zenon
       DEF Sound!SoundInit, Sound!Idle, Sound!Waiting, Guest!SoundInit, Guest!Idle, Guest!Waiting
<1>3. /\ \A f \in Tracks : Sound!Play(f) <=> Guest!Play(f)
      /\ \A on \in BOOLEAN : Sound!Stop(on) <=> Guest!Stop(on)
      /\ Sound!SetEnabled <=> Guest!SetEnabled
    BY Zenon
       DEF Sound!Play, Sound!Stop, Sound!SetEnabled, Sound!Call, Sound!Idle, Sound!request, Sound!cache,
           Sound!engine, Guest!Play, Guest!Stop, Guest!SetEnabled, Guest!Call, Guest!Idle,
           Guest!request, Guest!cache, Guest!engine
<1>4. /\ Sound!PlayLocked <=> Guest!PlayLocked
      /\ Sound!Pause <=> Guest!Pause
      /\ Sound!Resume <=> Guest!Resume
    BY Zenon
       DEF Sound!PlayLocked, Sound!Pause, Sound!Resume, Sound!Call, Sound!Free, Sound!Idle,
           Sound!request, Sound!cache, Sound!engine, Guest!PlayLocked, Guest!Pause, Guest!Resume,
           Guest!Call, Guest!Free, Guest!Idle, Guest!request, Guest!cache, Guest!engine
<1>5. /\ Sound!StopLocked <=> Guest!StopLocked
      /\ Sound!StopJoined <=> Guest!StopJoined
    BY Zenon
       DEF Sound!StopLocked, Sound!StopJoined, Sound!StopBeforeJoin, Sound!StopAndForget, Sound!Stopped,
           Sound!Free, Sound!Idle, Sound!request, Sound!cache, Guest!StopLocked, Guest!StopJoined,
           Guest!StopBeforeJoin, Guest!StopAndForget, Guest!Stopped, Guest!Free, Guest!Idle,
           Guest!request, Guest!cache
<1>6. /\ Sound!Consume <=> Guest!Consume
      /\ Sound!Sample <=> Guest!Sample
      /\ Sound!Debounce <=> Guest!Debounce
    BY Zenon
       DEF Sound!Consume, Sound!Sample, Sound!Debounce, Sound!Waiting, Sound!Free, Sound!others,
           Sound!cache, Sound!engine, Guest!Consume, Guest!Sample, Guest!Debounce, Guest!Waiting,
           Guest!Free, Guest!others, Guest!cache, Guest!engine
<1>7. Sound!DecodeTrack <=> Guest!DecodeTrack
    BY Zenon
       DEF Sound!DecodeTrack, Sound!StillWanted, Sound!Decode, Sound!DecodeAt9ToWav,
           Sound!DecodeOggToWav, Sound!FindChunk, Sound!Waiting, Sound!others, Sound!cache,
           Sound!engine, Guest!DecodeTrack, Guest!StillWanted, Guest!Decode, Guest!DecodeAt9ToWav,
           Guest!DecodeOggToWav, Guest!FindChunk, Guest!Waiting, Guest!others, Guest!cache, Guest!engine
<1>8. ASSUME NEW f, NEW w PROVE Sound!StartLocked(f, w) <=> Guest!StartLocked(f, w)
    BY Zenon
       DEF Sound!StartLocked, Sound!StartWaveOut, Sound!StartMci, Sound!Stopped, Guest!StartLocked,
           Guest!StartWaveOut, Guest!StartMci, Guest!Stopped
<1>9. /\ Sound!Start <=> Guest!Start
      /\ Sound!StartJoined <=> Guest!StartJoined
    BY <1>8, Zenon
       DEF Sound!Start, Sound!StartJoined, Sound!CacheFile, Sound!StopBeforeJoin, Sound!Waiting,
           Sound!Free, Sound!others, Sound!cache, Guest!Start, Guest!StartJoined, Guest!CacheFile,
           Guest!StopBeforeJoin, Guest!Waiting, Guest!Free, Guest!others, Guest!cache
<1>10. /\ Sound!LoopWakes <=> Guest!LoopWakes
       /\ Sound!LoopLocks <=> Guest!LoopLocks
       /\ Sound!LoopPolls <=> Guest!LoopPolls
       /\ Sound!TrackEnds <=> Guest!TrackEnds
    BY Zenon
       DEF Sound!LoopWakes, Sound!LoopLocks, Sound!LoopPolls, Sound!TrackEnds, Sound!Free, Sound!loop,
           Sound!request, Sound!cache, Guest!LoopWakes, Guest!LoopLocks, Guest!LoopPolls,
           Guest!TrackEnds, Guest!Free, Guest!loop, Guest!request, Guest!cache
<1>11. Sound!SoundNext <=> Guest!SoundNext
    BY <1>3, <1>4, <1>5, <1>6, <1>7, <1>9, <1>10, Zenon DEF Sound!SoundNext, Guest!SoundNext
<1> QED
    BY <1>1, <1>2, <1>11, Zenon DEF playerVars, Guest!playerVars

LEMMA SameSoundProperties ==
    /\ Guest!CacheHoldsItsTrack => Sound!CacheHoldsItsTrack
    /\ Guest!OneEngine => Sound!OneEngine
BY Zenon DEF Sound!CacheHoldsItsTrack, Sound!OneEngine, Guest!CacheHoldsItsTrack, Guest!OneEngine

\* No buffer is lost or in two places and blocks are played in order, whatever the
\* threads, the device and the closing do, unless a close overtakes an output; the
\* preview player caches a track's own samples and has one engine, at any
\* interleaving of its calls, its worker and its loop (AudioOutOutput,
\* SubmitToBackend, WaveOutProc, AudioOutClose; WorkerLoop, Stop, LoopThread).
THEOREM SoundPlays == Spec => []SoundIsPlayedAsAsked
<1>1. Init => Guest!AudioInv /\ Guest!SoundInv
    BY SameAudio, SameSound, Guest!AudioInitInv, Guest!SoundInitInv, Zenon DEF Init
<1>2. Guest!AudioInv /\ Guest!SoundInv /\ [Next]_vars => Guest!AudioInv' /\ Guest!SoundInv'
    <2>1. [Next]_vars => [Audio!AudioNext]_audioVars /\ [Sound!SoundNext]_playerVars
        BY Zenon DEF Next, vars, guestVars
    <2> QED
        BY <2>1, SameAudio, SameSound, Guest!AudioStepKeepsInv, Guest!SoundStepKeepsInv, Zenon
<1>3. Guest!AudioInv /\ Guest!SoundInv => SoundIsPlayedAsAsked
    BY SameAudio, SameAudioProperties, SameSoundProperties, Guest!AudioInvAccounts, Guest!AudioInvPlays,
       Guest!AudioInvWakes, Guest!SoundInvImplies, Zenon
       DEF SoundIsPlayedAsAsked
<1> QED
    BY <1>1, <1>2, <1>3, PTL DEF Spec

=============================================================================
