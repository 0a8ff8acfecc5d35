------------------------------ MODULE VideoOut ------------------------------
(***************************************************************************)
(* Ports of libSceVideoOut, the event queues registered on them, and the   *)
(* vblank pump (src/hle/libvideoout.cpp): a host thread that the first     *)
(* call to need it starts, that posts each edge to the queues, and that    *)
(* ResetVideoOut, called by HLE::Shutdown, stops and joins.  Port fields   *)
(* are read under g_vo_mutex; posting happens after it is released.  Every *)
(* wait of the pump and of WaitVblank has a time-out, so it may end at any *)
(* moment.  Ports are told apart by identity, not by handle number.        *)
(*                                                                         *)
(* The guest and the command processor (a flip packet of a submitted       *)
(* buffer) flip from threads of their own.  The counters, the registered   *)
(* queues and the address of the buffer are taken under g_vo_mutex; the    *)
(* events and the frame follow after it is released.  Flips and the pump   *)
(* share nothing but that mutex, so they are two specifications.           *)
(***************************************************************************)
EXTENDS Naturals, FiniteSets

CONSTANTS Clients,      \* threads that call
          Ports,        \* the ports that may be opened
          Queues,
          kMaxOpenPorts,
          MaxPumps,     \* pump threads that may be created
          Nobody,
          Flippers,     \* threads that flip
          Slots,        \* buffer indices
          Frames,       \* framebuffers of the guest, by address
          MaxFlips,     \* bound
          NoFrame       \* no buffer bound: the boot screen

VARIABLES g_vo_ports,               \* open ports
          opened,                   \* ports opened so far
          vblank_events,            \* by port: queues registered
          g_vo_mutex, g_vblank_mtx, \* who holds them across steps
          g_vblank_started, g_vblank_stop,
          g_vblank_thread,          \* the pump the handle stands for, 0 for none
          pump, todo,               \* by pump: where it is; ports it has yet to signal
          due,                      \* history, by pump: queues its last edge owes an event
          client,                   \* the call of each thread
          resetting,                \* where ResetVideoOut is
          overlapped,               \* history: the last reset overlapped a call that looked after the pump
          buffers,     \* by slot: the registered frame, or NoFrame
          port,        \* what GetFlipStatus reports: flip_count, last_flip_arg, the current frame
          listening,   \* a queue is registered for flips
          flips_before,\* history: flip_count when it was registered
          event,       \* argument of the last flip event the queue got, 0 for none
          shown,       \* the frame presented last
          flip,        \* the flip of each thread
          crossed      \* history: the flips since the last quiet moment overlapped

portVars == <<g_vo_ports, opened, vblank_events>>
locks == <<g_vo_mutex, g_vblank_mtx>>
control == <<g_vblank_started, g_vblank_stop, g_vblank_thread>>
pumpVars == <<control, pump, todo, due>>
flipVars == <<buffers, port, listening, flips_before, event, shown, flip, crossed>>
videoVars == <<portVars, locks, pumpVars, client, resetting, overlapped>>

Pumps == 1 .. MaxPumps
Created == { n \in Pumps : pump[n] # "none" }
NoCall == [op |-> "none", at |-> "idle"]
Call(op) == [op |-> op, at |-> "ensure"]
Goto(c, at) == client' = [client EXCEPT ![c].at = at]
Return(c) == client' = [client EXCEPT ![c] = NoCall]
VoFree == g_vo_mutex = Nobody
VblankFree == g_vblank_mtx = Nobody

\* A call between its look at g_vblank_started and the start of the pump.
Ensuring(c) == client[c].at \in {"ensure", "clear", "lock", "start"}

\* A thread enters a call; whether a reset is under way goes on record.
Enter(c, call) ==
    /\ client[c] = NoCall
    /\ client' = [client EXCEPT ![c] = call]
    /\ overlapped' = (overlapped \/ resetting # "idle")

-----------------------------------------------------------------------------
(* Ports, and who starts the pump. *)

\* EnsureVblankPumpStarted: who wins the exchange starts the pump, the others
\* go on to their next step.  OpenImpl calls it with g_vo_mutex held.
EnsureVblankPumpStarted(c, at) ==
    IF g_vblank_started
    THEN Goto(c, at) /\ UNCHANGED g_vblank_started
    ELSE Goto(c, "clear") /\ g_vblank_started' = TRUE

\* OpenImpl, up to the pump.
CallOpen(c) ==
    /\ Enter(c, Call("open"))
    /\ VoFree /\ Cardinality(g_vo_ports) < kMaxOpenPorts
    /\ \E p \in Ports \ opened : g_vo_ports' = g_vo_ports \cup {p} /\ opened' = opened \cup {p}
    /\ g_vo_mutex' = c
    /\ UNCHANGED <<vblank_events, g_vblank_mtx, pumpVars, resetting>>

\* WaitVblankImpl, up to the pump.
CallWaitVblank(c) ==
    /\ Enter(c, Call("wait"))
    /\ VoFree /\ g_vo_ports # {}
    /\ UNCHANGED <<portVars, locks, pumpVars, resetting>>

Ensure(c) ==
    /\ client[c].at = "ensure"
    /\ EnsureVblankPumpStarted(c, IF client[c].op = "open" THEN "unlock" ELSE "waiting")
    /\ UNCHANGED <<portVars, locks, g_vblank_stop, g_vblank_thread, pump, todo, due, resetting, overlapped>>

EnsureClearStop(c) ==
    /\ client[c].at = "clear"
    /\ g_vblank_stop' = FALSE
    /\ Goto(c, "lock")
    /\ UNCHANGED <<portVars, locks, g_vblank_started, g_vblank_thread, pump, todo, due, resetting, overlapped>>

EnsureLock(c) ==
    /\ client[c].at = "lock" /\ VblankFree
    /\ g_vblank_mtx' = c
    /\ Goto(c, "start")
    /\ UNCHANGED <<portVars, g_vo_mutex, pumpVars, resetting, overlapped>>

\* Join the thread of the handle, if there is one, and start the pump.
EnsureStart(c) ==
    /\ client[c].at = "start"
    /\ g_vblank_thread # 0 => pump[g_vblank_thread] = "ended"
    /\ \E n \in Pumps \ Created :
          /\ \A k \in Pumps \ Created : n <= k
          /\ g_vblank_thread' = n
          /\ pump' = [pump EXCEPT ![n] = "wait"]
    /\ g_vblank_mtx' = Nobody
    /\ Goto(c, IF client[c].op = "open" THEN "unlock" ELSE "waiting")
    /\ UNCHANGED <<portVars, g_vo_mutex, g_vblank_started, g_vblank_stop, todo, due, resetting, overlapped>>

OpenReturns(c) ==
    /\ client[c].at = "unlock"
    /\ g_vo_mutex' = Nobody
    /\ Return(c)
    /\ UNCHANGED <<portVars, g_vblank_mtx, pumpVars, resetting, overlapped>>

\* CloseImpl.  Who holds the port goes on working on it.
Close(p) ==
    /\ VoFree /\ p \in g_vo_ports
    /\ g_vo_ports' = g_vo_ports \ {p}
    /\ due' = [n \in Pumps |-> { d \in due[n] : d[1] # p }]
    /\ UNCHANGED <<opened, vblank_events, locks, control, pump, todo, client, resetting, overlapped>>

-----------------------------------------------------------------------------
(* Events. *)

\* AddEventImpl with UpsertEventReg; the queue gets a first edge at once.
AddVblankEvent(c, p, q) ==
    /\ client[c] = NoCall
    /\ VoFree /\ p \in g_vo_ports /\ q \notin vblank_events[p]
    /\ vblank_events' = [vblank_events EXCEPT ![p] = @ \cup {q}]
    /\ UNCHANGED <<g_vo_ports, opened, locks, pumpVars, client, resetting, overlapped>>

\* The wait ends by an edge, by the stop or by its time-out; unless stopped, the
\* caller then posts an edge of its own (SignalVblank).
WaitVblankReturns(c) ==
    /\ client[c].at = "waiting" /\ VblankFree
    /\ ~g_vblank_stop => VoFree
    /\ Return(c)
    /\ UNCHANGED <<portVars, locks, pumpVars, resetting, overlapped>>

-----------------------------------------------------------------------------
(* VblankPumpLoop. *)

PumpAt(n, at) == pump' = [pump EXCEPT ![n] = at]

PumpWakes(n) ==
    /\ pump[n] = "wait" /\ VblankFree
    /\ PumpAt(n, IF g_vblank_stop THEN "ended" ELSE "edge")
    /\ UNCHANGED <<portVars, locks, control, todo, due, client, resetting, overlapped>>

\* Variant for the mutant runs: registrations are looked at on the last port only.
LastPortToSignal == { p \in g_vo_ports : vblank_events[p] # {} /\ opened \ g_vo_ports = {} }

PortsToSignal == { p \in g_vo_ports : vblank_events[p] # {} }

\* The edge, and the ports with registrations.
PumpEdge(n) ==
    /\ pump[n] = "edge" /\ VoFree
    /\ todo' = [todo EXCEPT ![n] = PortsToSignal]
    /\ due' = [due EXCEPT ![n] = UNION { {p} \X vblank_events[p] : p \in g_vo_ports }]
    /\ PumpAt(n, IF PortsToSignal = {} THEN "wait" ELSE "signal")
    /\ UNCHANGED <<portVars, locks, control, client, resetting, overlapped>>

\* SignalVblank of one of them.
PumpSignals(n, p) ==
    /\ pump[n] = "signal" /\ p \in todo[n] /\ VoFree
    /\ todo' = [todo EXCEPT ![n] = @ \ {p}]
    /\ due' = [due EXCEPT ![n] = @ \ ({p} \X vblank_events[p])]
    /\ PumpAt(n, IF todo[n] = {p} THEN "wait" ELSE "signal")
    /\ UNCHANGED <<portVars, locks, control, client, resetting, overlapped>>

-----------------------------------------------------------------------------
(* ResetVideoOut, step by step. *)

ResetBegins ==
    /\ resetting = "idle" /\ Cardinality(Created) < MaxPumps
    /\ resetting' = "notify"
    /\ g_vblank_stop' = TRUE
    /\ overlapped' = (\E c \in Clients : Ensuring(c))
    /\ UNCHANGED <<portVars, locks, g_vblank_started, g_vblank_thread, pump, todo, due, client>>

ResetNotifies ==
    /\ resetting = "notify" /\ VblankFree
    /\ resetting' = "join"
    /\ UNCHANGED <<portVars, locks, pumpVars, client, overlapped>>

\* Variant for the mutant runs: the pump is left to find the stop by itself.
ResetDetaches ==
    /\ resetting = "join"
    /\ g_vblank_thread' = 0
    /\ resetting' = "clear"
    /\ UNCHANGED <<portVars, locks, g_vblank_started, g_vblank_stop, pump, todo, due, client, overlapped>>

ResetJoins ==
    /\ resetting = "join"
    /\ g_vblank_thread # 0 => pump[g_vblank_thread] = "ended"
    /\ g_vblank_thread' = 0
    /\ resetting' = "clear"
    /\ UNCHANGED <<portVars, locks, g_vblank_started, g_vblank_stop, pump, todo, due, client, overlapped>>

ResetClears ==
    /\ resetting = "clear" /\ VoFree
    /\ g_vo_ports' = {}
    /\ due' = [n \in Pumps |-> {}]
    /\ resetting' = "started"
    /\ UNCHANGED <<opened, vblank_events, locks, control, pump, todo, client, overlapped>>

ResetStarted ==
    /\ resetting = "started"
    /\ g_vblank_started' = FALSE
    /\ resetting' = "stop"
    /\ UNCHANGED <<portVars, locks, g_vblank_stop, g_vblank_thread, pump, todo, due, client, overlapped>>

ResetStop ==
    /\ resetting = "stop"
    /\ g_vblank_stop' = FALSE
    /\ resetting' = "idle"
    /\ UNCHANGED <<portVars, locks, g_vblank_started, g_vblank_thread, pump, todo, due, client, overlapped>>

-----------------------------------------------------------------------------
PumpInit ==
    /\ g_vo_ports = {} /\ opened = {}
    /\ vblank_events = [p \in Ports |-> {}]
    /\ g_vo_mutex = Nobody /\ g_vblank_mtx = Nobody
    /\ g_vblank_started = FALSE /\ g_vblank_stop = FALSE /\ g_vblank_thread = 0
    /\ pump = [n \in Pumps |-> "none"] /\ todo = [n \in Pumps |-> {}] /\ due = [n \in Pumps |-> {}]
    /\ client = [c \in Clients |-> NoCall] /\ resetting = "idle" /\ overlapped = FALSE

Reset == ResetBegins \/ ResetNotifies \/ ResetJoins \/ ResetClears \/ ResetStarted \/ ResetStop

PumpNext ==
    \/ \E c \in Clients :
          \/ CallOpen(c) \/ Ensure(c) \/ EnsureClearStop(c) \/ EnsureLock(c) \/ EnsureStart(c)
          \/ OpenReturns(c) \/ WaitVblankReturns(c)
          \/ CallWaitVblank(c)
          \/ \E p \in Ports, q \in Queues : AddVblankEvent(c, p, q)
    \/ \E p \in Ports : Close(p)
    \/ \E n \in Pumps : PumpWakes(n) \/ PumpEdge(n) \/ \E p \in Ports : PumpSignals(n, p)
    \/ Reset

-----------------------------------------------------------------------------
(* Flips. *)

NoFlip == [at |-> "idle", arg |-> 0, frame |-> NoFrame, post |-> FALSE]
Flipping == { c \in Flippers : flip[c] # NoFlip }

\* RegisterBuffersImpl, RegisterBuffers2Impl.
RegisterBuffer(i, f) ==
    /\ buffers[i] # f
    /\ buffers' = [buffers EXCEPT ![i] = f]
    /\ UNCHANGED <<port, listening, flips_before, event, shown, flip, crossed>>

UnregisterBuffers ==
    /\ buffers' = [i \in Slots |-> NoFrame]
    /\ UNCHANGED <<port, listening, flips_before, event, shown, flip, crossed>>

\* Variant for the mutant runs: the queue gets the last flip as its first event.
AddFlipEventAtOnce ==
    /\ ~listening
    /\ listening' = TRUE /\ flips_before' = port.count /\ event' = port.arg
    /\ UNCHANGED <<buffers, port, shown, flip, crossed>>

\* AddEventImpl for flips: unlike a queue for vblanks it gets no first event.
AddFlipEvent ==
    /\ ~listening
    /\ listening' = TRUE /\ flips_before' = port.count
    /\ UNCHANGED <<buffers, port, event, shown, flip, crossed>>

\* SubmitFlipImpl under the lock; an index of -1 binds no buffer.
SubmitFlip(c, f) ==
    /\ flip[c] = NoFlip /\ port.count < MaxFlips
    /\ f = NoFrame \/ \E i \in Slots : buffers[i] = f
    /\ port' = [count |-> port.count + 1, arg |-> port.count + 1, frame |-> f]
    /\ flip' = [flip EXCEPT ![c] = [at |-> "post", arg |-> port.count + 1, frame |-> f, post |-> listening]]
    /\ crossed' = (Flipping # {})
    /\ UNCHANGED <<buffers, listening, flips_before, event, shown>>

\* The queues registered under the lock get the event.
PostFlip(c) ==
    /\ flip[c].at = "post"
    /\ event' = IF flip[c].post THEN flip[c].arg ELSE event
    /\ flip' = [flip EXCEPT ![c].at = "present"]
    /\ UNCHANGED <<buffers, port, listening, flips_before, shown, crossed>>

\* Variant for the mutant runs: the buffer is looked up again when it is presented.
PresentedAgain(c) ==
    IF \E i \in Slots : buffers[i] = flip[c].frame THEN flip[c].frame ELSE NoFrame

Presented(c) == flip[c].frame

\* GPU::RenderFrame.
PresentFlip(c) ==
    /\ flip[c].at = "present"
    /\ shown' = Presented(c)
    /\ flip' = [flip EXCEPT ![c] = NoFlip]
    /\ UNCHANGED <<buffers, port, listening, flips_before, event, crossed>>

FlipInit ==
    /\ buffers = [i \in Slots |-> NoFrame]
    /\ port = [count |-> 0, arg |-> 0, frame |-> NoFrame]
    /\ listening = FALSE /\ flips_before = 0 /\ event = 0 /\ shown = NoFrame
    /\ flip = [c \in Flippers |-> NoFlip] /\ crossed = FALSE

FlipNext ==
    \/ \E i \in Slots, f \in Frames : RegisterBuffer(i, f)
    \/ UnregisterBuffers \/ AddFlipEvent
    \/ \E c \in Flippers : PostFlip(c) \/ PresentFlip(c) \/ \E f \in Frames \cup {NoFrame} : SubmitFlip(c, f)

-----------------------------------------------------------------------------
(* Properties. *)

\* There is never more than one pump, and it is the one that the next reset joins,
\* whatever overlaps what.  While a port is open and no call is under way the pump
\* runs, after any number of resets, and who starts one has none to join (it would
\* wait for that pump with the lock which that pump waits for) - unless the last
\* reset overlapped a call that was looking after the pump.
OnePump ==
    LET running == { n \in Pumps : pump[n] \notin {"none", "ended"} } IN
    /\ running \subseteq {g_vblank_thread}
    /\ ~overlapped /\ g_vo_ports # {} /\ resetting = "idle" /\ (\A c \in Clients : client[c] = NoCall)
          => running # {} /\ g_vblank_started /\ ~g_vblank_stop
    /\ ~overlapped => \A c \in Clients : client[c].at = "start" => g_vblank_thread = 0

\* Every queue registered before an edge on a port that is still open has been
\* posted to before the pump waits for the next edge.
EdgeReachesItsQueues == \A n \in Pumps : pump[n] = "wait" => due[n] = {}

\* When no flip is under way, the frame on display is the one GetFlipStatus
\* reports, whatever happened to the buffers meanwhile, and a queue was last told
\* of that flip, or of none if there was none since it was registered - unless
\* flips of two threads crossed.
DisplayFollowsFlips ==
    Flipping = {} /\ ~crossed =>
        /\ shown = port.frame
        /\ listening => event = IF port.count > flips_before THEN port.arg ELSE 0
=============================================================================
