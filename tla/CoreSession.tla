---------------------------- MODULE CoreSession ----------------------------
(***************************************************************************)
(* A session of the emulator: src/core_api.cpp with the subsystem registry *)
(* of src/lua/lua_init.cpp and the exit paths of src/hle/hle.cpp and       *)
(* Kernel::Execute.  The frontend initialises, loads and runs on one       *)
(* thread and may stop, pause or kill from another.  The guest's main      *)
(* thread runs the initialisers of its modules and then the program, and   *)
(* starts workers.  A thread stops where it dispatches an import and finds *)
(* the stop flag, through the jump buffer if it is the main thread and the *)
(* buffer is armed, and with the whole process otherwise.  The dispatcher  *)
(* and teardown take g_hle_mutex.                                          *)
(***************************************************************************)
EXTENDS Naturals, SequencesExt

CONSTANTS Workers, MaxSessions \* guest threads besides the main one; bound

Subsystems == {"ConfigService", "Diagnostics", "Logging", "Memory", "HLE", "Kernel", "GPU"}

\* RunDefaultInit
Dependencies(s) ==
    CASE s = "ConfigService" -> {}
      [] s \in {"Diagnostics", "Logging", "Memory"} -> {"ConfigService"}
      [] s = "HLE" -> {"ConfigService", "Memory"}
      [] s = "Kernel" -> {"Memory", "HLE"}
      [] s = "GPU" -> {"Memory", "HLE", "Kernel"}

VARIABLES api,            \* where the frontend's thread is
          m_initialized,  \* subsystems that are up, in the order they came up
          g_stop_requested, g_paused, g_guest_crashed, guest_done,
          handle,         \* guest_thread_handle of the session
          main, worker,   \* guest threads: "none", "init", "guest", "ended", "killed"
          armed,          \* g_guest_exit_env_armed
          hle_mutex,      \* the threads that hold g_hle_mutex, shared
          process,        \* "alive", or who ended it: "guest", "stop"
          sessions        \* bound

sessionVars == <<api, m_initialized, g_stop_requested, g_paused, g_guest_crashed, guest_done,
                 handle, main, worker, armed, hle_mutex, process, sessions>>
flags == <<g_stop_requested, g_paused, g_guest_crashed>>
guest == <<main, worker, armed, hle_mutex>>

Alive == process = "alive"
Threads == Workers \cup {"main"}
Running(t) == IF t = "main" THEN main \in {"init", "guest"} ELSE worker[t] = "guest"

-----------------------------------------------------------------------------
(* pcsx5_init, pcsx5_load and pcsx5_shutdown. *)

Pcsx5Init ==
    /\ Alive /\ api = "down" /\ sessions < MaxSessions
    /\ api' = "init" /\ sessions' = sessions + 1
    /\ handle' = FALSE /\ guest_done' = FALSE
    /\ main' = "none"
    /\ UNCHANGED <<m_initialized, flags, worker, armed, hle_mutex, process>>

\* InitializeAll in an order of TopoSort, which puts dependencies first.
InitializeSubsystem(s) ==
    /\ Alive /\ api = "init"
    /\ s \notin ToSet(m_initialized) /\ Dependencies(s) \subseteq ToSet(m_initialized)
    /\ m_initialized' = Append(m_initialized, s)
    /\ api' = IF ToSet(m_initialized') = Subsystems THEN "initialized" ELSE "init"
    /\ UNCHANGED <<flags, guest_done, handle, guest, process, sessions>>

\* One of them fails: what is up comes down again and pcsx5_init fails.
InitializeFails ==
    /\ Alive /\ api = "init"
    /\ api' = "teardown"
    /\ UNCHANGED <<m_initialized, flags, guest_done, handle, guest, process, sessions>>

\* pcsx5_load; when it fails the frontend shuts down.
Pcsx5Load ==
    /\ Alive /\ api = "initialized"
    /\ api' \in {"loaded", "teardown"}
    /\ UNCHANGED <<m_initialized, flags, guest_done, handle, guest, process, sessions>>

Pcsx5Shutdown ==
    /\ Alive /\ api = "returned"
    /\ api' = "teardown"
    /\ UNCHANGED <<m_initialized, flags, guest_done, handle, guest, process, sessions>>

\* Variant for the mutant runs: subsystems come down in the order they came up.
NextToTearDownFirst == 1

\* TeardownAll goes through them from the last to the first.
NextToTearDown == Len(m_initialized)

\* One subsystem of TeardownAll.  HLE::Shutdown takes g_hle_mutex and forgets the
\* stop and the crash; a mutex left by a killed thread is never free again.
TeardownSubsystem ==
    /\ Alive /\ api = "teardown" /\ m_initialized # <<>>
    /\ LET s == m_initialized[NextToTearDown] IN
       /\ s = "HLE" => hle_mutex = {}
       /\ m_initialized' = RemoveAt(m_initialized, NextToTearDown)
       /\ g_stop_requested' = IF s = "HLE" THEN FALSE ELSE g_stop_requested
       /\ g_guest_crashed' = IF s = "HLE" THEN FALSE ELSE g_guest_crashed
       /\ armed' = IF s = "HLE" THEN FALSE ELSE armed
    /\ UNCHANGED <<api, g_paused, guest_done, handle, main, worker, hle_mutex, process, sessions>>

TeardownEnds ==
    /\ Alive /\ api = "teardown" /\ m_initialized = <<>>
    /\ api' = "down"
    /\ UNCHANGED <<m_initialized, flags, guest_done, handle, guest, process, sessions>>

-----------------------------------------------------------------------------
(* pcsx5_run: the loop on the frontend's thread. *)

\* The guest thread is started; its handle is duplicated.
Pcsx5Run ==
    /\ Alive /\ api = "loaded"
    /\ api' = "loop"
    /\ main' = "init" /\ handle' = TRUE
    /\ UNCHANGED <<m_initialized, flags, guest_done, worker, armed, hle_mutex, process, sessions>>

\* A turn of the loop that finds the stop flag goes to wait for the guest.  While
\* paused it looks at nothing but guest_done.
SeeStop ==
    /\ Alive /\ api = "loop" /\ ~guest_done /\ ~g_paused /\ g_stop_requested
    /\ api' = "stopping"
    /\ UNCHANGED <<m_initialized, flags, guest_done, handle, guest, process, sessions>>

\* A mutex the thread holds stays held.
KillMain ==
    main' = IF Running("main") THEN "killed" ELSE main

\* Variant for the mutant runs: the thread is terminated and the loop goes on waiting.
TimeoutKeepsWaiting ==
    /\ Alive /\ api = "stopping" /\ ~guest_done
    /\ KillMain
    /\ UNCHANGED <<api, m_initialized, flags, guest_done, handle, worker, armed, hle_mutex, process, sessions>>

\* kForceStopTimeout: the guest thread is terminated wherever it is.
ForceStopTimeout ==
    /\ Alive /\ api = "stopping" /\ ~guest_done
    /\ KillMain
    /\ guest_done' = TRUE
    /\ UNCHANGED <<api, m_initialized, flags, handle, worker, armed, hle_mutex, process, sessions>>

\* Variant for the mutant runs: the loop does not join the guest thread.
LoopEndsWithoutJoin ==
    /\ Alive /\ api \in {"loop", "stopping"} /\ (guest_done \/ g_stop_requested)
    /\ api' = "returned"
    /\ UNCHANGED <<m_initialized, flags, guest_done, handle, guest, process, sessions>>

\* The guest is done; join, and the run returns.
LoopEnds ==
    /\ Alive /\ api \in {"loop", "stopping"} /\ guest_done
    /\ ~Running("main")
    /\ api' = "returned"
    /\ UNCHANGED <<m_initialized, flags, guest_done, handle, guest, process, sessions>>

\* The other thread of the frontend, while the session runs.
Pcsx5Stop ==
    /\ Alive /\ api \in {"loop", "stopping", "returned"} /\ ~g_stop_requested
    /\ g_stop_requested' = TRUE
    /\ UNCHANGED <<api, m_initialized, g_paused, g_guest_crashed, guest_done, handle, guest, process, sessions>>

Pcsx5ForceStop ==
    /\ Alive /\ api \in {"loop", "stopping", "returned"}
    /\ g_stop_requested' = TRUE
    /\ IF handle THEN KillMain ELSE UNCHANGED main
    /\ UNCHANGED <<api, m_initialized, g_paused, g_guest_crashed, guest_done, handle, worker, armed,
                   hle_mutex, process, sessions>>

Pcsx5Pause(on) ==
    /\ Alive /\ api \in {"loop", "stopping"} /\ g_paused # on
    /\ g_paused' = on
    /\ UNCHANGED <<api, m_initialized, g_stop_requested, g_guest_crashed, guest_done, handle, guest,
                   process, sessions>>

-----------------------------------------------------------------------------
(* The guest. *)

\* The initialisers are through: the jump buffer is armed and the program starts.
StartGuestCaptured ==
    /\ Alive /\ main = "init"
    /\ main' = "guest" /\ armed' = TRUE
    /\ UNCHANGED <<api, m_initialized, flags, guest_done, handle, worker, hle_mutex, process, sessions>>

CreateWorker(w) ==
    /\ Alive /\ main = "guest" /\ worker[w] = "none"
    /\ worker' = [worker EXCEPT ![w] = "guest"]
    /\ UNCHANGED <<api, m_initialized, flags, guest_done, handle, main, armed, hle_mutex, process, sessions>>

\* ExitGuestProcess: back into Execute where that is possible, else the process.
ExitGuestProcess(t, cause) ==
    /\ g_stop_requested' = TRUE
    /\ IF t = "main" /\ armed
       THEN main' = "ended" /\ UNCHANGED process
       ELSE process' = cause /\ UNCHANGED main

\* HleDispatch looks at the stop flag and then looks its symbol up.
Dispatch(t) ==
    /\ Alive /\ Running(t) /\ t \notin hle_mutex
    /\ IF g_stop_requested
       THEN /\ ExitGuestProcess(t, "stop")
            /\ UNCHANGED hle_mutex
       ELSE /\ hle_mutex' = hle_mutex \cup {t}
            /\ UNCHANGED <<main, process, g_stop_requested>>
    /\ UNCHANGED <<api, m_initialized, g_paused, g_guest_crashed, guest_done, handle, worker, armed, sessions>>

CallHandler(t) ==
    /\ Alive /\ Running(t) /\ t \in hle_mutex
    /\ hle_mutex' = hle_mutex \ {t}
    /\ UNCHANGED <<api, m_initialized, flags, guest_done, handle, main, worker, armed, process, sessions>>

\* exit, abort or the return of main, in a handler.
GuestExit(t) ==
    /\ Alive /\ Running(t) /\ t \notin hle_mutex
    /\ ExitGuestProcess(t, "guest")
    /\ UNCHANGED <<api, m_initialized, g_paused, g_guest_crashed, guest_done, handle, worker, armed,
                   hle_mutex, sessions>>

\* The program returns to TryStartGuest, or faults and is caught there; nothing
\* catches a fault of an initialiser.
ProgramEnds(crash) ==
    /\ Alive /\ Running("main") /\ "main" \notin hle_mutex
    /\ g_guest_crashed' = (g_guest_crashed \/ crash)
    /\ IF main = "guest" THEN main' = "ended" /\ armed' = FALSE /\ UNCHANGED process
       ELSE crash /\ process' = "guest" /\ UNCHANGED <<main, armed>>
    /\ UNCHANGED <<api, m_initialized, g_stop_requested, g_paused, guest_done, handle, worker, hle_mutex,
                   sessions>>

\* Execute is over.
GuestDone ==
    /\ Alive /\ main = "ended" /\ ~guest_done
    /\ guest_done' = TRUE
    /\ UNCHANGED <<api, m_initialized, flags, handle, guest, process, sessions>>

WorkerEnds(w) ==
    /\ Alive /\ worker[w] = "guest" /\ w \notin hle_mutex
    /\ worker' = [worker EXCEPT ![w] = "none"]
    /\ UNCHANGED <<api, m_initialized, flags, guest_done, handle, main, armed, hle_mutex, process, sessions>>

-----------------------------------------------------------------------------
Init ==
    /\ api = "down" /\ m_initialized = <<>>
    /\ g_stop_requested = FALSE /\ g_paused = FALSE /\ g_guest_crashed = FALSE
    /\ guest_done = FALSE /\ handle = FALSE
    /\ main = "none" /\ worker = [w \in Workers |-> "none"]
    /\ armed = FALSE /\ hle_mutex = {} /\ process = "alive" /\ sessions = 0

RunLoop == Pcsx5Run \/ SeeStop \/ ForceStopTimeout \/ LoopEnds

Next ==
    \/ Pcsx5Init \/ InitializeFails \/ Pcsx5Load \/ Pcsx5Shutdown \/ TeardownSubsystem \/ TeardownEnds
    \/ \E s \in Subsystems : InitializeSubsystem(s)
    \/ RunLoop
    \/ Pcsx5Stop \/ Pcsx5ForceStop \/ \E on \in BOOLEAN : Pcsx5Pause(on)
    \/ StartGuestCaptured \/ GuestDone \/ \E crash \in BOOLEAN : ProgramEnds(crash)
    \/ \E t \in Threads : Dispatch(t) \/ CallHandler(t) \/ GuestExit(t)
    \/ \E w \in Workers : CreateWorker(w) \/ WorkerEnds(w)

\* The loop takes its turns and the guest's end is noticed.
Fairness == WF_sessionVars(SeeStop) /\ WF_sessionVars(ForceStopTimeout) /\ WF_sessionVars(LoopEnds)

Spec == Init /\ [][Next]_sessionVars /\ Fairness

-----------------------------------------------------------------------------
(* Properties. *)

\* A subsystem is up only together with all it depends on, while they come up,
\* when one fails and while they come down, and no subsystem goes down under
\* the guest's main thread.
SubsystemsOutliveTheirUsers ==
    /\ \A s \in ToSet(m_initialized) : Dependencies(s) \subseteq ToSet(m_initialized)
    /\ Running("main") => ToSet(m_initialized) = Subsystems

\* A stop that was asked for ends the run within the time-out, whatever the
\* guest does; a session that is paused does not see it.
StopEndsTheRun ==
    g_stop_requested /\ api = "loop" ~> api \notin {"loop", "stopping"} \/ ~Alive \/ g_paused
=============================================================================
