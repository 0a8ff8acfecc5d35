------------------------------ MODULE Services ------------------------------
(***************************************************************************)
(* The services around the guest program, side by side: the session of the *)
(* core API, the module loader and the registry of HLE functions that run  *)
(* it, the images it runs, its files, video and audio out, the sound       *)
(* player of the launcher, and what is kept on the host: settings, saves   *)
(* and the compatibility database.  Each has locks and threads of its own; *)
(* kind picks the one that is busy.                                        *)
(***************************************************************************)
EXTENDS Naturals, FiniteSets, Sequences, TLC

CONSTANTS Workers, MaxSessions,                          \* see CoreSession
          Names, FileOf, NeedsOf, Late,                  \* see ModuleLoader
          Modules, MainImages, PrxImages, PageWords, Hint, Step, WindowEnd,
          Implemented, Forced, OwnedData, Tids,          \* see ElfImage
          Openers, CrtFds, Structs, Content, MaxOpenings, MaxLine, \* see GuestFiles
          Resolvers, Registrations, Requests, ThunkSlots, \* see ModuleLoader, the registry
          Clients, Ports, Queues, kMaxOpenPorts, MaxPumps, Nobody, \* see VideoOut
          Flippers, Slots, Frames, MaxFlips, NoFrame,
          Players, kMaxBuffersInFlight, MaxBlocks, MaxOpens, \* see AudioPort
          Tracks, File, MaxCalls, NoTrack,               \* see SoundPlayer
          GlobalFiles, TitleFiles, FilePaths, Cuts, MaxStarts, MaxSaves, \* see ConfigStore
          Users, XtsKeys, NoKeys, Configs, Trophies, MaxRuns, MaxWrites, \* see SaveData
          Titles, NamesOfTitles, MaxEdits                \* see CompatStore

VARIABLES kind,  \* the service that is busy
          api, m_initialized, g_stop_requested, g_paused, g_guest_crashed, guest_done,
          handle, main, guest_workers, armed, hle_mutex, process, sessions,
          phase, needs, graph_name, nodes, linked, prx_queue, turn, last, initialized,
          image, order, strict, stage, segment, base, reserved, mem, rights, g_loaded_modules,
          static_tls, tls_blocks, told,
          up, registry, g_id_index, g_thunk_page_offset, resolving, handed, hle_session,
          crt, position, openings, g_guest_fds, g_fake_file_fds, held, call, returned, files_crossed,
          g_vo_ports, opened, vblank_events, g_vo_mutex, g_vblank_mtx, g_vblank_started,
          g_vblank_stop, g_vblank_thread, pump, todo, due, client, resetting, overlapped,
          framebuffers, port, listening, flips_before, event, shown, flip, flips_crossed,
          backend, draining, buffers, free, in_flight, device, data, ring, head, tail,
          output, blocks, opens, submitted, played, outputs_crossed, raced,
          generation_, requested_path_, requested_pending_, cached_path_, cached_wav_,
          last_started_wav_, wave_out_, mci_open_, playing_, paused_, loop_active_, enabled_,
          loop_thread_, mci, joiner, ui, worker, calls,
          disk, g_initialized, g_global, g_per_title, saving, saved, starts, saves,
          running, config, mounted, plain, store, images, busy, loaded, unlocked, runs, writes,
          committed, won, excused,
          index, entries, g_cache, compat_call, edits, kept

Session  == INSTANCE CoreSession WITH worker <- guest_workers
Loader   == INSTANCE ModuleLoader WITH session <- hle_session, Slots <- ThunkSlots
Elf      == INSTANCE ElfImage
Files    == INSTANCE GuestFiles WITH crossed <- files_crossed
Video    == INSTANCE VideoOut WITH buffers <- framebuffers, crossed <- flips_crossed
Audio    == INSTANCE AudioPort
Sound    == INSTANCE SoundPlayer
Config   == INSTANCE ConfigStore
Saves    == INSTANCE SaveData
Compat   == INSTANCE CompatStore WITH call <- compat_call

ASSUME ServicesAssumption ==
    /\ Saves!SaveDataAssumption /\ Files!FilesAssumption
    /\ Audio!AudioAssumption /\ Sound!SoundAssumption

sessionVars == <<api, m_initialized, g_stop_requested, g_paused, g_guest_crashed, guest_done,
                 handle, main, guest_workers, armed, hle_mutex, process, sessions>>
loaderVars  == <<phase, needs, graph_name, nodes, linked, prx_queue, turn, last, initialized>>
imageVars   == <<image, order, strict, stage, segment, base, reserved, mem, rights,
                 g_loaded_modules, static_tls, tls_blocks, told>>
hleVars     == <<up, registry, g_id_index, g_thunk_page_offset, resolving, handed, hle_session>>
fileVars    == <<crt, position, openings, g_guest_fds, g_fake_file_fds, held, call, returned, files_crossed>>
videoVars   == <<g_vo_ports, opened, vblank_events, g_vo_mutex, g_vblank_mtx, g_vblank_started,
                 g_vblank_stop, g_vblank_thread, pump, todo, due, client, resetting, overlapped>>
flipVars    == <<framebuffers, port, listening, flips_before, event, shown, flip, flips_crossed>>
audioVars   == <<backend, draining, buffers, free, in_flight, device, data, ring, head, tail,
                 output, blocks, opens, submitted, played, outputs_crossed, raced>>
playerVars  == <<generation_, requested_path_, requested_pending_, cached_path_, cached_wav_,
                 last_started_wav_, wave_out_, mci_open_, playing_, paused_, loop_active_, enabled_,
                 loop_thread_, mci, joiner, ui, worker, calls>>
configVars  == <<disk, g_initialized, g_global, g_per_title, saving, saved, starts, saves>>
saveVars    == <<running, config, mounted, plain, store, images, busy, loaded, unlocked, runs, writes,
                 committed, won, excused>>
compatVars  == <<index, entries, g_cache, compat_call, edits, kept>>
hostVars    == <<configVars, saveVars, compatVars>>
guestVars == <<sessionVars, loaderVars, imageVars, hleVars, fileVars, videoVars, flipVars, audioVars, playerVars>>
vars == <<kind, guestVars, hostVars>>

-----------------------------------------------------------------------------
Init ==
    /\ kind \in {"session", "loader", "image", "registry", "files", "pump", "flips", "audio", "sound",
                "config", "saves", "compat"}
    /\ IF kind = "loader" THEN Loader!Init ELSE Loader!Idle
    /\ IF kind = "image" THEN Elf!Init ELSE Elf!Idle
    /\ Session!Init /\ Loader!RegistryInit /\ Files!Init /\ Video!PumpInit /\ Video!FlipInit /\ Audio!AudioInit /\ Sound!SoundInit
    /\ (IF kind = "config" THEN Config!Init ELSE Config!Idle) /\ Saves!Init /\ Compat!Init

Next ==
    \/ /\ kind = "session" /\ Session!Next
       /\ UNCHANGED <<kind, loaderVars, imageVars, hleVars, fileVars, videoVars, flipVars, audioVars, playerVars, hostVars>>
    \/ /\ kind = "loader" /\ Loader!Next
       /\ UNCHANGED <<kind, sessionVars, imageVars, hleVars, fileVars, videoVars, flipVars, audioVars, playerVars, hostVars>>
    \/ /\ kind = "image" /\ Elf!Next
       /\ UNCHANGED <<kind, sessionVars, loaderVars, hleVars, fileVars, videoVars, flipVars, audioVars, playerVars, hostVars>>
    \/ /\ kind = "registry" /\ Loader!RegistryNext
       /\ UNCHANGED <<kind, sessionVars, loaderVars, imageVars, fileVars, videoVars, flipVars, audioVars, playerVars, hostVars>>
    \/ /\ kind = "files" /\ Files!Next
       /\ UNCHANGED <<kind, sessionVars, loaderVars, imageVars, hleVars, videoVars, flipVars, audioVars, playerVars, hostVars>>
    \/ /\ kind = "pump" /\ Video!PumpNext
       /\ UNCHANGED <<kind, sessionVars, loaderVars, imageVars, hleVars, fileVars, flipVars, audioVars, playerVars, hostVars>>
    \/ /\ kind = "flips" /\ Video!FlipNext
       /\ UNCHANGED <<kind, sessionVars, loaderVars, imageVars, hleVars, fileVars, videoVars, audioVars, playerVars, hostVars>>
    \/ /\ kind = "audio" /\ Audio!AudioNext
       /\ UNCHANGED <<kind, sessionVars, loaderVars, imageVars, hleVars, fileVars, videoVars, flipVars, playerVars, hostVars>>
    \/ /\ kind = "sound" /\ Sound!SoundNext
       /\ UNCHANGED <<kind, sessionVars, loaderVars, imageVars, hleVars, fileVars, videoVars, flipVars, audioVars, hostVars>>
    \/ /\ kind = "config" /\ Config!Next
       /\ UNCHANGED <<kind, guestVars, saveVars, compatVars>>
    \/ /\ kind = "saves" /\ Saves!Next
       /\ UNCHANGED <<kind, guestVars, configVars, compatVars>>
    \/ /\ kind = "compat" /\ Compat!Next
       /\ UNCHANGED <<kind, guestVars, configVars, saveVars>>

\* The frontend's threads keep running; see CoreSession.
Spec == Init /\ [][Next]_vars /\ Session!Fairness

\* The sound player alone: the operating system runs the UI thread and the loop thread.
SoundSpec ==
    /\ Init /\ kind = "sound" /\ [][Next]_vars
    /\ WF_playerVars(Sound!StopLocked \/ Sound!StopJoined)
    /\ WF_playerVars(Sound!LoopWakes \/ Sound!LoopLocks \/ Sound!LoopPolls)

-----------------------------------------------------------------------------
(* Properties. *)

\* A subsystem goes down after every subsystem that uses it and never under a
\* guest thread that was joined.
SubsystemsOutliveTheirUsers == kind = "session" => Session!SubsystemsOutliveTheirUsers

\* A stop or a forced stop ends the run, whatever the guest program does.
StopEndsTheRun == Session!StopEndsTheRun

\* A module is in memory as in its file with the rights its segments ask for, its
\* imports are bound to what defines them, for all modules to the same, and each
\* thread has thread-local blocks of its own; modules are initialised once, in the
\* order they were linked, a module after what it needs unless they need one another;
\* and a thunk that was handed out keeps meaning the symbol it was asked for.
ModulesComeUpLinked ==
    /\ kind = "image" => /\ Elf!ImagesAreWhole /\ Elf!RightsCoverSegments
                         /\ Elf!ImportsAreBound /\ Elf!ImportsAgree /\ Elf!TlsBlocksAreOwn
    /\ kind = "loader" => Loader!InitializedOnce /\ Loader!NeedsComeFirst
    /\ kind = "registry" => Loader!ThunksKeepTheirSymbol

\* A file the guest holds keeps its descriptor and struct, calls on it are served
\* on it and move its position as they say, and a closed struct names nothing.
FilesKeepTheirOwner ==
    kind = "files" => /\ Files!HeldFilesStayOpen /\ Files!LegalCallsAreServed
                      /\ Files!ClosedStructsAreFree /\ Files!StreamCallsAreExact

\* One pump ticks, the one the next reset joins, and while a port is open it runs and
\* no caller joins it with its lock held, unless the last reset overlapped such a
\* caller; each edge reaches every queue registered on an open port; and the display
\* shows what was flipped to last, and a queue was told of it if it was registered
\* before that flip, unless flips overlapped.
DisplayServesItsClients ==
    /\ kind = "pump" => Video!OnePump /\ Video!EdgeReachesItsQueues
    /\ kind = "flips" => Video!DisplayFollowsFlips

\* Audio buffers are free, being filled or in flight, blocks are played once and in
\* the order of their submission, and a thread that sleeps for a buffer is woken if
\* there are no more threads than buffers; the preview player caches a track's own
\* samples and never plays on two engines.
SoundIsPlayedAsAsked ==
    /\ kind = "audio" => Audio!BuffersAreAccounted /\ Audio!PlayedAsSubmitted /\ Audio!SleeperIsWoken
    /\ kind = "sound" => Sound!CacheHoldsItsTrack /\ Sound!OneEngine

\* What was saved on the host comes back: settings, saves, trophies and entries of
\* the compatibility database, wherever the process ended, but for causes that are
\* named in each of the three.
SavedStateReturns ==
    /\ kind = "config" => Config!SavedSettingsReturn /\ Config!SettingsAreLegal /\ Config!UsersAreGlobal
    /\ kind = "saves" => Saves!CommittedSavesStay /\ Saves!TrophiesStay
    /\ kind = "compat" => Compat!SavedEntriesReturn /\ Compat!CacheIsTheFile

\* "`Stop()` and `Pause()`/`Resume()` are immediate and thread-safe."
StopReturns == Sound!StopReturns

-----------------------------------------------------------------------------
(* The instance for TLC. *)

\* Modules 1 to 4; 3 is another name of the file of 2, and 2 and 4 may need one another.
MCFileOf == (1 :> 1) @@ (2 :> 2) @@ (3 :> 2) @@ (4 :> 4)
MCNeedsOf == (1 :> SUBSET {2, 3, 4}) @@ (2 :> SUBSET {1, 4}) @@ (4 :> SUBSET {2})

\* Images: segments, exports, relocations, those of the PLT, the TLS template.
Segment(vaddr, filesz, memsz, flags) == [vaddr |-> vaddr, filesz |-> filesz, memsz |-> memsz, flags |-> flags]
Rel(at, type, sym, addend) == [at |-> at, type |-> type, sym |-> sym, addend |-> addend]
Image(segs, defs, rels, plts, tls) ==
    [segs |-> segs, defs |-> defs, rels |-> rels, plts |-> plts, tls |-> tls, whole |-> TRUE]

\* The data shares a page with the text, apart, and at a fixed address.
Text == Segment(0, 3, 3, {"r", "x"})
Slots2(a, b) == << Rel(a, "RELATIVE", <<>>, 1), Rel(b, "GLOB_DAT", <<"f", "A">>, 0) >>
MCMainImages ==
    { Image(<<Text, Segment(3, 2, 4, {"r", "w"})>>, <<>>, Slots2(3, 4),
            <<Rel(5, "JUMP_SLOT", <<"h", "B">>, 0), Rel(6, "JUMP_SLOT", <<"u", "D">>, 0)>>, 3),
      Image(<<Text, Segment(4, 3, 4, {})>>, (<<"h", "B">> :> 1), Slots2(4, 5),
            <<Rel(6, "JUMP_SLOT", <<"vt", "C">>, 0)>>, 0),
      Image(<<Segment(16, 2, 2, {"x"}), Segment(18, 2, 2, {"r", "w"})>>, <<>>, << >>,
            <<Rel(18, "JUMP_SLOT", <<"f", "Z">>, 0), Rel(19, "JUMP_SLOT", <<"g", "E">>, 0)>>, 0) }

\* A library, one with names of HLE, one too large for the third place, one cut short.
Library == Image(<<Text, Segment(3, 3, 3, {"r", "w"})>>, (<<"f", "A">> :> 1) @@ (<<"g", "E">> :> 2), Slots2(3, 4),
                 <<Rel(5, "JUMP_SLOT", <<"vt", "C">>, 0)>>, 3)
MCPrxImages ==
    { Library, [Library EXCEPT !.whole = FALSE],
      Image(<<Segment(0, 2, 2, {"x"}), Segment(2, 1, 2, {"r", "w"}), Segment(4, 1, 1, {"r"})>>,
            (<<"h", "B">> :> 0) @@ (<<"vt", "C">> :> 1), <<Rel(2, "64", <<"f", "Z">>, 1)>>,
            <<Rel(3, "JUMP_SLOT", <<"u", "D">>, 0)>>, 4),
      Image(<<Text, Segment(6, 2, 2, {"w"})>>, (<<"f", "B">> :> 0), <<Rel(6, "GLOB_DAT", <<"h", "B">>, 0)>>, <<>>, 7) }

\* A line and one byte more.
MCContent == <<"nl", "c">>

\* A placeholder, an implementation, and the implementation of the placeholder.
MCRegistrations == << << <<"libA", "n1", "T">>, "legacy" >>, << <<"libB", "n2", "T">>, "real" >>,
                      << <<"libA", "n1", "T">>, "real" >> >>
\* A suffix that differs, another library, an unknown symbol, and an unknown one for any library.
MCRequests == { << <<"libA", "n1", "j">>, FALSE >>, << <<"libB", "n1", "T">>, FALSE >>,
                << <<"libA", "n3", "T">>, FALSE >>, << <<"libA", "n3", "j">>, TRUE >> }

\* A track for each decoder.
MCFile == ("a" :> [ext |-> "at9", chunks |-> <<"fmt", "fact", "data">>, samples |-> 4, superframe |-> 2, delay |-> 1])
       @@ ("b" :> [ext |-> "mp3", chunks |-> <<>>, samples |-> 1, superframe |-> 1, delay |-> 0])
       @@ ("c" :> [ext |-> "ogg", chunks |-> <<"OggS">>, samples |-> 2, superframe |-> 1, delay |-> 0])

\* Files of settings: of an older version with a level that is unknown, of a newer one with
\* users out of range, a text that is cut; for titles one of version 1 and one with half a key.
Json == INSTANCE JsonText WITH Unicode <- TRUE
Section(name, fields) == name :> Json!Obj(fields)
SettingsFile(version, sections) ==
    Json!WriteJson(Json!Obj(("schema_version" :> version) @@ sections)) \o <<"nl">>
Crypto(key) == Section("savedata_crypto", ("enabled" :> Json!Bool(TRUE)) @@ ("xts_key1" :> Json!Str(key)))
UserList(ids, active) ==
    Section("users", ("profiles" :> Json!Arr(ids)) @@ ("active_user" :> Json!Num(active)))
MCGlobalFiles ==
    { <<"no file">>, <<"{", "q">>,
      SettingsFile(Json!Str(<<"2">>),
                   Crypto(<<"A", "f">>) @@ Section("logging", "min_level" :> Json!Str(<<"Loud">>))),
      SettingsFile(Json!Num(4),
                   UserList(<<Json!Obj("id" :> Json!Num(3)), Json!Num(1)>>, 7)) }
MCTitleFiles ==
    { <<"no file">>, SettingsFile(Json!Num(3), Crypto(<<"a">>) @@ UserList(<<>>, 5)),
      SettingsFile(Json!Num(1), Section("graphics", "width" :> Json!Num(2))
                                       @@ Section("ui", "language" :> Json!Str(<<"fr">>))) }
MCFilePaths == { <<"q", "ctl", "bs">> }

\* The title's directory without and with keys, and that of a user with one or other keys.
MCConfigs == { [dir |-> "flat", keys |-> "none"], [dir |-> "flat", keys |-> "k1"],
               [dir |-> "u1", keys |-> "k1"], [dir |-> "u1", keys |-> "k2"] }

\* A name with an escape, and one with a control character.
MCNamesOfTitles == { <<"bs", "n">>, <<"q", "ctl">> }
=============================================================================
