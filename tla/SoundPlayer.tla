----------------------------- MODULE SoundPlayer -----------------------------
(***************************************************************************)
(* The preview player of the front end (src/ui/snd_player.cpp): the UI      *)
(* thread asks, a worker debounces, decodes and starts, and a thread of its *)
(* own loops the tracks that go through MCI.  mu_ guards the state, except  *)
(* the generation and loop_active_, which are read and written without it.  *)
(* A section under mu_ is one step unless it joins the loop thread: then    *)
(* the joiner keeps mu_ until that thread has ended.                        *)
(* A track stands for its path; File says what its file is.                 *)
(***************************************************************************)
EXTENDS Naturals, Sequences

CONSTANTS Tracks,
          File,      \* by track: [ext, chunks, samples, superframe, delay]; the delay is not heard
          MaxCalls,  \* bound: calls of the UI thread
          NoTrack

SoundAssumption == NoTrack \notin Tracks

VARIABLES generation_, requested_path_, requested_pending_,
          cached_path_, cached_wav_, last_started_wav_,
          wave_out_,      \* the track the wave device loops, or NoTrack
          mci_open_, playing_, paused_, loop_active_, enabled_,
          loop_thread_,   \* "none", "asleep", "locking", "polling", "ended" (joinable)
          mci,            \* "closed", "playing", "paused", "stopped"
          joiner,         \* who holds mu_ while it joins the loop thread: "no", "ui", "worker"
          ui,             \* [at, path]: the call under way
          worker,         \* [at, path, my_gen, wav]
          calls

playerVars == <<generation_, requested_path_, requested_pending_, cached_path_, cached_wav_,
                last_started_wav_, wave_out_, mci_open_, playing_, paused_, loop_active_, enabled_,
                loop_thread_, mci, joiner, ui, worker, calls>>
request == <<requested_path_, requested_pending_>>
cache   == <<cached_path_, cached_wav_>>
engine  == <<wave_out_, mci_open_, mci, playing_, paused_, last_started_wav_, loop_active_>>

Free == joiner = "no"
Idle == [at |-> "idle", path |-> NoTrack]
Waiting == [at |-> "wait", path |-> NoTrack, my_gen |-> 0, wav |-> <<>>]

-----------------------------------------------------------------------------
(* Decoding. *)

\* The first chunk of that name; the walk goes by the sizes and their padding.
FindChunk(f, id) == \E i \in DOMAIN File[f].chunks : File[f].chunks[i] = id

\* A wav is [of, pcm]: pcm the positions of the stream that it holds.  The delay
\* is skipped within the first superframe, and nothing is written past the count
\* the file states; what is not written stays silent.
DecodeAt9ToWav(f) ==
    IF ~(FindChunk(f, "fmt") /\ FindChunk(f, "fact") /\ FindChunk(f, "data")) THEN <<>>
    ELSE LET delay == File[f].delay
             skipped == IF delay <= File[f].superframe THEN delay ELSE File[f].superframe IN
         <<[of |-> f, pcm |-> [i \in 1 .. File[f].samples - delay |-> i + skipped]]>>

DecodeOggToWav(f) == IF FindChunk(f, "OggS")
                     THEN <<[of |-> f, pcm |-> [i \in 1 .. File[f].samples |-> i]]>> ELSE <<>>

Decode(f) == IF File[f].ext = "at9" THEN DecodeAt9ToWav(f) ELSE DecodeOggToWav(f)

-----------------------------------------------------------------------------
(* Starting and stopping, under mu_. *)

Stopped == /\ mci_open_' = FALSE /\ mci' = "closed" /\ loop_active_' = FALSE /\ loop_thread_' = "none"

\* StartWaveOut, on a device that StopWaveOut has closed; winmm may refuse.
StartWaveOut(wav, ok) ==
    /\ wave_out_' = IF ok THEN wav.of ELSE NoTrack
    /\ playing_' = ok /\ paused_' = FALSE /\ last_started_wav_' = <<wav>> /\ Stopped

\* MciOpenAndPlayTyped, and the thread that loops what it plays.
StartMci(ok) ==
    /\ mci_open_' = ok /\ playing_' = ok /\ paused_' = FALSE
    /\ mci' = IF ok THEN "playing" ELSE "closed"
    /\ loop_active_' = ok /\ loop_thread_' = IF ok THEN "asleep" ELSE "none"
    /\ wave_out_' = NoTrack /\ UNCHANGED last_started_wav_

\* The rest of StartLocked: a decoded wav, or the file by its extension.
StartLocked(f, wav) ==
    \E ok \in BOOLEAN :
        \/ wav # <<>> /\ StartWaveOut(wav[1], ok)
        \/ wav = <<>> /\ File[f].ext = "wav" /\ StartWaveOut([of |-> f, pcm |-> <<>>], ok)
        \/ wav = <<>> /\ File[f].ext = "mp3" /\ StartMci(ok)
        \/ /\ wav = <<>> /\ File[f].ext \notin {"wav", "mp3"}
           /\ wave_out_' = NoTrack /\ playing_' = FALSE /\ paused_' = FALSE
           /\ UNCHANGED last_started_wav_ /\ Stopped

\* StopLocked up to the join: the wave device is closed.
StopBeforeJoin(who) ==
    /\ joiner' = who /\ loop_active_' = FALSE
    /\ wave_out_' = NoTrack
    /\ playing_' = IF wave_out_ = NoTrack THEN playing_ ELSE FALSE
    /\ paused_' = IF wave_out_ = NoTrack THEN paused_ ELSE FALSE
    /\ UNCHANGED <<mci_open_, mci, last_started_wav_, loop_thread_>>

\* StopLocked entirely, its thread joined or absent; then Stop's own clearing.
StopAndForget ==
    /\ wave_out_' = NoTrack /\ playing_' = FALSE /\ paused_' = FALSE /\ Stopped
    /\ cached_path_' = NoTrack /\ cached_wav_' = <<>> /\ last_started_wav_' = <<>>

-----------------------------------------------------------------------------
(* The UI thread.  Play and Stop advance the generation before they lock. *)

Call(at, path) ==
    /\ ui = Idle /\ calls < MaxCalls /\ calls' = calls + 1
    /\ ui' = [at |-> at, path |-> path]

Play(f) ==
    /\ enabled_ /\ Call("play", f) /\ generation_' = generation_ + 1
    /\ UNCHANGED <<request, cache, engine, enabled_, loop_thread_, joiner, worker>>

PlayLocked ==
    /\ ui.at = "play" /\ Free /\ ui' = Idle
    /\ IF cached_path_ = ui.path /\ playing_ /\ ~paused_ THEN UNCHANGED request
       ELSE requested_path_' = ui.path /\ requested_pending_' = TRUE
    /\ UNCHANGED <<generation_, cache, engine, enabled_, loop_thread_, joiner, worker, calls>>

\* Stop, also through SetEnabled(FALSE) and Play of no path.
Stop(on) ==
    /\ Call("stop", NoTrack) /\ generation_' = generation_ + 1 /\ enabled_' = on
    /\ UNCHANGED <<request, cache, engine, loop_thread_, joiner, worker>>

StopLocked ==
    /\ ui.at = "stop" /\ Free
    /\ requested_path_' = NoTrack /\ requested_pending_' = FALSE
    /\ IF loop_active_
       THEN StopBeforeJoin("ui") /\ ui' = [ui EXCEPT !.at = "join"] /\ UNCHANGED cache
       ELSE StopAndForget /\ ui' = Idle /\ UNCHANGED joiner
    /\ UNCHANGED <<generation_, enabled_, worker, calls>>

StopJoined ==
    /\ ui.at = "join" /\ loop_thread_ = "ended"
    /\ StopAndForget /\ ui' = Idle /\ joiner' = "no"
    /\ UNCHANGED <<generation_, request, enabled_, worker, calls>>

SetEnabled == /\ ~enabled_ /\ Call("idle", NoTrack) /\ enabled_' = TRUE
              /\ UNCHANGED <<generation_, request, cache, engine, loop_thread_, joiner, worker>>

Pause ==
    /\ Call("idle", NoTrack) /\ Free /\ playing_ /\ ~paused_
    /\ paused_' = TRUE /\ playing_' = FALSE
    /\ mci' = IF wave_out_ = NoTrack /\ mci = "playing" THEN "paused" ELSE mci
    /\ UNCHANGED <<generation_, request, cache, wave_out_, mci_open_, last_started_wav_, loop_active_,
                   enabled_, loop_thread_, joiner, worker>>

Resume ==
    /\ Call("idle", NoTrack) /\ Free /\ paused_
    /\ paused_' = FALSE /\ playing_' = TRUE
    /\ mci' = IF wave_out_ = NoTrack /\ mci = "paused" THEN "playing" ELSE mci
    /\ UNCHANGED <<generation_, request, cache, wave_out_, mci_open_, last_started_wav_, loop_active_,
                   enabled_, loop_thread_, joiner, worker>>

-----------------------------------------------------------------------------
(* WorkerLoop. *)

others == <<generation_, requested_path_, enabled_, ui, calls>>

Consume ==
    /\ worker.at = "wait" /\ Free /\ requested_pending_
    /\ requested_pending_' = FALSE
    /\ worker' = [Waiting EXCEPT !.at = IF requested_path_ = NoTrack THEN "wait" ELSE "sample",
                                 !.path = requested_path_]
    /\ UNCHANGED <<others, cache, engine, loop_thread_, joiner>>

\* The generation is read after mu_ was dropped; then the debounce.
Sample ==
    /\ worker.at = "sample"
    /\ worker' = [worker EXCEPT !.at = "debounce", !.my_gen = generation_]
    /\ UNCHANGED <<others, requested_pending_, cache, engine, loop_thread_, joiner>>

\* A newer request discards this one; the cache may already hold it.
Debounce ==
    /\ worker.at = "debounce" /\ (worker.my_gen = generation_ => Free)
    /\ worker' = IF worker.my_gen # generation_ THEN Waiting
                 ELSE [worker EXCEPT !.at = "decode",
                                     !.wav = IF cached_path_ = worker.path THEN cached_wav_ ELSE <<>>]
    /\ UNCHANGED <<others, requested_pending_, cache, engine, loop_thread_, joiner>>

StillWanted == worker.my_gen = generation_

\* at9 and ogg are decoded, and dropped when a call came meanwhile.
DecodeTrack ==
    /\ worker.at = "decode" /\ (worker.wav # <<>> \/ File[worker.path].ext \in {"at9", "ogg"})
    /\ LET wav == IF worker.wav # <<>> THEN worker.wav ELSE Decode(worker.path) IN
       worker' = IF wav = <<>> \/ ~StillWanted THEN Waiting
                 ELSE [worker EXCEPT !.at = "start", !.wav = wav]
    /\ UNCHANGED <<others, requested_pending_, cache, engine, loop_thread_, joiner>>

\* Variant for the mutant runs: the wav of the track before stays cached.
CacheFileKeepsWav == cached_path_' = worker.path /\ UNCHANGED cached_wav_

\* The others are played from their file.
CacheFile == cached_path_' = worker.path /\ cached_wav_' = <<>>

\* The last section of a request: StartLocked, which first stops what plays.
Start ==
    /\ \/ worker.at = "start"
       \/ worker.at = "decode" /\ worker.wav = <<>> /\ File[worker.path].ext \in {"wav", "mp3", "flac"}
    /\ Free
    /\ IF worker.wav = <<>> THEN CacheFile
       ELSE cached_path_' = worker.path /\ cached_wav_' = worker.wav
    /\ IF loop_active_
       THEN StopBeforeJoin("worker") /\ worker' = [worker EXCEPT !.at = "join"]
       ELSE /\ StartLocked(worker.path, worker.wav) /\ UNCHANGED joiner
            /\ worker' = Waiting
    /\ UNCHANGED <<others, requested_pending_>>

StartJoined ==
    /\ worker.at = "join" /\ loop_thread_ = "ended"
    /\ StartLocked(worker.path, worker.wav) /\ joiner' = "no"
    /\ worker' = Waiting
    /\ UNCHANGED <<others, requested_pending_, cache>>

-----------------------------------------------------------------------------
(* LoopThread, and MCI, which plays a track once. *)

loop == <<generation_, request, cache, wave_out_, mci_open_, last_started_wav_, playing_, paused_,
          loop_active_, enabled_, joiner, ui, worker, calls>>

LoopWakes ==
    /\ loop_thread_ = "asleep"
    /\ loop_thread_' = IF loop_active_ THEN "locking" ELSE "ended"
    /\ UNCHANGED <<loop, mci>>

LoopLocks ==
    /\ loop_thread_ = "locking" /\ Free
    /\ loop_thread_' = IF mci_open_ /\ playing_ /\ ~paused_ THEN "polling" ELSE "asleep"
    /\ UNCHANGED <<loop, mci>>

LoopPolls ==
    /\ loop_thread_ = "polling" /\ loop_thread_' = "asleep"
    /\ mci' = IF mci = "stopped" THEN "playing" ELSE mci
    /\ UNCHANGED loop

TrackEnds == mci = "playing" /\ mci' = "stopped" /\ UNCHANGED <<loop, loop_thread_>>

-----------------------------------------------------------------------------
SoundInit ==
    /\ generation_ = 0 /\ requested_path_ = NoTrack /\ requested_pending_ = FALSE
    /\ cached_path_ = NoTrack /\ cached_wav_ = <<>> /\ last_started_wav_ = <<>>
    /\ wave_out_ = NoTrack /\ mci_open_ = FALSE /\ playing_ = FALSE /\ paused_ = FALSE
    /\ loop_active_ = FALSE /\ enabled_ = TRUE
    /\ loop_thread_ = "none" /\ mci = "closed" /\ joiner = "no"
    /\ ui = Idle /\ worker = Waiting
    /\ calls = 0

SoundNext ==
    \/ \E f \in Tracks : Play(f)
    \/ \E on \in BOOLEAN : Stop(on)
    \/ SetEnabled \/ PlayLocked \/ StopLocked \/ StopJoined \/ Pause \/ Resume
    \/ Consume \/ Sample \/ Debounce \/ DecodeTrack \/ Start \/ StartJoined
    \/ LoopWakes \/ LoopLocks \/ LoopPolls \/ TrackEnds

\* The operating system runs the UI thread and the loop thread.
SoundFairness == WF_playerVars(StopLocked \/ StopJoined) /\ WF_playerVars(LoopWakes \/ LoopLocks \/ LoopPolls)

SoundSpec == SoundInit /\ [][SoundNext]_playerVars /\ SoundFairness

-----------------------------------------------------------------------------
(* Properties. *)

\* What is cached was decoded from the cached path, and for a delay within the
\* first superframe holds the stream from there, to the count the file states.
CacheHoldsItsTrack ==
    cached_wav_ # <<>> =>
        LET f == File[cached_path_]
            pcm == cached_wav_[1].pcm IN
        /\ cached_wav_[1].of = cached_path_
        /\ f.ext # "at9" => pcm = [i \in 1 .. f.samples |-> i]
        /\ f.ext = "at9" /\ f.delay <= f.superframe => pcm = [i \in 1 .. f.samples - f.delay |-> i + f.delay]

\* One engine at a time, playing what the flags say, with its loop thread.
OneEngine ==
    joiner = "no" =>
        /\ ~(mci_open_ /\ wave_out_ # NoTrack)
        /\ playing_ \/ paused_ => mci_open_ \/ wave_out_ # NoTrack
        /\ ~(playing_ /\ paused_)
        /\ mci_open_ = loop_active_ /\ loop_active_ = (loop_thread_ # "none")

\* "Stop() and Pause()/Resume() are immediate and thread-safe."
StopReturns == (ui.at = "stop") ~> (ui = Idle)
=============================================================================
