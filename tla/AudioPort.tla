----------------------------- MODULE AudioPort -----------------------------
(***************************************************************************)
(* A port of libSceAudioOut (src/hle/libaudioout.cpp) over its back ends.  *)
(* sceAudioOutOutput runs on guest threads; it looks the port up under     *)
(* g_ports_mutex and works on it after releasing the lock.  waveOut and    *)
(* XAudio2 recycle buffers: the device's thread gives each one back under  *)
(* port.mu when it has been played.  WASAPI feeds a render thread through  *)
(* a lock-free ring for one producer.  Output blocks while all buffers are *)
(* taken or the ring is full, which paces the guest.                       *)
(***************************************************************************)
EXTENDS Integers, FiniteSets, SequencesExt

CONSTANTS Players,             \* guest threads that output
          kMaxBuffersInFlight, \* buffers of a port, and slots of the ring
          MaxBlocks, MaxOpens  \* bounds

AudioAssumption == IsFiniteSet(Players) /\ kMaxBuffersInFlight \in Nat \ {0}

VARIABLES backend,   \* "closed", "silent", "wave", "wasapi" or "xa2"
          draining,  \* Close waits for waveOut to give its buffers back
          buffers,   \* buffers that exist
          free,      \* free_buffers, free_blocks
          in_flight,
          device,    \* buffers queued at the host, in order
          data,      \* by buffer: the block it holds
          ring, head, tail,
          output,    \* the call of each thread
          blocks, opens,     \* blocks handed over and opens so far
          submitted, played, \* history, since the port was opened
          outputs_crossed, \* history: two outputs overlapped
          raced            \* history: a close overlapped an output, or gave up waiting

bufferVars == <<buffers, free, in_flight, device, data>>
ringVars == <<ring, head, tail>>
audioVars == <<backend, draining, bufferVars, ringVars, output, blocks, opens, submitted, played,
               outputs_crossed, raced>>

Ids == 1 .. kMaxBuffersInFlight + 1
NoOutput == [at |-> "idle", buf |-> 0, block |-> 0, tail |-> 0]
Active == { c \in Players : output[c] # NoOutput }
Filling == { c \in Players : output[c].at = "filled" }
AfterSlot(i) == (i + 1) % kMaxBuffersInFlight
Full == AfterSlot(tail) = head

\* cv.notify_all of the port.
Notified == [c \in Players |-> IF output[c].at = "asleep" THEN [output[c] EXCEPT !.at = "take"] ELSE output[c]]

-----------------------------------------------------------------------------
\* AudioOutOpen with OpenWaveBackend, OpenWasapiBackend, OpenXAudio2Backend.
OpenPort(b) ==
    /\ backend = "closed" /\ opens < MaxOpens
    /\ backend' = b /\ opens' = opens + 1
    /\ IF b = "xa2"
       THEN buffers' = 1 .. kMaxBuffersInFlight /\ free' = free \o [i \in 1 .. kMaxBuffersInFlight |-> i]
       ELSE UNCHANGED <<buffers, free>>
    /\ submitted' = <<>> /\ played' = <<>>
    /\ UNCHANGED <<draining, in_flight, device, data, ringVars, output, blocks, outputs_crossed, raced>>

\* AudioOutOutput up to the back end; Close holds g_ports_mutex to its end.  A
\* silent port only sleeps.
Output(c) ==
    /\ output[c] = NoOutput /\ backend \in {"wave", "wasapi", "xa2"} /\ ~draining /\ blocks < MaxBlocks
    /\ blocks' = blocks + 1
    /\ output' = [output EXCEPT ![c] = [NoOutput EXCEPT !.at = IF backend = "wasapi" THEN "spin" ELSE "take",
                                                     !.block = blocks + 1]]
    /\ outputs_crossed' = (outputs_crossed \/ Active # {})
    /\ UNCHANGED <<backend, draining, bufferVars, ringVars, opens, submitted, played, raced>>

-----------------------------------------------------------------------------
(* SubmitToBackend and SubmitToXAudio2. *)

Fill(c, b) == /\ output' = [output EXCEPT ![c].at = "filled", ![c].buf = b]
              /\ data' = [data EXCEPT ![b] = output[c].block]
              /\ in_flight' = in_flight + 1

\* Variant for the mutant runs: the buffer stays on the free list.
TakeFreeStays(c) ==
    /\ output[c].at = "take" /\ free # <<>>
    /\ Fill(c, Head(free))
    /\ UNCHANGED <<backend, draining, buffers, free, device, ringVars, blocks, opens, submitted, played,
                   outputs_crossed, raced>>

TakeFree(c) ==
    /\ output[c].at = "take" /\ free # <<>>
    /\ Fill(c, Head(free))
    /\ free' = Tail(free)
    /\ UNCHANGED <<backend, draining, buffers, device, ringVars, blocks, opens, submitted, played,
                   outputs_crossed, raced>>

\* waveOut makes a buffer while fewer than the limit are out.
TakeNew(c) ==
    /\ output[c].at = "take" /\ free = <<>> /\ backend # "xa2" /\ in_flight < kMaxBuffersInFlight
    /\ \E b \in Ids \ buffers :
          /\ \A k \in Ids \ buffers : b <= k
          /\ Fill(c, b) /\ buffers' = buffers \cup {b}
    /\ UNCHANGED <<backend, draining, free, device, ringVars, blocks, opens, submitted, played,
                   outputs_crossed, raced>>

Sleep(c) ==
    /\ output[c].at = "take" /\ free = <<>> /\ (backend # "xa2" => in_flight >= kMaxBuffersInFlight)
    /\ output' = [output EXCEPT ![c].at = "asleep"]
    /\ UNCHANGED <<backend, draining, bufferVars, ringVars, blocks, opens, submitted, played,
                   outputs_crossed, raced>>

\* waveOutWrite, SubmitSourceBuffer; the handle is gone when Close overtook.
Submit(c) ==
    /\ output[c].at = "filled" /\ backend \in {"wave", "xa2"} /\ ~draining
    /\ device' = Append(device, output[c].buf)
    /\ submitted' = Append(submitted, output[c].block)
    /\ output' = [output EXCEPT ![c] = NoOutput]
    /\ UNCHANGED <<backend, draining, buffers, free, in_flight, data, ringVars, blocks, opens, played,
                   outputs_crossed, raced>>

\* The host refuses the buffer; only XAudio2 notifies.
SubmitFails(c) ==
    /\ output[c].at = "filled" /\ output[c].buf \in buffers
    /\ free' = Append(free, output[c].buf) /\ in_flight' = in_flight - 1
    /\ output' = [(IF backend = "xa2" THEN Notified ELSE output) EXCEPT ![c] = NoOutput]
    /\ UNCHANGED <<backend, draining, buffers, device, data, ringVars, blocks, opens, submitted, played,
                   outputs_crossed, raced>>

\* waveOutPrepareHeader fails: the buffer is deleted.
PrepareFails(c) ==
    /\ output[c].at = "filled" /\ output[c].buf \in buffers /\ backend # "xa2"
    /\ buffers' = buffers \ {output[c].buf} /\ in_flight' = in_flight - 1
    /\ output' = [output EXCEPT ![c] = NoOutput]
    /\ UNCHANGED <<backend, draining, free, device, data, ringVars, blocks, opens, submitted, played,
                   outputs_crossed, raced>>

\* WaveOutProc and OnBufferEnd, when the host has played a buffer.
BufferEnd ==
    /\ device # <<>>
    /\ device' = Tail(device)
    /\ free' = Append(free, Head(device)) /\ in_flight' = in_flight - 1
    /\ played' = Append(played, data[Head(device)])
    /\ output' = Notified
    /\ UNCHANGED <<backend, draining, buffers, data, ringVars, blocks, opens, submitted,
                   outputs_crossed, raced>>

-----------------------------------------------------------------------------
(* SubmitToWasapi: the ring's push in its three steps. *)

\* Variant for the mutant runs: the ring counts as full one slot later.
PushBeginsWhenFull(c) ==
    /\ output[c].at = "spin"
    /\ output' = [output EXCEPT ![c].at = "write", ![c].tail = tail]
    /\ UNCHANGED <<backend, draining, bufferVars, ringVars, blocks, opens, submitted, played,
                   outputs_crossed, raced>>

PushBegins(c) ==
    /\ output[c].at = "spin" /\ ~Full
    /\ output' = [output EXCEPT ![c].at = "write", ![c].tail = tail]
    /\ UNCHANGED <<backend, draining, bufferVars, ringVars, blocks, opens, submitted, played,
                   outputs_crossed, raced>>

PushWrites(c) ==
    /\ output[c].at = "write"
    /\ ring' = [ring EXCEPT ![output[c].tail] = output[c].block]
    /\ output' = [output EXCEPT ![c].at = "store"]
    /\ UNCHANGED <<backend, draining, bufferVars, head, tail, blocks, opens, submitted, played,
                   outputs_crossed, raced>>

PushStores(c) ==
    /\ output[c].at = "store"
    /\ tail' = AfterSlot(output[c].tail)
    /\ submitted' = Append(submitted, output[c].block)
    /\ output' = [output EXCEPT ![c] = NoOutput]
    /\ UNCHANGED <<backend, draining, bufferVars, ring, head, blocks, opens, played, outputs_crossed, raced>>

\* WasapiThreadMain takes the next block.
Pop ==
    /\ backend = "wasapi" /\ head # tail
    /\ played' = Append(played, ring[head])
    /\ head' = AfterSlot(head)
    /\ UNCHANGED <<backend, draining, bufferVars, ring, tail, output, blocks, opens, submitted,
                   outputs_crossed, raced>>

-----------------------------------------------------------------------------
(* AudioOutClose. *)

\* waveOut is reset and its buffers awaited; WASAPI's thread is joined and the
\* ring cleared; XAudio2's voice is destroyed with what is queued, and the pool.
Close ==
    /\ backend # "closed" /\ ~draining
    /\ raced' = (raced \/ Active # {})
    /\ draining' = (backend = "wave")
    /\ backend' = IF backend = "wave" THEN backend ELSE "closed"
    /\ IF backend = "wasapi" THEN head' = 0 /\ tail' = 0 ELSE UNCHANGED <<head, tail>>
    /\ IF backend = "xa2" THEN buffers' = {} /\ free' = <<>> /\ device' = <<>> /\ in_flight' = 0
       ELSE UNCHANGED <<buffers, free, device, in_flight>>
    /\ UNCHANGED <<data, ring, output, blocks, opens, submitted, played, outputs_crossed>>

\* The hundred turns of the wait may pass before all buffers are back.
CloseDrained ==
    /\ draining
    /\ draining' = FALSE /\ backend' = "closed"
    /\ buffers' = buffers \ ToSet(free)
    /\ free' = <<>> /\ in_flight' = 0
    /\ raced' = (raced \/ in_flight # 0)
    /\ UNCHANGED <<device, data, ringVars, output, blocks, opens, submitted, played, outputs_crossed>>

-----------------------------------------------------------------------------
AudioInit ==
    /\ backend = "closed" /\ draining = FALSE
    /\ buffers = {} /\ free = <<>> /\ in_flight = 0 /\ device = <<>> /\ data = [b \in Ids |-> 0]
    /\ ring = [i \in 0 .. kMaxBuffersInFlight - 1 |-> 0] /\ head = 0 /\ tail = 0
    /\ output = [c \in Players |-> NoOutput] /\ blocks = 0 /\ opens = 0
    /\ submitted = <<>> /\ played = <<>> /\ outputs_crossed = FALSE /\ raced = FALSE

AudioNext ==
    \/ \E b \in {"silent", "wave", "wasapi", "xa2"} : OpenPort(b)
    \/ \E c \in Players :
          \/ Output(c) \/ TakeFree(c) \/ TakeNew(c) \/ Sleep(c) \/ Submit(c) \/ SubmitFails(c)
          \/ PrepareFails(c) \/ PushBegins(c) \/ PushWrites(c) \/ PushStores(c)
    \/ BufferEnd \/ Pop \/ Close \/ CloseDrained

AudioSpec == AudioInit /\ [][AudioNext]_audioVars

-----------------------------------------------------------------------------
(* Properties. *)

\* Unless a close overtakes an output, each buffer is in one place - free, being
\* filled or at the host -, in_flight counts those that are out, their number
\* keeps to the limit although it is never tested, and a closed port has none.
BuffersAreAccounted ==
    ~raced =>
        /\ IsInjective(free \o device)
        /\ ToSet(free \o device) \cap { output[c].buf : c \in Filling } = {}
        /\ ToSet(free \o device) \cup { output[c].buf : c \in Filling } = buffers
        /\ Len(free) + Len(device) + Cardinality(Filling) = Cardinality(buffers)
        /\ in_flight = Len(device) + Cardinality(Filling)
        /\ Cardinality(buffers) <= kMaxBuffersInFlight
        /\ backend = "closed" => buffers = {} /\ head = tail

\* Blocks are played in the order they were submitted, each once, and none is
\* lost; on the ring this takes one thread that outputs.
PlayedAsSubmitted ==
    /\ ~raced /\ ~outputs_crossed =>
        /\ IsPrefix(played, submitted)
        /\ backend \in {"wave", "wasapi", "xa2"} /\ Active = {} /\ device = <<>> /\ head = tail
              => played = submitted
    /\ ~raced /\ backend \in {"wave", "xa2"} => IsPrefix(played, submitted)

\* Who sleeps for a buffer is woken by a buffer that is at the host, as long as no
\* more threads output than there are buffers: a refusal by waveOut wakes nobody.
SleeperIsWoken ==
    Cardinality(Players) <= kMaxBuffersInFlight =>
        \A c \in Players : output[c].at = "asleep" /\ ~raced => device # <<>> \/ Filling # {}
=============================================================================
