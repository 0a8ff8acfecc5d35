------------------------------ MODULE SaveData ------------------------------
(***************************************************************************)
(* The saves and trophies of a title on the host (src/hle/libsavedata.cpp, *)
(* src/hle/libnp.cpp).  With one profile they are in the title's directory, *)
(* with several a save is in the directory of the active user below it.     *)
(* With keys, a mount extracts the image of the directory over it and a     *)
(* commit packs the directory into the image, everything below it and the   *)
(* trophies included; without keys the files are all there is.  A run may   *)
(* end at any place, and the settings change between runs only.             *)
(***************************************************************************)
EXTENDS Naturals, FiniteSets

CONSTANTS Users, XtsKeys, NoKeys,  \* the directories of the users; the keys of the settings
          Configs,              \* settings of a run: the directory in effect and the keys
          Trophies, MaxRuns, MaxWrites

Flat == "flat"
Dirs == Users \cup {Flat}
SaveDataAssumption ==
    /\ Flat \notin Users /\ NoKeys \notin XtsKeys
    /\ Configs \subseteq [dir : Dirs, keys : XtsKeys \cup {NoKeys}]
    /\ MaxRuns \in Nat /\ MaxWrites \in Nat

VARIABLES running, config, mounted,
          plain,      \* of each directory, its save; 0 if there is none
          store,      \* trophies.json of the title's directory
          images,     \* sdimg.dat of each directory, or NoImage
          busy,       \* the call that is in progress, or Done
          loaded, unlocked, \* g_np_trophies_loaded, g_np_trophies
          runs, writes,
          committed,  \* history: the save a directory had when it was last committed
          won,        \* history: the trophies whose unlock returned
          excused     \* history: what may be lost for a cause that is known

saveVars == <<running, config, mounted, plain, store, images, busy, loaded, unlocked, runs, writes, committed, won, excused>>

NoImage == [keys |-> NoKeys]
Unset == [dir |-> Flat, keys |-> NoKeys]
Done == [op |-> "none"]

\* What is packed with a directory.
Below(dir) == IF dir = Flat THEN Dirs \cup {"store"} ELSE {dir}

Contents == [save |-> plain, store |-> store]

-----------------------------------------------------------------------------
Boot(c) ==
    /\ ~ running /\ runs < MaxRuns
    /\ running' = TRUE /\ config' = c /\ mounted' = FALSE /\ runs' = runs + 1
    /\ UNCHANGED <<plain, store, images, busy, loaded, unlocked, writes, committed, won, excused>>

\* The guest writes a file below /savedata0.
GuestWrites ==
    /\ mounted /\ busy = Done /\ writes < MaxWrites
    /\ plain' = [plain EXCEPT ![config.dir] = writes + 1] /\ writes' = writes + 1
    /\ UNCHANGED <<running, config, mounted, store, images, busy, loaded, unlocked, runs, committed, won, excused>>

\* An image that decrypts to the header of an archive; one that was cut inside a
\* block of the cipher does not.
Opens(image) == image # NoImage /\ image.keys = config.keys /\ image.header

\* Variant for the mutant runs: the image goes with the rest.
WipeAll(dir) ==
    /\ plain' = [d \in Dirs |-> IF d \in Below(dir) THEN 0 ELSE plain[d]]
    /\ store' = IF dir = Flat THEN {} ELSE store
    /\ images' = [d \in Dirs |-> IF d \in Below(dir) THEN NoImage ELSE images[d]]

\* ExtractArchiveToDir first removes everything in the directory but its image.
Wipe(dir) ==
    /\ plain' = [d \in Dirs |-> IF d \in Below(dir) THEN 0 ELSE plain[d]]
    /\ store' = IF dir = Flat THEN {} ELSE store
    /\ images' = [d \in Dirs |-> IF d \in Below(dir) \ {dir} THEN NoImage ELSE images[d]]

\* sceSaveDataMount3: with keys an image that opens is extracted, whole or not; a guest
\* mounts before it writes and commits.
Mount ==
    /\ running /\ busy = Done
    /\ LET dir == config.dir  image == images[dir] IN
       IF config.keys # NoKeys /\ Opens(image)
       THEN /\ Wipe(dir)
            /\ busy' = [op |-> "mount", content |-> image.content, todo |-> image.entries]
            /\ excused' = IF dir = Flat THEN excused \cup Users \cup {"store"} ELSE excused
            /\ UNCHANGED mounted
       ELSE /\ mounted' = TRUE
            /\ excused' = IF config.keys # NoKeys /\ image # NoImage THEN excused \cup {dir} ELSE excused
            /\ UNCHANGED <<plain, store, images, busy>>
    /\ UNCHANGED <<running, config, loaded, unlocked, runs, writes, committed, won>>

MountExtracts ==
    /\ busy.op = "mount"
    /\ \E p \in busy.todo :
        /\ busy' = [busy EXCEPT !.todo = @ \ {p}]
        /\ IF p = "store" THEN store' = busy.content.store /\ UNCHANGED plain
           ELSE plain' = [plain EXCEPT ![p] = busy.content.save[p]] /\ UNCHANGED store
    /\ UNCHANGED <<running, config, mounted, images, loaded, unlocked, runs, writes, committed, won, excused>>

MountReturns ==
    /\ busy.op = "mount" /\ busy.todo = {}
    /\ busy' = Done /\ mounted' = TRUE
    /\ UNCHANGED <<running, config, plain, store, images, loaded, unlocked, runs, writes, committed, won, excused>>

\* sceSaveDataCommit and sceSaveDataUmount2: the image is truncated,
Commit ==
    /\ mounted /\ busy = Done
    /\ LET dir == config.dir IN
       IF config.keys = NoKeys
       THEN /\ committed' = [committed EXCEPT ![dir] = plain[dir]]
            /\ excused' = IF images[dir] # NoImage THEN excused \cup {dir} ELSE excused \ {dir}
            /\ UNCHANGED <<busy, images>>
       ELSE /\ images' = [images EXCEPT ![dir] = [keys |-> config.keys, header |-> FALSE]]
            /\ busy' = [op |-> "commit", dir |-> dir, content |-> Contents]
            /\ UNCHANGED <<committed, excused>>
    /\ UNCHANGED <<running, config, mounted, plain, store, loaded, unlocked, runs, writes, won>>

Packed(entries) == [keys |-> config.keys, header |-> TRUE, content |-> busy.content, entries |-> entries]
Files(dir, content) == {p \in Below(dir) : IF p = "store" THEN content.store # {} ELSE content.save[p] # 0}

\* and written.
CommitReturns ==
    /\ busy.op = "commit"
    /\ images' = [images EXCEPT ![busy.dir] = Packed(Files(busy.dir, busy.content))]
    /\ committed' = [committed EXCEPT ![busy.dir] = plain[busy.dir]]
    /\ excused' = excused \ {busy.dir} /\ busy' = Done
    /\ UNCHANGED <<running, config, mounted, plain, store, loaded, unlocked, runs, writes, won>>

\* Variant for the mutant runs: the file is not read before it is written.
NothingLoaded == unlocked

\* LoadTrophyStore, once in a run.
LoadTrophyStore == IF loaded THEN unlocked ELSE store

\* RecordTrophyUnlock: the file is truncated,
Unlock(t) ==
    /\ running /\ busy = Done /\ writes < MaxWrites
    /\ loaded' = TRUE /\ unlocked' = LoadTrophyStore \cup {t} /\ writes' = writes + 1
    /\ IF t \in LoadTrophyStore THEN UNCHANGED <<store, busy>> ELSE store' = {} /\ busy' = [op |-> "trophies"]
    /\ UNCHANGED <<running, config, mounted, plain, images, runs, committed, won, excused>>

\* and written with all that is unlocked.
UnlockReturns ==
    /\ busy.op = "trophies"
    /\ store' = unlocked /\ won' = won \cup unlocked /\ busy' = Done
    /\ UNCHANGED <<running, config, mounted, plain, images, loaded, unlocked, runs, writes, committed, excused>>

\* The run ends; what it was writing is there in part.
Ends ==
    /\ running /\ running' = FALSE /\ mounted' = FALSE /\ busy' = Done
    /\ loaded' = FALSE /\ unlocked' = {} /\ config' = Unset
    /\ CASE busy.op = "commit" ->
              /\ \/ UNCHANGED images
                 \/ \E e \in SUBSET Files(busy.dir, busy.content) : images' = [images EXCEPT ![busy.dir] = Packed(e)]
              /\ excused' = excused \cup {busy.dir} /\ UNCHANGED store
         [] busy.op = "trophies" ->
              /\ store' \in SUBSET unlocked /\ excused' = excused \cup {"store"} /\ UNCHANGED images
         [] OTHER -> UNCHANGED <<store, images, excused>>
    /\ UNCHANGED <<plain, runs, writes, committed, won>>

Init ==
    /\ running = FALSE /\ mounted = FALSE /\ config = Unset
    /\ plain = [d \in Dirs |-> 0] /\ store = {} /\ images = [d \in Dirs |-> NoImage]
    /\ busy = Done /\ loaded = FALSE /\ unlocked = {} /\ runs = 0 /\ writes = 0
    /\ committed = [d \in Dirs |-> 0] /\ won = {} /\ excused = {}

Next ==
    \/ \E c \in Configs : Boot(c)
    \/ GuestWrites \/ Mount \/ MountExtracts \/ MountReturns \/ Commit \/ CommitReturns
    \/ \E t \in Trophies : Unlock(t)
    \/ UnlockReturns \/ Ends

Spec == Init /\ [][Next]_saveVars

-----------------------------------------------------------------------------
(* Properties. *)

Holds(image, d) == image # NoImage /\ image.header /\ d \in image.entries

\* The save of a directory that was committed is on the disk, in the clear or in the
\* directory's image, wherever a run ends; it is excused when a run ended inside the
\* commit, when it was committed without keys beside an older image, when an image of other
\* keys was there at a mount, or when the title's own directory was mounted from its image
\* over those of the users.
CommittedSavesStay ==
    \A d \in Dirs \ excused :
        \/ plain[d] >= committed[d]
        \/ Holds(images[d], d) /\ images[d].content.save[d] >= committed[d]

\* A trophy that was unlocked stays in the file, unless a run ended while the file was
\* written or the title's own directory was mounted from an image.
TrophiesStay == "store" \notin excused /\ busy.op # "trophies" => won \subseteq store
=============================================================================
