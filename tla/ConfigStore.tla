----------------------------- MODULE ConfigStore -----------------------------
(***************************************************************************)
(* The configuration service (src/config/config.cpp): one file of global   *)
(* settings and one for each title, read when the service starts, changed  *)
(* in memory and written back as a whole.  A file is truncated first and   *)
(* then written, so a crash in between leaves a part of it.  Five sections *)
(* stand for the eleven: those EffectiveFor overlays (logging, graphics,   *)
(* savedata_crypto) and those it does not (ui, users).                     *)
(***************************************************************************)
EXTENDS Naturals, Sequences, TLC

CONSTANTS GlobalFiles, TitleFiles, \* texts of other versions and editors the files may hold at first
          FilePaths,               \* values of logging.file_path the front end sets
          Cuts, MaxStarts, MaxSaves

VARIABLES disk,        \* of each file, its text
          g_initialized, g_global, g_per_title,
          saving,      \* the file that has been truncated, and what it will be
          saved,       \* history: what the last save of each file was to write, and whether it did
          starts, saves

configVars == <<disk, g_initialized, g_global, g_per_title, saving, saved, starts, saves>>

Json == INSTANCE JsonText WITH Unicode <- TRUE
LOCAL Num(n) == Json!Num(n)
LOCAL Obj(o) == Json!Obj(o)

kCurrentSchemaVersion == 3
None == [none |-> TRUE]
NoFile == <<"no file">>
LogLevels == {"Debug", "Info", "Warn", "Error"}

Defaults == [min_level |-> "Info", file_path |-> <<>>, width |-> 1, enabled |-> FALSE, key |-> <<0, 0>>,
             language |-> "en-US", profiles |-> <<1>>, active_user |-> 0, schema_version |-> 0]

-----------------------------------------------------------------------------
(* Sections. *)

Hex == [a |-> 10, A |-> 10, f |-> 15, F |-> 15]
Digit(n) == IF n = 0 THEN "0" ELSE IF n = 10 THEN "a" ELSE "f"

\* Variant for the mutant runs: a key of any length.
HexToBytesOfAnyLength(s) == \A i \in DOMAIN s : s[i] \in DOMAIN Hex \cup {"0"}

\* A key of one byte stands for those of sixteen.
HexToBytes(s) == Len(s) = 2 /\ \A i \in DOMAIN s : s[i] \in DOMAIN Hex \cup {"0"}
Bytes(s) == [i \in DOMAIN s |-> IF s[i] = "0" THEN 0 ELSE Hex[s[i]]]

\* A field counts if it is there with its type.
FieldOr(section, key, type, fallback) == LET p == Json!Field(section, key) IN IF p.t = type THEN p ELSE fallback

ReadLogging(root, cfg) ==
    LET v == Json!Field(root, "logging")
        level == FieldOr(v, "min_level", "str", Json!Str(<<>>)).s
    IN [cfg EXCEPT !.min_level = IF Len(level) = 1 /\ level[1] \in LogLevels THEN level[1] ELSE @,
                   !.file_path = FieldOr(v, "file_path", "str", Json!Str(@)).s]

ReadGraphics(root, cfg) == [cfg EXCEPT !.width = FieldOr(Json!Field(root, "graphics"), "width", "num", Num(@)).n]

ReadUi(root, cfg) == [cfg EXCEPT !.language = FieldOr(Json!Field(root, "ui"), "language", "str", Json!Str(<<@>>)).s[1]]

ReadSaveDataCrypto(root, cfg) ==
    LET v == Json!Field(root, "savedata_crypto")
        key == Json!Field(v, "xts_key1")
        present == key.t # "null"
        good == key.t = "str" /\ HexToBytes(key.s)
        enabled == FieldOr(v, "enabled", "bool", Json!Bool(cfg.enabled)).b
    IN [cfg EXCEPT !.enabled = enabled /\ (present => good), !.key = IF good THEN Bytes(key.s) ELSE @]

\* Variant for the mutant runs: the index is taken as it is.
ActiveAsRead(active, profiles) == active

\* The index of the active profile is kept in range.
Active(active, profiles) == IF active \in 0 .. Len(profiles) - 1 THEN active ELSE 0

ReadUsers(root, cfg) ==
    LET v == Json!Field(root, "users")
        items == SelectSeq(FieldOr(v, "profiles", "arr", Json!Arr(<<>>)).a, LAMBDA item : item.t = "obj")
        ids == [i \in DOMAIN items |-> FieldOr(items[i], "id", "num", Num(1)).n]
        profiles == IF ids = <<>> THEN cfg.profiles ELSE ids
    IN IF v.t # "obj" THEN cfg
       ELSE [cfg EXCEPT !.profiles = profiles,
                        !.active_user = Active(FieldOr(v, "active_user", "num", Num(cfg.active_user)).n, profiles)]

\* A number, or a numeral in a string.
SchemaVersion(root) ==
    LET p == Json!Field(root, "schema_version") IN
    CASE p.t = "num" -> p.n
      [] p.t = "str" /\ \E n \in 0 .. 9 : p.s = <<Json!Numerals[n]>> -> CHOOSE n \in 0 .. 9 : p.s = <<Json!Numerals[n]>>
      [] OTHER -> kCurrentSchemaVersion

\* Version 1 had no ui section; what is newer is taken as it is, what is older refused.
MigrateToCurrent(from_version, cfg) ==
    [ok |-> from_version >= 1,
     cfg |-> [cfg EXCEPT !.schema_version = kCurrentSchemaVersion, !.language = IF from_version = 1 THEN "en-US" ELSE @]]

Read(r) ==
    IF ~ r.ok \/ r.v.t # "obj" THEN [ok |-> FALSE]
    ELSE MigrateToCurrent(SchemaVersion(r.v),
             ReadUsers(r.v, ReadSaveDataCrypto(r.v, ReadUi(r.v, ReadGraphics(r.v, ReadLogging(r.v, Defaults))))))
LoadFromFile(text) == Read(Json!Parse(text))

\* Variant for the mutant runs: the version is that of the settings in memory.
WrittenOwnVersion(cfg) == cfg.schema_version

\* The version in the file is always the current one.
WrittenVersion(cfg) == kCurrentSchemaVersion

SaveToFile(cfg) ==
    Json!WriteJson(Obj(
        ("schema_version" :> Num(WrittenVersion(cfg)))
        @@ ("logging" :> Obj(("min_level" :> Json!Str(<<cfg.min_level>>)) @@ ("file_path" :> Json!Str(cfg.file_path))))
        @@ ("graphics" :> Obj("width" :> Num(cfg.width)))
        @@ ("ui" :> Obj("language" :> Json!Str(<<cfg.language>>)))
        @@ ("savedata_crypto" :> Obj(("enabled" :> Json!Bool(cfg.enabled))
                                     @@ ("xts_key1" :> Json!Str([i \in DOMAIN cfg.key |-> Digit(cfg.key[i])]))))
        @@ ("users" :> Obj(("profiles" :> Json!Arr([i \in DOMAIN cfg.profiles |-> Obj("id" :> Num(cfg.profiles[i]))]))
                           @@ ("active_user" :> Num(cfg.active_user))))))
    \o <<"nl">>

-----------------------------------------------------------------------------
(* The service. *)

\* Variant for the mutant runs: a title's settings bring users of their own.
EffectiveWithUsers(g, t) == IF t = None THEN g ELSE t

\* What holds for a title: its sections over the global ones, but for ui and users.
EffectiveFor(g, t) ==
    IF t = None THEN g
    ELSE [t EXCEPT !.language = g.language, !.profiles = g.profiles, !.active_user = g.active_user]

Settings(cfg) == [cfg EXCEPT !.schema_version = 0]
Written(cfg, whole) == [cfg |-> Settings(cfg), whole |-> whole]

\* Initialize: a missing global file is written with the defaults, a bad one is left
\* and the defaults hold; a bad file of a title is skipped.
Initialize ==
    /\ ~ g_initialized /\ starts < MaxStarts
    /\ \E g \in {LoadFromFile(disk.global)}, t \in {LoadFromFile(disk.title)} :
       /\ g_global' = IF disk.global # NoFile /\ g.ok THEN g.cfg ELSE Defaults
       /\ g_per_title' = IF disk.title # NoFile /\ t.ok THEN t.cfg ELSE None
       /\ disk' = IF disk.global = NoFile THEN [disk EXCEPT !.global = SaveToFile(Defaults)] ELSE disk
       /\ saved' = IF disk.global = NoFile THEN [saved EXCEPT !.global = Written(Defaults, TRUE)] ELSE saved
    /\ g_initialized' = TRUE /\ starts' = starts + 1
    /\ UNCHANGED <<saving, saves>>

MutableGlobal ==
    /\ g_initialized /\ saving = None
    /\ \/ \E p \in FilePaths : g_global' = [g_global EXCEPT !.file_path = p]
       \/ g_global' = [g_global EXCEPT !.profiles = <<1, 2>>, !.active_user = 1]
    /\ UNCHANGED <<disk, g_initialized, g_per_title, saving, saved, starts, saves>>

\* The record of a title begins as a copy of the global one.
MutableForTitle ==
    /\ g_initialized /\ saving = None
    /\ LET t == IF g_per_title = None THEN g_global ELSE g_per_title IN
       \/ g_per_title' = [t EXCEPT !.enabled = TRUE, !.key = <<10, 15>>]
       \/ g_per_title' = [t EXCEPT !.width = 2, !.min_level = "Warn"]
    /\ UNCHANGED <<disk, g_initialized, g_global, saving, saved, starts, saves>>

\* SaveGlobal and SavePerTitle: the file is opened and truncated,
BeginSave(w) ==
    /\ g_initialized /\ saving = None /\ saves < MaxSaves
    /\ LET cfg == IF w = "global" THEN g_global ELSE g_per_title IN
       /\ cfg # None
       /\ saving' = [file |-> w, cfg |-> cfg]
       /\ disk' = [disk EXCEPT ![w] = <<>>]
       /\ saved' = [saved EXCEPT ![w] = Written(cfg, FALSE)]
    /\ saves' = saves + 1
    /\ UNCHANGED <<g_initialized, g_global, g_per_title, starts>>

\* and written.
EndSave ==
    /\ saving # None /\ g_initialized
    /\ disk' = [disk EXCEPT ![saving.file] = SaveToFile(saving.cfg)]
    /\ saved' = [saved EXCEPT ![saving.file].whole = TRUE]
    /\ saving' = None
    /\ UNCHANGED <<g_initialized, g_global, g_per_title, starts, saves>>

\* The process ends; what it was writing is there up to some place.
Crash ==
    /\ g_initialized
    /\ IF saving = None THEN UNCHANGED disk
       ELSE LET text == SaveToFile(saving.cfg) IN
            \E n \in Cuts \cup {Len(text) - 1} : disk' = [disk EXCEPT ![saving.file] = SubSeq(text, 1, n)]
    /\ g_initialized' = FALSE /\ g_global' = Defaults /\ g_per_title' = None /\ saving' = None
    /\ UNCHANGED <<saved, starts, saves>>

Idle ==
    /\ disk = [global |-> NoFile, title |-> NoFile] /\ g_initialized = FALSE /\ g_global = Defaults /\ g_per_title = None
    /\ saving = None /\ saved = [global |-> None, title |-> None] /\ starts = 0 /\ saves = 0

Init ==
    /\ disk \in [global : GlobalFiles, title : TitleFiles]
    /\ g_initialized = FALSE /\ g_global = Defaults /\ g_per_title = None
    /\ saving = None /\ saved = [global |-> None, title |-> None] /\ starts = 0 /\ saves = 0

Next ==
    \/ Initialize \/ MutableGlobal \/ MutableForTitle
    \/ \E w \in {"global", "title"} : BeginSave(w)
    \/ EndSave \/ Crash

Spec == Init /\ [][Next]_configVars

-----------------------------------------------------------------------------
(* Properties. *)

\* A file that was written to its end is read back as it was written, whatever its
\* strings hold; one whose writing was cut short is read as it was to be, or refused.
SavedSettingsReturn ==
    \A w \in {"global", "title"} :
        saved[w] # None => \E read \in {LoadFromFile(disk[w])} :
                           /\ saved[w].whole => read.ok
                           /\ read.ok => Settings(read.cfg) = saved[w].cfg

\* Whatever the files hold, the settings in memory have an active user among their
\* profiles, and encryption of saves is never on with the key of a malformed line.
SettingsAreLegal ==
    \A cfg \in {g_global, g_per_title, EffectiveFor(g_global, g_per_title)} \ {None} :
        /\ cfg.active_user < Len(cfg.profiles)
        /\ cfg.enabled => Len(cfg.key) = 2

\* Users are the same for every title.
UsersAreGlobal == EffectiveFor(g_global, g_per_title).profiles = g_global.profiles
=============================================================================
