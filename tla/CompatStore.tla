----------------------------- MODULE CompatStore -----------------------------
(***************************************************************************)
(* The compatibility database (src/compat/compat.cpp): an index file that   *)
(* lists the titles, a file for each title, and a cache that Find fills and *)
(* Save refreshes.  A call writes the files one after the other, each       *)
(* truncated before it is written, and the process may end in between.      *)
(***************************************************************************)
EXTENDS Naturals, Sequences, TLC

SE == INSTANCE SequencesExt

CONSTANTS Titles, NamesOfTitles, \* what is entered as the name of a title, as characters
          MaxEdits

VARIABLES index,     \* text of compatibility.json
          entries,   \* of each title, the text of its file
          g_cache,   \* of each title, the entry in memory, or NoEntry
          call,      \* the call in progress: its steps are taken one at a time
          edits,
          kept       \* history: the entry of each title that was saved last, if it was saved whole

compatVars == <<index, entries, g_cache, call, edits, kept>>

Text == INSTANCE JsonText WITH Unicode <- FALSE

Absent == <<"no file">>
NoEntry == [name |-> <<"none">>, auto |-> 0]
NoCall == [op |-> "none"]

-----------------------------------------------------------------------------
\* Variant for the mutant runs: the fields of the last run are left out.
EntryWithoutAuto(e) == Text!WriteJson(Text!Obj("name" :> Text!Str(e.name)))

EntryToJson(e) ==
    Text!WriteJson(Text!Obj(("name" :> Text!Str(e.name)) @@ ("auto" :> Text!Obj("last_run_status" :> Text!Num(e.auto)))))

JsonToEntry(v) ==
    LET name == Text!Field(v, "name")  status == Text!Field(Text!Field(v, "auto"), "last_run_status") IN
    [name |-> IF name.t = "str" THEN name.s ELSE <<>>, auto |-> IF status.t = "num" THEN status.n ELSE 0]

\* Load: a file that is absent, or that the parser refuses, gives no entry.
EntryIn(r) == IF ~ r.ok \/ r.v.t # "obj" THEN NoEntry ELSE JsonToEntry(r.v)
Load(text) == EntryIn(Text!Parse(text))

\* LoadIndex: the titles, or none if the file cannot be parsed.
TitlesIn(r) == IF r.ok /\ Text!Field(r.v, "titles").t = "arr"
               THEN LET titles == r.v.o["titles"].a IN {titles[i].s[1] : i \in DOMAIN titles} ELSE {}
LoadIndex(text) == TitlesIn(Text!Parse(text))

SaveIndex(titles) ==
    LET seq == SE!SetToSeq(titles) IN
    Text!WriteJson(Text!Obj("titles" :> Text!Arr([i \in DOMAIN seq |-> Text!Str(<<seq[i]>>)])))

\* Variant for the mutant runs: the files of titles the index has lost are not looked for.
ListedTitles == LoadIndex(index)

\* ListTitles: those of the index, and those that have a file.
ListTitles == LoadIndex(index) \cup {t \in Titles : entries[t] # Absent}

-----------------------------------------------------------------------------
\* Save: the index is truncated if it does not list the title yet,
BeginSave(t, e) ==
    /\ IF t \in LoadIndex(index)
       THEN call' = [op |-> "save title", title |-> t, entry |-> e] /\ UNCHANGED index
       ELSE /\ call' = [op |-> "save index", title |-> t, entry |-> e, titles |-> LoadIndex(index) \cup {t}]
            /\ index' = <<>>
    /\ UNCHANGED <<entries, g_cache>>

Save(t) ==
    /\ call = NoCall /\ edits < MaxEdits
    /\ \E name \in NamesOfTitles : BeginSave(t, [name |-> name, auto |-> 0])
    /\ edits' = edits + 1 /\ UNCHANGED kept

\* UpdateAuto loads the entry from its file and saves it with the new fields.
UpdateAuto(t) ==
    /\ call = NoCall /\ edits < MaxEdits /\ Load(entries[t]) # NoEntry
    /\ BeginSave(t, [Load(entries[t]) EXCEPT !.auto = edits + 1])
    /\ edits' = edits + 1 /\ UNCHANGED kept

\* written, and the file of the title truncated,
IndexWritten ==
    /\ call.op \in {"save index", "remove index"}
    /\ index' = SaveIndex(call.titles)
    /\ IF call.op = "save index"
       THEN call' = [op |-> "save title", title |-> call.title, entry |-> call.entry] /\ UNCHANGED g_cache
       ELSE call' = NoCall /\ g_cache' = [g_cache EXCEPT ![call.title] = NoEntry]
    /\ UNCHANGED <<entries, edits, kept>>

TitleOpened ==
    /\ call.op = "save title"
    /\ entries' = [entries EXCEPT ![call.title] = <<>>] /\ kept' = [kept EXCEPT ![call.title] = NoEntry]
    /\ call' = [call EXCEPT !.op = "write title"]
    /\ UNCHANGED <<index, g_cache, edits>>

\* and written, unless that fails; only then the cache is refreshed.
TitleWritten ==
    /\ call.op = "write title"
    /\ \/ /\ entries' = [entries EXCEPT ![call.title] = EntryToJson(call.entry)]
          /\ kept' = [kept EXCEPT ![call.title] = call.entry]
          /\ g_cache' = [g_cache EXCEPT ![call.title] = call.entry]
       \/ UNCHANGED <<entries, kept, g_cache>>
    /\ call' = NoCall
    /\ UNCHANGED <<index, edits>>

\* Remove: the file goes first, then its line in the index.
RemoveTitle(t) ==
    /\ call = NoCall /\ edits < MaxEdits /\ entries[t] # Absent
    /\ entries' = [entries EXCEPT ![t] = Absent] /\ kept' = [kept EXCEPT ![t] = NoEntry]
    /\ IF t \in LoadIndex(index)
       THEN /\ index' = <<>> /\ UNCHANGED g_cache
            /\ call' = [op |-> "remove index", title |-> t, titles |-> LoadIndex(index) \ {t}]
       ELSE g_cache' = [g_cache EXCEPT ![t] = NoEntry] /\ UNCHANGED <<index, call>>
    /\ edits' = edits + 1

\* Find: the cache, or else the file.
Find(t) ==
    /\ call = NoCall /\ g_cache[t] = NoEntry /\ Load(entries[t]) # NoEntry
    /\ g_cache' = [g_cache EXCEPT ![t] = Load(entries[t])]
    /\ UNCHANGED <<index, entries, call, edits, kept>>

\* The process ends, inside a call or not, and another begins with an empty cache.
Restart ==
    /\ call' = NoCall /\ g_cache' = [t \in Titles |-> NoEntry]
    /\ UNCHANGED <<index, entries, edits, kept>>

Init ==
    /\ index = Absent /\ entries = [t \in Titles |-> Absent]
    /\ g_cache = [t \in Titles |-> NoEntry] /\ kept = [t \in Titles |-> NoEntry]
    /\ call = NoCall /\ edits = 0

Next ==
    \/ \E t \in Titles : Save(t) \/ UpdateAuto(t) \/ RemoveTitle(t) \/ Find(t)
    \/ IndexWritten \/ TitleOpened \/ TitleWritten \/ Restart

Spec == Init /\ [][Next]_compatVars

-----------------------------------------------------------------------------
(* Properties. *)

Readable(e) == \A i \in DOMAIN e.name : e.name[i] # "ctl"

\* An entry that was saved is listed and reads back as it was saved, also when a later
\* call on another title ended half-way through the index; but for names with a control
\* character, which are written with an escape the parser does not have.
SavedEntriesReturn ==
    \A t \in Titles : kept[t] # NoEntry =>
        /\ t \in ListTitles
        /\ Readable(kept[t]) => Load(entries[t]) = kept[t]

\* What the cache holds of a title was saved last, unless writing its file has failed.
CacheIsTheFile ==
    \A t \in Titles : g_cache[t] # NoEntry /\ kept[t] # NoEntry => g_cache[t] = kept[t]
=============================================================================
