------------------------------ MODULE ElfImage ------------------------------
(***************************************************************************)
(* How images get into guest memory and are linked (src/loader/elf.cpp and *)
(* LinkModule, LinkLoadedPrxModules, LoadModule of src/kernel/kernel.cpp). *)
(* The main module (1) is mapped, then the PRX modules it needs, each at a *)
(* base of its own; then the PRX modules are linked and protected, then    *)
(* the main module.  Segments may share pages.  Addresses are words, Hint  *)
(* the preferred base; ET_EXEC images have a load base other than 0.       *)
(***************************************************************************)
EXTENDS Naturals, FiniteSets, Sequences, SequencesExt

CONSTANTS Modules,      \* 1 .. n, in the order they are mapped
          MainImages, PrxImages, \* [segs, defs, rels, plts, tls, whole]: see MCServices
          PageWords, Hint, Step, WindowEnd,
          Implemented,  \* the NIDs HLE has a handler for
          Forced,       \* "Force real libc.prx": NIDs it never answers for first
          OwnedData,    \* kModuleOwnedData
          Tids

VARIABLES image, order,    \* what is loaded, and the order in which g_prx_modules iterates
          strict,          \* g_strict_import_mode
          stage, segment,  \* of each module, and the next segment of the one being mapped
          base, reserved,  \* of each module; reserved: its first word and the word after it
          mem, rights,     \* of words and of pages; no rights: reserved or free
          g_loaded_modules, static_tls, tls_blocks, told

imageVars == <<image, order, strict, stage, segment, base, reserved, mem, rights, g_loaded_modules,
               static_tls, tls_blocks, told>>

Prxs  == Modules \ {1}
Words == 0 .. WindowEnd - 1
Pages == 0 .. WindowEnd \div PageWords - 1
Page(a) == a \div PageWords

None           == <<"none">>
Zero           == <<"zero">>
Null           == <<"null">>
FromFile(m, v) == <<"file", m, v>>
At(a)          == <<"at", a>>

Segs(m)  == image[m].segs
Start(m, i) == base[m] + Segs(m)[i].vaddr
End(m, i)   == Start(m, i) + Segs(m)[i].memsz
PagesOf(m, i) == Page(Start(m, i)) .. Page(End(m, i) - 1)

LoadBase(m) == PageWords * Page(Segs(m)[1].vaddr)
Limit(m)    == LET last == Segs(m)[Len(Segs(m))] IN PageWords * (Page(last.vaddr + last.memsz - 1) + 1)
Size(m)     == Limit(m) - LoadBase(m)

Mapped(m) == stage[m] \in {"mapped", "linked", "ready"}

-----------------------------------------------------------------------------
(* Loader::Load. *)

IsFree(lo, n) == \A m \in Modules : reserved[m] # <<>> => lo + n <= reserved[m][1] \/ reserved[m][2] <= lo

\* The preferred base, else the first free one of the window for an image that
\* can be moved.
Bases(m) ==
    LET preferred == IF LoadBase(m) = 0 THEN Hint ELSE LoadBase(m)
        hints == { h \in Hint + Step .. WindowEnd :
                     (h - Hint) % Step = 0 /\ h + Size(m) < WindowEnd /\ IsFree(h, Size(m)) } IN
    IF IsFree(preferred, Size(m)) THEN {preferred}
    ELSE { h \in hints : LoadBase(m) = 0 /\ \A g \in hints : h <= g }

\* Modules are mapped one after the other, the main module first.
Reserve(m) ==
    /\ stage[m] = "needed" /\ \A k \in Modules : k < m => Mapped(k) \/ (k # 1 /\ stage[k] = "failed")
    /\ \/ \E b \in Bases(m) :
            /\ reserved' = [reserved EXCEPT ![m] = <<b, b + Size(m)>>]
            /\ base' = [base EXCEPT ![m] = b - LoadBase(m)]
            /\ stage' = [stage EXCEPT ![m] = "mapping"] /\ segment' = 1
       \/ /\ Bases(m) = {} /\ stage' = [stage EXCEPT ![m] = "failed"]
          /\ UNCHANGED <<reserved, base, segment>>
    /\ UNCHANGED <<image, order, strict, mem, rights, g_loaded_modules, static_tls, tls_blocks, told>>

\* The rights of a segment: what can be executed can be read, none means data.
FinalProtection(seg) ==
    LET f == seg.flags \cup (IF "x" \in seg.flags THEN {"r"} ELSE {}) IN
    IF f = {} THEN {"r", "w"} ELSE f

MapProtection(seg) == {"r", "w"} \cup (FinalProtection(seg) \cap {"x"})

\* Variant for the mutant runs: committing a page clears what is on it.
CommittedAnew(m, i, w) == IF Page(w) \in PagesOf(m, i) THEN Zero ELSE mem[w]

\* Memory::Commit: pages that are new are zero.
Committed(m, i, w) == IF Page(w) \in PagesOf(m, i) /\ rights[Page(w)] = {} THEN Zero ELSE mem[w]

Bytes(m, i, w) ==
    IF w \notin Start(m, i) .. End(m, i) - 1 THEN Committed(m, i, w)
    ELSE IF w < Start(m, i) + Segs(m)[i].filesz THEN FromFile(m, w - base[m]) ELSE Zero

\* A segment is committed, copied from the file and filled up; a file that is too
\* short ends the load where it is.
MapSegment(m) ==
    /\ stage[m] = "mapping" /\ segment <= Len(Segs(m))
    /\ rights' = [p \in Pages |-> IF p \in PagesOf(m, segment) THEN MapProtection(Segs(m)[segment]) ELSE rights[p]]
    /\ IF image[m].whole \/ segment < Len(Segs(m))
       THEN /\ mem' = [w \in Words |-> Bytes(m, segment, w)]
            /\ segment' = segment + 1 /\ UNCHANGED stage
       ELSE /\ mem' = [w \in Words |-> Committed(m, segment, w)]
            /\ stage' = [stage EXCEPT ![m] = "failed"] /\ UNCHANGED segment
    /\ UNCHANGED <<image, order, strict, base, reserved, g_loaded_modules, static_tls, tls_blocks, told>>

\* The tables of the dynamic segment are read from guest memory: symbols, names,
\* relocations, the TLS template.
ReadTables(m) ==
    /\ stage[m] = "mapping" /\ segment > Len(Segs(m))
    /\ stage' = [stage EXCEPT ![m] = "mapped"]
    /\ UNCHANGED <<image, order, strict, segment, base, reserved, mem, rights, g_loaded_modules,
                   static_tls, tls_blocks, told>>

-----------------------------------------------------------------------------
(* Linking.  A symbol is <<NID, suffix>>; <<>> is symbol 0, without a name. *)

Exporters == SelectSeq(order, Mapped)
Defs(m) == image[m].defs
Address(m, name) == At(base[m] + Defs(m)[name])

\* exact_exports: the last module wins.
Exact(name) == SelectSeq(Exporters, LAMBDA m : name \in DOMAIN Defs(m))

\* base_exports: the first one does.
Base(nid) == SelectSeq(Exporters, LAMBDA m : \E name \in DOMAIN Defs(m) : name[1] = nid)
OfNid(m, nid) == CHOOSE name \in DOMAIN Defs(m) : name[1] = nid

HasRealImplementation(nid) == nid \in Implemented \ Forced

\* ResolveAny: a handler, or a stub that is made now and found from then on.
ResolveAny(nid) ==
    IF nid \in Implemented THEN <<"hle", nid>> ELSE IF strict THEN Null ELSE <<"stub", nid>>

\* Variant for the mutant runs: HLE answers before the modules do.
ResolveHleFirst(name) ==
    IF name = <<>> THEN ResolveAny("")
    ELSE IF HasRealImplementation(name[1]) THEN <<"hle", name[1]>>
    ELSE IF Exact(name) # <<>> THEN Address(Last(Exact(name)), name)
    ELSE ResolveAny(name[1])

\* resolve_external of LinkModule.
ResolveExternal(name) ==
    LET nid == name[1]
        first == Head(Base(nid)) IN
    IF name = <<>> THEN ResolveAny("")
    ELSE IF Exact(name) # <<>> THEN Address(Last(Exact(name)), name)
    ELSE IF Base(nid) # <<>> /\ (nid \in OwnedData \/ ~ HasRealImplementation(nid))
         THEN Address(first, OfNid(first, nid))
    ELSE ResolveAny(nid)

\* The relocations of a module and then those of its PLT, which go by name also
\* for symbols the module defines.
Relocations(m) == image[m].rels \o image[m].plts

Resolved(m, i) ==
    LET r == Relocations(m)[i] IN
    IF i <= Len(image[m].rels) /\ r.sym \in DOMAIN Defs(m) THEN Address(m, r.sym) ELSE ResolveExternal(r.sym)

\* In strict mode linking ends at the first symbol nobody knows.
Fails(m, i) == strict /\ Resolved(m, i) = Null

Value(m, i) ==
    LET r == Relocations(m)[i] IN
    CASE r.type = "RELATIVE" -> At(base[m] + r.addend)
      [] r.type = "64" /\ Resolved(m, i)[1] = "at" -> At(Resolved(m, i)[2] + r.addend)
      [] OTHER -> Resolved(m, i)

\* Variant for the mutant runs: targets are addresses of the file.
TargetOfFile(m, i) == Hint + Relocations(m)[i].at

Target(m, i) == base[m] + Relocations(m)[i].at

\* RegisterLoadedModule, before the relocations: the first module there gives the
\* static block its template.  An image at absolute addresses is not registered.
RegisterLoadedModule(m) ==
    IF base[m] = 0 THEN UNCHANGED <<g_loaded_modules, static_tls>>
    ELSE /\ g_loaded_modules' = Append(g_loaded_modules, m)
         /\ static_tls' = IF g_loaded_modules = <<>> /\ image[m].tls # 0
                          THEN <<m, mem[base[m] + image[m].tls]>> ELSE static_tls

MayLink(m) ==
    /\ stage[m] = "mapped" /\ \A k \in Modules : stage[k] \in {"mapped", "ready", "failed"}
    /\ m = 1 => \A k \in Prxs : stage[k] # "mapped"

\* The PRX modules in the order of the graph, any here; a PRX that fails to link is
\* used as it is, without the main module the boot ends.
LinkModule(m) ==
    LET failing == { i \in 1 .. Len(Relocations(m)) : Fails(m, i) }
        applied == { i \in 1 .. Len(Relocations(m)) : \A j \in failing : i < j } IN
    /\ MayLink(m)
    /\ RegisterLoadedModule(m)
    /\ mem' = [w \in Words |-> IF \E i \in applied : Target(m, i) = w
                               THEN Value(m, CHOOSE i \in applied : Target(m, i) = w) ELSE mem[w]]
    /\ stage' = [stage EXCEPT ![m] = IF m = 1 /\ failing # {} THEN "failed" ELSE "linked"]
    /\ UNCHANGED <<image, order, strict, segment, base, reserved, rights, tls_blocks, told>>

\* Variant for the mutant runs: each segment gets its own rights.
MergedAlone(m, i) == FinalProtection(Segs(m)[i])

\* The union of the rights of all segments on its pages.
Merged(m, i) ==
    UNION { FinalProtection(Segs(m)[j]) : j \in { j \in 1 .. Len(Segs(m)) : PagesOf(m, j) \cap PagesOf(m, i) # {} } }

\* Protect is called once per segment: the last one on a page counts.
ProtectModule(m) ==
    LET on(p) == { i \in 1 .. Len(Segs(m)) : p \in PagesOf(m, i) } IN
    /\ stage[m] = "linked" /\ stage' = [stage EXCEPT ![m] = "ready"]
    /\ rights' = [p \in Pages |-> IF on(p) = {} THEN rights[p]
                                  ELSE Merged(m, CHOOSE i \in on(p) : \A j \in on(p) : j <= i)]
    /\ UNCHANGED <<image, order, strict, segment, base, reserved, mem, g_loaded_modules, static_tls, tls_blocks, told>>

-----------------------------------------------------------------------------
(* __tls_get_addr, once the guest runs. *)

\* Variant for the mutant runs: a block for all threads.
KeyOfModule(tid, index) == <<CHOOSE t \in Tids : TRUE, index>>

Key(tid, index) == <<tid, index>>

\* ResolveDynamicTls: TLS modules are numbered by their place in g_loaded_modules, and
\* index 1 is the block of the thread pointer.
ResolveDynamicTls(tid, index) ==
    /\ stage[1] = "ready" /\ told[tid][index] = <<>>
    /\ index \in 2 .. Len(g_loaded_modules) /\ image[g_loaded_modules[index]].tls # 0
    /\ LET m == g_loaded_modules[index]
           cached == { b \in tls_blocks : b.key = Key(tid, index) }
           new == [key |-> Key(tid, index), block |-> Cardinality(tls_blocks) + 1,
                   template |-> mem[base[m] + image[m].tls]]
           b == IF cached # {} THEN CHOOSE b \in cached : TRUE ELSE new IN
       /\ tls_blocks' = tls_blocks \cup {b}
       /\ told' = [told EXCEPT ![tid][index] = <<b.block, b.template>>]
    /\ UNCHANGED <<image, order, strict, stage, segment, base, reserved, mem, rights, g_loaded_modules, static_tls>>

-----------------------------------------------------------------------------
Blank ==
    /\ stage = [m \in Modules |-> "needed"] /\ segment = 1
    /\ base = [m \in Modules |-> 0] /\ reserved = [m \in Modules |-> <<>>]
    /\ mem = [w \in Words |-> None] /\ rights = [p \in Pages |-> {}]
    /\ g_loaded_modules = <<>> /\ static_tls = None
    /\ tls_blocks = {} /\ told = [t \in Tids |-> [i \in Modules |-> <<>>]]

Init ==
    /\ Blank
    /\ image \in { f \in [Modules -> MainImages \cup PrxImages] :
                     f[1] \in MainImages /\ \A m \in Prxs : f[m] \in PrxImages }
    /\ order \in SetToSeqs(Prxs)
    /\ strict \in BOOLEAN

Idle == Blank /\ image = [m \in Modules |-> 0] /\ order = <<>> /\ strict = FALSE

Next ==
    \/ \E m \in Modules : Reserve(m) \/ MapSegment(m) \/ ReadTables(m) \/ LinkModule(m) \/ ProtectModule(m)
    \/ \E tid \in Tids, index \in Modules : ResolveDynamicTls(tid, index)

Spec == Init /\ [][Next]_imageVars

-----------------------------------------------------------------------------
(* Properties. *)

Relocated(m) == { Target(m, i) : i \in 1 .. Len(Relocations(m)) }

\* Once mapped, an image is in memory as in its file: no segment, no page it shares
\* and no other module's load disturbs a word, and only relocations change one.
ImagesAreWhole ==
    \A m \in Modules : Mapped(m) => \A i \in 1 .. Len(Segs(m)) : \A w \in Start(m, i) .. End(m, i) - 1 :
        \/ w \in Relocated(m) /\ stage[m] # "mapped"
        \/ mem[w] = IF w < Start(m, i) + Segs(m)[i].filesz THEN FromFile(m, w - base[m]) ELSE Zero

\* A page of a module that is ready grants what any segment on it asks for, and
\* nothing no segment of the module asks for.
RightsCoverSegments ==
    \A m \in Modules : stage[m] = "ready" => \A i \in 1 .. Len(Segs(m)) : \A p \in PagesOf(m, i) :
        /\ FinalProtection(Segs(m)[i]) \subseteq rights[p]
        /\ rights[p] \subseteq UNION { FinalProtection(Segs(m)[j]) : j \in 1 .. Len(Segs(m)) }

Exports(m, nid) == { At(base[m] + Defs(m)[n]) : n \in { n \in DOMAIN Defs(m) : n[1] = nid } }

\* An import is bound to a definition where there is one: to a module's that has the
\* exact name, else to HLE's or to one of the same NID; a stub means that no mapped
\* module and no handler knows the NID.
ImportsAreBound ==
    ~ strict => \A m \in Modules : stage[m] \in {"linked", "ready"} => \A i \in 1 .. Len(Relocations(m)) :
        LET name == Relocations(m)[i].sym
            bound == mem[Target(m, i)]
            exact == { k \in Prxs : Mapped(k) /\ name \in DOMAIN Defs(k) }
            alike == UNION { Exports(k, name[1]) : k \in { k \in Prxs : Mapped(k) } } IN
        Relocations(m)[i].type \in {"GLOB_DAT", "JUMP_SLOT"} /\ name \notin DOMAIN Defs(m) =>
            /\ exact # {} => bound \in { At(base[k] + Defs(k)[name]) : k \in exact }
            /\ bound[1] = "stub" => alike = {} /\ name[1] \notin Implemented
            /\ bound[1] = "hle" /\ alike # {} => name[1] \notin OwnedData \cup Forced

\* Modules linked in one boot agree on what a name means.
ImportsAgree ==
    \A m, k \in { m \in Modules : stage[m] = "ready" } :
        \A i \in 1 .. Len(Relocations(m)), j \in 1 .. Len(Relocations(k)) :
            LET r == Relocations(m)[i]  s == Relocations(k)[j] IN
            ~ strict /\ r.sym = s.sym /\ {r.type, s.type} \subseteq {"GLOB_DAT", "JUMP_SLOT"}
            /\ r.sym \notin DOMAIN Defs(m) \cup DOMAIN Defs(k)
                => mem[Target(m, i)] = mem[Target(k, j)]

\* Each thread has a block of its own for each module, filled from the template as
\* it was relocated.
TlsBlocksAreOwn ==
    \A t, u \in Tids : \A i, j \in Modules :
        told[t][i] # <<>> =>
            /\ told[u][j] # <<>> /\ <<t, i>> # <<u, j>> => told[t][i][1] # told[u][j][1]
            /\ told[t][i][2] = mem[base[g_loaded_modules[i]] + image[g_loaded_modules[i]].tls]
=============================================================================
