---------------------------- MODULE ModuleLoader ----------------------------
(***************************************************************************)
(* Loading a program and the PRX modules it needs: LoadModule with         *)
(* LoadNeededPrxModules and LinkLoadedPrxModules, and the loop of          *)
(* Kernel::Execute over the initialisers (src/kernel/kernel.cpp), with     *)
(* ModuleGraph (src/loader/module_graph.cpp) and the resolver, which finds *)
(* a file under several names.  A file is loaded once and its node in the  *)
(* graph has the name under which it was asked for first.  Names are       *)
(* numbers, which keep their order; the program is 0.  Needs lists may     *)
(* come in any order, so the search may meet the modules in any order.     *)
(*                                                                         *)
(* At the end the registry of HLE symbols against which modules are linked *)
(* (src/hle/hle.cpp): handlers are registered by module and name, each     *)
(* gets an id and a thunk, and the linker and sceKernelDlsym turn names    *)
(* into thunks from guest threads.  A name may be asked for under another  *)
(* suffix of the same NID.  A name nobody registered gets a stub; the lock *)
(* is released between the search and the registration of the stub, and    *)
(* again before its thunk is looked up.  A thunk carries the id, by which  *)
(* HleDispatch finds the handler.                                          *)
(***************************************************************************)
EXTENDS Naturals, FiniteSets, SequencesExt

CONSTANTS Names,    \* names of modules in needs lists, ordered
          FileOf,   \* the file the resolver finds for each
          NeedsOf,  \* the needs that a file may have
          Late,     \* the file the guest loads itself, by sceKernelLoadStartModule; a number
          Resolvers,  \* threads that resolve
          Registrations, \* sequence of <<key, handler>>, a key being <<module, NID, suffix>>:
                      \* what the RegisterLib functions register, in their order
          Requests,   \* <<key, any>>: what is asked for, of Resolve or of ResolveAny
          Slots,      \* thunks the page has room for
          MaxSessions

Program == 0
Files == { FileOf[n] : n \in Names }

VARIABLES phase,      \* "map", "link", "init", "run"
          needs,      \* needed_libraries, by file
          graph_name, \* g_prx_modules, by file: the node's name, 0 if not loaded
          nodes,      \* g_module_graph: the needs of each node
          linked,     \* files linked
          prx_queue,  \* g_prx_init_queue, by file
          turn, last, \* the loop's place and the end of the queue it saw when it began
          initialized \* history: files whose initialisers ran, in order

loaderVars == <<phase, needs, graph_name, nodes, linked, prx_queue, turn, last, initialized>>

Loaded == { f \in DOMAIN graph_name : graph_name[f] # 0 }

-----------------------------------------------------------------------------
(* ModuleGraph::ResolveLoadOrder. *)

Least(S) == CHOOSE x \in S : \A y \in S : x <= y

\* The next node among those left: the least that waits for none of them, and on
\* a stall the least of all.
\* Variant for the mutant runs: the least of all.
NextNodeAnyway(left) == Least(left)

NextNode(left) ==
    LET ready == { n \in left : nodes[n] \cap left = {} } IN
    IF ready = {} THEN Least(left) ELSE Least(ready)

LoadOrder ==
    LET order[left \in SUBSET DOMAIN nodes] ==
            IF left = {} THEN <<>> ELSE <<NextNode(left)>> \o order[left \ {NextNode(left)}]
    IN order[DOMAIN nodes]

-----------------------------------------------------------------------------
(* Steps. *)

\* AddModule: a module's own name is dropped from its needs.
AddModule(n, needed) == nodes' = [m \in DOMAIN nodes \cup {n} |-> IF m = n THEN needed \ {n} ELSE nodes[m]]

\* Names that a loaded module needs and whose file is not loaded.
Wanted == { n \in Names : graph_name[FileOf[n]] = 0 /\ \E m \in DOMAIN nodes : n \in nodes[m] }

\* LoadNeededPrxModules, one library.
MapPrx(n) ==
    /\ phase \in {"map", "latemap"} /\ n \in Wanted
    /\ graph_name' = [graph_name EXCEPT ![FileOf[n]] = n]
    /\ AddModule(n, needs[FileOf[n]])
    /\ UNCHANGED <<phase, needs, linked, prx_queue, turn, last, initialized>>

\* Variant for the mutant runs: the linked flag is not looked at.
ToLinkAgain == Loaded

ToLink == Loaded \ linked

\* LinkLoadedPrxModules: link and queue in the order of the graph what is not yet linked.
LinkLoadedPrxModules ==
    /\ phase \in {"map", "latemap"} /\ Wanted = {}
    /\ LET names == SelectSeq(LoadOrder, LAMBDA n : \E f \in ToLink : graph_name[f] = n) IN
       prx_queue' = prx_queue \o [i \in DOMAIN names |-> FileOf[names[i]]]
    /\ linked' = Loaded
    /\ IF phase = "map" THEN phase' = "init" /\ last' = Len(prx_queue') ELSE phase' = "run" /\ UNCHANGED last
    /\ UNCHANGED <<needs, graph_name, nodes, turn, initialized>>

\* A turn of the loop: the initialisers of one module.
RunInitializers ==
    /\ phase = "init" /\ turn < last
    /\ turn' = turn + 1
    /\ initialized' = Append(initialized, prx_queue[turn + 1])
    /\ UNCHANGED <<phase, needs, graph_name, nodes, linked, prx_queue, last>>

EnterProgram ==
    /\ phase = "init" /\ turn = last
    /\ phase' = "run"
    /\ UNCHANGED <<needs, graph_name, nodes, linked, prx_queue, turn, last, initialized>>

\* sceKernelLoadStartModule while the program runs: the module is loaded and
\* linked, and so is what it needs, which goes to a queue nobody reads again.
LoadStartModule(needed) ==
    /\ phase = "run" /\ Late \notin DOMAIN nodes
    /\ phase' = "latemap"
    /\ AddModule(Late, needed)
    /\ UNCHANGED <<needs, graph_name, linked, prx_queue, turn, last, initialized>>

Start ==
    /\ phase = "map" /\ graph_name = [f \in Files |-> 0]
    /\ linked = {} /\ prx_queue = <<>> /\ turn = 0 /\ last = 0 /\ initialized = <<>>

Init ==
    /\ Start
    /\ needs \in { f \in [Files -> SUBSET Names] : \A x \in Files : f[x] \in NeedsOf[x] }
    /\ nodes \in [{Program} -> SUBSET Names]

\* A program that needs nothing.
Idle == Start /\ needs = [f \in Files |-> {}] /\ nodes = [f \in {Program} |-> {}]

Next ==
    \/ \E n \in Names : MapPrx(n)
    \/ LinkLoadedPrxModules \/ RunInitializers \/ EnterProgram
    \/ \E n \in Names : LoadStartModule({n})

Spec == Init /\ [][Next]_loaderVars

-----------------------------------------------------------------------------
(* The registry of HLE symbols. *)

VARIABLES up,        \* how many of the Registrations are made; all: resolvers may call
          registry,  \* g_symbol_registry: key -> [id, thunk, handler]
          g_id_index, \* id -> [key, handler]
          g_thunk_page_offset,
          resolving, \* the call of each resolver
          handed,    \* history: <<request, thunk, any>> answered in this session
          session

hleVars == <<up, registry, g_id_index, g_thunk_page_offset, resolving, handed, session>>

Keys == DOMAIN registry
NoCall == [at |-> "idle", key |-> <<>>, any |-> FALSE]
NoFunction == [k \in {} |-> 0]
ThunkOf(k) == registry[k].thunk
Ready == up = Len(Registrations)
KeyOfThunk(t) == CHOOSE k \in Keys : registry[k].thunk = t

\* Variant for the mutant runs: a key that exists gets an id and a thunk again.
RegisterAnew(k, handler) ==
    LET id == Cardinality(Keys) + 1 IN
    IF g_thunk_page_offset = Slots THEN UNCHANGED <<registry, g_id_index, g_thunk_page_offset>>
    ELSE /\ g_thunk_page_offset' = g_thunk_page_offset + 1
         /\ registry' = [x \in Keys \cup {k} |-> IF x = k THEN [id |-> id, thunk |-> g_thunk_page_offset + 1,
                                                                 handler |-> handler] ELSE registry[x]]
         /\ g_id_index' = [i \in DOMAIN g_id_index \cup {id} |->
                              IF i = id THEN [key |-> k, handler |-> handler] ELSE g_id_index[i]]

\* RegisterSymbol: last registration wins, and keeps the id and the thunk.
RegisterSymbol(k, handler) ==
    LET id == IF k \in Keys THEN registry[k].id ELSE Cardinality(Keys) + 1
        thunk == IF k \in Keys THEN registry[k].thunk ELSE g_thunk_page_offset + 1 IN
    IF k \notin Keys /\ g_thunk_page_offset = Slots
    THEN UNCHANGED <<registry, g_id_index, g_thunk_page_offset>>
    ELSE /\ g_thunk_page_offset' = IF k \in Keys THEN g_thunk_page_offset ELSE thunk
         /\ registry' = [x \in Keys \cup {k} |->
                            IF x = k THEN [id |-> id, thunk |-> thunk, handler |-> handler] ELSE registry[x]]
         /\ g_id_index' = [i \in DOMAIN g_id_index \cup {id} |->
                              IF i = id THEN [key |-> k, handler |-> handler] ELSE g_id_index[i]]

-----------------------------------------------------------------------------
\* Initialize: one RegisterLib function after the other, legacy handlers first.
Initialize ==
    /\ up < Len(Registrations)
    /\ RegisterSymbol(Registrations[up + 1][1], Registrations[up + 1][2])
    /\ up' = up + 1
    /\ UNCHANGED <<resolving, handed, session>>

\* Variant for the mutant runs: the suffix has to agree, too.
MatchesExactly(k, any) == { x \in Keys : x[2] = k[2] /\ x[3] = k[3] /\ (any \/ x[1] = k[1]) }

\* The keys with the same NID: of the module (Resolve) or of any (ResolveAny).
Matches(k, any) == { x \in Keys : x[2] = k[2] /\ (any \/ x[1] = k[1]) }

\* The exact name comes before other suffixes.
Found(k, any) ==
    LET exact == { x \in Matches(k, any) : x[3] = k[3] } IN
    IF exact # {} THEN exact ELSE Matches(k, any)

Answer(r, thunk) ==
    /\ handed' = handed \cup {<<resolving[r].key, thunk, resolving[r].any>>}
    /\ resolving' = [resolving EXCEPT ![r] = NoCall]

Resolve(r, k, any) ==
    /\ Ready /\ resolving[r] = NoCall
    /\ IF Found(k, any) # {}
       THEN /\ \E x \in Found(k, any) : handed' = handed \cup {<<k, ThunkOf(x), any>>}
            /\ UNCHANGED resolving
       ELSE /\ resolving' = [resolving EXCEPT ![r] = [at |-> "stub", any |-> any,
                                 key |-> IF any THEN <<"unknown", k[2], k[3]>> ELSE k]]
            /\ UNCHANGED handed
    /\ UNCHANGED <<up, registry, g_id_index, g_thunk_page_offset, session>>

RegisterStub(r) ==
    /\ resolving[r].at = "stub" /\ Ready
    /\ RegisterSymbol(resolving[r].key, "stub")
    /\ resolving' = [resolving EXCEPT ![r].at = "lookup"]
    /\ UNCHANGED <<up, handed, session>>

\* The page may have been full.
LookupStub(r) ==
    /\ resolving[r].at = "lookup" /\ Ready
    /\ IF resolving[r].key \in Keys THEN Answer(r, ThunkOf(resolving[r].key))
       ELSE resolving' = [resolving EXCEPT ![r] = NoCall] /\ UNCHANGED handed
    /\ UNCHANGED <<up, registry, g_id_index, g_thunk_page_offset, session>>

\* Shutdown, when no resolver is under way, and the next Initialize.
ShutdownAndInitialize ==
    /\ Ready /\ session < MaxSessions /\ \A r \in Resolvers : resolving[r] = NoCall
    /\ up' = 0 /\ session' = session + 1
    /\ registry' = NoFunction /\ g_id_index' = NoFunction /\ g_thunk_page_offset' = 0 /\ handed' = {}
    /\ UNCHANGED resolving

-----------------------------------------------------------------------------
RegistryInit ==
    /\ up = 0 /\ registry = NoFunction /\ g_id_index = NoFunction /\ g_thunk_page_offset = 0
    /\ resolving = [r \in Resolvers |-> NoCall] /\ handed = {} /\ session = 1

RegistryNext ==
    \/ Initialize \/ ShutdownAndInitialize
    \/ \E r \in Resolvers : \/ RegisterStub(r) \/ LookupStub(r)
                            \/ \E q \in Requests : Resolve(r, q[1], q[2])

-----------------------------------------------------------------------------
(* Properties. *)

\* The nodes that m needs, and those they need, and so on.
NeededBy(m) ==
    LET reach[k \in 0 .. Cardinality(DOMAIN nodes)] ==
            IF k = 0 THEN nodes[m] \cap DOMAIN nodes
            ELSE reach[k - 1] \cup UNION { nodes[x] \cap DOMAIN nodes : x \in reach[k - 1] }
    IN reach[Cardinality(DOMAIN nodes)]

OnCycle(m) == m \in NeededBy(m)
Place(f) == CHOOSE i \in DOMAIN prx_queue : prx_queue[i] = f

\* Every module is linked, queued and initialised once, however many names and
\* needs lists lead to it and however many loads there are, and all that came
\* with the program are initialised before it starts.
InitializedOnce ==
    /\ IsInjective(prx_queue) /\ ToSet(prx_queue) = linked
    /\ IsPrefix(initialized, prx_queue)
    /\ phase \in {"run", "latemap"} => Len(initialized) = last /\ ToSet(initialized) \subseteq linked

\* A module is initialised after the modules it needs, by the names under which
\* they were loaded, unless it needs, itself or at some remove, a cycle.
NeedsComeFirst ==
    \A f, g \in ToSet(prx_queue) :
        /\ graph_name[g] \in nodes[graph_name[f]]
        /\ ~OnCycle(graph_name[f]) /\ \A x \in NeededBy(graph_name[f]) : ~OnCycle(x)
        => Place(g) < Place(f)

\* Every thunk that was handed out still dispatches to the handler registered last
\* under the name it stands for, which has the NID asked for; one that Resolve
\* handed out is a stub only if the module has no implementation of the NID
\* (ResolveAny may meet the stub of another module first).
ThunksKeepTheirSymbol ==
    \A h \in handed :
        LET k == KeyOfThunk(h[2]) IN
        /\ Cardinality({ x \in Keys : registry[x].thunk = h[2] }) = 1
        /\ k[2] = h[1][2]
        /\ g_id_index[registry[k].id] = [key |-> k, handler |-> registry[k].handler]
        /\ registry[k].handler = "stub" /\ ~h[3] => ~\E x \in Keys : /\ x[1] = h[1][1] /\ x[2] = h[1][2]
                                                            /\ registry[x].handler # "stub"
=============================================================================
