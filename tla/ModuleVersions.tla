--------------------------- MODULE ModuleVersions ---------------------------
(***************************************************************************)
(* Which WASM module an instance runs.  An engine is built from one        *)
(* module, which it puts in the store's registry; an instance whose        *)
(* metadata names another is run with that one, looked up in the engine's  *)
(* compiledCache and, under cacheMu, compiled from the registry.  The      *)
(* `checkpoint` host function then writes the metadata.                    *)
(*                                                                         *)
(* Sessions are calls of ExecuteWithArgs (RunBPMN looks its module up in   *)
(* the same way), each on some engine for some instance.  A module is      *)
(* identified with its hash.  A checkpoint is one step here: Checkpointing *)
(* is about its parts.                                                     *)
(***************************************************************************)
EXTENDS SnapshotStore

CONSTANTS
    Engines,     \* host processes, one Engine each
    Hashes,      \* WASM modules
    Built,       \* the module each engine is built from
    Instances,   \* workflow instances
    Sessions,    \* calls of ExecuteWithArgs
    None,        \* no module, no engine, no instance, nobody
    MaxVersion   \* bound: checkpoints of one instance

ASSUME BuiltAssumption == Built \in [Engines -> Hashes]
ASSUME NoneAssumption ==
    None \notin Hashes \cup Engines \cup Instances \cup Sessions
ASSUME BoundsAssumption == MaxVersion \in Nat

VARIABLES
    \* The store.
    registry,   \* modules SaveWasm has stored
    version,    \* InstanceMeta.Version of each instance, 0 for no record
    hash,       \* InstanceMeta.WasmHash
    \* The engines.
    up,         \* the engines that are running
    cache,      \* compiledCache: the modules an engine has compiled
    owner,      \* who holds an engine's cacheMu for writing
    \* The sessions.
    pc,         \* where it stands
    at,         \* its engine
    of,         \* its instance
    ver,        \* Version and
    module,     \* WasmHash of the metadata it loaded: the module it is to run
    \* History, read by the properties only.
    writer,     \* per instance: the module whose memory is stored
    compiles    \* how often a running engine has compiled a module

storeVars   == <<registry, version, hash, writer>>
engineVars  == <<up, cache, owner, compiles>>
sessionVars == <<pc, at, of, ver, module>>
vars == <<registry, version, hash, up, cache, owner, pc, at, of, ver, module,
          writer, compiles>>

\* Looking for the module.
Lookup == {"lookup", "load", "lock", "compile"}
PC == {"idle", "instantiate", "guest"} \cup Lookup

Init ==
    /\ registry = {}
    /\ version = [i \in Instances |-> 0]
    /\ hash = [i \in Instances |-> None]
    /\ up = {}
    /\ cache = [e \in Engines |-> {}]
    /\ owner = [e \in Engines |-> None]
    /\ pc = [s \in Sessions |-> "idle"]
    /\ at = [s \in Sessions |-> None]
    /\ of = [s \in Sessions |-> None]
    /\ ver = [s \in Sessions |-> 0]
    /\ module = [s \in Sessions |-> None]
    /\ writer = [i \in Instances |-> None]
    /\ compiles = [e \in Engines |-> [h \in Hashes |-> 0]]

GoTo(s, where) == pc' = [pc EXCEPT ![s] = where]

\* The sessions in S return to their callers.
Return(S) ==
    /\ pc' = [s \in Sessions |-> IF s \in S THEN "idle" ELSE pc[s]]
    /\ at' = [s \in Sessions |-> IF s \in S THEN None ELSE at[s]]
    /\ of' = [s \in Sessions |-> IF s \in S THEN None ELSE of[s]]
    /\ ver' = [s \in Sessions |-> IF s \in S THEN 0 ELSE ver[s]]
    /\ module' = [s \in Sessions |-> IF s \in S THEN None ELSE module[s]]

(***************************************************************************)
(* Engines.                                                                *)
(***************************************************************************)

\* Mutant of NewEngine: the module is not put in the registry.
NewEngineUnregistered(e) ==
    /\ e \notin up
    /\ up' = up \cup {e}
    /\ cache' = [cache EXCEPT ![e] = {Built[e]}]
    /\ compiles' = [compiles EXCEPT ![e][Built[e]] = 1]
    /\ UNCHANGED <<storeVars, owner, sessionVars>>

\* SaveWasm, then the module is compiled and becomes the cache's first entry.
NewEngine(e) ==
    /\ e \notin up
    /\ registry' = registry \cup {Built[e]}
    /\ up' = up \cup {e}
    /\ cache' = [cache EXCEPT ![e] = {Built[e]}]
    /\ compiles' = [compiles EXCEPT ![e][Built[e]] = 1]
    /\ UNCHANGED <<version, hash, writer, owner, sessionVars>>

\* The module cannot be compiled, or a host module not be instantiated: there
\* is no engine, but the module is in the registry.
NewEngineFails(e) ==
    /\ e \notin up
    /\ registry' = registry \cup {Built[e]}
    /\ UNCHANGED <<version, hash, writer, engineVars, sessionVars>>

\* The process dies with its sessions.
Crash(e) ==
    /\ e \in up
    /\ up' = up \ {e}
    /\ cache' = [cache EXCEPT ![e] = {}]
    /\ owner' = [owner EXCEPT ![e] = None]
    /\ compiles' = [compiles EXCEPT ![e] = [h \in Hashes |-> 0]]
    /\ Return({s \in Sessions : at[s] = e})
    /\ UNCHANGED storeVars

(***************************************************************************)
(* The module of a session.                                                *)
(***************************************************************************)

\* Mutant of Begin: the engine's module is run whatever the metadata name.
BeginOwnModule(s, e, i) ==
    /\ pc[s] = "idle" /\ e \in up
    /\ at' = [at EXCEPT ![s] = e]
    /\ of' = [of EXCEPT ![s] = i]
    /\ ver' = [ver EXCEPT ![s] = version[i]]
    /\ module' = [module EXCEPT ![s] = Built[e]]
    /\ GoTo(s, "instantiate")
    /\ UNCHANGED <<storeVars, engineVars>>

\* LoadMetadata.  Without a record, or with the engine's own module in it, the
\* engine's module is run.
Begin(s, e, i) ==
    /\ pc[s] = "idle" /\ e \in up
    /\ at' = [at EXCEPT ![s] = e]
    /\ of' = [of EXCEPT ![s] = i]
    /\ ver' = [ver EXCEPT ![s] = version[i]]
    /\ LET wanted == IF version[i] = 0 THEN Built[e] ELSE hash[i] IN
         /\ module' = [module EXCEPT ![s] = wanted]
         /\ GoTo(s, IF wanted = Built[e] THEN "instantiate" ELSE "lookup")
    /\ UNCHANGED <<storeVars, engineVars>>

\* A look into compiledCache under cacheMu.RLock.
LookUp(s) ==
    /\ pc[s] = "lookup"
    /\ owner[at[s]] = None
    /\ GoTo(s, IF module[s] \in cache[at[s]] THEN "instantiate" ELSE "load")
    /\ UNCHANGED <<storeVars, engineVars, at, of, ver, module>>

LoadWasm(s) ==
    /\ pc[s] = "load"
    /\ module[s] \in registry
    /\ GoTo(s, "lock")
    /\ UNCHANGED <<storeVars, engineVars, at, of, ver, module>>

\* The registry does not have the module (or cannot be read):
\* ErrWasmVersionMismatch.
LoadWasmFails(s) ==
    /\ pc[s] = "load"
    /\ Return({s})
    /\ UNCHANGED <<storeVars, engineVars>>

\* Mutant of Lock: no second look into the cache.
LockUnchecked(s) ==
    /\ pc[s] = "lock"
    /\ owner[at[s]] = None
    /\ owner' = [owner EXCEPT ![at[s]] = s]
    /\ GoTo(s, "compile")
    /\ UNCHANGED <<storeVars, up, cache, compiles, at, of, ver, module>>

\* cacheMu.Lock and a second look into the cache, which ends the lookup when
\* another session has compiled the module meanwhile.
Lock(s) ==
    /\ pc[s] = "lock"
    /\ owner[at[s]] = None
    /\ IF module[s] \in cache[at[s]]
         THEN GoTo(s, "instantiate") /\ UNCHANGED owner
         ELSE /\ owner' = [owner EXCEPT ![at[s]] = s]
              /\ GoTo(s, "compile")
    /\ UNCHANGED <<storeVars, up, cache, compiles, at, of, ver, module>>

\* CompileModule, under the lock.
Compile(s) ==
    /\ pc[s] = "compile"
    /\ cache' = [cache EXCEPT ![at[s]] = @ \cup {module[s]}]
    /\ compiles' = [compiles EXCEPT ![at[s]][module[s]] = @ + 1]
    /\ owner' = [owner EXCEPT ![at[s]] = None]
    /\ GoTo(s, "instantiate")
    /\ UNCHANGED <<storeVars, up, at, of, ver, module>>

\* Mutant of CompileFails: the return forgets the lock.
CompileFailsLocked(s) ==
    /\ pc[s] = "compile"
    /\ Return({s})
    /\ UNCHANGED <<storeVars, engineVars>>

CompileFails(s) ==
    /\ pc[s] = "compile"
    /\ owner' = [owner EXCEPT ![at[s]] = None]
    /\ Return({s})
    /\ UNCHANGED <<storeVars, up, cache, compiles>>

(***************************************************************************)
(* Execution.                                                              *)
(***************************************************************************)

\* A guest of the instance on the same engine has its module's name.
NameTaken(s) ==
    \E t \in Sessions : pc[t] = "guest" /\ at[t] = at[s] /\ of[t] = of[s]

\* InstantiateModule and the restore; a name that is taken is an error.
Instantiate(s) ==
    /\ pc[s] = "instantiate"
    /\ IF NameTaken(s)
         THEN Return({s})
         ELSE GoTo(s, "guest") /\ UNCHANGED <<at, of, ver, module>>
    /\ UNCHANGED <<storeVars, engineVars>>

\* `checkpoint`: WasmHash becomes the engine's own, whatever module runs.
Checkpoint(s) ==
    /\ pc[s] = "guest"
    /\ ver[s] < MaxVersion
    /\ SaveMetadataAccepts(version[of[s]], ver[s])
    /\ version' = [version EXCEPT ![of[s]] = NextVersion(ver[s])]
    /\ hash' = [hash EXCEPT ![of[s]] = Built[at[s]]]
    /\ writer' = [writer EXCEPT ![of[s]] = module[s]]
    /\ ver' = [ver EXCEPT ![s] = NextVersion(@)]
    /\ UNCHANGED <<registry, engineVars, pc, at, of, module>>

\* The guest returns, fails, or is refused its checkpoint.
End(s) ==
    /\ pc[s] = "guest"
    /\ Return({s})
    /\ UNCHANGED <<storeVars, engineVars>>

\* What a session does of its own.
Step(s) ==
    \/ LookUp(s)
    \/ LoadWasm(s)
    \/ LoadWasmFails(s)
    \/ Lock(s)
    \/ Compile(s)
    \/ CompileFails(s)
    \/ Instantiate(s)
    \/ Checkpoint(s)
    \/ End(s)

Next ==
    \/ \E e \in Engines : NewEngine(e) \/ NewEngineFails(e) \/ Crash(e)
    \/ \E s \in Sessions, e \in Engines, i \in Instances : Begin(s, e, i)
    \/ \E s \in Sessions : Step(s)

Spec == Init /\ [][Next]_vars

\* A session goes on while its process lives, and a waiting one gets the lock
\* when it is free again and again, as sync.RWMutex sees to.
FairSpec ==
    Spec /\ \A s \in Sessions : WF_vars(Step(s)) /\ SF_vars(LookUp(s) \/ Lock(s))

(***************************************************************************)
(* Properties.                                                             *)
(***************************************************************************)

\* Every variable has its type.
TypeOK ==
    /\ registry \subseteq Hashes
    /\ version \in [Instances -> 0 .. MaxVersion]
    /\ hash \in [Instances -> Hashes \cup {None}]
    /\ up \subseteq Engines
    /\ cache \in [Engines -> SUBSET Hashes]
    /\ owner \in [Engines -> Sessions \cup {None}]
    /\ pc \in [Sessions -> PC]
    /\ at \in [Sessions -> Engines \cup {None}]
    /\ of \in [Sessions -> Instances \cup {None}]
    /\ ver \in [Sessions -> 0 .. MaxVersion]
    /\ module \in [Sessions -> Hashes \cup {None}]
    /\ writer \in [Instances -> Hashes \cup {None}]
    /\ compiles \in [Engines -> [Hashes -> Nat]]

\* Whatever engines come, go and share an instance, the registry has the module
\* its metadata names and the module its memory is of: no execution fails for
\* want of a module.
RegistryIsComplete ==
    \A i \in Instances : version[i] > 0 => {hash[i], writer[i]} \subseteq registry

\* A running engine compiles a module at most once, however many sessions miss
\* it in the cache at the same time (a compiled module is never released).
CompiledOnce == \A e \in Engines, h \in Hashes : compiles[e][h] <= 1

\* Every search for a module ends, in an execution or an error: no return
\* leaves cacheMu locked.
LookupEnds == \A s \in Sessions : pc[s] \in Lookup ~> pc[s] \notin Lookup

\* A guest whose next checkpoint the store would accept runs the module that
\* wrote the memory it has restored, if its metadata name that module: neither
\* the cache nor a lookup that other sessions' checkpoints have overtaken gives
\* it another.  (Once an engine has checkpointed a session of another module
\* than its own, the metadata name the wrong one.)
RunsItsModule ==
    \A s \in Sessions :
        /\ pc[s] = "guest" /\ ver[s] > 0 /\ ver[s] = version[of[s]]
        /\ hash[of[s]] = writer[of[s]]
        => module[s] = writer[of[s]]

=============================================================================
