-------------------------- MODULE OverlappingCalls --------------------------
(***************************************************************************)
(* Calls for one instance that overlap on one engine: ExecuteWithArgs,     *)
(* RunBPMN without keep-alive, and CloseInstance, each in a goroutine of   *)
(* its own.  They share activeSessions, the runtime's table of module      *)
(* names and, through these, Session and module objects.                   *)
(*                                                                         *)
(* As in WarmSessions linear memory is abstracted to the checkpoint it     *)
(* descends from, 0 for none; saving it is one step after the              *)
(* compare-and-swap, and reading snapshot and deltas is one step.  An      *)
(* object is identified with the call that creates it.                     *)
(***************************************************************************)
EXTENDS SnapshotStore

CONSTANTS
    Calls,       \* the calls that are made
    Kinds,       \* what they may call: "execute", "bpmn", "close"
    None,        \* no call, no object
    MaxVersion   \* bound: checkpoints taken

ASSUME KindsAssumption == Kinds \subseteq {"execute", "bpmn", "close"}
ASSUME NoneAssumption == None \notin Calls
ASSUME BoundsAssumption == MaxVersion \in Nat

VARIABLES
    \* The store.
    version,   \* InstanceMeta.Version, 0 when there is no record
    image,     \* the checkpoint the stored memory is of, 0 for none
    \* The engine.
    active,    \* the session in activeSessions
    name,      \* the open module that is called main-<id>
    meta,      \* per session: meta.Version
    memory,    \* per module: the checkpoint its memory descends from
    \* The calls.
    kind,      \* what is called
    pc,        \* where it stands: "new", "bind", "look", "instantiate",
               \* "restore", "invoke", "guest", "save", "close" or "done"
    loaded,    \* the Version it loaded
    session,   \* its Session
    module,    \* its api.Module
    taken,     \* the Version its last compare-and-swap has stored
    \* History, read by the properties only.
    astray     \* whether its memory was left to miss what the store has

storeVars  == <<version, image>>
engineVars == <<active, name, meta, memory>>
callVars   == <<loaded, session, module, taken>>
vars       == <<version, image, active, name, meta, memory, kind, pc, loaded,
                session, module, taken, astray>>

Init ==
    /\ version = 0 /\ image = 0
    /\ active = None /\ name = None
    /\ meta = [c \in Calls |-> 0]
    /\ memory = [c \in Calls |-> 0]
    /\ kind \in [Calls -> Kinds]
    /\ pc = [c \in Calls |-> "new"]
    /\ loaded = [c \in Calls |-> 0]
    /\ session = [c \in Calls |-> None]
    /\ module = [c \in Calls |-> None]
    /\ taken = [c \in Calls |-> 0]
    /\ astray = [c \in Calls |-> FALSE]

GoTo(c, where) == pc' = [pc EXCEPT ![c] = where]

\* Close of a module gives its name free, if it still has it.
CloseModule(m) == name' = IF name = m THEN None ELSE name

\* ExecuteWithArgs and RunBPMN load the metadata.
Begin(c) ==
    /\ pc[c] = "new" /\ kind[c] # "close"
    /\ loaded' = [loaded EXCEPT ![c] = version]
    /\ GoTo(c, "bind")
    /\ UNCHANGED <<storeVars, engineVars, kind, session, module, taken, astray>>

\* The call gets a Session: RunBPMN the active one, with the metadata just
\* loaded put into it, or a new one that becomes active; ExecuteWithArgs one of
\* its own.  Only RunBPMN asks the runtime for a module of the instance's name.
Bind(c) ==
    LET s == IF kind[c] = "bpmn" /\ active # None THEN active ELSE c IN
    /\ pc[c] = "bind"
    /\ session' = [session EXCEPT ![c] = s]
    /\ meta' = [meta EXCEPT ![s] = loaded[c]]
    /\ active' = IF kind[c] = "bpmn" THEN s ELSE active
    /\ GoTo(c, IF kind[c] = "bpmn" THEN "look" ELSE "instantiate")
    /\ UNCHANGED <<storeVars, name, memory, kind, loaded, module, taken, astray>>

\* A module that is found is used as it is.
Look(c) ==
    /\ pc[c] = "look"
    /\ module' = [module EXCEPT ![c] = name]
    /\ GoTo(c, IF name = None THEN "instantiate" ELSE "invoke")
    /\ UNCHANGED <<storeVars, engineVars, kind, loaded, session, taken, astray>>

\* InstantiateModule and _start.
Instantiate(c) ==
    /\ pc[c] = "instantiate"
    /\ name = None
    /\ name' = c
    /\ memory' = [memory EXCEPT ![c] = 0]
    /\ module' = [module EXCEPT ![c] = c]
    /\ GoTo(c, "restore")
    /\ UNCHANGED <<storeVars, active, meta, kind, loaded, session, taken, astray>>

\* Mutant of InstantiateFails: the session stays active.
InstantiateFailsKeepsSession(c) ==
    /\ pc[c] = "instantiate"
    /\ GoTo(c, "done")
    /\ UNCHANGED <<storeVars, engineVars, kind, callVars, astray>>

\* The name is taken, or the module or its _start fails: an error.  RunBPMN
\* deletes the active session, whosever it is.
InstantiateFails(c) ==
    /\ pc[c] = "instantiate"
    /\ GoTo(c, "done")
    /\ active' = IF kind[c] = "bpmn" THEN None ELSE active
    /\ UNCHANGED <<storeVars, name, meta, memory, kind, callVars, astray>>

\* Another call is between its compare-and-swap and its save.
SaveUnderWay(c) == \E d \in Calls \ {c} : pc[d] = "save"

\* Mutant of Restore: the memory is left as _start has made it.
RestoreSkipped(c) ==
    /\ pc[c] = "restore"
    /\ GoTo(c, "invoke")
    /\ UNCHANGED <<storeVars, engineVars, kind, callVars, astray>>

\* Snapshot and deltas are copied onto the memory of the new module.
Restore(c) ==
    /\ pc[c] = "restore"
    /\ memory' = [memory EXCEPT ![module[c]] = image]
    /\ astray' = [astray EXCEPT ![c] = SaveUnderWay(c)]
    /\ GoTo(c, "invoke")
    /\ UNCHANGED <<storeVars, active, name, meta, kind, callVars>>

\* Load or LoadDeltas fails, which is taken for nothing being stored.
RestoreMisses(c) ==
    /\ pc[c] = "restore"
    /\ astray' = [astray EXCEPT ![c] = TRUE]
    /\ GoTo(c, "invoke")
    /\ UNCHANGED <<storeVars, engineVars, kind, callVars>>

\* The entrypoint is called.  RunBPMN asks the guest for its exchange buffer
\* first, which fails if somebody has closed the module; ExecuteWithArgs does
\* not notice.
Invoke(c) ==
    /\ pc[c] = "invoke"
    /\ kind[c] = "bpmn" => module[c] = name
    /\ GoTo(c, "guest")
    /\ UNCHANGED <<storeVars, engineVars, kind, callVars, astray>>

\* The compare-and-swap of a checkpoint, with the meta of the session in the
\* guest's context.
CompareAndSwap(c) ==
    LET s == session[c] IN
    /\ pc[c] = "guest"
    /\ meta[s] < MaxVersion
    /\ SaveMetadataAccepts(version, meta[s])
    /\ version' = NextVersion(meta[s])
    /\ meta' = [meta EXCEPT ![s] = version']
    /\ taken' = [taken EXCEPT ![c] = version']
    /\ GoTo(c, "save")
    /\ UNCHANGED <<image, active, name, memory, kind, loaded, session, module,
                   astray>>

\* Save or SaveDeltas, late if others have taken checkpoints since.
SaveMemory(c) ==
    /\ pc[c] = "save"
    /\ image' = taken[c]
    /\ memory' = [memory EXCEPT ![module[c]] = taken[c]]
    /\ astray' = [d \in Calls |-> d # c /\ (astray[d] \/ taken[c] # version)]
    /\ GoTo(c, "guest")
    /\ UNCHANGED <<version, active, name, meta, kind, callVars>>

\* The call returns, from the guest or with an error on the way: the module is
\* closed, and RunBPMN deletes the active session.  (A guest whose module was
\* closed by somebody else may run on.)
Return(c) ==
    /\ pc[c] \in {"restore", "invoke", "guest", "save"}
    /\ CloseModule(module[c])
    /\ active' = IF kind[c] = "bpmn" THEN None ELSE active
    /\ GoTo(c, "done")
    /\ UNCHANGED <<storeVars, meta, memory, kind, callVars, astray>>

\* CloseInstance deletes the active session, and then closes the module that
\* has the name.
CloseInstance(c) ==
    /\ kind[c] = "close"
    /\ \/ /\ pc[c] = "new"
          /\ active' = None
          /\ GoTo(c, "close")
          /\ UNCHANGED name
       \/ /\ pc[c] = "close"
          /\ CloseModule(name)
          /\ GoTo(c, "done")
          /\ UNCHANGED active
    /\ UNCHANGED <<storeVars, meta, memory, kind, callVars, astray>>

Step(c) ==
    \/ Begin(c)
    \/ Bind(c)
    \/ Look(c)
    \/ Instantiate(c)
    \/ InstantiateFails(c)
    \/ Restore(c)
    \/ RestoreMisses(c)
    \/ Invoke(c)
    \/ CompareAndSwap(c)
    \/ SaveMemory(c)
    \/ Return(c)
    \/ CloseInstance(c)

Next == \E c \in Calls : Step(c)

Spec == Init /\ [][Next]_vars

(***************************************************************************)
(* Properties.                                                             *)
(***************************************************************************)

\* When every call has returned, in whatever order they took and dropped each
\* other's session and module, the engine holds neither for the instance: the
\* next call starts from the store, and nothing leaks.
NothingLeft ==
    (\A c \in Calls : pc[c] \in {"new", "done"}) => active = None /\ name = None

\* The call uses the session and the module it has made, and nobody else uses
\* the session.
Unshared(c) ==
    /\ session[c] = c /\ module[c] = c
    /\ \A d \in Calls \ {c} : session[d] # c

\* A guest whose next checkpoint the store would accept runs on memory that
\* descends from the last checkpoint saved, though others close its module,
\* run in it, free its name for a further call or overtake its checkpoints,
\* unless it shares its session or found its module, could not load what was
\* stored, or restored between another's compare-and-swap and save.
\* ExecuteWithArgs shares nothing.
RunsOnLatest ==
    \A c \in Calls :
        /\ pc[c] = "guest"
        /\ kind[c] = "execute" \/ Unshared(c)
        /\ meta[session[c]] = version /\ ~astray[c]
        => memory[module[c]] = image

=============================================================================
