---------------------------- MODULE WarmSessions ----------------------------
(***************************************************************************)
(* Engine.RunBPMN on one process instance: sessions and module instances   *)
(* that outlive a call when the caller asks for it (WithKeepAlive), and    *)
(* CloseInstance.                                                          *)
(*                                                                         *)
(* Linear memory is abstracted to the checkpoint it descends from, a       *)
(* version number, 0 for memory that is of no checkpoint: a fresh module's *)
(* or one restored in part.  A checkpoint saves it in one step, and        *)
(* reading snapshot and deltas is one step too (Checkpointing is about     *)
(* both).  An engine has one call for the instance at a time: calls that   *)
(* overlap on one engine are the subject of OverlappingCalls.              *)
(***************************************************************************)
EXTENDS SnapshotStore

CONSTANTS
    Engines,     \* host processes, one Engine each
    MaxVersion   \* bound: checkpoints taken

ASSUME BoundsAssumption == MaxVersion \in Nat

VARIABLES
    \* The store.
    version,   \* InstanceMeta.Version, 0 when there is no record
    image,     \* the checkpoint the stored memory is of, 0 for none
    \* The engines.
    active,    \* activeSessions: the session's meta.Version, Absent for none
    module,    \* the module main-<id>: what its memory descends from
    \* The call of each engine.
    pc,        \* where it stands
    meta,      \* the version it loaded
    keep,      \* its keepAlive
    \* History, read by the properties only.
    astray     \* whether the module was left to miss what the store has

storeVars  == <<version, image>>
engineVars == <<active, module>>
vars       == <<version, image, active, module, pc, meta, keep, astray>>

PC == {"idle", "bind", "find", "restore", "invoke", "guest", "save"}

Init ==
    /\ version = 0 /\ image = 0
    /\ active = [e \in Engines |-> Absent]
    /\ module = [e \in Engines |-> Absent]
    /\ pc = [e \in Engines |-> "idle"]
    /\ meta = [e \in Engines |-> 0]
    /\ keep = [e \in Engines |-> FALSE]
    /\ astray = [e \in Engines |-> FALSE]

GoTo(e, where) == pc' = [pc EXCEPT ![e] = where]

\* Another engine has counted a checkpoint up and not saved its memory yet.
SaveUnderWay(e) == \E d \in Engines \ {e} : pc[d] = "save"

Astray(e, is) == astray' = [astray EXCEPT ![e] = is]

\* Module and session are dropped.
Drop(e) ==
    /\ active' = [active EXCEPT ![e] = Absent]
    /\ module' = [module EXCEPT ![e] = Absent]

\* Mutant of Leave: every module is kept.
LeaveWarm(e, failed) == GoTo(e, "idle") /\ UNCHANGED <<engineVars, astray>>

\* RunBPMN returns through its deferred function, which looks at keepAlive and
\* at the variable err.  A module may be kept by a call that others have
\* overtaken.
Leave(e, failed) ==
    /\ GoTo(e, "idle")
    /\ Astray(e, astray[e] \/ pc[e] = "restore" \/ active[e] # version)
    /\ IF failed \/ ~keep[e] THEN Drop(e) ELSE UNCHANGED engineVars

(***************************************************************************)
(* Up to the call of the guest.                                            *)
(***************************************************************************)

\* LoadMetadata.  The caller chooses the engine and keep-alive freely: nothing
\* here sends a kept instance back to the engine that keeps its module.
Begin(e) ==
    /\ pc[e] = "idle"
    /\ \E k \in BOOLEAN : keep' = [keep EXCEPT ![e] = k]
    /\ meta' = [meta EXCEPT ![e] = version]
    /\ Astray(e, astray[e] \/ SaveUnderWay(e))
    /\ GoTo(e, "bind")
    /\ UNCHANGED <<storeVars, engineVars>>

\* Under activeSessionsMu: a new session, or the active one with the metadata
\* just loaded.
Bind(e) ==
    /\ pc[e] = "bind"
    /\ active' = [active EXCEPT ![e] = meta[e]]
    /\ GoTo(e, "find")
    /\ UNCHANGED <<storeVars, module, meta, keep, astray>>

\* A module of the instance's name is used as it is; otherwise one is
\* instantiated and _start called, and its memory is to be restored.
Find(e) ==
    /\ pc[e] = "find"
    /\ IF module[e] # Absent
         THEN GoTo(e, "invoke") /\ UNCHANGED module
         ELSE /\ GoTo(e, "restore")
              /\ module' = [module EXCEPT ![e] = 0]
    /\ UNCHANGED <<storeVars, active, meta, keep, astray>>

\* Mutant of InstantiateFails: the session stays in activeSessions.
InstantiateFailsKeepsSession(e) ==
    /\ pc[e] = "find" /\ module[e] = Absent
    /\ GoTo(e, "idle")
    /\ UNCHANGED <<storeVars, engineVars, meta, keep, astray>>

\* InstantiateModule or _start fails: the session is dropped.
InstantiateFails(e) ==
    /\ pc[e] = "find" /\ module[e] = Absent
    /\ GoTo(e, "idle")
    /\ active' = [active EXCEPT ![e] = Absent]
    /\ UNCHANGED <<storeVars, module, meta, keep, astray>>

\* Snapshot and deltas are copied onto the new module's memory.
Restore(e) ==
    /\ pc[e] = "restore"
    /\ module' = [module EXCEPT ![e] = image]
    /\ Astray(e, SaveUnderWay(e))
    /\ GoTo(e, "invoke")
    /\ UNCHANGED <<storeVars, active, meta, keep>>

\* Load or LoadDeltas fails, which is taken for nothing being stored: the guest
\* will run on memory that was not restored, or in part.
RestoreMisses(e) ==
    /\ pc[e] = "restore"
    /\ Astray(e, TRUE)
    /\ GoTo(e, "invoke")
    /\ UNCHANGED <<storeVars, engineVars, meta, keep>>

\* Memory cannot be grown: an error return that leaves the variable err nil.
RestoreFails(e) ==
    /\ pc[e] = "restore"
    /\ Leave(e, FALSE)
    /\ UNCHANGED <<storeVars, meta, keep>>

\* The inputs are written to the exchange buffer, the entrypoint is called.
Invoke(e) ==
    /\ pc[e] = "invoke"
    /\ GoTo(e, "guest")
    /\ UNCHANGED <<storeVars, engineVars, meta, keep, astray>>

\* The inputs do not fit or the entrypoint does not exist: err stays nil.
\* get_exchange_buffer_pointer fails: err is set.
Reject(e) ==
    /\ pc[e] = "invoke"
    /\ \E failed \in BOOLEAN : Leave(e, failed)
    /\ UNCHANGED <<storeVars, meta, keep>>

(***************************************************************************)
(* The guest: checkpoints, and how it ends.                                *)
(***************************************************************************)
CompareAndSwap(e) ==
    /\ pc[e] = "guest"
    /\ active[e] < MaxVersion
    /\ SaveMetadataAccepts(version, active[e])
    /\ version' = NextVersion(active[e])
    /\ active' = [active EXCEPT ![e] = NextVersion(@)]
    /\ GoTo(e, "save")
    /\ UNCHANGED <<image, module, meta, keep, astray>>

\* The memory others keep is now of an earlier checkpoint; and when the save
\* comes late, after others have taken checkpoints, so is the stored one.
SaveMemory(e) ==
    /\ pc[e] = "save"
    /\ image' = active[e]
    /\ module' = [module EXCEPT ![e] = active[e]]
    /\ astray' = [d \in Engines |->
                    d # e /\ (astray[d] \/ pc[d] = "idle" \/ active[e] # version)]
    /\ GoTo(e, "guest")
    /\ UNCHANGED <<version, active, meta, keep>>

\* The compare-and-swap is refused: the guest's call ends with an error.
Fenced(e) ==
    /\ pc[e] = "guest"
    /\ ~SaveMetadataAccepts(version, active[e])
    /\ Leave(e, TRUE)
    /\ UNCHANGED <<storeVars, meta, keep>>

\* A trap, or a store call of the checkpoint that fails.
Trap(e) ==
    /\ pc[e] \in {"guest", "save"}
    /\ Leave(e, TRUE)
    /\ UNCHANGED <<storeVars, meta, keep>>

\* The guest returns.  A negative result, or a context cancelled meanwhile,
\* becomes an error of RunBPMN but leaves err nil.
Complete(e) ==
    /\ pc[e] = "guest"
    /\ Leave(e, FALSE)
    /\ UNCHANGED <<storeVars, meta, keep>>

(***************************************************************************)
(* The engine.                                                             *)
(***************************************************************************)

\* CloseInstance, which callers use once their calls are over.
CloseInstance(e) ==
    /\ pc[e] = "idle"
    /\ Drop(e)
    /\ UNCHANGED <<storeVars, pc, meta, keep, astray>>

\* The host process dies.
Crash(e) ==
    /\ pc[e] # "idle"
    /\ Drop(e)
    /\ GoTo(e, "idle")
    /\ UNCHANGED <<storeVars, meta, keep, astray>>

Step(e) ==
    \/ Begin(e)
    \/ Bind(e)
    \/ Find(e)
    \/ InstantiateFails(e)
    \/ Restore(e)
    \/ RestoreMisses(e)
    \/ RestoreFails(e)
    \/ Invoke(e)
    \/ Reject(e)
    \/ CompareAndSwap(e)
    \/ SaveMemory(e)
    \/ Fenced(e)
    \/ Trap(e)
    \/ Complete(e)
    \/ CloseInstance(e)
    \/ Crash(e)

Next == \E e \in Engines : Step(e)

Spec == Init /\ [][Next]_vars

(***************************************************************************)
(* Properties.                                                             *)
(***************************************************************************)

\* Every variable has its type.
TypeOK ==
    /\ version \in 0 .. MaxVersion /\ image \in 0 .. MaxVersion
    /\ active \in [Engines -> -1 .. MaxVersion]
    /\ module \in [Engines -> -1 .. MaxVersion]
    /\ pc \in [Engines -> PC]
    /\ meta \in [Engines -> 0 .. MaxVersion]
    /\ keep \in [Engines -> BOOLEAN] /\ astray \in [Engines -> BOOLEAN]

\* A guest whose next checkpoint the store would accept runs on memory that
\* descends from the last checkpoint saved, whether its module was restored
\* for this call or kept from an earlier one, unless its engine went astray:
\* it could not load what was stored, it kept its module over a checkpoint of
\* another engine, or it began or restored between another's compare-and-swap
\* and save.  The fence catches every other call.
RunsOnLatest ==
    \A e \in Engines :
        pc[e] = "guest" /\ active[e] = version /\ ~astray[e]
        => module[e] = image

\* Between calls an engine has a session for the instance exactly when it has
\* a module for it, however the calls before ended: neither map leaks.
NoLeak ==
    \A e \in Engines :
        pc[e] = "idle" => (active[e] = Absent <=> module[e] = Absent)

=============================================================================
