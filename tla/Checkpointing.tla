--------------------------- MODULE Checkpointing ---------------------------
(***************************************************************************)
(* One workflow instance, executed by several nodes over one store: the    *)
(* restore that starts Engine.ExecuteWithArgs, the guest's use of its      *)
(* linear memory, and the `checkpoint` host function.                      *)
(*                                                                         *)
(* A node is an Engine: it runs at most one session of the instance,       *)
(* because InstantiateModule refuses a second module named main-<id>.      *)
(* Nothing but the store is shared, and each store call is one step, so    *)
(* sessions of different nodes interleave between any two of them.  A      *)
(* session may die at any point (process crash, cancelled context, trap,   *)
(* a failed store write, which the handler turns into a panic).            *)
(*                                                                         *)
(* Four things that happen to an instance can make a restore inexact, see  *)
(* Troubles.  None is excluded: history variables record which of them the *)
(* stored record and each session have met, and the properties say what    *)
(* holds of the others.                                                    *)
(*                                                                         *)
(* The operation log is left out here: no state below depends on it (see   *)
(* OplogReplay).                                                           *)
(***************************************************************************)
EXTENDS SnapshotStore

CONSTANTS
    Nodes,           \* engines that may execute the instance
    Pages,           \* page indices of the guest's linear memory
    InitialPages,    \* the pages the module has when instantiated
    MaxContent,      \* bound: page contents are 0 .. MaxContent
    SnapshotPeriod,  \* versions between full snapshots; 5 in the code
    MaxVersion       \* bound: checkpoints taken, over all sessions

(***************************************************************************)
(* What can come between a checkpoint and the restore of its memory:       *)
(*   overlap      a node reads the metadata while the session of another   *)
(*                is between its compare-and-swap and its last write, and  *)
(*                that write then lands under it or after its own          *)
(*   untruncated  the deltas from before a full snapshot still lie over    *)
(*                it: TruncateDeltas is not yet called, was never called   *)
(*                because the session died, or failed                      *)
(*   load_error   Load or LoadDeltas failed; the session goes on without   *)
(*   page_reuse   the guest gives a page the content last hashed while     *)
(*                another one is stored                                    *)
(***************************************************************************)
Troubles == {"overlap", "untruncated", "load_error", "page_reuse"}

ASSUME InitialPagesAssumption == InitialPages \subseteq Pages
ASSUME BoundsAssumption == MaxContent \in Nat /\ MaxVersion \in Nat
ASSUME PeriodAssumption == SnapshotPeriod \in Nat \ {0}

VARIABLES
    \* The store's record of the instance.
    version,      \* InstanceMeta.Version, 0 when there is no record
    snapshot,     \* the full snapshot
    deltas,       \* the dirty pages recorded since
    \* The session of each node.
    pc,           \* where it stands
    ver,          \* Session.meta.Version
    mem,          \* linear memory
    hashes,       \* Session.pageHashes
    \* History, read by the properties only.
    durable,      \* the memory captured by the newest checkpoint written
    durableVer,   \* its version, 0 before the first
    base,         \* per node: the checkpoint its memory was restored from
    harm,         \* what may make a restore of the record inexact
    doubt         \* per node: what may make its checkpoint incomplete

storeVars   == <<version, snapshot, deltas>>
sessionVars == <<pc, ver, mem, hashes>>
newest      == <<durable, durableVer>>
vars        == <<version, snapshot, deltas, pc, ver, mem, hashes,
                 durable, durableVer, base, harm, doubt>>

Contents == 0 .. MaxContent
Memory   == [Pages -> Contents \cup {Absent}]

\* Between the compare-and-swap and the return of the checkpoint handler.
Checkpoint == {"save", "truncate", "diff"}
PC == {"idle", "load", "overlay", "running"} \cup Checkpoint

\* Linear memory once the module is instantiated and _start has run.
FreshMemory == [p \in Pages |-> IF p \in InitialPages THEN 0 ELSE Absent]

\* The memory a restore of the stored record produces.
Image == Overlay(Overlay(FreshMemory, snapshot), deltas)

IsFullSnapshot(v) == v = 1 \/ (v > 1 /\ v % SnapshotPeriod = 0)

Init ==
    /\ version = 0
    /\ snapshot = Nothing(Pages)
    /\ deltas = Nothing(Pages)
    /\ pc = [n \in Nodes |-> "idle"]
    /\ ver = [n \in Nodes |-> 0]
    /\ mem = [n \in Nodes |-> FreshMemory]
    /\ hashes = [n \in Nodes |-> Nothing(Pages)]
    /\ durable = FreshMemory
    /\ durableVer = 0
    /\ base = [n \in Nodes |-> 0]
    /\ harm = {}
    /\ doubt = [n \in Nodes |-> {}]

GoTo(n, where) == pc' = [pc EXCEPT ![n] = where]
Doubt(n, troubles) == doubt' = [doubt EXCEPT ![n] = @ \cup troubles]

\* The session is over; the module is closed and its memory gone.
Discard(n) ==
    /\ GoTo(n, "idle")
    /\ ver' = [ver EXCEPT ![n] = 0]
    /\ mem' = [mem EXCEPT ![n] = FreshMemory]
    /\ hashes' = [hashes EXCEPT ![n] = Nothing(Pages)]
    /\ base' = [base EXCEPT ![n] = 0]
    /\ doubt' = [doubt EXCEPT ![n] = {}]
    /\ UNCHANGED <<storeVars, newest, harm>>

(***************************************************************************)
(* ExecuteWithArgs, up to the call of the entrypoint.                      *)
(***************************************************************************)

\* LoadMetadata, a new Session with it, InstantiateModule and _start.
Start(n) ==
    /\ pc[n] = "idle"
    /\ GoTo(n, "load")
    /\ ver' = [ver EXCEPT ![n] = version]
    /\ UNCHANGED <<storeVars, mem, hashes, newest, base, harm, doubt>>

\* store.Load: a snapshot is copied onto memory and every page of the memory
\* hashed; without one, memory stays fresh and no page has a hash.
LoadSnapshot(n) ==
    /\ pc[n] = "load"
    /\ GoTo(n, "overlay")
    /\ IF IsRecorded(snapshot)
         THEN LET restored == Overlay(mem[n], snapshot)
              IN  /\ mem' = [mem EXCEPT ![n] = restored]
                  /\ hashes' = [hashes EXCEPT ![n] = restored]
         ELSE UNCHANGED <<mem, hashes>>
    /\ UNCHANGED <<storeVars, ver, newest, base, harm, doubt>>

\* An error of Load is not told from a missing snapshot.
LoadSnapshotFails(n) ==
    /\ pc[n] = "load"
    /\ GoTo(n, "overlay")
    /\ Doubt(n, {"load_error"})
    /\ UNCHANGED <<storeVars, ver, mem, hashes, newest, base, harm>>

\* Mutant of LoadDeltas: memory is not grown to hold the recorded pages.
LoadDeltasWithoutGrowth(n) ==
    /\ pc[n] = "overlay"
    /\ GoTo(n, "running")
    /\ mem' = [mem EXCEPT ![n] = [p \in Pages |->
                  IF @[p] # Absent THEN Overlay(@, deltas)[p] ELSE Absent]]
    /\ hashes' = [hashes EXCEPT ![n] = Overlay(@, deltas)]
    /\ base' = [base EXCEPT ![n] = durableVer]
    /\ UNCHANGED <<storeVars, ver, newest, harm, doubt>>

\* store.LoadDeltas: recorded pages are copied onto memory and rehashed, then
\* the entrypoint is called.
LoadDeltas(n) ==
    /\ pc[n] = "overlay"
    /\ GoTo(n, "running")
    /\ mem' = [mem EXCEPT ![n] = Overlay(@, deltas)]
    /\ hashes' = [hashes EXCEPT ![n] = Overlay(@, deltas)]
    /\ base' = [base EXCEPT ![n] = durableVer]
    /\ UNCHANGED <<storeVars, ver, newest, harm, doubt>>

LoadDeltasFails(n) ==
    /\ pc[n] = "overlay"
    /\ GoTo(n, "running")
    /\ Doubt(n, {"load_error"})
    /\ UNCHANGED <<storeVars, ver, mem, hashes, newest, base, harm>>

(***************************************************************************)
(* The guest between checkpoints.                                          *)
(***************************************************************************)

\* The guest may give a page any content.
Write(n, p, c) ==
    /\ pc[n] = "running"
    /\ mem[n][p] # Absent
    /\ mem' = [mem EXCEPT ![n][p] = c]
    /\ Doubt(n, IF c = hashes[n][p] /\ c # Image[p] THEN {"page_reuse"} ELSE {})
    /\ UNCHANGED <<storeVars, pc, ver, hashes, newest, base, harm>>

\* memory.grow: a page of zeroes appears.
Grow(n, p) ==
    /\ pc[n] = "running"
    /\ mem[n][p] = Absent
    /\ mem' = [mem EXCEPT ![n][p] = 0]
    /\ UNCHANGED <<storeVars, pc, ver, hashes, newest, base, harm, doubt>>

\* The entrypoint returns.
Return(n) == pc[n] = "running" /\ Discard(n)

(***************************************************************************)
(* The checkpoint host function.  When it ends the guest goes on; a        *)
(* session started with shouldCrash panics at that point (Crash).          *)
(***************************************************************************)

\* SaveMetadata: compare and swap the version, then choose how to save.
CompareAndSwap(n) ==
    /\ pc[n] = "running"
    /\ ver[n] < MaxVersion
    /\ SaveMetadataAccepts(version, ver[n])
    /\ version' = NextVersion(ver[n])
    /\ ver' = [ver EXCEPT ![n] = NextVersion(@)]
    /\ GoTo(n, IF IsFullSnapshot(NextVersion(ver[n])) THEN "save" ELSE "diff")
    /\ UNCHANGED <<snapshot, deltas, mem, hashes, newest, base, harm, doubt>>

\* SaveMetadata refuses: the handler panics and ExecuteWithArgs returns
\* ErrConcurrentExecution.
Fenced(n) ==
    /\ pc[n] = "running"
    /\ ~SaveMetadataAccepts(version, ver[n])
    /\ Discard(n)

\* The checkpoint n writes is the newest one, unless a newer was written.
Captured(n) ==
    /\ IF ver[n] >= durableVer
         THEN durable' = mem[n] /\ durableVer' = ver[n]
         ELSE UNCHANGED newest
    /\ base' = [base EXCEPT ![n] = ver[n]]

\* A session that has the stored version: the next checkpoint may be its own.
HasVersion(n) == pc[n] # "idle" /\ ver[n] = version

\* n has written to the record.  Written by a session the store's version has
\* left behind, the record is a mixture; and it has changed under every other
\* session that read it under its present version.
WroteLate(n) == IF ver[n] = version THEN {} ELSE {"overlap"}
WroteUnder(n, own) ==
    doubt' = [m \in Nodes |->
                IF m = n THEN own
                ELSE IF HasVersion(m) THEN doubt[m] \cup {"overlap"}
                ELSE doubt[m]]

\* The handler panics on a memory of size zero.
HasMemory(n) == mem[n] # Nothing(Pages)

\* Save of a full snapshot.  Version 1 has nothing to truncate.  pageHashes
\* keep the values they had.
SaveFull(n) ==
    /\ pc[n] = "save" /\ HasMemory(n)
    /\ snapshot' = Save(snapshot, mem[n])
    /\ GoTo(n, IF ver[n] > 1 THEN "truncate" ELSE "running")
    /\ Captured(n)
    /\ harm' = (IF ver[n] = version THEN {} ELSE harm) \cup WroteLate(n)
                 \cup (IF ver[n] > 1 THEN {"untruncated"} ELSE {})
    /\ WroteUnder(n, IF harm' = {} THEN {} ELSE doubt[n])
    /\ UNCHANGED <<version, deltas, ver, mem, hashes>>

Truncate(n) ==
    /\ pc[n] = "truncate"
    /\ deltas' = TruncateDeltas(deltas)
    /\ GoTo(n, "running")
    /\ harm' = (harm \ {"untruncated"}) \cup WroteLate(n)
    /\ WroteUnder(n, IF harm' = {} THEN {} ELSE doubt[n])
    /\ UNCHANGED <<version, snapshot, ver, mem, hashes, newest, base>>

\* The handler discards TruncateDeltas' error.
TruncateFails(n) ==
    /\ pc[n] = "truncate"
    /\ GoTo(n, "running")
    /\ UNCHANGED <<storeVars, ver, mem, hashes, newest, base, harm, doubt>>

\* The pages of n whose content differs from the one last hashed.
Dirty(n) ==
    [p \in Pages |-> IF mem[n][p] # hashes[n][p] THEN mem[n][p] ELSE Absent]

\* The dirty pages are found, rehashed and, if there are any, saved.
SaveDirty(n) ==
    /\ pc[n] = "diff" /\ HasMemory(n)
    /\ deltas' = SaveDeltas(deltas, Dirty(n))
    /\ hashes' = [hashes EXCEPT ![n] = Overlay(@, Dirty(n))]
    /\ GoTo(n, "running")
    /\ Captured(n)
    /\ harm' = LET met == doubt[n] \cup WroteLate(n)
               IN  IF met = {} THEN {} ELSE harm \cup met
    /\ WroteUnder(n, doubt[n])
    /\ UNCHANGED <<version, snapshot, ver, mem>>

(***************************************************************************)
(* The session dies.                                                       *)
(***************************************************************************)
Crash(n) == pc[n] # "idle" /\ Discard(n)

Step(n) ==
    \/ Start(n)
    \/ LoadSnapshot(n)
    \/ LoadSnapshotFails(n)
    \/ LoadDeltas(n)
    \/ LoadDeltasFails(n)
    \/ \E p \in Pages, c \in Contents : Write(n, p, c)
    \/ \E p \in Pages : Grow(n, p)
    \/ Return(n)
    \/ CompareAndSwap(n)
    \/ Fenced(n)
    \/ SaveFull(n)
    \/ Truncate(n)
    \/ TruncateFails(n)
    \/ SaveDirty(n)
    \/ Crash(n)

Next == \E n \in Nodes : Step(n)

Spec == Init /\ [][Next]_vars

(***************************************************************************)
(* Properties.                                                             *)
(***************************************************************************)

\* Every variable has its type; versions stay within the bound the guard of
\* CompareAndSwap sets.
TypeOK ==
    /\ version \in 0 .. MaxVersion
    /\ snapshot \in Memory /\ deltas \in Memory /\ durable \in Memory
    /\ pc \in [Nodes -> PC]
    /\ ver \in [Nodes -> 0 .. MaxVersion]
    /\ mem \in [Nodes -> Memory]
    /\ hashes \in [Nodes -> Memory]
    /\ durableVer \in 0 .. MaxVersion
    /\ base \in [Nodes -> 0 .. MaxVersion]
    /\ harm \subseteq Troubles
    /\ doubt \in [Nodes -> SUBSET Troubles]

\* Of the sessions inside the checkpoint handler no two hold the same
\* version, and none holds one the store has not given out: the
\* compare-and-swap of SaveMetadata lets one session through per version,
\* whatever crashes, failed calls and interleavings there are.
OneWriterPerVersion ==
    \A m, n \in Nodes :
        /\ pc[n] \in Checkpoint => ver[n] \in 1 .. version
        /\ m # n /\ pc[m] \in Checkpoint /\ pc[n] \in Checkpoint
             => ver[m] # ver[n]

\* A restore gives, page for page, the memory of the newest checkpoint, if the
\* troubles that have reached the record, and that no later checkpoint has set
\* right, are among those allowed.
RecoversDespite(allowed) == harm \subseteq allowed => Image = durable

\* Snapshot plus deltas are, page for page, the memory the newest checkpoint
\* captured, unless one of the four troubles has reached the record.  A
\* checkpoint of a session that restored the whole record and met none itself
\* sets the record right again, and so does every full snapshot with its
\* truncation: saving only dirty pages loses nothing by itself.
RecoverExact == RecoversDespite({})

\* A restore that ends with a session still entitled to write (its version is
\* the stored one), all of whose reads succeeded and between whose reads no
\* checkpoint under that version was written, has rebuilt exactly the memory
\* of the newest checkpoint, if the record was in order when it ended.
RestoreIsExact ==
    [][\A n \in Nodes :
         pc[n] = "overlay" /\ pc'[n] = "running" /\ ver[n] = version
           /\ doubt'[n] = {} /\ harm = {}
           => mem'[n] = durable]_vars

\* A session that passes the compare-and-swap was restored from the newest
\* checkpoint or wrote it, so no checkpoint is overwritten by a session that
\* never saw it; unless a load of the session failed, or the checkpoint was
\* written late, after the session had read its version.
NoLostUpdate ==
    [][\A n \in Nodes :
         pc[n] = "running" /\ pc'[n] \in Checkpoint
           /\ doubt[n] \cap {"load_error", "overlap"} = {}
           => base[n] = durableVer]_vars

\* "It restores the linear memory of the WASM VM to the exact page-level state
\* of the last checkpoint" (README.md), where nothing has happened but that a
\* session ended between Save and TruncateDeltas: the deltas of the versions
\* before lie over the newer snapshot.
RecoversAfterCrash ==
    (\A n \in Nodes : pc[n] = "idle") => RecoversDespite({"untruncated"})

\* A late write "fails with an OCC conflict, preventing state corruption"
\* (README.md), where nothing has happened but that a node restored and wrote
\* its checkpoint between another's compare-and-swap and its write.
RecoversAfterOverlap == RecoversDespite({"overlap"})

(***************************************************************************)
(* Refinement.                                                             *)
(***************************************************************************)

\* The session of the newest checkpoint is between Save and TruncateDeltas.
Truncating(n) == pc[n] = "truncate" /\ ver[n] = version

\* What a restore gives; between Save and TruncateDeltas the snapshot alone.
StoredMemory == IF \E n \in Nodes : Truncating(n) THEN snapshot ELSE Image

\* No trouble has reached the record but a truncation that is still to come.
Sound ==
    \/ harm = {}
    \/ harm = {"untruncated"} /\ \E n \in Nodes : Truncating(n)

\* A session that may write the next checkpoint or is writing the newest, and
\* that has met no trouble, has a copy.
HasCopy(n) ==
    /\ pc[n] \in {"running"} \cup Checkpoint /\ ver[n] = version
    /\ doubt[n] = {}
    /\ \A m \in Nodes : Truncating(m) => m = n
Copies == [n \in Nodes |-> IF HasCopy(n) THEN {mem[n]} ELSE {}]

Astray == {n \in Nodes : doubt[n] # {}}

Durable == INSTANCE DurableMemory
             WITH stored <- StoredMemory, copies <- Copies, stray <- Astray,
                  sound <- Sound

\* Versions, full snapshots every few versions, dirty pages between them and
\* restores in two reads come to one durable memory: until a trouble reaches
\* the record, and from the checkpoint that sets it right on, whichever
\* session gets to write has restored exactly what was written last and worked
\* on that, or has itself met one of the troubles.
Implements == Durable!Spec

=============================================================================
