---------------------------- MODULE RecordStore ----------------------------
(***************************************************************************)
(* What the stores over a bucket and over files promise about the records  *)
(* of one instance.                                                        *)
(*                                                                         *)
(* The metadata only moves by compare-and-swap.  A call changes one record *)
(* and does so at once, but SaveDeltas, SaveOplog and TruncateOplog work   *)
(* on a copy: the record as it was at some time during the call, or an     *)
(* empty one if reading failed and that was taken for a missing record.    *)
(* A record that is being written is lost as a whole if the writing stops. *)
(* Delete takes time, and forgets the records it does not pass over one by *)
(* one.  (MemorySnapshotStore, whose methods run under a mutex, has        *)
(* neither copies nor unfinished writes.)                                  *)
(***************************************************************************)
EXTENDS SnapshotStore

CONSTANTS Pages, Contents, Indices, Apis, Responses

VARIABLES
    version,     \* InstanceMeta.Version, 0 when there is no record
    snapshot,    \* the full snapshot
    deltas,      \* the dirty pages recorded since
    log,         \* the operation log
    deleting,    \* whether a Delete is under way
    deltaCopies, \* the copies that calls under way have of the deltas,
    logCopies,   \* and of the log
    writing      \* the records that are being rewritten

vars == <<version, snapshot, deltas, log, deleting, deltaCopies, logCopies,
          writing>>

Memory == [Pages -> Contents \cup {Absent}]

Init ==
    /\ version = 0
    /\ snapshot = Nothing(Pages)
    /\ deltas = Nothing(Pages)
    /\ log = {}
    /\ deleting = FALSE
    /\ deltaCopies = {} /\ logCopies = {} /\ writing = {}

\* No copy is taken, and no writing begins.
NothingBegins ==
    /\ deltaCopies' \subseteq deltaCopies
    /\ logCopies' \subseteq logCopies
    /\ writing' \subseteq writing

\* SaveMetadata for a caller that holds version v.
Advance(v) ==
    /\ SaveMetadataAccepts(version, v)
    /\ version' = NextVersion(v)
    /\ NothingBegins
    /\ UNCHANGED <<snapshot, deltas, log, deleting>>

\* Save.
Replace(memory) ==
    /\ snapshot' = Save(snapshot, memory)
    /\ NothingBegins
    /\ UNCHANGED <<version, deltas, log, deleting>>

\* SaveDeltas, on the record or on a copy of it.
Add(base, dirty) ==
    /\ deltas' = SaveDeltas(base, dirty)
    /\ NothingBegins
    /\ UNCHANGED <<version, snapshot, log, deleting>>

\* TruncateDeltas.
Clear ==
    /\ deltas' = TruncateDeltas(deltas)
    /\ NothingBegins
    /\ UNCHANGED <<version, snapshot, log, deleting>>

\* SaveOplog, on the record or on a copy of it.
Append(base, index, api, response) ==
    /\ log' = SaveOplog(base, index, api, response)
    /\ NothingBegins
    /\ UNCHANGED <<version, snapshot, deltas, deleting>>

\* TruncateOplog, on the record or on a copy of it.
Cut(base, before) ==
    /\ log' = TruncateOplog(base, before)
    /\ NothingBegins
    /\ UNCHANGED <<version, snapshot, deltas, deleting>>

\* Calls read, fail or end, and leave every record alone.
Proceed ==
    /\ deltaCopies' \subseteq deltaCopies \cup {deltas, Nothing(Pages)}
    /\ logCopies' \subseteq logCopies \cup {log, {}}
    /\ writing' \subseteq writing
    /\ UNCHANGED <<version, snapshot, deltas, log, deleting>>

\* The writing of a record begins.  It changes when the writing ends.
Begin(record) ==
    /\ writing' = writing \cup {record}
    /\ UNCHANGED <<version, snapshot, deltas, log, deleting, deltaCopies, logCopies>>

\* The writing of a record stops for good.
Lose(record) ==
    /\ record \in writing
    /\ snapshot' = IF record = "snapshot" THEN Nothing(Pages) ELSE snapshot
    /\ deltas' = IF record = "deltas" THEN Nothing(Pages) ELSE deltas
    /\ log' = IF record = "log" THEN {} ELSE log
    /\ NothingBegins
    /\ UNCHANGED <<version, deleting>>

\* Delete begins, forgets records and ends.
BeginDelete ==
    /\ ~deleting /\ deleting' = TRUE
    /\ NothingBegins
    /\ UNCHANGED <<version, snapshot, deltas, log>>

Forget ==
    /\ deleting
    /\ version' \in {version, 0}
    /\ snapshot' \in {snapshot, Nothing(Pages)}
    /\ deltas' \in {deltas, Nothing(Pages)}
    /\ log' \in {log, {}}
    /\ deleting' \in BOOLEAN
    /\ NothingBegins

Next ==
    \/ Advance(version)
    \/ \E memory \in Memory : Replace(memory)
    \/ \E base \in {deltas} \cup deltaCopies, dirty \in Memory : Add(base, dirty)
    \/ Clear
    \/ \E base \in {log} \cup logCopies, i \in Indices, a \in Apis, r \in Responses :
          Append(base, i, a, r)
    \/ \E base \in {log} \cup logCopies, i \in Indices \cup {0} : Cut(base, i)
    \/ Proceed
    \/ \E record \in {"snapshot", "deltas", "log"} : Begin(record) \/ Lose(record)
    \/ BeginDelete
    \/ Forget

Spec == Init /\ [][Next]_vars

=============================================================================
