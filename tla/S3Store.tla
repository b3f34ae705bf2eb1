------------------------------ MODULE S3Store ------------------------------
(***************************************************************************)
(* S3SnapshotStore: the records of one instance as objects in a bucket,    *)
(* used by clients (sessions of several processes, and programs that       *)
(* delete the instance).  A request is atomic and requests of different    *)
(* clients interleave: SaveDeltas, SaveOplog and TruncateOplog read an     *)
(* object and put it back changed, in two requests; Delete makes one       *)
(* request per object.  Any request may fail, and the answer to a put that *)
(* was carried out may be lost: the caller then gets an error, or, if the  *)
(* SDK repeated a conditional put, a refusal.  After a failed call a       *)
(* client may go on or stop.  A failure whose text isNotFound takes for    *)
(* the one of a missing object is a misread: it may come with any read and *)
(* any removal.                                                            *)
(*                                                                         *)
(* An ETag is the content: the SDK's is a digest of it.  The log is empty  *)
(* exactly when it has no object or an object with an empty list.          *)
(***************************************************************************)
EXTENDS SnapshotStore

CONSTANTS
    Clients,     \* who calls the store
    Pages,       \* page indices
    Contents,    \* page contents
    Hashes,      \* values of InstanceMeta.WasmHash
    MaxVersion,  \* bound: SaveMetadata calls in one life of the instance
    MaxIndex,    \* bound: call indices
    MaxLog       \* bound: entries in the log

ASSUME ContentsAssumption == Contents \subseteq Nat
ASSUME HashesAssumption == Hashes # {}
ASSUME BoundsAssumption == MaxVersion \in Nat /\ MaxIndex \in Nat /\ MaxLog \in Nat

VARIABLES
    \* The bucket.
    meta,      \* meta.json: [version, hash], version 0 when there is none
    snapshot,  \* snapshot.bin
    deltas,    \* deltas.json
    log,       \* oplog.json
    \* The clients.
    pc,        \* the call a client is in
    held,      \* its InstanceMeta: the Version and the content the ETag is of
    readDeltas, readLog,  \* the object its call has read
    todo,      \* the next object its Delete removes
    \* History, read by the properties only.
    acked,     \* entries SaveOplog has answered nil for while no other call
               \* was at the log, until truncated, deleted or misread
    stray      \* "snapshot", "deltas": objects that a Delete passed over, or
               \* that were put during a Delete or with no metadata there

bucket  == <<meta, snapshot, deltas, log>>
reads   == <<readDeltas, readLog>>
clients == <<pc, held, readDeltas, readLog, todo>>
history == <<acked, stray>>
vars    == <<meta, snapshot, deltas, log, pc, held, readDeltas, readLog, todo,
             acked, stray>>

Memory  == [Pages -> Contents \cup {Absent}]
Indices == 1 .. MaxIndex
Missing == [version |-> 0, hash |-> CHOOSE h \in Hashes : TRUE]

InCall == {"deltas", "oplog", "truncate", "delete"}
PC     == {"closed", "open"} \cup InCall

Init ==
    /\ meta = Missing
    /\ snapshot = Nothing(Pages) /\ deltas = Nothing(Pages) /\ log = {}
    /\ pc = [c \in Clients |-> "closed"]
    /\ held = [c \in Clients |-> Missing]
    /\ readDeltas = [c \in Clients |-> Nothing(Pages)]
    /\ readLog = [c \in Clients |-> {}]
    /\ todo = [c \in Clients |-> 1]
    /\ acked = {} /\ stray = {}

GoTo(c, where) == pc' = [pc EXCEPT ![c] = where]

(***************************************************************************)
(* Metadata.                                                               *)
(***************************************************************************)

\* LoadMetadata, which begins a session: the record and its ETag, or nothing if
\* it is missing or misread.
Open(c) ==
    /\ pc[c] = "closed"
    /\ GoTo(c, "open")
    /\ \E found \in {meta, Missing} : held' = [held EXCEPT ![c] = found]
    /\ UNCHANGED <<bucket, reads, todo, history>>

\* Mutant of PreconditionHolds: the put has no condition once there is a record.
PreconditionIgnored(c) == meta.version # 0 => held[c].version # 0

\* If-None-Match: * for version 0, If-Match with the ETag otherwise (which the
\* bucket answers with NoSuchKey when there is no object).
PreconditionHolds(c) ==
    IF held[c].version = 0 THEN meta.version = 0
                           ELSE meta.version # 0 /\ held[c] = meta

\* Mutant of Successor: the caller's meta has been incremented before.
SuccessorTwice(version) == IF version = 0 THEN 1 ELSE version + 2

\* nextVersion.
Successor(version) == IF version = 0 THEN 1 ELSE version + 1

\* The conditional put succeeds; version and ETag go to the caller, unless the
\* answer is lost.
SaveMetadata(c, hash) ==
    /\ pc[c] = "open"
    /\ held[c].version < MaxVersion
    /\ PreconditionHolds(c)
    /\ meta' = [version |-> Successor(held[c].version), hash |-> hash]
    /\ \/ held' = [held EXCEPT ![c] = meta']
       \/ UNCHANGED held
    /\ UNCHANGED <<snapshot, deltas, log, pc, reads, todo, history>>

(***************************************************************************)
(* Snapshot, deltas and log.  All puts are unconditional.  Memory is saved *)
(* once SaveMetadata has been successful, in this session or before.       *)
(***************************************************************************)

\* An object is put: it may outlive the metadata if these are gone or going.
MayStray(object) ==
    stray' = IF meta.version = 0 \/ \E d \in Clients : pc[d] = "delete"
               THEN stray \cup {object} ELSE stray

SaveSnapshot(c, memory) ==
    /\ pc[c] = "open"
    /\ held[c].version > 0
    /\ snapshot' = memory
    /\ MayStray("snapshot")
    /\ UNCHANGED <<meta, deltas, log, clients, acked>>

\* TruncateDeltas.  (A misread is a nil answer, and changes nothing.)
DeleteDeltas(c) ==
    /\ pc[c] = "open"
    /\ held[c].version > 0
    /\ deltas' = Nothing(Pages)
    /\ stray' = stray \ {"deltas"}
    /\ UNCHANGED <<meta, snapshot, log, clients, acked>>

\* SaveDeltas reads its object; one that is missing or misread is an empty one.
\* (A read that fails otherwise ends the call with an error.)
ReadDeltas(c) ==
    /\ pc[c] = "open"
    /\ held[c].version > 0
    /\ GoTo(c, "deltas")
    /\ \E found \in {deltas, Nothing(Pages)} :
          readDeltas' = [readDeltas EXCEPT ![c] = found]
    /\ UNCHANGED <<bucket, held, readLog, todo, history>>

\* SaveOplog does the same,
ReadLog(c) ==
    /\ pc[c] = "open"
    /\ GoTo(c, "oplog")
    /\ \E found \in {log, {}} :
          /\ readLog' = [readLog EXCEPT ![c] = found]
          /\ acked' = acked \cap found
    /\ UNCHANGED <<bucket, held, readDeltas, todo, stray>>

\* and so does TruncateOplog, which is done if the object is missing or misread.
ReadToTruncate(c) ==
    /\ pc[c] = "open"
    /\ log # {}
    /\ GoTo(c, "truncate")
    /\ readLog' = [readLog EXCEPT ![c] = log]
    /\ UNCHANGED <<bucket, held, readDeltas, todo, history>>

\* What c has read is dropped.
Unread(c) ==
    /\ readDeltas' = [readDeltas EXCEPT ![c] = Nothing(Pages)]
    /\ readLog' = [readLog EXCEPT ![c] = {}]

\* The call is over.
EndCall(c) ==
    /\ GoTo(c, "open")
    /\ Unread(c)
    /\ UNCHANGED <<held, todo>>

PutDeltas(c, p, content) ==
    /\ pc[c] = "deltas"
    /\ deltas' = Overlay(readDeltas[c], [Nothing(Pages) EXCEPT ![p] = content])
    /\ EndCall(c)
    /\ MayStray("deltas")
    /\ UNCHANGED <<meta, snapshot, log, acked>>

\* The entry SaveOplog appends to the list it has read.
NewEntry(c, index) ==
    [nr |-> 1 + Max({0} \cup {e.nr : e \in readLog[c]}),
     index |-> index, api |-> "call", response |-> "answer"]

\* Nobody else is between reading the log and putting it back.
AloneAtLog(c) == \A d \in Clients \ {c} : pc[d] \notin {"oplog", "truncate"}

\* Mutant of PutOplog: the list that was read is left out.
PutOplogAlone(c, index) ==
    /\ pc[c] = "oplog"
    /\ Cardinality(readLog[c]) < MaxLog
    /\ log' = {NewEntry(c, index)}
    /\ acked' = IF AloneAtLog(c) THEN acked \cup {NewEntry(c, index)} ELSE acked
    /\ EndCall(c)
    /\ UNCHANGED <<meta, snapshot, deltas, stray>>

\* The list goes back with one more entry; nil is answered, or the answer lost.
PutOplog(c, index) ==
    /\ pc[c] = "oplog"
    /\ Cardinality(readLog[c]) < MaxLog
    /\ log' = readLog[c] \cup {NewEntry(c, index)}
    /\ \/ acked' = IF AloneAtLog(c) THEN acked \cup {NewEntry(c, index)} ELSE acked
       \/ UNCHANGED acked
    /\ EndCall(c)
    /\ UNCHANGED <<meta, snapshot, deltas, stray>>

PutTruncated(c, before) ==
    /\ pc[c] = "truncate"
    /\ log' = {e \in readLog[c] : e.index > before}
    /\ acked' = {e \in acked : e.index > before}
    /\ EndCall(c)
    /\ UNCHANGED <<meta, snapshot, deltas, stray>>

\* The put fails.
PutFails(c) ==
    /\ pc[c] \in {"deltas", "oplog", "truncate"}
    /\ EndCall(c)
    /\ UNCHANGED <<bucket, history>>

(***************************************************************************)
(* Delete, called by a program that has no session of the instance, while  *)
(* others may have one.                                                    *)
(***************************************************************************)
BeginDelete(c) ==
    /\ pc[c] = "closed"
    /\ GoTo(c, "delete")
    /\ UNCHANGED <<bucket, held, reads, todo, history>>

\* Mutant of Place: the metadata goes first.
PlaceMetaFirst(object) ==
    CASE object = "meta" -> 1 [] object = "snapshot" -> 2 [] object = "deltas" -> 3
      [] object = "log" -> 4

\* The order Delete takes.  (The last object, active.json, is no record of the
\* instance: ActiveIndex is about it.)
Place(object) ==
    CASE object = "snapshot" -> 1 [] object = "deltas" -> 2 [] object = "log" -> 3
      [] object = "meta" -> 4

\* Delete goes on to its next object, or returns.
NextObject(c) ==
    /\ IF todo[c] < 4
         THEN todo' = [todo EXCEPT ![c] = @ + 1] /\ UNCHANGED pc
         ELSE todo' = [todo EXCEPT ![c] = 1] /\ GoTo(c, "closed")
    /\ UNCHANGED <<held, reads>>

\* An object is removed.
DeleteObject(c) ==
    /\ pc[c] = "delete"
    /\ snapshot' = IF todo[c] = Place("snapshot") THEN Nothing(Pages) ELSE snapshot
    /\ deltas' = IF todo[c] = Place("deltas") THEN Nothing(Pages) ELSE deltas
    /\ log' = IF todo[c] = Place("log") THEN {} ELSE log
    /\ meta' = IF todo[c] = Place("meta") THEN Missing ELSE meta
    /\ acked' = IF todo[c] = Place("log") THEN {} ELSE acked
    /\ stray' = {object \in stray : todo[c] # Place(object)}
    /\ NextObject(c)

\* The removal fails and is misread: the object stays, and Delete goes on.
PassObject(c) ==
    /\ pc[c] = "delete"
    /\ stray' = stray \cup
                  {object \in {"snapshot", "deltas"} : todo[c] = Place(object)}
    /\ NextObject(c)
    /\ UNCHANGED <<bucket, acked>>

(***************************************************************************)
(* A session ends or its process dies, wherever it is; a Delete stops at   *)
(* the first request that fails and is not misread.                        *)
(***************************************************************************)
Stop(c) ==
    /\ pc[c] # "closed"
    /\ GoTo(c, "closed")
    /\ held' = [held EXCEPT ![c] = Missing]
    /\ Unread(c)
    /\ todo' = [todo EXCEPT ![c] = 1]
    /\ UNCHANGED <<bucket, history>>

Step(c) ==
    \/ Open(c)
    \/ \E hash \in Hashes : SaveMetadata(c, hash)
    \/ \E content \in Contents : SaveSnapshot(c, [p \in Pages |-> content])
    \/ DeleteDeltas(c)
    \/ ReadDeltas(c)
    \/ ReadLog(c)
    \/ ReadToTruncate(c)
    \/ \E p \in Pages, content \in Contents : PutDeltas(c, p, content)
    \/ \E index \in Indices : PutOplog(c, index)
    \/ \E before \in 0 .. MaxIndex : PutTruncated(c, before)
    \/ PutFails(c)
    \/ BeginDelete(c)
    \/ DeleteObject(c)
    \/ PassObject(c)
    \/ Stop(c)

Next == \E c \in Clients : Step(c)

Spec == Init /\ [][Next]_vars

(***************************************************************************)
(* Properties.                                                             *)
(***************************************************************************)

\* Every variable has its type.
TypeOK ==
    /\ meta \in [version : 0 .. MaxVersion, hash : Hashes]
    /\ snapshot \in Memory /\ deltas \in Memory
    /\ \A e \in log \cup acked : e.index \in Indices
    /\ pc \in [Clients -> PC]
    /\ held \in [Clients -> [version : 0 .. MaxVersion, hash : Hashes]]
    /\ readDeltas \in [Clients -> Memory]
    /\ \A c \in Clients : \A e \in readLog[c] : e.index \in Indices
    /\ todo \in [Clients -> 1 .. 4]
    /\ stray \subseteq {"snapshot", "deltas"}

\* The bucket as the store of RecordStore: what a call has read is its copy.
Records == INSTANCE RecordStore
             WITH version <- meta.version, Apis <- {"call"}, Responses <- {"answer"},
                  deleting <- \E c \in Clients : pc[c] = "delete",
                  deltaCopies <- {readDeltas[c] : c \in {d \in Clients : pc[d] = "deltas"}},
                  logCopies <- {readLog[c] : c \in {d \in Clients :
                                                    pc[d] \in {"oplog", "truncate"}}},
                  writing <- {}

\* Whatever calls overlap, requests fail or are misread, answers are lost and
\* processes die in the middle of a call: the version moves by compare-and-swap
\* only, a change of a record leaves the others alone and keeps all of it that
\* was there at some time during the call (or nothing, if that was misread),
\* no record is ever half written, and only Delete forgets.
Implements == Records!Spec

\* An entry that SaveOplog has answered nil for is in the log until it is
\* truncated or the instance deleted, whoever rewrites the log after it,
\* unless another call was rewriting the log when the entry was put, or a later
\* SaveOplog takes a failed read for a missing log.
AckedIsStored == acked \subseteq log

\* Pages of an earlier life, which the restore of a new one would lay over its
\* fresh memory, and its first checkpoint leave among the deltas: there is no
\* memory without metadata, wherever requests of a Delete, a checkpoint or a
\* first SaveMetadata fail and processes die, but for what a Delete passed over,
\* and what a session saved while its instance was deleted or after that.
NoGhostMemory ==
    meta.version = 0 =>
        /\ IsRecorded(snapshot) => "snapshot" \in stray
        /\ IsRecorded(deltas) => "deltas" \in stray

=============================================================================
