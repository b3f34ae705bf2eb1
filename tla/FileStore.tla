----------------------------- MODULE FileStore -----------------------------
(***************************************************************************)
(* FileSnapshotStore: the records of one instance and one WASM module as   *)
(* files of a directory.  A method runs under the mutex of its             *)
(* FileSnapshotStore value, which says nothing to another value over the   *)
(* same directory, in another process or in this one.  A method that       *)
(* writes computes the new content from the file it reads and hands it to  *)
(* os.WriteFile, which truncates the file and then fills it: a process     *)
(* that dies in between, or a disk that is full, leaves a torn file.       *)
(* Reading one is an error: gzip and JSON both recognise it.               *)
(*                                                                         *)
(* Clients are sessions, and programs that delete the instance.            *)
(***************************************************************************)
EXTENDS SnapshotStore, Sequences

CONSTANTS
    Clients,     \* who calls the store
    Pages,       \* page indices
    Contents,    \* page contents
    Shared,      \* whether all clients share one FileSnapshotStore value;
                 \* otherwise each has its own
    MaxVersion,  \* bound: SaveMetadata calls in one life of the instance
    MaxIndex,    \* bound: call indices
    MaxLog       \* bound: entries in the log

ASSUME ContentsAssumption == Contents \subseteq Nat
ASSUME SharedAssumption == Shared \in BOOLEAN
ASSUME BoundsAssumption == MaxVersion \in Nat /\ MaxIndex \in Nat /\ MaxLog \in Nat

Files == {"meta", "bin", "deltas", "oplog", "wasm"}

\* The content that stands for a missing file.  (A missing list or map of
\* deltas reads like an empty one.)
Missing == [f \in Files |-> CASE f = "meta"   -> 0
                              [] f = "bin"    -> Nothing(Pages)
                              [] f = "deltas" -> Nothing(Pages)
                              [] f = "oplog"  -> {}
                              [] f = "wasm"   -> FALSE]

VARIABLES
    \* The directory.
    disk,      \* the content of each file: the Version in _meta.json, the pages
               \* of .bin and _deltas.json, the entries of _oplog.json, and
               \* whether there is a .wasm; of a file that is being written,
               \* the content it had before; of one whose writing has stopped
               \* halfway, that of a missing file (but see Stopped)
    torn,      \* the files that are truncated or partly written
    \* The clients.
    pc,        \* where a client is in its call
    held,      \* Version in its InstanceMeta
    file,      \* the file its call writes
    new,       \* the directory as its call wants it, which only `file` is read of
    todo,      \* the files its Delete has not removed yet
    \* History, read by the properties only.
    granted,   \* versions SaveMetadata has answered true for
    regranted, \* whether it has done so twice for one version
    acked      \* entries SaveOplog has answered nil for, until truncated or
               \* lost as Stopped says

clients == <<pc, held, file, new, todo>>
history == <<granted, regranted, acked>>
vars    == <<disk, torn, pc, held, file, new, todo, granted, regranted, acked>>

Memory  == [Pages -> Contents \cup {Absent}]
Indices == 1 .. MaxIndex

InCall == {"truncate", "write", "delete"}
PC     == {"closed", "open"} \cup InCall

Init ==
    /\ disk = Missing /\ torn = {}
    /\ pc = [c \in Clients |-> "closed"]
    /\ held = [c \in Clients |-> 0]
    /\ file = [c \in Clients |-> "meta"]
    /\ new = [c \in Clients |-> Missing]
    /\ todo = [c \in Clients |-> <<>>]
    /\ granted = {} /\ regranted = FALSE /\ acked = {}

GoTo(c, where) == pc' = [pc EXCEPT ![c] = where]

\* c gets its store's mutex.
MutexFree(c) == Shared => \A d \in Clients : pc[d] \notin InCall

MayCall(c) == pc[c] = "open" /\ MutexFree(c)

(***************************************************************************)
(* Reading.  An unreadable file is an error to LoadMetadata and LoadOplog  *)
(* and an empty record to the methods that are about to replace it.        *)
(***************************************************************************)
Readable(f) == f \notin torn

\* What SaveDeltas and SaveOplog start from.
ReadOrEmpty(f) == IF Readable(f) THEN disk[f] ELSE Missing[f]

LoadOplog == IF Readable("oplog") THEN disk["oplog"] ELSE {}

\* LoadMetadata, which begins a session.
Open(c) ==
    /\ pc[c] = "closed" /\ MutexFree(c)
    /\ Readable("meta")
    /\ GoTo(c, "open")
    /\ held' = [held EXCEPT ![c] = disk["meta"]]
    /\ UNCHANGED <<disk, torn, file, new, todo, history>>

(***************************************************************************)
(* Writing.                                                                *)
(***************************************************************************)

\* The call of c is to give f a content.
WillWrite(c, f, content) ==
    /\ MayCall(c)
    /\ GoTo(c, "truncate")
    /\ file' = [file EXCEPT ![c] = f]
    /\ new' = [new EXCEPT ![c] = [Missing EXCEPT ![f] = content]]
    /\ UNCHANGED <<disk, torn, todo, granted, regranted>>

SaveSnapshot(c, memory) ==
    WillWrite(c, "bin", memory) /\ UNCHANGED <<held, acked>>

\* Mutant of AddDeltas: the recorded pages are not read.
AddDeltasAlone(c, p, content) ==
    /\ WillWrite(c, "deltas", [Missing["deltas"] EXCEPT ![p] = content])
    /\ UNCHANGED <<held, acked>>

\* SaveDeltas.
AddDeltas(c, p, content) ==
    /\ WillWrite(c, "deltas", [ReadOrEmpty("deltas") EXCEPT ![p] = content])
    /\ UNCHANGED <<held, acked>>

\* The entry SaveOplog appends to the list it has read.
NewEntry(list, index) ==
    [nr |-> 1 + Max({0} \cup {e.nr : e \in list}),
     index |-> index, api |-> "call", response |-> "answer"]

\* Mutant of AppendOplog: the recorded entries are not read.
AppendOplogAlone(c, index) ==
    /\ WillWrite(c, "oplog", {NewEntry(ReadOrEmpty("oplog"), index)})
    /\ UNCHANGED <<held, acked>>

\* SaveOplog.
AppendOplog(c, index) ==
    LET list == ReadOrEmpty("oplog") IN
    /\ Cardinality(list) < MaxLog
    /\ WillWrite(c, "oplog", list \cup {NewEntry(list, index)})
    /\ UNCHANGED <<held, acked>>

\* TruncateOplog, which gives an unreadable list up to its caller as an error
\* and leaves a missing one alone.
CutOplog(c, before) ==
    /\ Readable("oplog") /\ disk["oplog"] # {}
    /\ WillWrite(c, "oplog", {e \in disk["oplog"] : e.index > before})
    /\ acked' = {e \in acked : e.index > before}
    /\ UNCHANGED held

\* Mutant of Accepts: metadata that cannot be read passes for missing.
AcceptsUnreadable(version) ==
    IF Readable("meta") /\ disk["meta"] # 0 THEN version = disk["meta"]
                                            ELSE version = 0

\* SaveMetadata's conditions.  Of a file that cannot be read, `existing` keeps
\* its zero Version, which no version above 0 equals.
Accepts(version) ==
    IF Readable("meta") /\ disk["meta"] = 0
      THEN version = 0
      ELSE version # 0 /\ version = ReadOrEmpty("meta")

\* meta.Version++.
Incremented(version) == version + 1

\* SaveMetadata; a refusal changes nothing.  The caller's Version is
\* incremented before the file is written.
Swap(c) ==
    /\ held[c] < MaxVersion
    /\ Accepts(held[c])
    /\ WillWrite(c, "meta", Incremented(held[c]))
    /\ held' = [held EXCEPT ![c] = Incremented(@)]
    /\ UNCHANGED acked

\* SaveWasm with no file there yet.  (It is content with a file it finds,
\* whatever is in it.)
StoreWasm(c) ==
    /\ Readable("wasm") /\ ~disk["wasm"]
    /\ WillWrite(c, "wasm", TRUE)
    /\ UNCHANGED <<held, acked>>

\* The call of c is over.
Answer(c) ==
    /\ GoTo(c, "open")
    /\ file' = [file EXCEPT ![c] = "meta"]
    /\ new' = [new EXCEPT ![c] = Missing]
    /\ UNCHANGED <<held, todo>>

\* os.WriteFile opens and truncates the file.
TruncateFile(c) ==
    /\ pc[c] = "truncate"
    /\ torn' = torn \cup {file[c]}
    /\ GoTo(c, "write")
    /\ UNCHANGED <<disk, held, file, new, todo, history>>

\* It fills the file, and the method answers nil (or true).  If another store
\* value has filled the file since, the longer of two contents may stick out.
FillFile(c) ==
    LET f == file[c]
        content == new[c][f]
    IN /\ pc[c] = "write"
       /\ disk' = [disk EXCEPT ![f] = content]
       /\ torn' \in IF f \in torn THEN {torn \ {f}} ELSE {torn, torn \cup {f}}
       /\ Answer(c)
       /\ granted' = IF f = "meta" THEN granted \cup {content} ELSE granted
       /\ regranted' = (regranted \/ (f = "meta" /\ content \in granted))
       /\ acked' = IF f = "oplog" THEN acked \cup content ELSE acked

\* The writing of these files stops halfway, which leaves them torn.  What was
\* in them is lost, but for the version: nobody reads it, and nobody gets
\* another one, until the file is removed.
Stopped(files) ==
    /\ disk' = [f \in Files |-> IF f \in files /\ f # "meta" THEN Missing[f]
                                                         ELSE disk[f]]
    /\ acked' = IF "oplog" \in files THEN {} ELSE acked
    /\ UNCHANGED <<torn, granted, regranted>>

\* The disk is full: the method answers with the error.
FillFileFails(c) ==
    /\ pc[c] = "write"
    /\ Answer(c)
    /\ Stopped({file[c]})

(***************************************************************************)
(* Removing.  (Not of a file that another store value is just filling.)    *)
(* An error is ignored: the file stays, and the caller learns nothing.     *)
(***************************************************************************)
RemoveFile(f) ==
    /\ \A d \in Clients : pc[d] = "write" => file[d] # f
    /\ disk' = [disk EXCEPT ![f] = Missing[f]]
    /\ torn' = torn \ {f}

\* TruncateDeltas.
RemoveDeltas(c) ==
    /\ MayCall(c)
    /\ RemoveFile("deltas")
    /\ UNCHANGED <<clients, history>>

\* The files Delete removes, in this order.
Order == <<"bin", "deltas", "oplog", "meta">>

\* Delete, called by a program that has no session of the instance.
BeginDelete(c) ==
    /\ pc[c] = "closed" /\ MutexFree(c)
    /\ GoTo(c, "delete")
    /\ todo' = [todo EXCEPT ![c] = Order]
    /\ UNCHANGED <<disk, torn, held, file, new, history>>

\* Delete goes on to its next file, or returns.
NextFile(c) ==
    /\ todo' = [todo EXCEPT ![c] = Tail(@)]
    /\ IF Len(todo[c]) = 1 THEN GoTo(c, "closed") ELSE UNCHANGED pc
    /\ UNCHANGED <<held, file, new, regranted>>

DeleteFile(c) ==
    LET f == Head(todo[c]) IN
    /\ pc[c] = "delete"
    /\ RemoveFile(f)
    /\ NextFile(c)
    /\ granted' = IF f = "meta" THEN {} ELSE granted
    /\ acked' = IF f = "oplog" THEN {} ELSE acked

\* The file cannot be removed, and Delete goes on.
PassFile(c) ==
    /\ pc[c] = "delete"
    /\ NextFile(c)
    /\ UNCHANGED <<disk, torn, granted, acked>>

(***************************************************************************)
(* A session ends between calls; a process dies anywhere, and with it all  *)
(* its clients.                                                            *)
(***************************************************************************)
End(S) ==
    /\ pc' = [c \in Clients |-> IF c \in S THEN "closed" ELSE pc[c]]
    /\ held' = [c \in Clients |-> IF c \in S THEN 0 ELSE held[c]]
    /\ todo' = [c \in Clients |-> IF c \in S THEN <<>> ELSE todo[c]]
    /\ file' = [c \in Clients |-> IF c \in S THEN "meta" ELSE file[c]]
    /\ new' = [c \in Clients |-> IF c \in S THEN Missing ELSE new[c]]

Close(c) ==
    /\ pc[c] = "open"
    /\ End({c})
    /\ UNCHANGED <<disk, torn, history>>

\* The clients that share c's process.
Process(c) == IF Shared THEN Clients ELSE {c}

Crash(c) ==
    /\ pc[c] # "closed"
    /\ End(Process(c))
    /\ Stopped({file[d] : d \in {e \in Process(c) : pc[e] = "write"}})

Step(c) ==
    \/ Open(c)
    \/ \E content \in Contents : SaveSnapshot(c, [p \in Pages |-> content])
    \/ \E p \in Pages, content \in Contents : AddDeltas(c, p, content)
    \/ \E index \in Indices : AppendOplog(c, index)
    \/ \E before \in 0 .. MaxIndex : CutOplog(c, before)
    \/ Swap(c)
    \/ StoreWasm(c)
    \/ TruncateFile(c)
    \/ FillFile(c)
    \/ FillFileFails(c)
    \/ RemoveDeltas(c)
    \/ BeginDelete(c)
    \/ DeleteFile(c)
    \/ PassFile(c)
    \/ Close(c)
    \/ Crash(c)

Next == \E c \in Clients : Step(c)

Spec == Init /\ [][Next]_vars

(***************************************************************************)
(* Properties.                                                             *)
(***************************************************************************)

\* The record kept in a file.
Record == [bin |-> "snapshot", deltas |-> "deltas", oplog |-> "log"]

\* The records that are being written.
RecordsWritten ==
    {Record[file[c]] : c \in {d \in Clients : /\ pc[d] = "write"
                                             /\ file[d] \in DOMAIN Record}}

\* The directory as the store of RecordStore, whose calls have no copy that
\* another call could make stale.
Records == INSTANCE RecordStore
             WITH version <- disk["meta"], snapshot <- disk["bin"],
                  deltas <- disk["deltas"], log <- disk["oplog"],
                  Apis <- {"call"}, Responses <- {"answer"},
                  deleting <- \E c \in Clients : pc[c] = "delete",
                  deltaCopies <- {}, logCopies <- {}, writing <- RecordsWritten

\* While one process at a time uses the directory, every method changes one
\* record at once, and adds to a record that is as it was when the method began.
\* Only Delete forgets, and a crash or a full disk: it loses the one record
\* that was just being rewritten, whole, and never moves the version back.
Implements == Records!Spec

\* In one life of an instance SaveMetadata answers true once per version: a
\* caller that lost the race for a version, or comes back after a crash, never
\* gets it too.
VersionGrantedOnce == ~regranted

\* f is not being written.
Settled(f) == \A c \in Clients : pc[c] = "write" => file[c] # f

\* An entry that SaveOplog has answered nil for is returned by LoadOplog until
\* it is truncated, the instance is deleted, or a crash or a full disk stops a
\* later SaveOplog or TruncateOplog while it rewrites the log.
AckedIsStored == Settled("oplog") => acked \subseteq LoadOplog

=============================================================================
