--------------------------- MODULE SnapshotStore ---------------------------
(***************************************************************************)
(* What one workflow instance keeps in a SnapshotStore, and what each      *)
(* method of the store does to it, as operators.  They follow              *)
(* MemorySnapshotStore, whose every method runs under one mutex and is     *)
(* therefore atomic.                                                       *)
(*                                                                         *)
(* Memory is a function from 4096-byte pages to contents.  A content is a  *)
(* number; two contents are equal iff the page's bytes are (so the FNV     *)
(* hash the engine compares is taken to be injective).  Absent marks a     *)
(* page that is not there: not allocated in a memory, not recorded in a    *)
(* snapshot, in the deltas or among the hashes.                            *)
(***************************************************************************)
EXTENDS Integers, FiniteSetsExt

Absent == -1

\* No page recorded: the snapshot or the deltas of an id the store lacks.
Nothing(pages) == [p \in pages |-> Absent]

IsRecorded(pages) == \E p \in DOMAIN pages : pages[p] # Absent

\* The pages of `over` where it has them, the pages of `under` elsewhere: how
\* a snapshot is copied onto memory and how deltas are laid over either.
Overlay(under, over) ==
    [p \in DOMAIN under |-> IF over[p] # Absent THEN over[p] ELSE under[p]]

(***************************************************************************)
(* Snapshot and deltas.                                                    *)
(***************************************************************************)

\* Save replaces the whole snapshot.
Save(stored, memory) == memory

\* Mutant of SaveDeltas: the new pages replace the recorded ones.
SaveDeltasReplaces(stored, dirty) == dirty

\* SaveDeltas adds pages to the recorded ones, the newer content winning.
SaveDeltas(stored, dirty) == Overlay(stored, dirty)

\* Mutant of TruncateDeltas: the record is left alone.
TruncateDeltasKeeps(stored) == stored

TruncateDeltas(stored) == Nothing(DOMAIN stored)

(***************************************************************************)
(* Metadata.  Version 0 stands for "no record": SaveMetadata stores no     *)
(* version below 1, and a session that found no record carries 0.          *)
(***************************************************************************)

\* Mutant of SaveMetadataAccepts: any version is let through once a record
\* exists.
SaveMetadataIgnoresVersion(stored, version) == stored # 0 => version # 0

\* Mutant of SaveMetadataAccepts: a record may be created, never replaced.
SaveMetadataOnlyCreates(stored, version) == stored = 0 /\ version = 0

\* SaveMetadata's conditions: a record and version 0, a record with another
\* version, and no record with a version above 0 all refuse the write.
SaveMetadataAccepts(stored, version) ==
    /\ stored # 0 => version # 0 /\ stored = version
    /\ stored = 0 => version = 0

\* Mutant of NextVersion: the store and its caller both increment the version
\* of a record that exists.
NextVersionTwice(version) == IF version = 0 THEN 1 ELSE version + 2

\* meta.Version++ before the record is written (and in the caller's meta).
NextVersion(version) == version + 1

(***************************************************************************)
(* Operation log: the list of entries as a set, each entry with its number *)
(* in the order of appending.                                              *)
(***************************************************************************)

\* SaveOplog appends without looking for an entry with the same index.
SaveOplog(log, index, api, response) ==
    log \cup {[nr |-> 1 + Max({0} \cup {e.nr : e \in log}),
               index |-> index, api |-> api, response |-> response]}

\* Only the entries above the index survive.
TruncateOplog(log, before) == {e \in log : e.index > before}

=============================================================================
