--------------------------- MODULE S3StoreProofs ---------------------------
(***************************************************************************)
(* S3Store for any clients, pages and bounds, however calls overlap and    *)
(* requests fail: it implements RecordStore, keeps what SaveOplog has      *)
(* acknowledged, and leaves memory without metadata in two ways only.  The *)
(* last part is about the index of active instances (ActiveIndex):         *)
(* LoadActiveIndex on the same bucket, and the list of the other stores,   *)
(* for any instances and pages of any size.                                *)
(***************************************************************************)
EXTENDS S3Store, ActiveIndex, FiniteSetTheorems, WellFoundedInduction, TLAPS

(***************************************************************************)
(* Types.                                                                  *)
(***************************************************************************)
Metas == [version : 0 .. MaxVersion, hash : Hashes]

\* The type invariant with its parts by name.
TypedStore ==
    /\ meta \in Metas /\ snapshot \in Memory /\ deltas \in Memory
    /\ held \in [Clients -> Metas]
    /\ readDeltas \in [Clients -> Memory]

TypedControl ==
    /\ pc \in [Clients -> PC] /\ todo \in [Clients -> 1 .. 4]
    /\ stray \subseteq {"snapshot", "deltas"}

TypedLog ==
    /\ \A e \in log \cup acked : e.index \in Indices
    /\ readLog = [c \in Clients |-> readLog[c]]
    /\ \A c \in Clients : \A e \in readLog[c] : e.index \in Indices

TypeInv == TypedStore /\ TypedControl /\ TypedLog

LEMMA NothingIsMemory == Nothing(Pages) \in Memory
BY DEF Nothing, Memory

LEMMA MissingIsMetas == Missing \in Metas
<1>1. 0 \in 0 .. MaxVersion
  BY BoundsAssumption
<1> QED
  BY <1>1, HashesAssumption DEF Missing, Metas

LEMMA StepStoreTyped ==
    ASSUME TypedStore, NEW c \in Clients, Step(c)
    PROVE  TypedStore'
<1>0. Missing \in Metas /\ Nothing(Pages) \in Memory
  BY MissingIsMetas, NothingIsMemory
<1>1. CASE Open(c)
  BY <1>0, <1>1 DEF Open, bucket, reads, TypedStore
<1>2. ASSUME NEW hash \in Hashes, SaveMetadata(c, hash) PROVE TypedStore'
  <2>1. held[c].version \in 0 .. MaxVersion /\ held[c].version < MaxVersion
    BY <1>2 DEF SaveMetadata, TypedStore, Metas
  <2>2. Successor(held[c].version) \in 0 .. MaxVersion
    BY <2>1, BoundsAssumption DEF Successor
  <2>3. meta' \in Metas
    BY <1>2, <2>2 DEF SaveMetadata, Metas
  <2>4. held' \in [Clients -> Metas]
    BY <1>2, <2>3 DEF SaveMetadata, TypedStore
  <2> QED
    BY <1>2, <2>3, <2>4 DEF SaveMetadata, reads, TypedStore
<1>3. ASSUME NEW content \in Contents, SaveSnapshot(c, [p \in Pages |-> content])
      PROVE  TypedStore'
  <2>1. snapshot' \in Memory
    BY <1>3 DEF SaveSnapshot, Memory
  <2> QED
    BY <1>3, <2>1 DEF SaveSnapshot, clients, TypedStore
<1>4. CASE DeleteDeltas(c)
  BY <1>0, <1>4 DEF DeleteDeltas, clients, TypedStore
<1>5. CASE ReadDeltas(c) \/ ReadLog(c) \/ ReadToTruncate(c)
  BY <1>0, <1>5 DEF ReadDeltas, ReadLog, ReadToTruncate, bucket, TypedStore
<1>6. ASSUME NEW p \in Pages, NEW content \in Contents, PutDeltas(c, p, content)
      PROVE  TypedStore'
  <2>1. readDeltas[c] \in Memory
    BY DEF TypedStore
  <2>2. deltas' \in Memory
    BY <1>6, <2>1 DEF PutDeltas, Memory, Overlay, Nothing
  <2> QED
    BY <1>0, <1>6, <2>2 DEF PutDeltas, EndCall, Unread, TypedStore
<1>7. CASE \/ \E index \in Indices : PutOplog(c, index)
           \/ \E before \in 0 .. MaxIndex : PutTruncated(c, before)
           \/ PutFails(c)
  BY <1>0, <1>7
  DEF PutOplog, PutTruncated, PutFails, EndCall, Unread, bucket, TypedStore
<1>8. CASE BeginDelete(c)
  BY <1>8 DEF BeginDelete, bucket, reads, TypedStore
<1>9. CASE DeleteObject(c) \/ PassObject(c)
  BY <1>0, <1>9 DEF DeleteObject, PassObject, NextObject, bucket, reads, TypedStore
<1>10. CASE Stop(c)
  BY <1>0, <1>10 DEF Stop, Unread, bucket, TypedStore
<1> QED
  BY <1>1, <1>2, <1>3, <1>4, <1>5, <1>6, <1>7, <1>8, <1>9, <1>10 DEF Step

LEMMA StepControlTyped ==
    ASSUME TypedControl, NEW c \in Clients, Step(c)
    PROVE  TypedControl'
<1>1. CASE DeleteObject(c) \/ PassObject(c)
  <2>1. todo[c] \in 1 .. 4
    BY DEF TypedControl
  <2>2. todo[c] < 4 => todo[c] + 1 \in 1 .. 4
    BY <2>1
  <2>3. stray' \subseteq {"snapshot", "deltas"}
    BY <1>1 DEF DeleteObject, PassObject, TypedControl
  <2>4. pc' \in [Clients -> PC] /\ todo' \in [Clients -> 1 .. 4]
    BY <1>1, <2>2 DEF DeleteObject, PassObject, NextObject, GoTo, TypedControl, PC
  <2> QED
    BY <2>3, <2>4 DEF TypedControl
<1>2. CASE ReadDeltas(c) \/ ReadLog(c) \/ ReadToTruncate(c)
  <2>1. UNCHANGED <<todo, stray>>
    BY <1>2 DEF ReadDeltas, ReadLog, ReadToTruncate, history
  <2>2. PICK where \in {"deltas", "oplog", "truncate"} : GoTo(c, where)
    BY <1>2 DEF ReadDeltas, ReadLog, ReadToTruncate
  <2>3. where \in PC
    BY DEF PC, InCall
  <2>4. pc' \in [Clients -> PC]
    BY <2>2, <2>3 DEF GoTo, TypedControl
  <2> QED
    BY <2>1, <2>4 DEF TypedControl
<1>3. CASE Open(c) \/ BeginDelete(c) \/ Stop(c)
  <2>1. UNCHANGED stray
    BY <1>3 DEF Open, BeginDelete, Stop, history
  <2>2. PICK where \in {"open", "delete", "closed"} : GoTo(c, where)
    BY <1>3 DEF Open, BeginDelete, Stop
  <2>3. where \in PC
    BY DEF PC, InCall
  <2>4. pc' \in [Clients -> PC]
    BY <2>2, <2>3 DEF GoTo, TypedControl
  <2>5. \/ UNCHANGED todo
        \/ todo' = [todo EXCEPT ![c] = 1]
    BY <1>3 DEF Open, BeginDelete, Stop
  <2>6. todo' \in [Clients -> 1 .. 4]
    BY <2>5 DEF TypedControl
  <2> QED
    BY <2>1, <2>4, <2>6 DEF TypedControl
<1>4. CASE \/ \E hash \in Hashes : SaveMetadata(c, hash)
           \/ \E content \in Contents : SaveSnapshot(c, [p \in Pages |-> content])
           \/ DeleteDeltas(c)
  BY <1>4
  DEF SaveMetadata, SaveSnapshot, DeleteDeltas, MayStray, clients, history,
      TypedControl
<1>5. CASE \/ \E p \in Pages, content \in Contents : PutDeltas(c, p, content)
           \/ \E index \in Indices : PutOplog(c, index)
           \/ \E before \in 0 .. MaxIndex : PutTruncated(c, before)
           \/ PutFails(c)
  BY <1>5
  DEF PutDeltas, PutOplog, PutTruncated, PutFails, EndCall, MayStray, GoTo,
      history, TypedControl, PC
<1> QED
  BY <1>1, <1>2, <1>3, <1>4, <1>5 DEF Step

LEMMA StepLogTyped ==
    ASSUME TypedLog, NEW c \in Clients, Step(c)
    PROVE  TypedLog'
<1>1. CASE UNCHANGED <<log, acked, readLog>>
  BY <1>1 DEF TypedLog
<1>2. ASSUME NEW index \in Indices, PutOplog(c, index) PROVE TypedLog'
  <2>1. NewEntry(c, index).index \in Indices
    BY DEF NewEntry
  <2> HIDE DEF NewEntry
  <2>2. /\ log' \subseteq readLog[c] \cup {NewEntry(c, index)}
        /\ acked' \subseteq acked \cup {NewEntry(c, index)}
        /\ readLog' = [readLog EXCEPT ![c] = {}]
    BY <1>2 DEF PutOplog, EndCall, Unread
  <2> QED
    BY <2>1, <2>2 DEF TypedLog
<1>3. ASSUME log' \subseteq log \cup readLog[c], acked' \subseteq acked,
             readLog' \in {readLog, [readLog EXCEPT ![c] = {}],
                           [readLog EXCEPT ![c] = log]}
      PROVE  TypedLog'
  <2>1. \A e \in log' \cup acked' : e.index \in Indices
    BY <1>3 DEF TypedLog
  <2>2. CASE readLog' = readLog
    BY <2>1, <2>2 DEF TypedLog
  <2>3. CASE readLog' = [readLog EXCEPT ![c] = {}]
    BY <2>1, <2>3 DEF TypedLog
  <2>4. CASE readLog' = [readLog EXCEPT ![c] = log]
    BY <2>1, <2>4 DEF TypedLog
  <2> QED
    BY <1>3, <2>2, <2>3, <2>4
<1>4. CASE ReadLog(c) \/ ReadToTruncate(c)
  BY <1>3, <1>4 DEF ReadLog, ReadToTruncate, bucket, history
<1>5. ASSUME NEW before \in 0 .. MaxIndex, PutTruncated(c, before) PROVE TypedLog'
  BY <1>3, <1>5 DEF PutTruncated, EndCall, Unread
<1>6. CASE \/ \E p \in Pages, content \in Contents : PutDeltas(c, p, content)
           \/ PutFails(c) \/ Stop(c)
  BY <1>3, <1>6 DEF PutDeltas, PutFails, Stop, EndCall, Unread, bucket, history
<1>7. CASE DeleteObject(c)
  BY <1>3, <1>7 DEF DeleteObject, NextObject, reads
<1>8. CASE \/ Open(c) \/ BeginDelete(c) \/ DeleteDeltas(c) \/ ReadDeltas(c)
           \/ PassObject(c)
           \/ \E hash \in Hashes : SaveMetadata(c, hash)
           \/ \E content \in Contents : SaveSnapshot(c, [p \in Pages |-> content])
  BY <1>1, <1>8
  DEF Open, BeginDelete, DeleteDeltas, ReadDeltas, PassObject, NextObject,
      SaveMetadata, SaveSnapshot, bucket, reads, clients, history
<1> QED
  BY <1>2, <1>4, <1>5, <1>6, <1>7, <1>8 DEF Step

LEMMA InitTypes == Init => TypeInv
<1> SUFFICES ASSUME Init PROVE TypeInv
  OBVIOUS
<1>1. TypedStore
  BY MissingIsMetas, NothingIsMemory DEF Init, TypedStore
<1>2. TypedControl /\ TypedLog
  BY DEF Init, TypedControl, TypedLog, PC
<1> QED
  BY <1>1, <1>2 DEF TypeInv

LEMMA StepTypes == TypeInv /\ [Next]_vars => TypeInv'
<1> SUFFICES ASSUME TypeInv, [Next]_vars PROVE TypeInv'
  OBVIOUS
<1>1. CASE UNCHANGED vars
  BY <1>1 DEF vars, TypeInv, TypedStore, TypedControl, TypedLog
<1>2. CASE Next
  BY <1>2, StepStoreTyped, StepControlTyped, StepLogTyped DEF Next, TypeInv
<1> QED
  BY <1>1, <1>2

\* Every reachable state is well typed, and the version within its bound.
THEOREM TypeCorrect == Spec => []TypeOK
<1>1. TypeInv => TypeOK
  BY DEF TypeInv, TypedStore, TypedControl, TypedLog, TypeOK, Metas
<1> QED
  BY <1>1, InitTypes, StepTypes, PTL DEF Spec

\* A client moves on its own: the others stay where they are, with what they
\* have read.
LEMMA OthersStay ==
    ASSUME TypeInv, NEW c \in Clients, Step(c)
    PROVE  \A d \in Clients : d # c =>
              /\ pc'[d] = pc[d] /\ todo'[d] = todo[d]
              /\ readDeltas'[d] = readDeltas[d] /\ readLog'[d] = readLog[d]
<1>0. /\ pc \in [Clients -> PC] /\ todo \in [Clients -> 1 .. 4]
      /\ readDeltas \in [Clients -> Memory] /\ readLog = [d \in Clients |-> readLog[d]]
  BY DEF TypeInv, TypedStore, TypedControl, TypedLog
<1>1. CASE Open(c) \/ BeginDelete(c) \/ Stop(c)
  BY <1>0, <1>1 DEF Open, BeginDelete, Stop, Unread, GoTo, reads
<1>2. CASE \/ \E hash \in Hashes : SaveMetadata(c, hash)
           \/ \E content \in Contents : SaveSnapshot(c, [p \in Pages |-> content])
           \/ DeleteDeltas(c)
  BY <1>2 DEF SaveMetadata, SaveSnapshot, DeleteDeltas, clients, reads
<1>3. CASE ReadDeltas(c) \/ ReadLog(c) \/ ReadToTruncate(c)
  BY <1>0, <1>3 DEF ReadDeltas, ReadLog, ReadToTruncate, GoTo
<1>4. CASE \/ \E p \in Pages, content \in Contents : PutDeltas(c, p, content)
           \/ \E index \in Indices : PutOplog(c, index)
           \/ \E before \in 0 .. MaxIndex : PutTruncated(c, before)
           \/ PutFails(c)
  BY <1>0, <1>4 DEF PutDeltas, PutOplog, PutTruncated, PutFails, EndCall, Unread, GoTo
<1>5. CASE DeleteObject(c) \/ PassObject(c)
  BY <1>0, <1>5 DEF DeleteObject, PassObject, NextObject, GoTo, reads
<1> QED
  BY <1>1, <1>2, <1>3, <1>4, <1>5 DEF Step

(***************************************************************************)
(* Acknowledged entries.                                                   *)
(***************************************************************************)
AtLog(c) == pc[c] \in {"oplog", "truncate"}

\* Whoever is rewriting the log has read the acknowledged entries.
AckedInv ==
    /\ acked \subseteq log
    /\ \A c \in Clients : AtLog(c) => acked \subseteq readLog[c]

LEMMA StepAcked ==
    ASSUME TypeInv, AckedInv, [Next]_vars PROVE AckedInv'
<1>1. CASE UNCHANGED vars
  BY <1>1 DEF vars, AckedInv, AtLog
<1>2. ASSUME NEW c \in Clients, Step(c) PROVE AckedInv'
  <2>0. /\ pc \in [Clients -> PC] /\ readLog = [d \in Clients |-> readLog[d]]
        /\ \A d \in Clients : d # c => pc'[d] = pc[d] /\ readLog'[d] = readLog[d]
    BY <1>2, OthersStay DEF TypeInv, TypedControl, TypedLog
  <2>1. ASSUME acked' \subseteq log', acked' \subseteq acked,
               AtLog(c)' => acked' \subseteq readLog'[c]
        PROVE  AckedInv'
    BY <2>0, <2>1 DEF AckedInv, AtLog
  <2>2. ASSUME NEW index \in Indices, PutOplog(c, index) PROVE AckedInv'
    <3> DEFINE e == NewEntry(c, index)
    <3>1. /\ AtLog(c) /\ pc'[c] = "open" /\ log' = readLog[c] \cup {e}
          /\ acked' \in {acked, IF AloneAtLog(c) THEN acked \cup {e} ELSE acked}
      BY <2>0, <2>2 DEF PutOplog, EndCall, GoTo, AtLog
    <3> HIDE DEF e
    <3>2. acked \subseteq readLog[c]
      BY <3>1 DEF AckedInv
    <3>3. CASE acked' = acked
      BY <2>1, <3>1, <3>2, <3>3 DEF AtLog
    <3>4. CASE AloneAtLog(c) /\ acked' = acked \cup {e}
      <4>1. \A d \in Clients : ~AtLog(d)'
        BY <2>0, <3>1, <3>4 DEF AloneAtLog, AtLog
      <4> QED
        BY <3>1, <3>2, <3>4, <4>1 DEF AckedInv
    <3> QED
      BY <3>1, <3>3, <3>4
  <2>3. ASSUME NEW before \in 0 .. MaxIndex, PutTruncated(c, before) PROVE AckedInv'
    <3>1. /\ AtLog(c) /\ pc'[c] = "open"
          /\ log' = {e \in readLog[c] : e.index > before}
          /\ acked' = {e \in acked : e.index > before}
      BY <2>0, <2>3 DEF PutTruncated, EndCall, GoTo, AtLog
    <3>2. acked \subseteq readLog[c]
      BY <3>1 DEF AckedInv
    <3> QED
      BY <2>1, <3>1, <3>2 DEF AtLog
  <2>4. CASE ReadLog(c)
    <3>1. PICK found \in {log, {}} :
            readLog'[c] = found /\ acked' = acked \cap found /\ log' = log
      BY <2>0, <2>4 DEF ReadLog, bucket
    <3> QED
      BY <2>1, <3>1 DEF AckedInv
  <2>5. CASE ReadToTruncate(c)
    <3>1. readLog'[c] = log /\ UNCHANGED <<acked, log>>
      BY <2>0, <2>5 DEF ReadToTruncate, bucket, history
    <3> QED
      BY <2>1, <3>1 DEF AckedInv
  <2>6. CASE DeleteObject(c)
    <3>1. pc'[c] \in {"delete", "closed"}
      BY <2>0, <2>6 DEF DeleteObject, NextObject, GoTo
    <3>2. acked' \subseteq acked /\ acked' \subseteq log'
      BY <2>6 DEF DeleteObject, AckedInv
    <3> QED
      BY <2>1, <3>1, <3>2 DEF AtLog
  <2>7. ASSUME UNCHANGED <<log, acked>>, ~AtLog(c)' PROVE AckedInv'
    BY <2>1, <2>7 DEF AckedInv
  <2>8. CASE \/ Open(c) \/ BeginDelete(c) \/ Stop(c) \/ ReadDeltas(c)
             \/ PassObject(c) \/ PutFails(c)
             \/ \E p \in Pages, content \in Contents : PutDeltas(c, p, content)
    <3>1. UNCHANGED <<log, acked>> /\ pc'[c] \notin {"oplog", "truncate"}
      BY <2>0, <2>8
      DEF Open, BeginDelete, Stop, ReadDeltas, PassObject, NextObject, PutFails,
          PutDeltas, EndCall, GoTo, bucket, history
    <3> QED
      BY <2>7, <3>1 DEF AtLog
  <2>9. CASE \/ \E hash \in Hashes : SaveMetadata(c, hash)
             \/ \E content \in Contents : SaveSnapshot(c, [p \in Pages |-> content])
             \/ DeleteDeltas(c)
    BY <2>9 DEF SaveMetadata, SaveSnapshot, DeleteDeltas, clients, reads, history,
                AckedInv, AtLog
  <2> QED
    BY <1>2, <2>2, <2>3, <2>4, <2>5, <2>6, <2>8, <2>9 DEF Step
<1> QED
  BY <1>1, <1>2 DEF Next

\* An entry that was put while no other call was at the log stays there, whoever
\* rewrites the log and dies or fails while doing so, until it is truncated,
\* deleted or misread.
THEOREM AckedStays == Spec => []AckedIsStored
<1>1. Init => AckedInv
  BY DEF Init, AckedInv, AtLog
<1>2. AckedInv => AckedIsStored
  BY DEF AckedInv, AckedIsStored
<1> QED
  BY <1>1, <1>2, InitTypes, StepTypes, StepAcked, PTL DEF Spec

(***************************************************************************)
(* Memory without metadata.                                                *)
(***************************************************************************)
SnapshotGone == snapshot = Nothing(Pages) \/ "snapshot" \in stray
DeltasGone   == deltas = Nothing(Pages) \/ "deltas" \in stray

\* What a Delete has passed is gone or astray, and so is all memory when there is
\* no metadata.
GhostInv ==
    /\ meta.version = 0 => SnapshotGone /\ DeltasGone
    /\ \A c \in Clients :
        /\ pc[c] # "delete" => todo[c] = 1
        /\ todo[c] > 1 => SnapshotGone
        /\ todo[c] > 2 => DeltasGone

LEMMA StepGhost ==
    ASSUME TypeInv, GhostInv, [Next]_vars PROVE GhostInv'
<1>1. CASE UNCHANGED vars
  BY <1>1 DEF vars, GhostInv, SnapshotGone, DeltasGone
<1>2. ASSUME NEW c \in Clients, Step(c) PROVE GhostInv'
  <2>0. /\ pc \in [Clients -> PC] /\ todo \in [Clients -> 1 .. 4]
        /\ \A d \in Clients : d # c => pc'[d] = pc[d] /\ todo'[d] = todo[d]
    BY <1>2, OthersStay DEF TypeInv, TypedControl
  <2>1. ASSUME SnapshotGone => SnapshotGone', DeltasGone => DeltasGone',
               meta'.version = 0 => meta.version = 0,
               pc'[c] # "delete" => todo'[c] = 1,
               todo'[c] \in {1, todo[c]}
        PROVE  GhostInv'
    BY <2>0, <2>1 DEF GhostInv
  <2>2. CASE \/ Open(c) \/ BeginDelete(c) \/ ReadDeltas(c) \/ ReadLog(c)
             \/ ReadToTruncate(c) \/ PutFails(c)
             \/ \E index \in Indices : PutOplog(c, index)
             \/ \E before \in 0 .. MaxIndex : PutTruncated(c, before)
    <3>1. UNCHANGED <<meta, snapshot, deltas, stray, todo>> /\ pc[c] # "delete"
      BY <2>2
      DEF Open, BeginDelete, ReadDeltas, ReadLog, ReadToTruncate, PutFails,
          PutOplog, PutTruncated, EndCall, bucket, history
    <3>2. todo[c] = 1
      BY <3>1 DEF GhostInv
    <3> QED
      BY <2>1, <3>1, <3>2 DEF SnapshotGone, DeltasGone
  <2>3. ASSUME NEW hash \in Hashes, SaveMetadata(c, hash) PROVE GhostInv'
    <3>1. held[c].version \in Nat
      BY BoundsAssumption DEF TypeInv, TypedStore, Metas
    <3>2. meta'.version # 0
      BY <2>3, <3>1 DEF SaveMetadata, Successor
    <3>3. UNCHANGED <<snapshot, deltas, stray, pc, todo>>
      BY <2>3 DEF SaveMetadata, history
    <3> QED
      BY <3>2, <3>3 DEF GhostInv, SnapshotGone, DeltasGone
  <2>4. ASSUME NEW content \in Contents,
               SaveSnapshot(c, [p \in Pages |-> content])
        PROVE  GhostInv'
    <3>1. UNCHANGED <<meta, deltas, pc, todo>> /\ MayStray("snapshot")
      BY <2>4 DEF SaveSnapshot, clients
    <3>2. DeltasGone => DeltasGone'
      BY <3>1 DEF DeltasGone, MayStray
    <3>3. CASE meta.version = 0 \/ \E d \in Clients : pc[d] = "delete"
      <4>1. SnapshotGone'
        BY <3>1, <3>3 DEF MayStray, SnapshotGone
      <4> QED
        BY <3>1, <3>2, <4>1 DEF GhostInv
    <3>4. CASE meta.version # 0 /\ \A d \in Clients : pc[d] # "delete"
      <4>1. \A d \in Clients : todo[d] = 1
        BY <3>4 DEF GhostInv
      <4> QED
        BY <3>1, <3>4, <4>1 DEF GhostInv
    <3> QED
      BY <3>3, <3>4
  <2>5. CASE DeleteDeltas(c)
    <3>1. DeltasGone' /\ (SnapshotGone => SnapshotGone') /\ UNCHANGED <<meta, pc, todo>>
      BY <2>5 DEF DeleteDeltas, clients, SnapshotGone, DeltasGone
    <3> QED
      BY <3>1 DEF GhostInv
  <2>6. ASSUME NEW p \in Pages, NEW content \in Contents, PutDeltas(c, p, content)
        PROVE  GhostInv'
    <3>1. /\ UNCHANGED <<meta, snapshot, todo>> /\ MayStray("deltas")
          /\ pc[c] = "deltas" /\ pc'[c] = "open"
      BY <2>0, <2>6 DEF PutDeltas, EndCall, GoTo
    <3>2. SnapshotGone => SnapshotGone'
      BY <3>1 DEF SnapshotGone, MayStray
    <3>3. CASE meta.version = 0 \/ \E d \in Clients : pc[d] = "delete"
      <4>1. DeltasGone'
        BY <3>1, <3>3 DEF MayStray, DeltasGone
      <4>2. todo[c] = 1
        BY <3>1 DEF GhostInv
      <4> QED
        BY <2>0, <3>1, <3>2, <4>1, <4>2 DEF GhostInv
    <3>4. CASE meta.version # 0 /\ \A d \in Clients : pc[d] # "delete"
      <4>1. \A d \in Clients : todo[d] = 1
        BY <3>4 DEF GhostInv
      <4> QED
        BY <3>1, <3>4, <4>1 DEF GhostInv
    <3> QED
      BY <3>3, <3>4
  <2>7. CASE DeleteObject(c) \/ PassObject(c)
    <3>1. /\ pc[c] = "delete" /\ todo[c] \in 1 .. 4
          /\ todo[c] < 4 => pc'[c] = "delete" /\ todo'[c] = todo[c] + 1
          /\ ~(todo[c] < 4) => pc'[c] = "closed" /\ todo'[c] = 1
      BY <2>0, <2>7 DEF DeleteObject, PassObject, NextObject, GoTo
    <3>2. /\ todo[c] = 1 \/ SnapshotGone => SnapshotGone'
          /\ todo[c] = 2 \/ DeltasGone => DeltasGone'
          /\ meta'.version = 0 => meta.version = 0 \/ todo[c] = 4
      <4>1. CASE DeleteObject(c)
        <5>1. todo[c] = 1 \/ SnapshotGone => SnapshotGone'
          BY <4>1 DEF DeleteObject, Place, SnapshotGone
        <5>2. todo[c] = 2 \/ DeltasGone => DeltasGone'
          BY <4>1 DEF DeleteObject, Place, DeltasGone
        <5>3. meta'.version = 0 => meta.version = 0 \/ todo[c] = 4
          BY <4>1 DEF DeleteObject, Place
        <5> QED
          BY <5>1, <5>2, <5>3
      <4>2. CASE PassObject(c)
        BY <4>2 DEF PassObject, Place, bucket, SnapshotGone, DeltasGone
      <4> QED
        BY <2>7, <4>1, <4>2
    <3>3. (todo'[c] > 1 => SnapshotGone') /\ (todo'[c] > 2 => DeltasGone')
      BY <3>1, <3>2 DEF GhostInv
    <3>4. meta'.version = 0 => SnapshotGone' /\ DeltasGone'
      BY <3>1, <3>2 DEF GhostInv
    <3>5. ASSUME NEW d \in Clients, d # c
          PROVE  /\ pc'[d] # "delete" => todo'[d] = 1
                 /\ todo'[d] > 1 => SnapshotGone'
                 /\ todo'[d] > 2 => DeltasGone'
      BY <2>0, <3>2, <3>5 DEF GhostInv
    <3> QED
      BY <3>1, <3>3, <3>4, <3>5 DEF GhostInv
  <2>8. CASE Stop(c)
    <3>1. UNCHANGED <<meta, snapshot, deltas, stray>> /\ todo'[c] = 1
      BY <2>0, <2>8 DEF Stop, bucket, history
    <3> QED
      BY <2>1, <3>1 DEF SnapshotGone, DeltasGone
  <2> QED
    BY <1>2, <2>2, <2>3, <2>4, <2>5, <2>6, <2>7, <2>8 DEF Step
<1> QED
  BY <1>1, <1>2 DEF Next

\* A new life of an instance finds no memory of an earlier one, wherever calls
\* and Deletes stop and however they overlap, but what a Delete passed over and
\* what a session saved while its instance was deleted or after that.
THEOREM NoGhosts == Spec => []NoGhostMemory
<1>1. Init => GhostInv
  BY DEF Init, GhostInv, SnapshotGone, DeltasGone
<1>2. GhostInv => NoGhostMemory
  BY DEF GhostInv, SnapshotGone, DeltasGone, NoGhostMemory, IsRecorded, Nothing
<1> QED
  BY <1>1, <1>2, InitTypes, StepTypes, StepGhost, PTL DEF Spec

(***************************************************************************)
(* Refinement: each step is a step of RecordStore or changes none of its   *)
(* variables.                                                              *)
(***************************************************************************)
Deleting    == \E c \in Clients : pc[c] = "delete"
DeltaCopies == {readDeltas[c] : c \in {d \in Clients : pc[d] = "deltas"}}
LogCopies   == {readLog[c] : c \in {d \in Clients : pc[d] \in {"oplog", "truncate"}}}

\* A step into no Delete and out of none leaves Deleting alone.
LEMMA DeletingUnchanged ==
    ASSUME NEW c \in Clients, pc[c] # "delete", pc'[c] # "delete",
           \A d \in Clients : d # c => pc'[d] = pc[d]
    PROVE  Deleting' = Deleting
BY DEF Deleting

\* A step of a client that reads nothing adds no copy.
LEMMA NoNewCopy ==
    ASSUME NEW c \in Clients, pc'[c] \notin {"deltas", "oplog", "truncate"},
           \A d \in Clients : d # c =>
              /\ pc'[d] = pc[d]
              /\ readDeltas'[d] = readDeltas[d] /\ readLog'[d] = readLog[d]
    PROVE  DeltaCopies' \subseteq DeltaCopies /\ LogCopies' \subseteq LogCopies
<1>1. ASSUME NEW x \in DeltaCopies' PROVE x \in DeltaCopies
  <2>1. PICK d \in Clients : pc'[d] = "deltas" /\ x = readDeltas'[d]
    BY <1>1 DEF DeltaCopies
  <2> QED
    BY <2>1 DEF DeltaCopies
<1>2. ASSUME NEW x \in LogCopies' PROVE x \in LogCopies
  <2>1. PICK d \in Clients : pc'[d] \in {"oplog", "truncate"} /\ x = readLog'[d]
    BY <1>2 DEF LogCopies
  <2> QED
    BY <2>1 DEF LogCopies
<1> QED
  BY <1>1, <1>2

\* One that reads adds what it has read.
LEMMA OneNewCopy ==
    ASSUME NEW c \in Clients,
           \A d \in Clients : d # c =>
              /\ pc'[d] = pc[d]
              /\ readDeltas'[d] = readDeltas[d] /\ readLog'[d] = readLog[d],
           pc'[c] = "deltas" => readDeltas'[c] \in {deltas, Nothing(Pages)},
           pc'[c] \in {"oplog", "truncate"} => readLog'[c] \in {log, {}}
    PROVE  /\ DeltaCopies' \subseteq DeltaCopies \cup {deltas, Nothing(Pages)}
           /\ LogCopies' \subseteq LogCopies \cup {log, {}}
<1>1. ASSUME NEW x \in DeltaCopies'
      PROVE  x \in DeltaCopies \cup {deltas, Nothing(Pages)}
  <2>1. PICK d \in Clients : pc'[d] = "deltas" /\ x = readDeltas'[d]
    BY <1>1 DEF DeltaCopies
  <2> QED
    BY <2>1 DEF DeltaCopies
<1>2. ASSUME NEW x \in LogCopies' PROVE x \in LogCopies \cup {log, {}}
  <2>1. PICK d \in Clients : pc'[d] \in {"oplog", "truncate"} /\ x = readLog'[d]
    BY <1>2 DEF LogCopies
  <2> QED
    BY <2>1 DEF LogCopies
<1> QED
  BY <1>1, <1>2

LEMMA StepRefines ==
    ASSUME TypeInv, [Next]_vars PROVE [Records!Next]_(Records!vars)
<1>0. TypedStore /\ TypedControl
  BY DEF TypeInv
<1>n. Records!Nothing(Pages) = Nothing(Pages)
  BY DEF Nothing, Absent, Records!Nothing, Records!Absent
<1>1. CASE UNCHANGED vars
  BY <1>1 DEF vars, Records!vars
<1>2. ASSUME NEW c \in Clients, Step(c) PROVE Records!Next \/ UNCHANGED Records!vars
  <2>0. /\ pc \in [Clients -> PC]
        /\ \A d \in Clients : d # c =>
              /\ pc'[d] = pc[d]
              /\ readDeltas'[d] = readDeltas[d] /\ readLog'[d] = readLog[d]
    BY <1>0, <1>2, OthersStay DEF TypedControl
  \* What every step with another effect on the records shares.
  <2>a. ASSUME DeltaCopies' \subseteq DeltaCopies, LogCopies' \subseteq LogCopies
        PROVE  Records!NothingBegins
    BY <2>a DEF Records!NothingBegins, DeltaCopies, LogCopies
  <2>b. ASSUME UNCHANGED bucket, Deleting' = Deleting,
               DeltaCopies' \subseteq DeltaCopies \cup {deltas, Nothing(Pages)},
               LogCopies' \subseteq LogCopies \cup {log, {}}
        PROVE  Records!Next
    <3>1. Records!Proceed
      BY <1>n, <2>b DEF Records!Proceed, bucket, DeltaCopies, LogCopies, Deleting
    <3> QED
      BY <3>1 DEF Records!Next
  <2>1. CASE Open(c) \/ PutFails(c)
    <3>1. /\ UNCHANGED bucket
          /\ pc[c] # "delete" /\ pc'[c] = "open"
      BY <2>0, <2>1 DEF Open, PutFails, EndCall, GoTo
    <3> QED
      BY <2>0, <2>b, <3>1, DeletingUnchanged, NoNewCopy
  <2>2. ASSUME NEW hash \in Hashes, SaveMetadata(c, hash) PROVE Records!Next
    <3>1. UNCHANGED <<snapshot, deltas, log, pc, readDeltas, readLog>>
      BY <2>2 DEF SaveMetadata, reads
    <3>2. meta'.version = NextVersion(meta.version)
      BY <1>0, <2>2
      DEF SaveMetadata, PreconditionHolds, Successor, NextVersion, TypedStore, Metas
    <3>3. SaveMetadataAccepts(meta.version, meta.version)
      BY DEF SaveMetadataAccepts
    <3>4. Records!NothingBegins
      BY <2>a, <3>1 DEF DeltaCopies, LogCopies
    <3>5. Records!Advance(meta.version)
      BY <3>1, <3>2, <3>3, <3>4
      DEF Records!Advance, Records!NextVersion, Records!SaveMetadataAccepts,
          NextVersion, SaveMetadataAccepts
    <3> QED
      BY <3>5 DEF Records!Next
  <2>3. ASSUME NEW content \in Contents,
               SaveSnapshot(c, [p \in Pages |-> content])
        PROVE  Records!Next
    <3>1. [p \in Pages |-> content] \in Records!Memory
      BY DEF Records!Memory, Records!Absent
    <3>2. /\ UNCHANGED <<meta, deltas, log, pc, readDeltas, readLog>>
          /\ snapshot' = [p \in Pages |-> content]
      BY <2>3 DEF SaveSnapshot, clients
    <3>3. Records!NothingBegins
      BY <2>a, <3>2 DEF DeltaCopies, LogCopies
    <3>4. Records!Replace([p \in Pages |-> content])
      BY <3>2, <3>3 DEF Records!Replace, Records!Save
    <3> QED
      BY <3>1, <3>4 DEF Records!Next
  <2>4. CASE DeleteDeltas(c)
    <3>1. Records!TruncateDeltas(deltas) = Nothing(Pages)
      BY <1>0
      DEF TypedStore, Memory, Nothing, Absent, Records!TruncateDeltas,
          Records!Nothing, Records!Absent
    <3>2. /\ UNCHANGED <<meta, snapshot, log, pc, readDeltas, readLog>>
          /\ deltas' = Nothing(Pages)
      BY <2>4 DEF DeleteDeltas, clients
    <3>3. Records!NothingBegins
      BY <2>a, <3>2 DEF DeltaCopies, LogCopies
    <3>4. Records!Clear
      BY <3>1, <3>2, <3>3 DEF Records!Clear
    <3> QED
      BY <3>4 DEF Records!Next
  <2>5. CASE ReadDeltas(c) \/ ReadLog(c) \/ ReadToTruncate(c)
    <3>1. /\ UNCHANGED bucket /\ pc[c] = "open"
          /\ pc'[c] \in {"deltas", "oplog", "truncate"}
          /\ pc'[c] = "deltas" => readDeltas'[c] \in {deltas, Nothing(Pages)}
          /\ pc'[c] \in {"oplog", "truncate"} => readLog'[c] \in {log, {}}
      <4>1. readDeltas \in [Clients -> Memory] /\ readLog = [d \in Clients |-> readLog[d]]
        BY DEF TypeInv, TypedStore, TypedLog
      <4> QED
        BY <2>0, <2>5, <4>1 DEF ReadDeltas, ReadLog, ReadToTruncate, GoTo
    <3> QED
      BY <2>0, <2>b, <3>1, DeletingUnchanged, OneNewCopy
  <2>6. ASSUME NEW p \in Pages, NEW content \in Contents, PutDeltas(c, p, content)
        PROVE  Records!Next
    <3> DEFINE dirty == [Nothing(Pages) EXCEPT ![p] = content]
    <3>1. dirty \in Records!Memory
      BY DEF Records!Memory, Records!Absent, Nothing, Absent
    <3>2. /\ pc[c] = "deltas" /\ pc'[c] = "open" /\ UNCHANGED <<meta, snapshot, log>>
          /\ deltas' = Records!SaveDeltas(readDeltas[c], dirty)
      BY <2>0, <2>6
      DEF PutDeltas, EndCall, GoTo, Overlay, Absent, Records!SaveDeltas,
          Records!Overlay, Records!Absent
    <3> HIDE DEF dirty
    <3>3. readDeltas[c] \in DeltaCopies
      BY <3>2 DEF DeltaCopies
    <3>4. Records!NothingBegins /\ Deleting' = Deleting
      BY <2>0, <2>a, <3>2, NoNewCopy, DeletingUnchanged
    <3>5. Records!Add(readDeltas[c], dirty)
      BY <3>2, <3>4 DEF Records!Add, Deleting
    <3> QED
      BY <3>1, <3>3, <3>5 DEF Records!Next, DeltaCopies
  <2>7. ASSUME NEW index \in Indices, PutOplog(c, index) PROVE Records!Next
    <3>1. /\ pc[c] = "oplog" /\ pc'[c] = "open" /\ UNCHANGED <<meta, snapshot, deltas>>
      BY <2>0, <2>7 DEF PutOplog, EndCall, GoTo
    <3>2. log' = Records!SaveOplog(readLog[c], index, "call", "answer")
      BY <2>7 DEF PutOplog, NewEntry, Records!SaveOplog, Max, Records!Max
    <3>3. readLog[c] \in LogCopies
      BY <3>1 DEF LogCopies
    <3>4. Records!NothingBegins /\ Deleting' = Deleting
      BY <2>0, <2>a, <3>1, NoNewCopy, DeletingUnchanged
    <3>5. Records!Append(readLog[c], index, "call", "answer")
      BY <3>1, <3>2, <3>4 DEF Records!Append, Deleting
    <3> QED
      BY <3>3, <3>5 DEF Records!Next, LogCopies
  <2>8. ASSUME NEW before \in 0 .. MaxIndex, PutTruncated(c, before)
        PROVE  Records!Next
    <3>1. /\ pc[c] = "truncate" /\ pc'[c] = "open"
          /\ UNCHANGED <<meta, snapshot, deltas>>
          /\ log' = Records!TruncateOplog(readLog[c], before)
      BY <2>0, <2>8 DEF PutTruncated, EndCall, GoTo, Records!TruncateOplog
    <3>2. readLog[c] \in LogCopies
      BY <3>1 DEF LogCopies
    <3>3. Records!NothingBegins /\ Deleting' = Deleting
      BY <2>0, <2>a, <3>1, NoNewCopy, DeletingUnchanged
    <3>4. Records!Cut(readLog[c], before)
      BY <3>1, <3>3 DEF Records!Cut, Deleting
    <3>5. before \in Indices \cup {0}
      BY BoundsAssumption DEF Indices
    <3> QED
      BY <3>2, <3>4, <3>5 DEF Records!Next, LogCopies
  <2>9. CASE BeginDelete(c)
    <3>1. UNCHANGED bucket /\ pc'[c] = "delete"
      BY <2>0, <2>9 DEF BeginDelete, GoTo
    <3>2. Deleting' /\ Records!NothingBegins
      BY <2>0, <2>a, <3>1, NoNewCopy DEF Deleting
    <3>3. CASE Deleting
      <4>1. Records!Forget
        BY <3>1, <3>2, <3>3 DEF Records!Forget, bucket, Deleting
      <4> QED
        BY <4>1 DEF Records!Next
    <3>4. CASE ~Deleting
      <4>1. Records!BeginDelete
        BY <3>1, <3>2, <3>4 DEF Records!BeginDelete, bucket, Deleting
      <4> QED
        BY <4>1 DEF Records!Next
    <3> QED
      BY <3>3, <3>4
  <2>10. CASE DeleteObject(c) \/ PassObject(c) \/ (Stop(c) /\ pc[c] = "delete")
    <3>1. /\ pc[c] = "delete" /\ pc'[c] \in {"delete", "closed"}
          /\ meta'.version \in {meta.version, 0}
          /\ snapshot' \in {snapshot, Nothing(Pages)}
          /\ deltas' \in {deltas, Nothing(Pages)}
          /\ log' \in {log, {}}
      BY <2>0, <2>10
      DEF DeleteObject, PassObject, Stop, NextObject, GoTo, bucket, Missing
    <3>2. Records!NothingBegins
      BY <2>0, <2>a, <3>1, NoNewCopy
    <3>3. Deleting /\ Deleting' \in BOOLEAN
      BY <3>1 DEF Deleting
    <3>4. Records!Forget
      BY <1>n, <3>1, <3>2, <3>3 DEF Records!Forget, Deleting
    <3> QED
      BY <3>4 DEF Records!Next
  <2>11. CASE Stop(c) /\ pc[c] # "delete"
    <3>1. UNCHANGED bucket /\ pc'[c] = "closed"
      BY <2>0, <2>11 DEF Stop, GoTo
    <3> QED
      BY <2>0, <2>11, <2>b, <3>1, DeletingUnchanged, NoNewCopy
  <2> QED
    BY <1>2, <2>1, <2>2, <2>3, <2>4, <2>5, <2>6, <2>7, <2>8, <2>9, <2>10, <2>11
    DEF Step
<1> QED
  BY <1>1, <1>2 DEF Next

\* S3SnapshotStore is a RecordStore, however calls overlap, requests fail or are
\* misread, answers are lost and processes die.
THEOREM Refinement == Spec => Implements
<1>1. Init => Records!Init
  BY DEF Init, Missing, Nothing, Absent, Records!Init, Records!Nothing,
         Records!Absent
<1>2. TypeInv /\ [Next]_vars => [Records!Next]_(Records!vars)
  BY StepRefines
<1> QED
  BY <1>1, <1>2, InitTypes, StepTypes, PTL DEF Spec, Implements, Records!Spec

(***************************************************************************)
(* The index of active instances in the same bucket.                       *)
(***************************************************************************)

\* A set of numbers that is not empty has a least one.
LEMMA LeastNumber ==
    ASSUME NEW T \in SUBSET Nat, T # {}
    PROVE  \E x \in T : \A y \in T : x <= y
<1> DEFINE U == {0 .. x : x \in T}
<1>1. U \subseteq FiniteSubsetsOf(Nat) /\ U # {}
  <2>1. \A x \in Nat : 0 .. x \subseteq Nat /\ IsFiniteSet(0 .. x)
    BY FS_Interval
  <2>2. ASSUME NEW u \in U PROVE u \in FiniteSubsetsOf(Nat)
    BY <2>1 DEF FiniteSubsetsOf
  <2> QED
    BY <2>2
<1>2. IsWellFoundedOn(StrictSubsetOrdering(Nat), FiniteSubsetsOf(Nat))
  BY FS_StrictSubsetOrderingWellFounded
<1>3. PICK m \in U : \A u \in U : <<u, m>> \notin StrictSubsetOrdering(Nat)
  BY <1>1, <1>2, WFMin
<1>4. PICK x \in T : m = 0 .. x
  BY <1>3
<1>5. ASSUME NEW y \in T, y < x PROVE FALSE
  <2>1. 0 .. y \in SUBSET Nat /\ 0 .. x \in SUBSET Nat
    OBVIOUS
  <2>2. 0 .. y \subseteq 0 .. x /\ 0 .. y # 0 .. x
    BY <1>5
  <2>3. <<0 .. y, m>> \in StrictSubsetOrdering(Nat)
    BY <1>4, <2>1, <2>2 DEF StrictSubsetOrdering
  <2> QED
    BY <1>3, <2>3
<1> HIDE DEF U
<1>6. \A y \in T : y \in Nat /\ ~(y < x)
  BY <1>5
<1>7. \A y \in T : x <= y
  BY <1>4, <1>6
<1> QED
  BY <1>4, <1>7

(***************************************************************************)
(* A page of a listing.                                                    *)
(***************************************************************************)
Below(rest, k) == {j \in rest : j < k}
PageOf(rest) == {k \in rest : Cardinality(Below(rest, k)) < PageSize}

\* The larger a key, the more keys are below it.
LEMMA BelowGrows ==
    ASSUME NEW rest \in SUBSET Nat, NEW k \in rest, NEW l \in rest, k < l
    PROVE  /\ Cardinality(Below(rest, k)) \in Nat
           /\ Cardinality(Below(rest, l)) \in Nat
           /\ Cardinality(Below(rest, k)) < Cardinality(Below(rest, l))
<1>1. \A m \in rest : IsFiniteSet(Below(rest, m))
  BY FS_BoundedSetOfNaturals DEF Below
<1>2. \A m \in rest : Cardinality(Below(rest, m)) \in Nat
  BY <1>1, FS_CardinalityType
<1>3. k \in Below(rest, l) /\ k \notin Below(rest, k)
  BY DEF Below
<1>4. Below(rest, k) \in SUBSET Below(rest, l)
  <2>1. k \in Nat /\ l \in Nat /\ \A j \in rest : j \in Nat
    OBVIOUS
  <2>2. ASSUME NEW j \in rest, j < k PROVE j < l
    BY <2>1, <2>2
  <2> QED
    BY <2>2 DEF Below
<1>5. /\ Cardinality(Below(rest, k)) <= Cardinality(Below(rest, l))
      /\ Cardinality(Below(rest, k)) # Cardinality(Below(rest, l))
  BY <1>1, <1>3, <1>4, FS_Subset
<1> QED
  BY <1>2, <1>5

\* Keys with no more than a bounded number of keys below them have a largest.
LEMMA LargestKey ==
    ASSUME NEW rest \in SUBSET Nat, NEW some \in SUBSET rest, some # {},
           NEW bound \in Nat, \A k \in some : Cardinality(Below(rest, k)) <= bound
    PROVE  \E m \in some : \A k \in some : k <= m
<1> DEFINE card == [k \in rest |-> Cardinality(Below(rest, k))]
           T == {bound - card[k] : k \in some}
<1>1. \A k \in some : k \in rest /\ k \in Nat
  OBVIOUS
<1>2. \A k \in rest : card[k] \in Nat
  <2>1. \A k \in rest : IsFiniteSet(Below(rest, k))
    BY FS_BoundedSetOfNaturals DEF Below
  <2> QED
    BY <2>1, FS_CardinalityType
<1>3. \A k, l \in rest : k < l => card[k] < card[l]
  BY BelowGrows
<1>4. \A k \in some : card[k] <= bound
  BY <1>1
<1> HIDE DEF card
<1>5. \A k \in some : bound - card[k] \in Nat
  BY <1>1, <1>2, <1>4
<1>6. T \in SUBSET Nat /\ T # {}
  BY <1>5
<1>7. PICK x \in T : \A y \in T : x <= y
  BY <1>6, LeastNumber
<1>8. PICK m \in some : x = bound - card[m]
  BY <1>7
<1>9. \A k \in some : bound - card[k] \in T
  OBVIOUS
<1> HIDE DEF T
<1>10. ASSUME NEW k \in some PROVE k <= m
  <2>1. bound - card[m] <= bound - card[k]
    BY <1>7, <1>8, <1>9
  <2>2. card[k] \in Nat /\ card[m] \in Nat
    BY <1>1, <1>2, <1>8
  <2>3. card[k] <= card[m]
    BY <2>1, <2>2
  <2>4. k \in rest /\ m \in rest /\ k \in Nat /\ m \in Nat
    BY <1>1, <1>8
  <2>5. m < k => card[m] < card[k]
    BY <1>3, <2>4
  <2> QED
    BY <2>2, <2>3, <2>4, <2>5
<1> QED
  BY <1>8, <1>10

\* No key up to the last one of a page is left out of it.
LEMMA PageIsWhole ==
    ASSUME NEW rest \in SUBSET Nat, NEW after \in Nat,
           \A k \in rest : k > after
    PROVE  /\ Max({after} \cup PageOf(rest)) \in Nat
           /\ \A k \in rest :
                k <= Max({after} \cup PageOf(rest)) => k \in PageOf(rest)
<1> DEFINE page == PageOf(rest)
           card == [k \in rest |-> Cardinality(Below(rest, k))]
           last == Max({after} \cup page)
<1>0. rest \subseteq Nat
  OBVIOUS
<1>1. \A k \in rest : card[k] \in Nat
  <2>1. \A k \in rest : IsFiniteSet(Below(rest, k))
    BY FS_BoundedSetOfNaturals DEF Below
  <2> QED
    BY <2>1, FS_CardinalityType
<1>2. page \subseteq rest /\ \A k \in rest : k \in page <=> card[k] < PageSize
  BY DEF PageOf
<1>3. \A k, l \in rest : k < l => card[k] < card[l]
  BY BelowGrows
<1>4. PageSize \in Nat
  BY PageAssumption
<1>5. ASSUME NEW m \in {after} \cup page, \A k \in {after} \cup page : m >= k
      PROVE  last = m
  <2>1. {after} \cup page \subseteq Nat
    BY <1>2
  <2> QED
    BY <1>5, <2>1 DEF Max
<1> HIDE DEF card, page, last
<1>6. ASSUME page = {}
      PROVE  last \in Nat /\ \A k \in rest : k <= last => k \in page
  <2>1. last = after
    BY <1>5, <1>6
  <2>2. \A k \in rest : ~(k <= after)
    BY <1>0
  <2> QED
    BY <2>1, <2>2
<1>7. ASSUME page # {}
      PROVE  last \in Nat /\ \A k \in rest : k <= last => k \in page
  <2>1. \A k \in page : k \in rest /\ Cardinality(Below(rest, k)) <= PageSize
    <3>1. ASSUME NEW k \in page PROVE card[k] <= PageSize
      BY <1>1, <1>2, <1>4
    <3> QED
      BY <1>2, <3>1 DEF card
  <2>2. page \in SUBSET rest
    BY <1>2
  <2>3. PICK m \in page : \A k \in page : k <= m
    BY <1>4, <1>7, <2>1, <2>2, LargestKey
  <2>4. ASSUME NEW k \in page PROVE m >= k
    BY <1>0, <1>2, <2>3
  <2>5. last = m
    <3>1. m \in rest /\ m \in Nat
      BY <1>0, <1>2, <2>3
    <3>2. m > after
      BY <3>1
    <3>3. m >= after
      BY <3>1, <3>2
    <3> QED
      BY <1>5, <2>3, <2>4, <3>3
  <2>6. ASSUME NEW k \in rest, k <= m PROVE k \in page
    BY <1>0, <1>1, <1>2, <1>3, <1>4, <2>3, <2>6
  <2> QED
    BY <1>0, <1>2, <2>5, <2>6
<1>8. last \in Nat /\ \A k \in rest : k <= last => k \in page
  BY <1>6, <1>7
<1> QED
  BY <1>8 DEF last, page

(***************************************************************************)
(* The invariant of a call of LoadActiveIndex.                             *)
(***************************************************************************)
\* What active.json can be.
Stored == Infos \cup {Garbled}

TypedIndex ==
    /\ active \in [Instances -> Stored \cup {None}]
    /\ records \subseteq Instances
    /\ at \in {"idle", "list", "receive"}
    /\ cursor \in Nat
    /\ keys \subseteq Instances
    /\ worker \in [Instances -> {"none", "read", "send"}]
    /\ result \in [Instances -> Stored \cup {None, Failed}]
    /\ seen \in [Instances -> SUBSET (Stored \cup {None})]

\* What active.json is, it has been since the call began.
ActiveIsSeen == at # "idle" => \A i \in Instances : active[i] \in seen[i]

\* An instance that was listed had its object then,
ListedWasThere == at # "idle" => \A i \in keys : seen[i] # {None}

\* and one that the listing passed by had none.
Passed(i) == i \notin keys /\ (at = "receive" \/ 2 * i - 1 <= cursor)
PassedWasMissing ==
    at # "idle" => \A i \in Instances : Passed(i) => None \in seen[i]

\* While the bucket is listed no goroutine of any call is left.
NoGoroutine ==
    at = "list" => /\ chan = {} /\ received = {}
                   /\ \A i \in Instances : worker[i] = "none"

\* A goroutine reads what the object is at that moment, once.
Answered ==
    at = "receive" =>
        /\ chan \subseteq keys
        /\ \A i \in Instances :
            /\ worker[i] # "none" => i \in keys /\ i \notin chan /\ i \notin received
            /\ i \in chan \/ worker[i] = "send" => result[i] \in seen[i] \cup {Failed}
            /\ i \in received => result[i] \in seen[i]

IndexInv ==
    /\ TypedIndex /\ ActiveIsSeen /\ ListedWasThere /\ PassedWasMissing
    /\ NoGoroutine /\ Answered

LEMMA InitIndex ==
    ASSUME IndexInit
    PROVE  IndexInv
<1>1. TypedIndex
  BY DEF IndexInit, TypedIndex
<1>2. at = "idle"
  BY DEF IndexInit
<1> QED
  BY <1>1, <1>2
  DEF IndexInv, ActiveIsSeen, ListedWasThere, PassedWasMissing, NoGoroutine, Answered

\* The updates of active.json, by whichever client.
LEMMA StepPut ==
    ASSUME IndexInv, NEW i \in Instances,
           NEW info \in Stored \cup {None}, PutObject(i, info),
           records' \subseteq Instances, UNCHANGED call
    PROVE  IndexInv'
<1>1. /\ active' = [active EXCEPT ![i] = info]
      /\ UNCHANGED <<at, cursor, keys, worker, result, chan, received>>
      /\ at = "idle" => seen' = seen
      /\ at # "idle" => seen' = [seen EXCEPT ![i] = @ \cup {info}]
  BY DEF PutObject, call
<1>2. TypedIndex'
  BY <1>1 DEF IndexInv, TypedIndex
<1>3. ASSUME at # "idle", NEW j \in Instances
      PROVE  /\ seen[j] \subseteq seen'[j]
             /\ active'[j] = active[j] \/ active'[j] \in seen'[j]
             /\ seen[j] # {None} /\ seen[j] # {} => seen'[j] # {None}
  BY <1>1, <1>3 DEF IndexInv, TypedIndex
<1>4. ActiveIsSeen'
  BY <1>1, <1>3 DEF IndexInv, ActiveIsSeen
<1>5. ListedWasThere'
  <2>1. at # "idle" => \A j \in keys : seen[j] # {}
    BY DEF IndexInv, TypedIndex, ActiveIsSeen
  <2> QED
    BY <1>1, <1>3, <2>1 DEF IndexInv, TypedIndex, ListedWasThere
<1>6. PassedWasMissing'
  BY <1>1, <1>3 DEF IndexInv, PassedWasMissing, Passed
<1>7. NoGoroutine' /\ Answered'
  BY <1>1, <1>3 DEF IndexInv, NoGoroutine, Answered
<1> QED
  BY <1>2, <1>4, <1>5, <1>6, <1>7 DEF IndexInv

\* A step that ends the call.
LEMMA StepReturn ==
    ASSUME IndexInv, Return,
           UNCHANGED <<active, records, result>>, keys' \subseteq Instances,
           worker' \in [Instances -> {"none", "read", "send"}]
    PROVE  IndexInv'
<1>1. at' = "idle" /\ cursor' = 0 /\ seen' = [i \in Instances |-> {}]
  BY DEF Return
<1>2. TypedIndex'
  BY <1>1 DEF IndexInv, TypedIndex
<1> QED
  BY <1>1, <1>2
  DEF IndexInv, ActiveIsSeen, ListedWasThere, PassedWasMissing, NoGoroutine, Answered

\* The last key of the next page.
LastKey == Max({cursor} \cup PageOf({k \in Objects : k > cursor}))

\* What a page adds, and what it does not leave out.
LEMMA PageMoves ==
    ASSUME IndexInv, NextPage
    PROVE  /\ at = "list" /\ LastKey \in Nat
           /\ keys \subseteq keys' /\ keys' \subseteq Instances
           /\ \A i \in keys' : i \in keys \/ active[i] # None
           /\ \A i \in Instances :
                /\ i \notin keys' /\ 2 * i - 1 > cursor
                /\ 2 * i - 1 <= LastKey \/ ~HasMorePages(Objects, LastKey)
                => active[i] = None
<1> DEFINE rest == {k \in Objects : k > cursor}
           page == PageOf(rest)
<1>0. cursor \in Nat /\ Instances \subseteq Nat \ {0} /\ keys \subseteq Instances
  BY InstancesAssumption, PageAssumption DEF IndexInv, TypedIndex
<1>1. Objects \in SUBSET Nat
  BY <1>0 DEF Objects, ActiveKey, MetaKey, IndexInv, TypedIndex
<1>2. \A i \in Instances : 2 * i - 1 \in Objects <=> active[i] # None
  <2> SUFFICES ASSUME NEW i \in Instances
               PROVE  2 * i - 1 \in Objects <=> active[i] # None
    OBVIOUS
  <2>1. \A j \in Instances : 2 * i - 1 = 2 * j - 1 => i = j
    BY <1>0
  <2>2. \A j \in Instances : 2 * i - 1 # 2 * j
    BY <1>0
  <2> QED
    BY <2>1, <2>2 DEF Objects, ActiveKey, MetaKey, IndexInv, TypedIndex
<1>3. /\ at = "list"
      /\ LastKey = Max({cursor} \cup page)
      /\ keys' = keys \cup {i \in Instances : 2 * i - 1 \in page}
  BY DEF NextPage, Listed, ActiveKey, LastKey, PageOf, Below
<1>4. LastKey \in Nat /\ \A k \in rest : k <= LastKey => k \in page
  BY <1>0, <1>1, <1>3, PageIsWhole
<1>5. page \subseteq Objects
  BY DEF PageOf
<1> HIDE DEF page
<1>6. \A i \in keys' : i \in keys \/ active[i] # None
  BY <1>2, <1>3, <1>5
<1>7. ASSUME NEW i \in Instances, i \notin keys', 2 * i - 1 > cursor,
             2 * i - 1 <= LastKey \/ ~HasMorePages(Objects, LastKey)
      PROVE  active[i] = None
  <2>1. 2 * i - 1 \in Nat /\ 2 * i - 1 \notin page
    BY <1>0, <1>3, <1>7
  <2>2. CASE 2 * i - 1 <= LastKey
    <3>1. 2 * i - 1 \notin rest
      BY <1>4, <2>1, <2>2
    <3> QED
      BY <1>2, <1>7, <3>1
  <2>3. CASE ~(2 * i - 1 <= LastKey)
    <3>1. 2 * i - 1 \notin Objects
      BY <1>4, <1>7, <2>1, <2>3 DEF HasMorePages
    <3> QED
      BY <1>2, <3>1
  <2> QED
    BY <2>2, <2>3
<1> QED
  BY <1>0, <1>3, <1>4, <1>6, <1>7

LEMMA StepPage ==
    ASSUME IndexInv, NextPage
    PROVE  IndexInv'
<1>1. /\ at = "list" /\ LastKey \in Nat
      /\ keys \subseteq keys' /\ keys' \subseteq Instances
      /\ \A i \in keys' : i \in keys \/ active[i] # None
  BY PageMoves
<1>2. UNCHANGED <<active, records, result, chan>>
  BY DEF NextPage, indexObjects
<1>3. \A i \in Instances : active[i] \in seen[i]
  BY <1>1 DEF IndexInv, ActiveIsSeen
<1>4. \A i \in keys' : seen[i] # {None}
  BY <1>1, <1>3 DEF IndexInv, ListedWasThere
<1>5. ASSUME NEW i \in Instances, i \notin keys',
             2 * i - 1 <= LastKey \/ ~HasMorePages(Objects, LastKey)
      PROVE  None \in seen[i]
  <2>1. CASE 2 * i - 1 > cursor
    <3>1. active[i] = None
      BY <1>5, <2>1, PageMoves
    <3> QED
      BY <1>3, <3>1
  <2>2. CASE ~(2 * i - 1 > cursor)
    <3>1. i \in Nat /\ cursor \in Nat
      BY InstancesAssumption, NoneAssumption DEF IndexInv, TypedIndex
    <3>2. 2 * i - 1 <= cursor
      BY <2>2, <3>1
    <3>3. Passed(i)
      BY <1>1, <1>5, <3>2 DEF Passed
    <3> QED
      BY <1>1, <3>3 DEF IndexInv, PassedWasMissing
  <2> QED
    BY <2>1, <2>2
<1>6. CASE HasMorePages(Objects, LastKey)
  <2>1. cursor' = LastKey /\ UNCHANGED <<at, worker, received, seen>>
    BY <1>6 DEF NextPage, LastKey, PageOf, Below
  <2>2. TypedIndex' /\ ActiveIsSeen'
    BY <1>1, <1>2, <2>1 DEF IndexInv, TypedIndex, ActiveIsSeen
  <2>3. ListedWasThere' /\ NoGoroutine' /\ Answered'
    BY <1>1, <1>2, <1>4, <2>1 DEF IndexInv, ListedWasThere, NoGoroutine, Answered
  <2>4. PassedWasMissing'
    BY <1>1, <1>5, <2>1 DEF PassedWasMissing, Passed
  <2> QED
    BY <2>2, <2>3, <2>4 DEF IndexInv
<1>7. CASE ~HasMorePages(Objects, LastKey)
  <2>1. /\ worker' = [i \in Instances |-> IF i \in keys' THEN "read" ELSE "none"]
        /\ \/ Return
           \/ at' = "receive" /\ cursor' = 0 /\ UNCHANGED <<received, seen>>
    BY <1>7 DEF NextPage, LastKey, PageOf, Below
  <2>2. worker' \in [Instances -> {"none", "read", "send"}]
    BY <2>1
  <2>3. CASE Return
    BY <1>1, <1>2, <2>2, <2>3, StepReturn
  <2>4. CASE at' = "receive" /\ cursor' = 0 /\ UNCHANGED <<received, seen>>
    <3>1. TypedIndex' /\ ActiveIsSeen'
      BY <1>1, <1>2, <1>3, <2>2, <2>4 DEF IndexInv, TypedIndex, ActiveIsSeen
    <3>2. ListedWasThere' /\ NoGoroutine'
      BY <1>4, <2>4 DEF ListedWasThere, NoGoroutine
    <3>3. PassedWasMissing'
      BY <1>5, <1>7, <2>4 DEF PassedWasMissing, Passed
    <3>4. chan' = {} /\ received' = {}
      BY <1>1, <1>2, <2>4 DEF IndexInv, NoGoroutine
    <3>5. Answered'
      BY <2>1, <2>4, <3>4 DEF Answered
    <3> QED
      BY <3>1, <3>2, <3>3, <3>5 DEF IndexInv
  <2> QED
    BY <2>1, <2>3, <2>4
<1> QED
  BY <1>6, <1>7

LEMMA StepBegin ==
    ASSUME IndexInv, Begin
    PROVE  IndexInv'
<1>1. /\ at' = "list" /\ cursor' = 0 /\ keys' = {} /\ chan' = {} /\ received' = {}
      /\ result' = [i \in Instances |-> None]
      /\ seen' = [i \in Instances |-> {active[i]}]
      /\ UNCHANGED <<active, records, worker>>
      /\ \A i \in Instances : worker[i] = "none"
  BY DEF Begin, indexObjects
<1>2. TypedIndex'
  BY <1>1 DEF IndexInv, TypedIndex
<1>3. \A i \in Instances : ~(2 * i - 1 <= 0)
  BY InstancesAssumption
<1>4. PassedWasMissing'
  BY <1>1, <1>3 DEF PassedWasMissing, Passed
<1> QED
  BY <1>1, <1>2, <1>4 DEF IndexInv, ActiveIsSeen, ListedWasThere, NoGoroutine, Answered

\* The goroutines.
LEMMA StepWorker ==
    ASSUME IndexInv, NEW i \in Instances, Worker(i)
    PROVE  IndexInv'
<1>1. UNCHANGED <<active, records, at, cursor, keys, received, seen>>
  BY DEF Worker, Read, Send, indexObjects
<1>2. ActiveIsSeen' /\ ListedWasThere' /\ PassedWasMissing'
  BY <1>1 DEF IndexInv, ActiveIsSeen, ListedWasThere, PassedWasMissing, Passed
<1>3. CASE Read(i)
  <2>1. PICK r \in {active[i], Failed} : result' = [result EXCEPT ![i] = r]
    BY <1>3 DEF Read
  <2>2. /\ worker[i] = "read" /\ worker' = [worker EXCEPT ![i] = "send"]
        /\ chan' = chan
    BY <1>3 DEF Read
  <2>3. r \in Stored \cup {None, Failed}
    BY <2>1 DEF IndexInv, TypedIndex
  <2>4. TypedIndex'
    BY <1>1, <2>1, <2>2, <2>3 DEF IndexInv, TypedIndex
  <2>5. at # "list"
    BY <2>2 DEF IndexInv, NoGoroutine
  <2>6. at = "receive" => r \in seen[i] \cup {Failed}
    BY <2>1 DEF IndexInv, ActiveIsSeen
  <2>7. Answered'
    BY <1>1, <2>1, <2>2, <2>6 DEF IndexInv, TypedIndex, Answered
  <2> QED
    BY <1>1, <1>2, <2>4, <2>5, <2>7 DEF IndexInv, NoGoroutine
<1>4. CASE Send(i)
  <2>1. /\ worker[i] = "send" /\ worker' = [worker EXCEPT ![i] = "none"]
        /\ chan' = chan \cup {i} /\ result' = result
    BY <1>4 DEF Send
  <2>2. TypedIndex'
    BY <1>1, <2>1 DEF IndexInv, TypedIndex
  <2>3. at # "list"
    BY <2>1 DEF IndexInv, NoGoroutine
  <2>4. Answered'
    BY <1>1, <2>1 DEF IndexInv, TypedIndex, Answered
  <2> QED
    BY <1>1, <1>2, <2>2, <2>3, <2>4 DEF IndexInv, NoGoroutine
<1> QED
  BY <1>3, <1>4 DEF Worker

LEMMA StepReceive ==
    ASSUME IndexInv, NEW i \in Instances, Receive(i)
    PROVE  IndexInv'
<1>1. /\ at = "receive" /\ i \in chan /\ chan' = chan \ {i}
      /\ UNCHANGED <<active, records, keys, worker, result>>
  BY DEF Receive, indexObjects
<1>2. CASE result[i] \in Infos
  <2>1. received' = received \cup {i} /\ UNCHANGED <<at, cursor, seen>>
    BY <1>2 DEF Receive
  <2>2. TypedIndex' /\ ActiveIsSeen' /\ ListedWasThere'
    BY <1>1, <2>1 DEF IndexInv, TypedIndex, ActiveIsSeen, ListedWasThere
  <2>3. PassedWasMissing' /\ NoGoroutine'
    BY <1>1, <2>1 DEF IndexInv, PassedWasMissing, Passed, NoGoroutine
  <2>4. result[i] \in seen[i]
    BY <1>1, <1>2, NoneAssumption DEF IndexInv, Answered
  <2>5. Answered'
    BY <1>1, <2>1, <2>4 DEF IndexInv, Answered
  <2> QED
    BY <2>2, <2>3, <2>5 DEF IndexInv
<1>3. CASE result[i] \notin Infos
  <2>1. Return
    BY <1>3 DEF Receive
  <2>2. /\ keys' \subseteq Instances
        /\ worker' \in [Instances -> {"none", "read", "send"}]
    BY <1>1 DEF IndexInv, TypedIndex
  <2> QED
    BY <1>1, <2>1, <2>2, StepReturn
<1> QED
  BY <1>2, <1>3

LEMMA StepIndex ==
    ASSUME IndexInv, [IndexNext]_indexVars
    PROVE  IndexInv'
<1>0. /\ records \subseteq Instances /\ cursor \in Nat /\ keys \subseteq Instances
      /\ worker \in [Instances -> {"none", "read", "send"}]
  BY DEF IndexInv, TypedIndex
<1>1. CASE UNCHANGED indexVars
  BY <1>1
  DEF indexVars, IndexInv, TypedIndex, ActiveIsSeen, ListedWasThere, PassedWasMissing,
      Passed, NoGoroutine, Answered
<1>2. ASSUME NEW i \in Instances, NEW info \in Infos, Update(i, info)
      PROVE  IndexInv'
  <2>1. PutObject(i, info) /\ records' \subseteq Instances /\ UNCHANGED call
    BY <1>0, <1>2 DEF Update
  <2> QED
    BY <2>1, StepPut DEF Stored
<1>3. ASSUME NEW i \in Instances, Complete(i) \/ CompleteGarbled(i) \/ DeleteActive(i)
      PROVE  IndexInv'
  <2>1. PutObject(i, None) /\ records' \subseteq Instances /\ UNCHANGED call
    BY <1>0, <1>3 DEF Complete, CompleteGarbled, DeleteActive, BucketAlone
  <2> QED
    BY <2>1, StepPut
<1>a. ASSUME NEW i \in Instances, UpdateGarbled(i)
      PROVE  IndexInv'
  <2>1. PutObject(i, Garbled) /\ records' \subseteq Instances /\ UNCHANGED call
    BY <1>0, <1>a DEF UpdateGarbled, BucketAlone
  <2> QED
    BY <2>1, StepPut DEF Stored
<1>4. ASSUME \/ \E i \in Instances : Delete(i) \/ CompleteFails(i)
             \/ \E i \in Instances, info \in Infos : UpdateFails(i, info)
             \/ TearList
      PROVE  IndexInv'
  <2>1. /\ records' \subseteq Instances
        /\ UNCHANGED <<active, at, cursor, keys, worker, result, chan, received, seen>>
    BY <1>0, <1>4
    DEF Delete, CompleteFails, UpdateFails, ListAlone, TearList, call, indexObjects
  <2> QED
    BY <2>1
    DEF IndexInv, TypedIndex, ActiveIsSeen, ListedWasThere, PassedWasMissing, Passed,
        NoGoroutine, Answered
<1>5. CASE ListFails
  <2>1. /\ Return
        /\ UNCHANGED <<active, records, result, keys, worker>>
    BY <1>5 DEF ListFails, indexObjects
  <2> QED
    BY <1>0, <2>1, StepReturn
<1>6. CASE Finish
  <2>1. /\ Return
        /\ UNCHANGED <<active, records, result, keys, worker>>
    BY <1>6 DEF Finish, indexObjects
  <2> QED
    BY <1>0, <2>1, StepReturn
<1>7. CASE Reader
  BY <1>5, <1>6, <1>7, StepPage, StepReceive DEF Reader
<1> QED
  BY <1>1, <1>2, <1>3, <1>a, <1>4, <1>7, StepBegin, StepWorker DEF IndexNext

\* However pages, parallel reads and the calls of other clients interleave,
\* LoadActiveIndex returns of each instance what was so during the call.
THEOREM IndexIsCurrent ==
    IndexSpec => []ListingIsCurrent
<1>1. IndexInv => ListingIsCurrent
  <2> SUFFICES ASSUME IndexInv, at = "receive", received = keys, NEW i \in Instances
               PROVE  (IF i \in keys THEN result[i] ELSE None) \in seen[i]
    BY DEF ListingIsCurrent
  <2>1. CASE i \in keys
    BY <2>1 DEF IndexInv, Answered
  <2>2. CASE i \notin keys
    BY <2>2 DEF IndexInv, PassedWasMissing, Passed
  <2> QED
    BY <2>1, <2>2
<1> QED
  BY <1>1, InitIndex, StepIndex, PTL DEF IndexSpec

\* LoadActiveIndex fails on a missing object only if it went away during the
\* call.
THEOREM IndexFailsInRace ==
    IndexSpec => []MissingOnlyInRace
<1>1. IndexInv => MissingOnlyInRace
  <2> SUFFICES ASSUME IndexInv, at = "receive", NEW i \in chan, result[i] = None
               PROVE  {None} \subseteq seen[i] /\ seen[i] # {None}
    BY DEF MissingOnlyInRace
  <2>1. i \in keys /\ i \in Instances
    BY DEF IndexInv, TypedIndex, Answered
  <2>2. None # Failed
    BY NoneAssumption
  <2> QED
    BY <2>1, <2>2 DEF IndexInv, Answered, ListedWasThere
<1> QED
  BY <1>1, InitIndex, StepIndex, PTL DEF IndexSpec

(***************************************************************************)
(* The list of the memory and the file store, and its positions.           *)
(***************************************************************************)
\* The last of the first positions has all the others below it.
LEMMA LastPosition ==
    ASSUME NEW K \in SUBSET Nat, IsFiniteSet(K), NEW S \in SUBSET K, S # {},
           \A j \in K, k \in S : j < k => j \in S
    PROVE  \E m \in S : Cardinality(Below(K, m)) = Cardinality(S) - 1
<1>1. IsFiniteSet(S) /\ Cardinality(K) \in Nat
  BY FS_Subset, FS_CardinalityType
<1>2. \A k \in S : Cardinality(Below(K, k)) <= Cardinality(K)
  <2>1. \A k \in S : Below(K, k) \in SUBSET K
    BY DEF Below
  <2> QED
    BY <2>1, FS_Subset
<1>3. PICK m \in S : \A k \in S : k <= m
  BY <1>1, <1>2, LargestKey
<1>4. Below(K, m) = S \ {m}
  <2>1. m \in Nat /\ \A k \in S : k \in Nat /\ k \in K
    OBVIOUS
  <2>2. ASSUME NEW j \in Below(K, m) PROVE j \in S \ {m}
    BY <2>1 DEF Below
  <2>3. ASSUME NEW j \in S \ {m} PROVE j \in Below(K, m)
    BY <1>3, <2>1 DEF Below
  <2> QED
    BY <2>2, <2>3
<1>5. Cardinality(S \ {m}) = Cardinality(S) - 1
  BY <1>1, FS_RemoveElement
<1> QED
  BY <1>4, <1>5

\* Counted from the first, there is an nth position for each n.
LEMMA Ranks ==
    ASSUME NEW K \in SUBSET Nat, IsFiniteSet(K), NEW n \in 1 .. Cardinality(K)
    PROVE  \E k \in K : Cardinality(Below(K, k)) = n - 1
<1> DEFINE card == [k \in K |-> Cardinality(Below(K, k))]
           T == {k \in K : card[k] >= n - 1}
<1>1. Cardinality(K) \in Nat /\ K # {} /\ n \in Nat /\ n >= 1 /\ n <= Cardinality(K)
  BY FS_CardinalityType, FS_EmptySet
<1>2. \A k \in K : IsFiniteSet(Below(K, k)) /\ card[k] \in Nat
  <2>1. \A k \in K : IsFiniteSet(Below(K, k))
    BY FS_BoundedSetOfNaturals DEF Below
  <2> QED
    BY <2>1, FS_CardinalityType
<1>3. PICK m \in K : Cardinality(Below(K, m)) = Cardinality(K) - 1
  BY <1>1, LastPosition
<1>4. card[m] >= n - 1
  BY <1>1, <1>3
<1>5. T # {} /\ T \in SUBSET Nat
  BY <1>4
<1>6. PICK k \in T : \A l \in T : k <= l
  BY <1>5, LeastNumber
<1>7. k \in K /\ k \in Nat /\ card[k] >= n - 1 /\ card[k] \in Nat
  BY <1>2, <1>6
<1>8. ASSUME card[k] # n - 1 PROVE FALSE
  <2>1. card[k] > n - 1 /\ card[k] > 0
    BY <1>1, <1>7, <1>8
  <2>2. Below(K, k) # {}
    BY <1>7, <2>1, FS_EmptySet
  <2>3. Below(K, k) \in SUBSET K /\ \A j \in K, l \in Below(K, k) : j < l => j \in Below(K, k)
    <3>1. \A j \in K : j \in Nat
      OBVIOUS
    <3> QED
      BY <1>7, <3>1 DEF Below
  <2>4. PICK l \in Below(K, k) : Cardinality(Below(K, l)) = Cardinality(Below(K, k)) - 1
    BY <2>2, <2>3, LastPosition
  <2>5. l \in K /\ l < k /\ card[l] = card[k] - 1
    BY <1>7, <2>4 DEF Below
  <2> HIDE DEF card
  <2>6. card[l] >= n - 1
    BY <1>1, <1>7, <2>1, <2>5
  <2>7. l \in T
    BY <2>5, <2>6
  <2>8. l \in Nat /\ k <= l
    BY <1>6, <2>5, <2>7
  <2> QED
    BY <1>7, <2>5, <2>8
<1> QED
  BY <1>7, <1>8

Entries == [instance : Instances, info : Infos]

OneEach(index) ==
    \A k, l \in DOMAIN index : index[k].instance = index[l].instance => k = l

In(index, e) == \E k \in DOMAIN index : index[k] = e

\* The positions that Without keeps.
Kept(index, i) == {k \in DOMAIN index : index[k].instance # i}

\* Position n of what is left was position from[n], one to one.
Moves(index, i, size, from) ==
    /\ size \in Nat /\ from \in [1 .. size -> Kept(index, i)]
    /\ Without(index, i) = [n \in 1 .. size |-> index[from[n]]]
    /\ \A n, m \in 1 .. size : from[n] = from[m] => n = m
    /\ \A k \in Kept(index, i) : \E n \in 1 .. size : from[n] = k

LEMMA WithoutMoves ==
    ASSUME NEW index \in Seq(Entries), NEW i \in Instances
    PROVE  \E size, from : Moves(index, i, size, from)
<1> DEFINE kept == Kept(index, i)
           size == Cardinality(kept)
           nth(n) == CHOOSE k \in kept : Cardinality(Below(kept, k)) = n - 1
           from == [n \in 1 .. size |-> nth(n)]
<1>1. kept \in SUBSET Nat /\ IsFiniteSet(kept)
  <2>1. DOMAIN index = 1 .. Len(index) /\ Len(index) \in Nat
    OBVIOUS
  <2>2. IsFiniteSet(DOMAIN index) /\ kept \in SUBSET DOMAIN index
    BY <2>1, FS_Interval DEF Kept
  <2> QED
    BY <2>1, <2>2, FS_Subset
<1>2. Without(index, i) = [n \in 1 .. size |-> index[from[n]]]
  BY DEF Without, Below, Kept
<1> HIDE DEF kept
<1>3. size \in Nat
  BY <1>1, FS_CardinalityType
<1>4. ASSUME NEW n \in 1 .. size
      PROVE  nth(n) \in kept /\ Cardinality(Below(kept, nth(n))) = n - 1
  <2>1. \E k \in kept : Cardinality(Below(kept, k)) = n - 1
    BY <1>1, Ranks
  <2> QED
    BY <2>1
<1> HIDE DEF nth
<1>5. /\ from \in [1 .. size -> kept]
      /\ \A n \in 1 .. size : Cardinality(Below(kept, from[n])) = n - 1
  BY <1>4
<1> HIDE DEF from
<1>6. ASSUME NEW n \in 1 .. size, NEW m \in 1 .. size, from[n] = from[m] PROVE n = m
  <2>1. n - 1 = m - 1
    BY <1>5, <1>6
  <2> QED
    BY <1>3, <2>1
<1>7. ASSUME NEW k \in kept PROVE \E n \in 1 .. size : from[n] = k
  <2> DEFINE n == Cardinality(Below(kept, k)) + 1
  <2>1. Below(kept, k) \in SUBSET kept /\ k \notin Below(kept, k)
    BY <1>1 DEF Below
  <2>2. /\ Cardinality(Below(kept, k)) \in Nat
        /\ Cardinality(Below(kept, k)) <= size
        /\ Cardinality(Below(kept, k)) # size
    BY <1>1, <1>7, <2>1, FS_Subset, FS_CardinalityType
  <2>3. n \in 1 .. size /\ n - 1 = Cardinality(Below(kept, k))
    BY <1>3, <2>2
  <2> HIDE DEF n
  <2>4. PICK l \in kept : l = from[n] /\ Cardinality(Below(kept, l)) = Cardinality(Below(kept, k))
    BY <1>5, <2>3
  <2>5. \A j, m \in kept : j < m =>
            /\ Cardinality(Below(kept, j)) \in Nat
            /\ Cardinality(Below(kept, m)) \in Nat
            /\ Cardinality(Below(kept, j)) < Cardinality(Below(kept, m))
    BY <1>1, BelowGrows
  <2>6. l \in Nat /\ k \in Nat /\ ~(l < k) /\ ~(k < l)
    BY <1>1, <2>2, <2>4, <2>5
  <2>7. l = k
    BY <2>6
  <2> QED
    BY <2>3, <2>4, <2>7
<1> HIDE DEF size
<1>8. Moves(index, i, size, from)
  BY <1>2, <1>3, <1>5, <1>6, <1>7 DEF Moves, kept
<1> QED
  BY <1>8

\* What Without leaves in the list.
LEMMA WithoutKeeps ==
    ASSUME NEW index \in Seq(Entries), OneEach(index), NEW i \in Instances
    PROVE  /\ Without(index, i) \in Seq(Entries) /\ OneEach(Without(index, i))
           /\ \A e \in Entries : In(Without(index, i), e) <=> In(index, e) /\ e.instance # i
<1> DEFINE kept == Kept(index, i)
           left == Without(index, i)
<1>0. PICK size, from : Moves(index, i, size, from)
  BY WithoutMoves
<1>1. /\ size \in Nat /\ from \in [1 .. size -> kept]
      /\ left = [n \in 1 .. size |-> index[from[n]]]
      /\ \A n, m \in 1 .. size : from[n] = from[m] => n = m
      /\ \A k \in kept : \E n \in 1 .. size : from[n] = k
  BY <1>0 DEF Moves
<1>2. \A k \in DOMAIN index : index[k] \in Entries
  OBVIOUS
<1>3. \A k \in kept : k \in DOMAIN index /\ index[k].instance # i
  BY DEF Kept
<1>4. \A k \in DOMAIN index : index[k].instance # i => k \in kept
  BY DEF Kept
<1> HIDE DEF kept, left
<1>5. DOMAIN left = 1 .. size /\ \A n \in 1 .. size : left[n] = index[from[n]] /\ from[n] \in kept
  BY <1>1
<1>6. left \in Seq(Entries)
  <2>1. \A n \in 1 .. size : index[from[n]] \in Entries
    BY <1>2, <1>3, <1>5
  <2> QED
    BY <1>1, <2>1
<1>7. OneEach(left)
  <2> SUFFICES ASSUME NEW n \in 1 .. size, NEW m \in 1 .. size,
                      left[n].instance = left[m].instance
               PROVE  n = m
    BY <1>5 DEF OneEach
  <2>1. from[n] \in DOMAIN index /\ from[m] \in DOMAIN index
    BY <1>3, <1>5
  <2>2. index[from[n]].instance = index[from[m]].instance
    BY <1>5
  <2>3. from[n] = from[m]
    BY <2>1, <2>2 DEF OneEach
  <2> QED
    BY <1>1, <2>3
<1>8. ASSUME NEW e \in Entries, In(left, e) PROVE In(index, e) /\ e.instance # i
  <2>1. PICK n \in 1 .. size : left[n] = e
    BY <1>5, <1>8 DEF In
  <2> QED
    BY <1>3, <1>5, <2>1 DEF In
<1>9. ASSUME NEW e \in Entries, In(index, e), e.instance # i PROVE In(left, e)
  <2>1. PICK k \in DOMAIN index : index[k] = e
    BY <1>9 DEF In
  <2>2. PICK n \in 1 .. size : from[n] = k
    BY <1>1, <1>4, <1>9, <2>1
  <2> QED
    BY <1>5, <2>1, <2>2 DEF In
<1> QED
  BY <1>6, <1>7, <1>8, <1>9 DEF left

\* What Put makes of the list.
LEMMA PutReplaces ==
    ASSUME NEW index \in Seq(Entries), OneEach(index),
           NEW i \in Instances, NEW info \in Infos
    PROVE  /\ Put(index, i, info) \in Seq(Entries) /\ OneEach(Put(index, i, info))
           /\ \A e \in Entries : In(Put(index, i, info), e) <=>
                 IF e.instance = i THEN e = Entry(i, info) ELSE In(index, e)
<1> DEFINE new == Entry(i, info)
           list2 == Put(index, i, info)
<1>1. new \in Entries /\ new.instance = i
  BY DEF Entry, Entries
<1>2. /\ Len(index) \in Nat /\ DOMAIN index = 1 .. Len(index)
      /\ \A k \in DOMAIN index : index[k] \in Entries
  OBVIOUS
<1>3. CASE \E k \in DOMAIN index : index[k].instance = i
  <2>1. list2 = [k \in DOMAIN index |-> IF index[k].instance = i THEN new ELSE index[k]]
    BY <1>3 DEF Put
  <2> HIDE DEF list2, new
  <2>2. /\ DOMAIN list2 = DOMAIN index
        /\ \A k \in DOMAIN index :
             /\ list2[k] = (IF index[k].instance = i THEN new ELSE index[k])
             /\ list2[k] \in Entries
             /\ list2[k].instance = index[k].instance
    BY <1>1, <1>2, <2>1
  <2>3. list2 \in Seq(Entries)
    BY <1>2, <2>1, <2>2
  <2>4. OneEach(list2)
    BY <2>2 DEF OneEach
  <2>5. \A e \in Entries : In(list2, e) <=> IF e.instance = i THEN e = new ELSE In(index, e)
    BY <1>1, <1>3, <2>2 DEF In
  <2> QED
    BY <2>3, <2>4, <2>5 DEF list2, new
<1>4. CASE ~\E k \in DOMAIN index : index[k].instance = i
  <2>1. list2 = Append(index, new)
    BY <1>4 DEF Put
  <2> HIDE DEF list2, new
  <2>2. list2 \in Seq(Entries)
    BY <1>1, <2>1
  <2>3. /\ DOMAIN list2 = 1 .. (Len(index) + 1)
        /\ list2[Len(index) + 1] = new
        /\ \A k \in DOMAIN index : list2[k] = index[k]
    BY <1>1, <1>2, <2>1
  <2>4. \A k \in DOMAIN list2 : k \in DOMAIN index \/ k = Len(index) + 1
    BY <1>2, <2>3
  <2>5. \A k \in DOMAIN index : k \in DOMAIN list2
    BY <1>2, <2>3
  <2>6. Len(index) + 1 \in DOMAIN list2
    BY <1>2, <2>3
  <2>7. OneEach(list2)
    BY <1>1, <1>4, <2>3, <2>4 DEF OneEach
  <2>8. \A e \in Entries : In(list2, e) <=> IF e.instance = i THEN e = new ELSE In(index, e)
    BY <1>1, <1>4, <2>3, <2>4, <2>5, <2>6 DEF In
  <2> QED
    BY <2>2, <2>7, <2>8 DEF list2, new
<1> QED
  BY <1>3, <1>4

\* An entry is in the list exactly if it is what the bucket has of its
\* instance, and a garbled object is in no list.
AgreeInv ==
    /\ active \in [Instances -> Stored \cup {None}]
    /\ list \in Seq(Entries) /\ OneEach(list)
    /\ mirrored => \A e \in Entries : e.instance \notin diverged =>
          (In(list, e) <=> active[e.instance] = e.info)
    /\ mirrored => \A i \in Instances : active[i] = Garbled => i \in diverged

\* What a step leaves of an instance whose object is as before.
LEMMA AgreeFrame ==
    ASSUME AgreeInv, UNCHANGED <<mirrored, list>>,
           active' \in [Instances -> Stored \cup {None}],
           mirrored => \A i \in Instances :
               i \notin diverged' => i \notin diverged /\ active'[i] = active[i]
    PROVE  AgreeInv'
<1>1. \A e \in Entries : e.instance \in Instances
  BY DEF Entries
<1>2. list' \in Seq(Entries) /\ OneEach(list')
  BY DEF AgreeInv
<1>3. ASSUME mirrored, NEW e \in Entries, e.instance \notin diverged'
      PROVE  In(list', e) <=> active'[e.instance] = e.info
  BY <1>1, <1>3 DEF AgreeInv
<1>4. ASSUME mirrored, NEW i \in Instances, active'[i] = Garbled
      PROVE  i \in diverged'
  BY <1>4 DEF AgreeInv
<1> QED
  BY <1>2, <1>3, <1>4 DEF AgreeInv, OneEach, In

\* The instance's entry becomes info, in the list, and in the bucket as well or
\* it diverges.
LEMMA AgreePut ==
    ASSUME AgreeInv, NEW i \in Instances, NEW info \in Infos, mirrored, mirrored',
           list' = Put(list, i, info), active' \in [Instances -> Stored \cup {None}],
           \A j \in Instances \ {i} : active'[j] = active[j],
           diverged' = IF active'[i] = info THEN diverged \ {i} ELSE diverged \cup {i}
    PROVE  AgreeInv'
<1>0. \A e \in Entries : e.instance \in Instances
  BY DEF Entries
<1>1. /\ list' \in Seq(Entries) /\ OneEach(list')
      /\ \A e \in Entries :
            In(list', e) <=> IF e.instance = i THEN e = Entry(i, info) ELSE In(list, e)
  BY PutReplaces DEF AgreeInv
<1>2. \A e \in Entries : e.instance = i => (e = Entry(i, info) <=> e.info = info)
  BY DEF Entries, Entry
<1>3. ASSUME NEW e \in Entries, e.instance \notin diverged'
      PROVE  In(list', e) <=> active'[e.instance] = e.info
  <2>1. CASE e.instance = i
    BY <1>1, <1>2, <1>3, <2>1
  <2>2. CASE e.instance # i
    BY <1>0, <1>1, <1>3, <2>2 DEF AgreeInv
  <2> QED
    BY <2>1, <2>2
<1>4. ASSUME NEW j \in Instances, active'[j] = Garbled PROVE j \in diverged'
  BY <1>4, NoneAssumption DEF AgreeInv
<1> QED
  BY <1>1, <1>3, <1>4 DEF AgreeInv, OneEach, In

\* The same of an entry that goes.
LEMMA AgreeWithout ==
    ASSUME AgreeInv, NEW i \in Instances, mirrored, mirrored',
           list' = Without(list, i), active' \in [Instances -> Stored \cup {None}],
           \A j \in Instances \ {i} : active'[j] = active[j],
           diverged' = IF active'[i] = None THEN diverged \ {i} ELSE diverged \cup {i}
    PROVE  AgreeInv'
<1>0. \A e \in Entries : e.instance \in Instances /\ e.info # None
  BY NoneAssumption DEF Entries
<1>1. /\ list' \in Seq(Entries) /\ OneEach(list')
      /\ \A e \in Entries : In(list', e) <=> In(list, e) /\ e.instance # i
  BY WithoutKeeps DEF AgreeInv
<1>2. ASSUME NEW e \in Entries, e.instance \notin diverged'
      PROVE  In(list', e) <=> active'[e.instance] = e.info
  <2>1. CASE e.instance = i
    BY <1>0, <1>1, <1>2, <2>1
  <2>2. CASE e.instance # i
    BY <1>0, <1>1, <1>2, <2>2 DEF AgreeInv
  <2> QED
    BY <2>1, <2>2
<1>3. ASSUME NEW j \in Instances, active'[j] = Garbled PROVE j \in diverged'
  BY <1>3, NoneAssumption DEF AgreeInv
<1> QED
  BY <1>1, <1>2, <1>3 DEF AgreeInv, OneEach, In

LEMMA StepAgree ==
    ASSUME AgreeInv, [IndexNext]_indexVars PROVE AgreeInv'
<1>0. active \in [Instances -> Stored \cup {None}] /\ Infos \cup {Garbled} = Stored
  BY DEF AgreeInv, Stored
<1>1. CASE UNCHANGED <<mirrored, list, active, diverged>>
  BY <1>0, <1>1, AgreeFrame
<1>2. ASSUME NEW i \in Instances, NEW info \in Infos,
             Update(i, info) \/ UpdateFails(i, info)
      PROVE  AgreeInv'
  <2>1. /\ UNCHANGED mirrored
        /\ active' = [active EXCEPT ![i] = info] \/ (active' = active /\ mirrored)
    BY <1>2
    DEF Update, UpdateFails, ListAlone, Mirror, PutObject, indexObjects
  <2>2. /\ active' \in [Instances -> Stored \cup {None}]
        /\ \A j \in Instances \ {i} : active'[j] = active[j]
    BY <1>0, <2>1
  <2>3. CASE mirrored
    <3>1. /\ list' = Put(list, i, info)
          /\ diverged' = IF active'[i] = info THEN diverged \ {i} ELSE diverged \cup {i}
      BY <1>0, <1>2, <2>3
      DEF Update, UpdateFails, ListAlone, Mirror, PutObject, indexObjects
    <3> QED
      BY <2>1, <2>2, <2>3, <3>1, AgreePut
  <2>4. CASE ~mirrored
    <3>1. UNCHANGED list
      BY <1>2, <2>4 DEF Update, UpdateFails, ListAlone, Mirror
    <3> QED
      BY <2>1, <2>2, <2>4, <3>1, AgreeFrame
  <2> QED
    BY <2>3, <2>4
<1>3. ASSUME NEW i \in Instances, Complete(i) \/ CompleteFails(i)
      PROVE  AgreeInv'
  <2>1. /\ UNCHANGED mirrored
        /\ active' = [active EXCEPT ![i] = None] \/ (active' = active /\ mirrored)
    BY <1>3
    DEF Complete, CompleteFails, ListAlone, Mirror, PutObject, indexObjects
  <2>2. /\ active' \in [Instances -> Stored \cup {None}]
        /\ \A j \in Instances \ {i} : active'[j] = active[j]
    BY <1>0, <2>1
  <2>3. CASE mirrored
    <3>1. /\ list' = Without(list, i)
          /\ diverged' = IF active'[i] = None THEN diverged \ {i} ELSE diverged \cup {i}
      BY <1>0, <1>3, <2>3
      DEF Complete, CompleteFails, ListAlone, Mirror, PutObject, indexObjects
    <3> QED
      BY <2>1, <2>2, <2>3, <3>1, AgreeWithout
  <2>4. CASE ~mirrored
    <3>1. UNCHANGED list
      BY <1>3, <2>4 DEF Complete, CompleteFails, ListAlone, Mirror
    <3> QED
      BY <2>1, <2>2, <2>4, <3>1, AgreeFrame
  <2> QED
    BY <2>3, <2>4
<1>4. ASSUME NEW i \in Instances, NEW info \in {Garbled, None}, BucketAlone(i, info)
      PROVE  AgreeInv'
  <2>1. /\ UNCHANGED <<mirrored, list>> /\ active' = [active EXCEPT ![i] = info]
        /\ mirrored => diverged' = IF active[i] = info THEN diverged
                                                       ELSE diverged \cup {i}
    BY <1>4 DEF BucketAlone, Mirror, PutObject
  <2>2. active' \in [Instances -> Stored \cup {None}]
    BY <1>0, <2>1
  <2>3. mirrored => \A j \in Instances :
            j \notin diverged' => j \notin diverged /\ active'[j] = active[j]
    BY <1>0, <2>1
  <2> QED
    BY <2>1, <2>2, <2>3, AgreeFrame
<1>5. CASE TearList
  <2>1. /\ mirrored /\ mirrored' /\ list' = <<>> /\ UNCHANGED active
        /\ diverged' = {i \in Instances : active[i] # None}
    BY <1>5 DEF TearList, Mirror, indexObjects
  <2>2. list' \in Seq(Entries) /\ DOMAIN list' = {}
    BY <2>1
  <2>3. ASSUME NEW e \in Entries, e.instance \notin diverged'
        PROVE  active'[e.instance] # e.info
    BY <2>1, <2>3, NoneAssumption DEF Entries
  <2>4. \A i \in Instances : active'[i] = Garbled => i \in diverged'
    BY <2>1, NoneAssumption
  <2> QED
    BY <1>0, <2>1, <2>2, <2>3, <2>4 DEF AgreeInv, OneEach, In
<1>6. CASE Reader \/ Begin \/ \E i \in Instances : Delete(i) \/ Worker(i)
  BY <1>1, <1>6
  DEF Reader, NextPage, ListFails, Receive, Finish, Begin, Delete, Worker, Read, Send,
      indexObjects, other
<1>7. CASE UNCHANGED indexVars
  BY <1>1, <1>7 DEF indexVars
<1>8. CASE \E i \in Instances : UpdateGarbled(i) \/ CompleteGarbled(i) \/ DeleteActive(i)
  BY <1>4, <1>8 DEF UpdateGarbled, CompleteGarbled, DeleteActive
<1> QED
  BY <1>2, <1>3, <1>5, <1>6, <1>7, <1>8 DEF IndexNext

\* Whatever is updated, completed and deleted, and whatever fails, the list of
\* the memory and the file store has exactly the entries that the bucket has,
\* apart from the instances of which one of the two was not told the last thing.
THEOREM IndexesAgree == IndexSpec => []StoresAgree
<1>1. IndexInit => AgreeInv
  <2> SUFFICES ASSUME IndexInit PROVE AgreeInv
    OBVIOUS
  <2>1. list = <<>> /\ active = [i \in Instances |-> None]
    BY DEF IndexInit
  <2>2. list \in Seq(Entries) /\ DOMAIN list = {}
    BY <2>1
  <2>3. \A e \in Entries : e.instance \in Instances /\ e.info # None
    BY NoneAssumption DEF Entries
  <2> QED
    BY <2>1, <2>2, <2>3, NoneAssumption DEF AgreeInv, OneEach, In
<1>2. AgreeInv => StoresAgree
  <2> SUFFICES ASSUME AgreeInv, mirrored, NEW i \in Instances \ diverged
               PROVE  LET mine == {k \in DOMAIN list : list[k].instance = i} IN
                      IF active[i] = None
                        THEN mine = {}
                        ELSE \E k \in DOMAIN list : mine = {k} /\ list[k] = Entry(i, active[i])
    BY DEF StoresAgree
  <2> DEFINE mine == {k \in DOMAIN list : list[k].instance = i}
  <2>1. \A k \in DOMAIN list : list[k] \in Entries
    BY DEF AgreeInv
  <2>2. CASE active[i] = None
    <3>1. ASSUME NEW k \in DOMAIN list, list[k].instance = i PROVE FALSE
      <4>1. In(list, list[k]) /\ list[k] \in Entries
        BY <2>1 DEF In
      <4>2. active[i] = list[k].info
        BY <3>1, <4>1 DEF AgreeInv
      <4>3. list[k].info \in Infos
        BY <4>1 DEF Entries
      <4> QED
        BY <2>2, <4>2, <4>3, NoneAssumption
    <3> QED
      BY <2>2, <3>1
  <2>3. CASE active[i] # None
    <3>1. active[i] \in Infos
      BY <2>3 DEF AgreeInv, Stored
    <3>2. Entry(i, active[i]) \in Entries /\ Entry(i, active[i]).instance = i
          /\ Entry(i, active[i]).info = active[i]
      BY <3>1 DEF Entry, Entries
    <3>3. In(list, Entry(i, active[i]))
      BY <3>2 DEF AgreeInv
    <3>4. PICK k \in DOMAIN list : list[k] = Entry(i, active[i])
      BY <3>3 DEF In
    <3>5. mine = {k}
      BY <3>2, <3>4 DEF AgreeInv, OneEach
    <3> QED
      BY <2>3, <3>4, <3>5
  <2> QED
    BY <2>2, <2>3
<1> QED
  BY <1>1, <1>2, StepAgree, PTL DEF IndexSpec

=============================================================================
