------------------------ MODULE CheckpointingProofs ------------------------
(***************************************************************************)
(* Proofs about Checkpointing, for any set of nodes and pages, any         *)
(* snapshot period and any bounds, with every crash, failure and overlap   *)
(* the module has.                                                         *)
(***************************************************************************)
EXTENDS Checkpointing, TLAPS

(***************************************************************************)
(* Type correctness and fencing.                                           *)
(***************************************************************************)

\* Laying pages over a memory gives a memory.
LEMMA OverlayType ==
    ASSUME NEW under \in Memory, NEW over \in Memory
    PROVE  Overlay(under, over) \in Memory
BY DEF Overlay, Memory

\* The fresh memory and the empty record are memories.
LEMMA ConstantMemories == FreshMemory \in Memory /\ Nothing(Pages) \in Memory
BY BoundsAssumption DEF FreshMemory, Nothing, Memory, Contents, Absent

\* The compare-and-swap accepts exactly the version the store holds.
LEMMA AcceptsIsEqual ==
    ASSUME NEW stored \in Nat, NEW v \in Nat
    PROVE  SaveMetadataAccepts(stored, v) <=> stored = v
BY DEF SaveMetadataAccepts

LEMMA InitType == Init => TypeOK
BY ConstantMemories, BoundsAssumption DEF Init, TypeOK, PC

\* What discarding a session changes, node by node.
LEMMA DiscardFacts ==
    ASSUME TypeOK, NEW n \in Nodes, Discard(n)
    PROVE  /\ pc'[n] = "idle" /\ ver'[n] = 0 /\ mem'[n] = FreshMemory
           /\ hashes'[n] = Nothing(Pages) /\ base'[n] = 0 /\ doubt'[n] = {}
           /\ \A m \in Nodes : m # n =>
                /\ pc'[m] = pc[m] /\ ver'[m] = ver[m] /\ mem'[m] = mem[m]
                /\ hashes'[m] = hashes[m] /\ base'[m] = base[m]
                /\ doubt'[m] = doubt[m]
           /\ UNCHANGED <<version, snapshot, deltas, durable, durableVer, harm>>
BY DEF Discard, GoTo, storeVars, newest, TypeOK

\* What a write to the record does to the doubts.
LEMMA WroteUnderFacts ==
    ASSUME TypeOK, NEW n \in Nodes, NEW own \in SUBSET Troubles,
           WroteUnder(n, own)
    PROVE  /\ doubt' \in [Nodes -> SUBSET Troubles]
           /\ doubt'[n] = own
           /\ \A m \in Nodes : m # n /\ HasVersion(m) => "overlap" \in doubt'[m]
           /\ \A m \in Nodes : m # n => doubt[m] \subseteq doubt'[m]
BY DEF WroteUnder, TypeOK, Troubles

\* Which of two histories a write of n makes the newest checkpoint.
LEMMA CapturedFacts ==
    ASSUME TypeOK, NEW n \in Nodes, Captured(n), durableVer <= version
    PROVE  /\ durable' \in Memory /\ durableVer' \in 0 .. MaxVersion
           /\ base' \in [Nodes -> 0 .. MaxVersion]
           /\ base'[n] = ver[n]
           /\ \A m \in Nodes : m # n => base'[m] = base[m]
           /\ durableVer' \in {durableVer, ver[n]}
           /\ ver[n] = version => durable' = mem[n] /\ durableVer' = ver[n]
<1>1. ver[n] \in Nat /\ version \in Nat /\ durableVer \in Nat
  BY DEF TypeOK
<1>2. ver[n] = version => ver[n] >= durableVer
  BY <1>1
<1>3. /\ ver[n] >= durableVer => durable' = mem[n] /\ durableVer' = ver[n]
      /\ ~(ver[n] >= durableVer) => durable' = durable /\ durableVer' = durableVer
      /\ base' = [base EXCEPT ![n] = ver[n]]
  BY DEF Captured, newest
<1> QED
  BY <1>2, <1>3 DEF TypeOK

(***************************************************************************)
(* The types, the versions and the order of checkpoints in one invariant:  *)
(* no session is ahead of the store, no two in the handler hold the same   *)
(* version, and the newest checkpoint is not above the stored version.     *)
(***************************************************************************)
NoneAhead == durableVer <= version /\ \A n \in Nodes : ver[n] <= version

FencingInv == TypeOK /\ NoneAhead /\ OneWriterPerVersion

\* Every step keeps the types.
LEMMA StepType == FencingInv /\ [Next]_vars => TypeOK'
<1> SUFFICES ASSUME FencingInv, [Next]_vars PROVE TypeOK'
  OBVIOUS
<1>0. TypeOK /\ durableVer <= version
  BY DEF FencingInv, NoneAhead
<1> USE DEF TypeOK
<1>1. CASE UNCHANGED vars
  BY <1>0, <1>1 DEF vars
<1>2. ASSUME NEW n \in Nodes, Step(n) PROVE TypeOK'
  <2>1. CASE Start(n)
    BY <1>0, <2>1 DEF Start, GoTo, storeVars, newest, PC
  <2>2. CASE LoadSnapshot(n)
    BY <1>0, <2>2, OverlayType DEF LoadSnapshot, GoTo, storeVars, newest, PC
  <2>3. CASE LoadSnapshotFails(n)
    BY <1>0, <2>3
    DEF LoadSnapshotFails, GoTo, Doubt, Troubles, storeVars, newest, PC
  <2>4. CASE LoadDeltas(n)
    BY <1>0, <2>4, OverlayType DEF LoadDeltas, GoTo, storeVars, newest, PC
  <2>5. CASE LoadDeltasFails(n)
    BY <1>0, <2>5
    DEF LoadDeltasFails, GoTo, Doubt, Troubles, storeVars, newest, PC
  <2>6. ASSUME NEW p \in Pages, NEW c \in Contents, Write(n, p, c)
        PROVE  TypeOK'
    <3>1. mem' \in [Nodes -> Memory]
      BY <1>0, <2>6 DEF Write, Memory
    <3>2. doubt' \in [Nodes -> SUBSET Troubles]
      BY <1>0, <2>6 DEF Write, Doubt, Troubles
    <3> QED
      BY <1>0, <2>6, <3>1, <3>2 DEF Write, storeVars, newest
  <2>7. ASSUME NEW p \in Pages, Grow(n, p) PROVE TypeOK'
    BY <1>0, <2>7, BoundsAssumption DEF Grow, Memory, Contents, storeVars, newest
  <2>8. CASE Return(n) \/ Fenced(n) \/ Crash(n)
    <3>1. Discard(n)
      BY <2>8 DEF Return, Fenced, Crash
    <3> QED
      BY <1>0, <3>1, ConstantMemories, BoundsAssumption
      DEF Discard, GoTo, storeVars, newest, PC
  <2>9. CASE CompareAndSwap(n)
    BY <1>0, <2>9, BoundsAssumption
    DEF CompareAndSwap, NextVersion, GoTo, newest, PC, Checkpoint
  <2>11. CASE SaveFull(n)
    <3>1. /\ harm' \subseteq Troubles
          /\ (IF harm' = {} THEN {} ELSE doubt[n]) \in SUBSET Troubles
      BY <1>0, <2>11 DEF SaveFull, WroteLate, Troubles
    <3>2. doubt' \in [Nodes -> SUBSET Troubles]
      BY <1>0, <2>11, <3>1, WroteUnderFacts DEF SaveFull
    <3>3. /\ durable' \in Memory /\ durableVer' \in 0 .. MaxVersion
          /\ base' \in [Nodes -> 0 .. MaxVersion]
      BY <1>0, <2>11, CapturedFacts DEF SaveFull
    <3>4. pc' \in [Nodes -> PC] /\ snapshot' \in Memory
      BY <1>0, <2>11 DEF SaveFull, Save, GoTo, PC, Checkpoint
    <3> QED
      BY <1>0, <2>11, <3>1, <3>2, <3>3, <3>4 DEF SaveFull
  <2>12. CASE Truncate(n)
    <3>1. TruncateDeltas(deltas) \in Memory
      BY <1>0, ConstantMemories DEF TruncateDeltas, Memory
    <3>2. /\ harm' \subseteq Troubles
          /\ (IF harm' = {} THEN {} ELSE doubt[n]) \in SUBSET Troubles
      BY <1>0, <2>12 DEF Truncate, WroteLate, Troubles
    <3>3. doubt' \in [Nodes -> SUBSET Troubles]
      BY <1>0, <2>12, <3>2, WroteUnderFacts DEF Truncate
    <3> QED
      BY <1>0, <2>12, <3>1, <3>2, <3>3 DEF Truncate, GoTo, newest, PC
  <2>13. CASE TruncateFails(n)
    BY <1>0, <2>13 DEF TruncateFails, GoTo, storeVars, newest, PC
  <2>14. CASE SaveDirty(n)
    <3>1. Dirty(n) \in Memory
      BY <1>0 DEF Dirty, Memory
    <3>2. harm' \subseteq Troubles
      BY <1>0, <2>14 DEF SaveDirty, WroteLate, Troubles
    <3>3. doubt' \in [Nodes -> SUBSET Troubles]
      BY <1>0, <2>14, WroteUnderFacts DEF SaveDirty
    <3>4. /\ durable' \in Memory /\ durableVer' \in 0 .. MaxVersion
          /\ base' \in [Nodes -> 0 .. MaxVersion]
      BY <1>0, <2>14, CapturedFacts DEF SaveDirty
    <3>5. deltas' \in Memory /\ hashes' \in [Nodes -> Memory]
      BY <1>0, <2>14, <3>1, OverlayType DEF SaveDirty, SaveDeltas
    <3> QED
      BY <1>0, <2>14, <3>2, <3>3, <3>4, <3>5 DEF SaveDirty, GoTo, PC
  <2> QED
    BY <1>2, <2>1, <2>2, <2>3, <2>4, <2>5, <2>6, <2>7, <2>8, <2>9,
       <2>11, <2>12, <2>13, <2>14 DEF Step
<1> QED
  BY <1>1, <1>2 DEF Next

\* A step that leaves the stored version and every session's version alone,
\* and takes no session into the handler, keeps the fencing invariant.
LEMMA FencingFrame ==
    ASSUME FencingInv, TypeOK', version' = version, ver' = ver,
           durableVer' <= version,
           \A n \in Nodes : pc'[n] \in Checkpoint => pc[n] \in Checkpoint
    PROVE  FencingInv'
BY DEF FencingInv, NoneAhead, OneWriterPerVersion

LEMMA StepFencing == FencingInv /\ [Next]_vars => FencingInv'
<1> SUFFICES ASSUME FencingInv, [Next]_vars PROVE FencingInv'
  OBVIOUS
<1>0. TypeOK /\ TypeOK' /\ durableVer <= version /\ pc \in [Nodes -> PC]
  BY StepType DEF FencingInv, NoneAhead, TypeOK
<1>1. CASE UNCHANGED vars
  BY <1>0, <1>1, FencingFrame DEF vars
<1>2. ASSUME NEW n \in Nodes, Step(n) PROVE FencingInv'
  <2>1. CASE Start(n)
    BY <1>0, <2>1
    DEF Start, GoTo, storeVars, newest, Checkpoint, FencingInv, NoneAhead,
        OneWriterPerVersion, TypeOK
  <2>2. CASE CompareAndSwap(n)
    <3>1. /\ version = ver[n] /\ version \in Nat /\ durableVer \in Nat
          /\ \A m \in Nodes : ver[m] \in Nat
      BY <1>0, <2>2, AcceptsIsEqual DEF CompareAndSwap, TypeOK
    <3>2. /\ version' = version + 1 /\ durableVer' = durableVer
          /\ ver' = [ver EXCEPT ![n] = version + 1]
      BY <1>0, <2>2, <3>1 DEF CompareAndSwap, NextVersion, newest
    <3>3. \A m \in Nodes : m # n => ver'[m] <= version /\ pc'[m] = pc[m]
      BY <1>0, <2>2, <3>2 DEF CompareAndSwap, GoTo, FencingInv, NoneAhead, TypeOK
    <3>4. ver'[n] = version + 1
      BY <1>0, <3>2 DEF TypeOK
    <3>5. NoneAhead'
      BY <1>0, <3>1, <3>2, <3>3, <3>4 DEF NoneAhead, TypeOK
    <3>6. OneWriterPerVersion'
      BY <1>0, <3>1, <3>2, <3>3, <3>4
      DEF FencingInv, OneWriterPerVersion, TypeOK
    <3> QED
      BY <1>0, <3>5, <3>6 DEF FencingInv
  <2>3. CASE SaveFull(n)
    <3>1. durableVer' \in {durableVer, ver[n]} /\ ver[n] <= version
      BY <1>0, <2>3, CapturedFacts DEF SaveFull, FencingInv, NoneAhead
    <3>2. \A m \in Nodes : pc'[m] \in Checkpoint => pc[m] \in Checkpoint
      BY <1>0, <2>3 DEF SaveFull, GoTo, Checkpoint
    <3> QED
      BY <1>0, <2>3, <3>1, <3>2, FencingFrame DEF SaveFull
  <2>4. CASE Truncate(n) \/ TruncateFails(n)
    BY <1>0, <2>4, FencingFrame
    DEF Truncate, TruncateFails, GoTo, Checkpoint, storeVars, newest
  <2>5. CASE SaveDirty(n)
    <3>1. durableVer' \in {durableVer, ver[n]} /\ ver[n] <= version
      BY <1>0, <2>5, CapturedFacts DEF SaveDirty, FencingInv, NoneAhead
    <3>2. \A m \in Nodes : pc'[m] \in Checkpoint => pc[m] \in Checkpoint
      BY <1>0, <2>5 DEF SaveDirty, GoTo, Checkpoint
    <3> QED
      BY <1>0, <2>5, <3>1, <3>2, FencingFrame DEF SaveDirty
  <2>6. CASE LoadSnapshot(n) \/ LoadSnapshotFails(n) \/ LoadDeltas(n)
             \/ LoadDeltasFails(n)
    BY <1>0, <2>6, FencingFrame
    DEF LoadSnapshot, LoadSnapshotFails, LoadDeltas, LoadDeltasFails, GoTo,
        Checkpoint, storeVars, newest
  <2>7. ASSUME NEW p \in Pages, NEW c \in Contents, Write(n, p, c)
        PROVE  FencingInv'
    BY <1>0, <2>7, FencingFrame DEF Write, storeVars, newest
  <2>8. ASSUME NEW p \in Pages, Grow(n, p) PROVE FencingInv'
    BY <1>0, <2>8, FencingFrame DEF Grow, storeVars, newest
  <2>9. CASE Return(n) \/ Fenced(n) \/ Crash(n)
    <3>1. /\ version' = version /\ durableVer' = durableVer
          /\ pc'[n] = "idle" /\ ver'[n] = 0
          /\ \A m \in Nodes : m # n => pc'[m] = pc[m] /\ ver'[m] = ver[m]
      BY <1>0, <2>9, DiscardFacts DEF Return, Fenced, Crash
    <3>2. NoneAhead'
      BY <1>0, <3>1 DEF FencingInv, NoneAhead, TypeOK
    <3>3. OneWriterPerVersion'
      BY <1>0, <3>1 DEF FencingInv, OneWriterPerVersion, Checkpoint
    <3> QED
      BY <1>0, <3>2, <3>3 DEF FencingInv
  <2> QED
    BY <1>2, <2>1, <2>2, <2>3, <2>4, <2>5, <2>6, <2>7, <2>8, <2>9 DEF Step
<1> QED
  BY <1>1, <1>2 DEF Next

LEMMA InitFencing == Init => FencingInv
BY InitType DEF Init, FencingInv, NoneAhead, OneWriterPerVersion, Checkpoint

\* Every reachable state is well typed.
THEOREM TypeCorrect == Spec => []TypeOK
<1>1. FencingInv => TypeOK
  BY DEF FencingInv
<1> QED
  BY <1>1, InitFencing, StepFencing, PTL DEF Spec

\* No two sessions write a checkpoint under the same version, whatever crashes,
\* failed calls and overlapping restores there are.
THEOREM Fencing == Spec => []OneWriterPerVersion
<1>1. FencingInv => OneWriterPerVersion
  BY DEF FencingInv
<1> QED
  BY <1>1, InitFencing, StepFencing, PTL DEF Spec

(***************************************************************************)
(* The order of checkpoints.                                               *)
(***************************************************************************)
Working == {"running"} \cup Checkpoint

\* A session that may write next, all of whose loads succeeded and under which
\* nothing was written, works on the newest checkpoint.
Descending ==
    \A n \in Nodes :
        HasVersion(n) /\ pc[n] \in Working
          /\ doubt[n] \cap {"load_error", "overlap"} = {}
          => base[n] = durableVer

\* While the newest session is between Save and TruncateDeltas the snapshot is
\* its memory and the newest checkpoint.
Pending ==
    \A n \in Nodes :
        Truncating(n) /\ (harm \subseteq {"untruncated"} \/ doubt[n] = {})
          => /\ snapshot = mem[n] /\ durable = mem[n]
             /\ durableVer = ver[n] /\ base[n] = ver[n]

\* And the deltas below it, or worse, are on record.
Marked == \A n \in Nodes : Truncating(n) => harm # {}

OrderInv == FencingInv /\ Descending /\ Pending /\ Marked

\* A session's step leaves the sessions of the other nodes alone, but for what
\* they have to doubt.
LEMMA OthersKeep ==
    ASSUME TypeOK, NEW n \in Nodes, Step(n), NEW m \in Nodes, m # n
    PROVE  /\ pc'[m] = pc[m] /\ ver'[m] = ver[m] /\ mem'[m] = mem[m]
           /\ hashes'[m] = hashes[m] /\ base'[m] = base[m]
<1> USE DEF TypeOK, GoTo
<1>1. CASE Start(n)
  BY <1>1 DEF Start
<1>2. CASE LoadSnapshot(n)
  BY <1>2 DEF LoadSnapshot
<1>3. CASE LoadSnapshotFails(n) \/ LoadDeltasFails(n)
  BY <1>3 DEF LoadSnapshotFails, LoadDeltasFails
<1>4. CASE LoadDeltas(n)
  BY <1>4 DEF LoadDeltas
<1>5. ASSUME NEW p \in Pages, NEW c \in Contents, Write(n, p, c)
      PROVE  /\ pc'[m] = pc[m] /\ ver'[m] = ver[m] /\ mem'[m] = mem[m]
             /\ hashes'[m] = hashes[m] /\ base'[m] = base[m]
  BY <1>5 DEF Write
<1>6. ASSUME NEW p \in Pages, Grow(n, p)
      PROVE  /\ pc'[m] = pc[m] /\ ver'[m] = ver[m] /\ mem'[m] = mem[m]
             /\ hashes'[m] = hashes[m] /\ base'[m] = base[m]
  BY <1>6 DEF Grow
<1>7. CASE Return(n) \/ Fenced(n) \/ Crash(n)
  BY <1>7, DiscardFacts DEF Return, Fenced, Crash
<1>8. CASE CompareAndSwap(n)
  BY <1>8 DEF CompareAndSwap
<1>9. CASE SaveFull(n)
  BY <1>9 DEF SaveFull, Captured
<1>10. CASE Truncate(n) \/ TruncateFails(n)
  BY <1>10 DEF Truncate, TruncateFails
<1>11. CASE SaveDirty(n)
  BY <1>11 DEF SaveDirty, Captured
<1> QED
  BY <1>1, <1>2, <1>3, <1>4, <1>5, <1>6, <1>7, <1>8, <1>9, <1>10, <1>11 DEF Step

\* A step of n that writes nothing to the record changes nothing the others
\* depend on.
LEMMA QuietStep ==
    ASSUME TypeOK, NEW n \in Nodes, Step(n),
           ~(CompareAndSwap(n) \/ SaveFull(n) \/ Truncate(n) \/ SaveDirty(n))
    PROVE  /\ UNCHANGED <<version, snapshot, deltas, durable, durableVer, harm>>
           /\ \A m \in Nodes : m # n => doubt'[m] = doubt[m]
<1> USE DEF TypeOK, storeVars, newest
<1>1. CASE Start(n)
  BY <1>1 DEF Start
<1>2. CASE LoadSnapshot(n)
  BY <1>2 DEF LoadSnapshot
<1>3. CASE LoadSnapshotFails(n) \/ LoadDeltasFails(n)
  BY <1>3 DEF LoadSnapshotFails, LoadDeltasFails, Doubt
<1>4. CASE LoadDeltas(n)
  BY <1>4 DEF LoadDeltas
<1>5. ASSUME NEW p \in Pages, NEW c \in Contents, Write(n, p, c)
      PROVE  /\ UNCHANGED <<version, snapshot, deltas, durable, durableVer, harm>>
             /\ \A m \in Nodes : m # n => doubt'[m] = doubt[m]
  BY <1>5 DEF Write, Doubt
<1>6. ASSUME NEW p \in Pages, Grow(n, p)
      PROVE  /\ UNCHANGED <<version, snapshot, deltas, durable, durableVer, harm>>
             /\ \A m \in Nodes : m # n => doubt'[m] = doubt[m]
  BY <1>6 DEF Grow
<1>7. CASE Return(n) \/ Fenced(n) \/ Crash(n)
  BY <1>7, DiscardFacts DEF Return, Fenced, Crash
<1>8. CASE TruncateFails(n)
  BY <1>8 DEF TruncateFails
<1> QED
  BY <1>1, <1>2, <1>3, <1>4, <1>5, <1>6, <1>7, <1>8 DEF Step

\* After a write of n to the record every other session with the stored version
\* has the overlap to doubt; and if n has that version none of them is
\* truncating.
LEMMA AfterWrite ==
    ASSUME FencingInv, NEW n \in Nodes,
           SaveFull(n) \/ Truncate(n) \/ SaveDirty(n),
           NEW m \in Nodes, m # n
    PROVE  /\ HasVersion(m)' => "overlap" \in doubt'[m]
           /\ Truncating(m)' => "overlap" \in harm'
<1>0. TypeOK
  BY DEF FencingInv
<1>1. PICK own \in SUBSET Troubles : WroteUnder(n, own)
  BY <1>0 DEF SaveFull, Truncate, SaveDirty, TypeOK
<1>2. version' = version /\ ver' = ver /\ pc'[m] = pc[m] /\ pc[n] \in Checkpoint
  BY <1>0 DEF SaveFull, Truncate, SaveDirty, GoTo, TypeOK, Checkpoint
<1>3. HasVersion(m)' => "overlap" \in doubt'[m]
  BY <1>0, <1>1, <1>2, WroteUnderFacts DEF HasVersion
<1>4. Truncating(m)' => ver[n] # version
  BY <1>2 DEF Truncating, FencingInv, OneWriterPerVersion, Checkpoint
<1>5. ver[n] # version => "overlap" \in harm'
  BY DEF SaveFull, Truncate, SaveDirty, WroteLate
<1> QED
  BY <1>3, <1>4, <1>5

LEMMA InitOrder == Init => OrderInv
BY InitFencing
DEF Init, OrderInv, Descending, Pending, Marked, HasVersion, Truncating

\* Every step keeps the order of checkpoints.
LEMMA StepOrder == OrderInv /\ [Next]_vars => OrderInv'
<1> SUFFICES ASSUME OrderInv, [Next]_vars PROVE OrderInv'
  OBVIOUS
<1>0. TypeOK /\ TypeOK' /\ FencingInv /\ FencingInv' /\ durableVer <= version
  BY StepFencing DEF OrderInv, FencingInv, NoneAhead
<1>a. version \in Nat /\ \A m \in Nodes : ver[m] \in Nat /\ ver[m] <= version
  BY <1>0 DEF FencingInv, NoneAhead, TypeOK
<1>1. CASE UNCHANGED vars
  BY <1>0, <1>1
  DEF vars, OrderInv, Descending, Pending, Marked, HasVersion, Truncating
<1>2. ASSUME NEW n \in Nodes, Step(n) PROVE OrderInv'
  <2> DEFINE D(m) == HasVersion(m) /\ pc[m] \in Working
                       /\ doubt[m] \cap {"load_error", "overlap"} = {}
                       => base[m] = durableVer
             P(m) == Truncating(m)
                       /\ (harm \subseteq {"untruncated"} \/ doubt[m] = {})
                       => /\ snapshot = mem[m] /\ durable = mem[m]
                          /\ durableVer = ver[m] /\ base[m] = ver[m]
             M(m) == Truncating(m) => harm # {}
  <2>a. \A m \in Nodes : D(m) /\ P(m) /\ M(m)
    BY DEF OrderInv, Descending, Pending, Marked
  <2>b. SUFFICES \A m \in Nodes : D(m)' /\ P(m)' /\ M(m)'
    BY <1>0 DEF OrderInv, Descending, Pending, Marked
  <2>c. \A m \in Nodes : m # n =>
          /\ pc'[m] = pc[m] /\ ver'[m] = ver[m] /\ mem'[m] = mem[m]
          /\ base'[m] = base[m]
    BY <1>0, <1>2, OthersKeep
  <2>d. ASSUME UNCHANGED <<version, snapshot, deltas, durable, durableVer, harm>>,
               \A m \in Nodes : m # n => doubt'[m] = doubt[m]
        PROVE  \A m \in Nodes : m # n => D(m)' /\ P(m)' /\ M(m)'
    BY <2>a, <2>c, <2>d DEF HasVersion, Truncating
  <2>e. ASSUME SaveFull(n) \/ Truncate(n) \/ SaveDirty(n)
        PROVE  \A m \in Nodes : m # n => D(m)' /\ P(m)' /\ M(m)'
    <3> SUFFICES ASSUME NEW m \in Nodes, m # n PROVE D(m)' /\ P(m)' /\ M(m)'
      OBVIOUS
    <3>1. /\ HasVersion(m)' => "overlap" \in doubt'[m]
          /\ Truncating(m)' => "overlap" \in harm'
      BY <1>0, <2>e, AfterWrite
    <3>2. Truncating(m)' => HasVersion(m)'
      BY DEF Truncating, HasVersion
    <3> QED
      BY <3>1, <3>2
  <2>1. CASE \/ Start(n) \/ LoadSnapshot(n) \/ LoadSnapshotFails(n)
    <3>1. pc'[n] \in {"load", "overlay"}
      BY <1>0, <2>1 DEF Start, LoadSnapshot, LoadSnapshotFails, GoTo, TypeOK
    <3>2. D(n)' /\ P(n)' /\ M(n)'
      BY <3>1 DEF Working, Checkpoint, Truncating
    <3>3. ~(CompareAndSwap(n) \/ SaveFull(n) \/ Truncate(n) \/ SaveDirty(n))
      BY <2>1 DEF Start, LoadSnapshot, LoadSnapshotFails, CompareAndSwap,
         SaveFull, Truncate, SaveDirty
    <3> QED
      BY <1>0, <1>2, <2>d, <3>2, <3>3, QuietStep
  <2>2. CASE LoadDeltas(n)
    <3>1. /\ pc'[n] = "running" /\ base'[n] = durableVer
          /\ durableVer' = durableVer
      BY <1>0, <2>2 DEF LoadDeltas, GoTo, newest, TypeOK
    <3>2. D(n)' /\ P(n)' /\ M(n)'
      BY <3>1 DEF Truncating
    <3>3. ~(CompareAndSwap(n) \/ SaveFull(n) \/ Truncate(n) \/ SaveDirty(n))
      BY <2>2 DEF LoadDeltas, CompareAndSwap, SaveFull, Truncate, SaveDirty
    <3> QED
      BY <1>0, <1>2, <2>d, <3>2, <3>3, QuietStep
  <2>3. CASE LoadDeltasFails(n)
    <3>1. pc'[n] = "running" /\ "load_error" \in doubt'[n]
      BY <1>0, <2>3 DEF LoadDeltasFails, Doubt, GoTo, TypeOK
    <3>2. D(n)' /\ P(n)' /\ M(n)'
      BY <3>1 DEF Truncating
    <3>3. ~(CompareAndSwap(n) \/ SaveFull(n) \/ Truncate(n) \/ SaveDirty(n))
      BY <2>3 DEF LoadDeltasFails, CompareAndSwap, SaveFull, Truncate, SaveDirty
    <3> QED
      BY <1>0, <1>2, <2>d, <3>2, <3>3, QuietStep
  <2>4. CASE \/ \E p \in Pages, c \in Contents : Write(n, p, c)
             \/ \E p \in Pages : Grow(n, p)
    <3>1. /\ pc[n] = "running" /\ doubt[n] \subseteq doubt'[n]
          /\ UNCHANGED <<version, pc, ver, base, snapshot, deltas, durable,
                        durableVer, harm>>
          /\ \A m \in Nodes : m # n => doubt'[m] = doubt[m]
      BY <1>0, <2>4 DEF Write, Grow, Doubt, storeVars, newest, TypeOK
    <3>2. D(n)' /\ P(n)' /\ M(n)'
      BY <2>a, <3>1 DEF Truncating, HasVersion
    <3> QED
      BY <2>d, <3>1, <3>2
  <2>5. CASE Return(n) \/ Fenced(n) \/ Crash(n)
    <3>1. /\ pc'[n] = "idle"
          /\ UNCHANGED <<version, snapshot, deltas, durable, durableVer, harm>>
          /\ \A m \in Nodes : m # n => doubt'[m] = doubt[m]
      BY <1>0, <2>5, DiscardFacts DEF Return, Fenced, Crash
    <3>2. D(n)' /\ P(n)' /\ M(n)'
      BY <3>1 DEF HasVersion, Truncating
    <3> QED
      BY <2>d, <3>1, <3>2
  <2>6. CASE CompareAndSwap(n)
    <3>1. /\ pc[n] = "running" /\ ver[n] = version /\ version' = version + 1
          /\ pc'[n] \in {"save", "diff"}
          /\ UNCHANGED <<base, durableVer, doubt>>
      BY <1>0, <1>a, <2>6, AcceptsIsEqual
      DEF CompareAndSwap, NextVersion, GoTo, newest, TypeOK
    <3>2. base[n] = durableVer \/ doubt[n] \cap {"load_error", "overlap"} # {}
      BY <2>a, <3>1 DEF HasVersion, Working
    <3>3. D(n)' /\ P(n)' /\ M(n)'
      BY <3>1, <3>2 DEF Truncating
    <3>4. ASSUME NEW m \in Nodes, m # n PROVE ver'[m] # version'
      BY <1>a, <2>c, <3>1, <3>4
    <3> QED
      BY <3>3, <3>4 DEF HasVersion, Truncating
  <2>7. CASE SaveFull(n)
    <3>1. /\ version' = version /\ ver' = ver /\ mem' = mem
          /\ snapshot' = mem[n] /\ Captured(n)
          /\ pc'[n] = "truncate" => harm' # {}
      BY <1>0, <2>7 DEF SaveFull, Save, GoTo, TypeOK
    <3>2. base'[n] = ver[n]
          /\ (ver[n] = version => durable' = mem[n] /\ durableVer' = ver[n])
      BY <1>0, <3>1, CapturedFacts
    <3>3. D(n)' /\ P(n)' /\ M(n)'
      BY <3>1, <3>2 DEF HasVersion, Truncating
    <3> QED
      BY <2>7, <2>e, <3>3
  <2>8. CASE Truncate(n)
    <3>1. /\ pc[n] = "truncate" /\ pc'[n] = "running"
          /\ harm' = {} => harm \subseteq {"untruncated"}
          /\ UNCHANGED <<version, ver, base, durableVer>>
      BY <1>0, <2>8 DEF Truncate, GoTo, newest, TypeOK
    <3>2. doubt'[n] = IF harm' = {} THEN {} ELSE doubt[n]
      BY <1>0, <2>8, WroteUnderFacts DEF Truncate, TypeOK
    <3>3. ASSUME harm' = {} PROVE D(n)' /\ P(n)' /\ M(n)'
      BY <2>a, <3>1, <3>3 DEF HasVersion, Truncating
    <3>4. ASSUME harm' # {} PROVE D(n)' /\ P(n)' /\ M(n)'
      BY <2>a, <3>1, <3>2, <3>4 DEF HasVersion, Truncating, Working, Checkpoint
    <3> QED
      BY <2>8, <2>e, <3>3, <3>4
  <2>9. CASE TruncateFails(n)
    <3>1. /\ pc[n] = "truncate" /\ pc'[n] = "running"
          /\ UNCHANGED <<version, ver, base, doubt, snapshot, deltas, durable,
                        durableVer, harm>>
      BY <1>0, <2>9 DEF TruncateFails, GoTo, storeVars, newest, TypeOK
    <3>2. D(n)' /\ P(n)' /\ M(n)'
      BY <2>a, <3>1 DEF HasVersion, Truncating, Working, Checkpoint
    <3> QED
      BY <2>d, <3>1, <3>2
  <2>10. CASE SaveDirty(n)
    <3>1. version' = version /\ ver' = ver /\ pc'[n] = "running" /\ Captured(n)
      BY <1>0, <2>10 DEF SaveDirty, GoTo, TypeOK
    <3>2. base'[n] = ver[n] /\ (ver[n] = version => durableVer' = ver[n])
      BY <1>0, <3>1, CapturedFacts
    <3>3. D(n)' /\ P(n)' /\ M(n)'
      BY <3>1, <3>2 DEF HasVersion, Truncating
    <3> QED
      BY <2>10, <2>e, <3>3
  <2> QED
    BY <1>2, <2>1, <2>2, <2>3, <2>4, <2>5, <2>6, <2>7, <2>8, <2>9, <2>10 DEF Step
<1> QED
  BY <1>1, <1>2 DEF Next

\* A session moves only by its own steps.
LEMMA OwnStep ==
    ASSUME TypeOK, [Next]_vars, NEW n \in Nodes, pc'[n] # pc[n]
    PROVE  Step(n)
<1>1. PICK m \in Nodes : Step(m)
  BY DEF Next, vars
<1> QED
  BY <1>1, OthersKeep

\* The session that wins a version was restored from the newest checkpoint or
\* wrote it, unless a load of its own failed or another session wrote under it:
\* the compare-and-swap alone keeps everyone else from overwriting a checkpoint
\* they never saw.
THEOREM LostUpdateFreedom == Spec => NoLostUpdate
<1>2. OrderInv /\ [Next]_vars =>
        [\A n \in Nodes :
           pc[n] = "running" /\ pc'[n] \in Checkpoint
             /\ doubt[n] \cap {"load_error", "overlap"} = {}
             => base[n] = durableVer]_vars
  <2> SUFFICES ASSUME OrderInv, [Next]_vars, NEW n \in Nodes,
                      pc[n] = "running", pc'[n] \in Checkpoint,
                      doubt[n] \cap {"load_error", "overlap"} = {}
               PROVE  base[n] = durableVer
    OBVIOUS
  <2>1. TypeOK
    BY DEF OrderInv, FencingInv
  <2>2. CompareAndSwap(n)
    <3>1. Step(n)
      BY <2>1, OwnStep DEF Checkpoint
    <3> QED
      BY <2>1, <3>1, DiscardFacts
      DEF Step, TypeOK, Start, LoadSnapshot, LoadSnapshotFails, LoadDeltas,
          LoadDeltasFails, Write, Grow, Return, Fenced, SaveFull, Truncate,
          TruncateFails, SaveDirty, Crash, GoTo, Checkpoint
  <2>3. ver[n] = version
    BY <2>1, <2>2, AcceptsIsEqual DEF CompareAndSwap, TypeOK
  <2> QED
    BY <2>3 DEF OrderInv, Descending, HasVersion, Working
<1> QED
  BY <1>2, InitOrder, StepOrder, PTL DEF Spec, NoLostUpdate

(***************************************************************************)
(* Recovery.  The record is exact because a session that may write next    *)
(* and has met no trouble follows it: a page whose content is the one last *)
(* hashed, and so is left out of the next delta, already lies in the store *)
(* with that content.                                                      *)
(***************************************************************************)

\* Memory only grows: the pages the module starts with and the hashed pages
\* are there.
Allocated ==
    \A n \in Nodes, p \in Pages :
        FreshMemory[p] # Absent \/ hashes[n][p] # Absent => mem[n][p] # Absent

\* How far a restore has come.
Restoring ==
    \A n \in Nodes :
        /\ pc[n] \in {"idle", "load"} =>
             mem[n] = FreshMemory /\ hashes[n] = Nothing(Pages)
        /\ HasVersion(n) /\ doubt[n] = {} /\ pc[n] = "overlay" =>
             /\ mem[n] = Overlay(FreshMemory, snapshot)
             /\ \A p \in Pages : hashes[n][p] \in {mem[n][p], Absent}

\* A clean page is stored.
Following ==
    \A n \in Nodes :
        HasVersion(n) /\ doubt[n] = {} /\ pc[n] \in Working =>
          \A p \in Pages : mem[n][p] = hashes[n][p] => mem[n][p] = Image[p]

\* Deltas are written from version 2 on.
Stored ==
    /\ version <= 1 => deltas = Nothing(Pages)
    /\ \A n \in Nodes : /\ pc[n] = "diff" => ver[n] > 1
                        /\ pc[n] = "save" => ver[n] >= 1

RecoveryInv ==
    OrderInv /\ Allocated /\ Restoring /\ Following /\ Stored /\ RecoverExact

\* What an overlay holds, page by page.
LEMMA OverlayAt ==
    ASSUME NEW under \in Memory, NEW over \in Memory, NEW p \in Pages
    PROVE  Overlay(under, over)[p] =
             IF over[p] # Absent THEN over[p] ELSE under[p]
BY DEF Overlay, Memory

\* Two memories that agree on every page are equal.
LEMMA MemoryExtensionality ==
    ASSUME NEW m1 \in Memory, NEW m2 \in Memory,
           \A p \in Pages : m1[p] = m2[p]
    PROVE  m1 = m2
BY DEF Memory

\* An empty record changes nothing.
LEMMA OverlayNothing ==
    ASSUME NEW m \in Memory PROVE Overlay(m, Nothing(Pages)) = m
<1>1. \A p \in Pages : Overlay(m, Nothing(Pages))[p] = m[p]
  BY ConstantMemories, OverlayAt DEF Nothing
<1> QED
  BY <1>1, ConstantMemories, OverlayType, MemoryExtensionality

\* A memory with every page of `under`, laid over it, is what remains.
LEMMA OverlayAbsorbs ==
    ASSUME NEW under \in Memory, NEW over \in Memory,
           \A p \in Pages : under[p] # Absent => over[p] # Absent
    PROVE  Overlay(under, over) = over
<1>1. \A p \in Pages : Overlay(under, over)[p] = over[p]
  BY OverlayAt
<1> QED
  BY <1>1, OverlayType, MemoryExtensionality

\* The image, page by page.
LEMMA ImageAt ==
    ASSUME NEW base0 \in Memory, NEW over \in Memory, NEW p \in Pages
    PROVE  /\ Overlay(Overlay(FreshMemory, base0), over) \in Memory
           /\ Overlay(Overlay(FreshMemory, base0), over)[p] =
                IF over[p] # Absent THEN over[p]
                ELSE IF base0[p] # Absent THEN base0[p] ELSE FreshMemory[p]
<1>1. Overlay(FreshMemory, base0) \in Memory
  BY ConstantMemories, OverlayType
<1>2. Overlay(FreshMemory, base0)[p] =
        IF base0[p] # Absent THEN base0[p] ELSE FreshMemory[p]
  BY ConstantMemories, OverlayAt
<1>3. Overlay(Overlay(FreshMemory, base0), over)[p] =
        IF over[p] # Absent THEN over[p] ELSE Overlay(FreshMemory, base0)[p]
  BY <1>1, OverlayAt
<1>4. Overlay(Overlay(FreshMemory, base0), over) \in Memory
  BY <1>1, OverlayType
<1> QED
  BY <1>2, <1>3, <1>4

LEMMA InitRecovery == Init => RecoveryInv
<1> SUFFICES ASSUME Init PROVE RecoveryInv
  OBVIOUS
<1>1. OrderInv
  BY InitOrder
<1>2. Image = durable
  BY ConstantMemories, OverlayNothing DEF Init, Image
<1>3. Allocated
  BY DEF Allocated, Init, Nothing
<1> QED
  BY <1>1, <1>2, <1>3
  DEF Init, RecoveryInv, Restoring, Following, Stored, RecoverExact,
      RecoversDespite, HasVersion, Working, Checkpoint

\* A full snapshot of a memory with all the pages the module starts with,
\* nothing lying over it, is what a restore gives.
LEMMA ImageOfSnapshot ==
    ASSUME NEW m \in Memory,
           \A p \in Pages : FreshMemory[p] # Absent => m[p] # Absent
    PROVE  Overlay(Overlay(FreshMemory, m), Nothing(Pages)) = m
BY ConstantMemories, OverlayAbsorbs, OverlayNothing

\* A delta of a session that follows the record makes a restore give the
\* session's memory.
LEMMA ImageOfDelta ==
    ASSUME RecoveryInv, NEW n \in Nodes, SaveDirty(n), HasVersion(n),
           doubt[n] = {}
    PROVE  Image' = mem[n]
<1>0. TypeOK /\ pc[n] = "diff" /\ snapshot' = snapshot
      /\ deltas' = Overlay(deltas, Dirty(n))
  BY DEF RecoveryInv, OrderInv, FencingInv, SaveDirty, SaveDeltas
<1>1. Dirty(n) \in Memory /\ deltas \in Memory /\ snapshot \in Memory
      /\ mem[n] \in Memory /\ hashes[n] \in Memory
  BY <1>0 DEF Dirty, TypeOK, Memory
<1>2. deltas' \in Memory
  BY <1>0, <1>1, OverlayType
<1>3. Image' = Overlay(Overlay(FreshMemory, snapshot), deltas')
  BY <1>0 DEF Image
<1>4. ASSUME NEW p \in Pages PROVE Image'[p] = mem[n][p]
  <2>1. Image'[p] = IF deltas'[p] # Absent THEN deltas'[p]
                   ELSE IF snapshot[p] # Absent THEN snapshot[p]
                   ELSE FreshMemory[p]
    BY <1>1, <1>2, <1>3, ImageAt
  <2>2. Image[p] = IF deltas[p] # Absent THEN deltas[p]
                  ELSE IF snapshot[p] # Absent THEN snapshot[p]
                  ELSE FreshMemory[p]
    BY <1>1, ImageAt DEF Image
  <2>3. deltas'[p] = IF Dirty(n)[p] # Absent THEN Dirty(n)[p] ELSE deltas[p]
    BY <1>0, <1>1, OverlayAt
  <2>4. Dirty(n)[p] = IF mem[n][p] # hashes[n][p] THEN mem[n][p] ELSE Absent
    BY DEF Dirty
  <2>5. mem[n][p] = hashes[n][p] => mem[n][p] = Image[p]
    BY <1>0 DEF RecoveryInv, Following, Working, Checkpoint
  <2>6. hashes[n][p] # Absent => mem[n][p] # Absent
    BY DEF RecoveryInv, Allocated
  <2> QED
    BY <2>1, <2>2, <2>3, <2>4, <2>5, <2>6
<1>5. Image' \in Memory
  BY <1>1, <1>2, <1>3, OverlayType, ConstantMemories
<1> QED
  BY <1>1, <1>4, <1>5, MemoryExtensionality

\* The pages of every memory stay allocated.
LEMMA StepAllocated ==
    ASSUME RecoveryInv, NEW n \in Nodes, Step(n)
    PROVE  Allocated'
<1>0. TypeOK /\ Allocated
  BY DEF RecoveryInv, OrderInv, FencingInv
<1> DEFINE A(m) == \A p \in Pages :
             FreshMemory[p] # Absent \/ hashes[m][p] # Absent
               => mem[m][p] # Absent
<1>a. \A m \in Nodes : A(m)
  BY <1>0 DEF Allocated
<1>b. SUFFICES A(n)'
  BY <1>0, <1>a, OthersKeep DEF Allocated
<1>t. /\ mem[n] \in Memory /\ hashes[n] \in Memory /\ deltas \in Memory
      /\ snapshot \in Memory
  BY <1>0 DEF TypeOK
<1>1. CASE \/ Start(n) \/ LoadSnapshotFails(n) \/ LoadDeltasFails(n)
           \/ CompareAndSwap(n) \/ SaveFull(n) \/ Truncate(n)
           \/ TruncateFails(n)
  <2>1. mem' = mem /\ hashes' = hashes
    BY <1>1
    DEF Start, LoadSnapshotFails, LoadDeltasFails, CompareAndSwap, SaveFull,
        Truncate, TruncateFails
  <2> QED
    BY <1>a, <2>1
<1>2. CASE LoadSnapshot(n)
  <2>1. CASE ~IsRecorded(snapshot)
    BY <1>2, <1>a, <2>1 DEF LoadSnapshot
  <2>2. CASE IsRecorded(snapshot)
    <3>1. /\ mem'[n] = Overlay(mem[n], snapshot)
          /\ hashes'[n] = Overlay(mem[n], snapshot)
      BY <1>0, <1>2, <2>2 DEF LoadSnapshot, TypeOK
    <3> QED
      BY <1>a, <1>t, <3>1, OverlayAt
  <2> QED
    BY <2>1, <2>2
<1>3. CASE LoadDeltas(n)
  <2>1. /\ mem'[n] = Overlay(mem[n], deltas)
        /\ hashes'[n] = Overlay(hashes[n], deltas)
    BY <1>0, <1>3 DEF LoadDeltas, TypeOK
  <2> QED
    BY <1>a, <1>t, <2>1, OverlayAt
<1>4. CASE \/ \E p \in Pages, c \in Contents : Write(n, p, c)
           \/ \E p \in Pages : Grow(n, p)
  <2>1. PICK q \in Pages, c \in Contents :
          mem' = [mem EXCEPT ![n][q] = c] /\ hashes' = hashes
    BY <1>4, BoundsAssumption DEF Write, Grow, Contents
  <2>2. \A p \in Pages : mem'[n][p] = IF p = q THEN c ELSE mem[n][p]
    BY <1>0, <2>1 DEF TypeOK, Memory
  <2>3. c # Absent
    BY DEF Contents, Absent
  <2> QED
    BY <1>a, <2>1, <2>2, <2>3
<1>5. CASE Return(n) \/ Fenced(n) \/ Crash(n)
  <2>1. mem'[n] = FreshMemory /\ hashes'[n] = Nothing(Pages)
    BY <1>0, <1>5, DiscardFacts DEF Return, Fenced, Crash
  <2> QED
    BY <2>1 DEF Nothing
<1>6. CASE SaveDirty(n)
  <2>1. mem' = mem /\ hashes'[n] = Overlay(hashes[n], Dirty(n))
    BY <1>0, <1>6 DEF SaveDirty, TypeOK
  <2>2. Dirty(n) \in Memory
    BY <1>t DEF Dirty, Memory
  <2>3. ASSUME NEW p \in Pages
        PROVE  hashes'[n][p] = IF Dirty(n)[p] # Absent THEN Dirty(n)[p]
                               ELSE hashes[n][p]
    BY <1>t, <2>1, <2>2, OverlayAt
  <2>4. \A p \in Pages : Dirty(n)[p] # Absent => mem[n][p] # Absent
    BY DEF Dirty
  <2> QED
    BY <1>a, <2>1, <2>3, <2>4
<1> QED
  BY <1>1, <1>2, <1>3, <1>4, <1>5, <1>6 DEF Step

\* Deltas appear from version 2 on.
LEMMA StepStored ==
    ASSUME RecoveryInv, NEW n \in Nodes, Step(n)
    PROVE  Stored'
<1>0. TypeOK /\ Stored /\ FencingInv
  BY DEF RecoveryInv, OrderInv, FencingInv
<1>a. version \in Nat /\ \A m \in Nodes : ver[m] \in Nat /\ ver[m] <= version
  BY <1>0 DEF FencingInv, NoneAhead, TypeOK
<1>c. \A m \in Nodes : m # n => pc'[m] = pc[m] /\ ver'[m] = ver[m]
  BY <1>0, OthersKeep
<1>1. CASE CompareAndSwap(n)
  <2>1. /\ version' = version + 1 /\ ver'[n] = version + 1
        /\ pc'[n] = IF IsFullSnapshot(version + 1) THEN "save" ELSE "diff"
        /\ deltas' = deltas
    BY <1>0, <1>a, <1>1, AcceptsIsEqual
    DEF CompareAndSwap, NextVersion, GoTo, TypeOK
  <2>2. pc'[n] = "diff" => version + 1 > 1
    BY <1>a, <2>1 DEF IsFullSnapshot
  <2> QED
    BY <1>0, <1>a, <1>c, <2>1, <2>2 DEF Stored
<1>2. CASE Truncate(n)
  <2>1. /\ deltas' = Nothing(Pages) /\ pc'[n] = "running"
        /\ version' = version /\ ver' = ver
    BY <1>0, <1>2 DEF Truncate, TruncateDeltas, GoTo, TypeOK, Memory
  <2> QED
    BY <1>0, <1>c, <2>1 DEF Stored
<1>3. CASE SaveDirty(n)
  <2>1. /\ pc'[n] = "running" /\ version' = version /\ ver' = ver
        /\ pc[n] = "diff"
    BY <1>0, <1>3 DEF SaveDirty, GoTo, TypeOK
  <2>2. ~(version <= 1)
    BY <1>0, <1>a, <2>1 DEF Stored
  <2> QED
    BY <1>0, <1>c, <2>1, <2>2 DEF Stored
<1>4. CASE SaveFull(n)
  <2>1. /\ pc'[n] \in {"truncate", "running"} /\ version' = version
        /\ ver' = ver /\ deltas' = deltas
    BY <1>0, <1>4 DEF SaveFull, GoTo, TypeOK
  <2> QED
    BY <1>0, <1>c, <2>1 DEF Stored
<1>5. CASE ~(CompareAndSwap(n) \/ SaveFull(n) \/ Truncate(n) \/ SaveDirty(n))
  <2>1. version' = version /\ deltas' = deltas
    BY <1>0, <1>5, QuietStep
  <2>2. pc'[n] \notin {"diff", "save"}
    <3>1. CASE Return(n) \/ Fenced(n) \/ Crash(n)
      BY <1>0, <3>1, DiscardFacts DEF Return, Fenced, Crash
    <3>2. CASE ~(Return(n) \/ Fenced(n) \/ Crash(n))
      BY <1>0, <1>5, <3>2
      DEF Step, Start, LoadSnapshot, LoadSnapshotFails, LoadDeltas,
          LoadDeltasFails, Write, Grow, TruncateFails, GoTo, TypeOK
    <3> QED
      BY <3>1, <3>2
  <2> QED
    BY <1>0, <1>c, <2>1, <2>2 DEF Stored
<1> QED
  BY <1>1, <1>2, <1>3, <1>4, <1>5

\* Every step keeps the recovery invariant.
LEMMA StepRecovery == RecoveryInv /\ [Next]_vars => RecoveryInv'
<1> SUFFICES ASSUME RecoveryInv, [Next]_vars PROVE RecoveryInv'
  OBVIOUS
<1>0. OrderInv /\ OrderInv' /\ TypeOK /\ TypeOK' /\ FencingInv
  BY StepOrder DEF RecoveryInv, OrderInv, FencingInv
<1>a. version \in Nat /\ \A m \in Nodes : ver[m] \in Nat /\ ver[m] <= version
  BY <1>0 DEF FencingInv, NoneAhead, TypeOK
<1>1. CASE UNCHANGED vars
  BY <1>0, <1>1
  DEF RecoveryInv, vars, Allocated, Restoring, Following, Stored, RecoverExact,
      RecoversDespite, Image, HasVersion
<1>2. ASSUME NEW n \in Nodes, Step(n) PROVE RecoveryInv'
  <2> DEFINE
        R1(m) == pc[m] \in {"idle", "load"} =>
                   mem[m] = FreshMemory /\ hashes[m] = Nothing(Pages)
        R2(m) == HasVersion(m) /\ doubt[m] = {} /\ pc[m] = "overlay" =>
                   /\ mem[m] = Overlay(FreshMemory, snapshot)
                   /\ \A p \in Pages : hashes[m][p] \in {mem[m][p], Absent}
        F(m)  == HasVersion(m) /\ doubt[m] = {} /\ pc[m] \in Working =>
                   \A p \in Pages :
                     mem[m][p] = hashes[m][p] => mem[m][p] = Image[p]
  <2>a. \A m \in Nodes : R1(m) /\ R2(m) /\ F(m)
    BY DEF RecoveryInv, Restoring, Following
  <2>b. SUFFICES RecoverExact' /\ \A m \in Nodes : R1(m)' /\ R2(m)' /\ F(m)'
    BY <1>0, <1>2, StepAllocated, StepStored
    DEF RecoveryInv, Restoring, Following
  <2>c. \A m \in Nodes : m # n =>
          /\ pc'[m] = pc[m] /\ ver'[m] = ver[m] /\ mem'[m] = mem[m]
          /\ hashes'[m] = hashes[m]
    BY <1>0, <1>2, OthersKeep
  <2>t. /\ mem[n] \in Memory /\ hashes[n] \in Memory /\ deltas \in Memory
        /\ snapshot \in Memory
    BY <1>0 DEF TypeOK
  <2>d. \* What a step that writes nothing has to show.
        ASSUME UNCHANGED <<version, snapshot, deltas, durable, durableVer, harm>>,
               \A m \in Nodes : m # n => doubt'[m] = doubt[m],
               R1(n)' /\ R2(n)' /\ F(n)'
        PROVE  RecoverExact' /\ \A m \in Nodes : R1(m)' /\ R2(m)' /\ F(m)'
    <3>1. /\ UNCHANGED <<version, snapshot, deltas, durable, durableVer, harm>>
          /\ \A m \in Nodes : m # n => doubt'[m] = doubt[m]
      BY <2>d
    <3>2. Image' = Image
      BY <3>1 DEF Image
    <3>3. RecoverExact'
      BY <3>1, <3>2 DEF RecoveryInv, RecoverExact, RecoversDespite
    <3>4. \A m \in Nodes : m # n => R1(m)' /\ R2(m)' /\ F(m)'
      BY <2>a, <2>c, <3>1, <3>2 DEF HasVersion
    <3> QED
      BY <2>d, <3>3, <3>4
  <2>e. \* What a step that writes has to show.
        ASSUME SaveFull(n) \/ Truncate(n) \/ SaveDirty(n),
               HasVersion(n)' /\ doubt'[n] = {} => Image' = mem'[n],
               RecoverExact', pc'[n] \in Working
        PROVE  RecoverExact' /\ \A m \in Nodes : R1(m)' /\ R2(m)' /\ F(m)'
    <3>1. ASSUME NEW m \in Nodes, m # n PROVE R1(m)' /\ R2(m)' /\ F(m)'
      <4>1. HasVersion(m)' => "overlap" \in doubt'[m]
        BY <1>0, <2>e, <3>1, AfterWrite
      <4>2. R1(m)'
        BY <2>a, <2>c, <3>1
      <4> QED
        BY <4>1, <4>2
    <3>2. R1(n)' /\ R2(n)' /\ F(n)'
      BY <2>e DEF Working, Checkpoint
    <3> QED
      BY <2>e, <3>1, <3>2
  <2>1. CASE Start(n)
    <3>1. /\ pc[n] = "idle" /\ pc'[n] = "load"
          /\ mem' = mem /\ hashes' = hashes
      BY <1>0, <2>1 DEF Start, GoTo, TypeOK
    <3>2. R1(n)' /\ R2(n)' /\ F(n)'
      BY <2>a, <3>1 DEF Working, Checkpoint
    <3> QED
      BY <1>0, <1>2, <2>d, <3>1, <3>2, QuietStep
      DEF CompareAndSwap, SaveFull, Truncate, SaveDirty
  <2>2. CASE LoadSnapshot(n)
    <3>1. pc[n] = "load" /\ pc'[n] = "overlay" /\ snapshot' = snapshot
      BY <1>0, <2>2 DEF LoadSnapshot, GoTo, storeVars, TypeOK
    <3>2. mem[n] = FreshMemory /\ hashes[n] = Nothing(Pages)
      BY <2>a, <3>1
    <3>3. /\ mem'[n] = Overlay(FreshMemory, snapshot)
          /\ \A p \in Pages : hashes'[n][p] \in {mem'[n][p], Absent}
      <4>2. CASE IsRecorded(snapshot)
        BY <1>0, <2>2, <3>2, <4>2 DEF LoadSnapshot, TypeOK
      <4>3. CASE ~IsRecorded(snapshot)
        <5>1. \A p \in Pages : snapshot[p] = Absent
          BY <1>0, <4>3 DEF IsRecorded, TypeOK, Memory
        <5>2. \A p \in Pages : Overlay(FreshMemory, snapshot)[p] = FreshMemory[p]
          BY <2>t, <5>1, OverlayAt, ConstantMemories
        <5>3. Overlay(FreshMemory, snapshot) = FreshMemory
          BY <2>t, <5>2, OverlayType, MemoryExtensionality, ConstantMemories
        <5> QED
          BY <2>2, <3>2, <4>3, <5>3 DEF LoadSnapshot, Nothing
      <4> QED
        BY <4>2, <4>3
    <3>4. R1(n)' /\ R2(n)' /\ F(n)'
      BY <3>1, <3>3 DEF Working, Checkpoint
    <3> QED
      BY <1>0, <1>2, <2>d, <3>1, <3>4, QuietStep
      DEF CompareAndSwap, SaveFull, Truncate, SaveDirty
  <2>3. CASE LoadSnapshotFails(n) \/ LoadDeltasFails(n)
    <3>1. /\ pc[n] \in {"load", "overlay"} /\ pc'[n] \in {"overlay", "running"}
          /\ "load_error" \in doubt'[n]
      BY <1>0, <2>3 DEF LoadSnapshotFails, LoadDeltasFails, Doubt, GoTo, TypeOK
    <3>2. R1(n)' /\ R2(n)' /\ F(n)'
      BY <3>1
    <3> QED
      BY <1>0, <1>2, <2>d, <3>1, <3>2, QuietStep
      DEF CompareAndSwap, SaveFull, Truncate, SaveDirty
  <2>4. CASE LoadDeltas(n)
    <3>1. /\ pc[n] = "overlay" /\ pc'[n] = "running" /\ doubt' = doubt
          /\ mem'[n] = Overlay(mem[n], deltas)
          /\ UNCHANGED <<version, ver, snapshot, deltas>>
      BY <1>0, <2>4 DEF LoadDeltas, GoTo, storeVars, TypeOK
    <3>2. HasVersion(n)' => HasVersion(n)
      BY <3>1 DEF HasVersion
    <3>3. HasVersion(n)' /\ doubt'[n] = {} => mem'[n] = Image /\ Image' = Image
      BY <2>a, <3>1, <3>2 DEF Image
    <3>4. R1(n)' /\ R2(n)' /\ F(n)'
      BY <3>1, <3>3
    <3> QED
      BY <1>0, <1>2, <2>d, <3>1, <3>4, QuietStep
      DEF CompareAndSwap, SaveFull, Truncate, SaveDirty
  <2>5. ASSUME NEW q \in Pages, NEW c \in Contents, Write(n, q, c)
        PROVE  RecoverExact' /\ \A m \in Nodes : R1(m)' /\ R2(m)' /\ F(m)'
    <3>1. /\ pc[n] = "running" /\ pc' = pc /\ hashes' = hashes
          /\ doubt[n] \subseteq doubt'[n]
          /\ UNCHANGED <<version, ver, snapshot, deltas>>
      BY <1>0, <2>5 DEF Write, Doubt, storeVars, TypeOK
    <3>2. \A p \in Pages : mem'[n][p] = IF p = q THEN c ELSE mem[n][p]
      BY <1>0, <2>5 DEF Write, TypeOK, Memory
    <3>3. Image' = Image /\ (HasVersion(n)' <=> HasVersion(n))
      BY <3>1 DEF Image, HasVersion
    <3>4. doubt'[n] = {} => c # hashes[n][q] \/ c = Image[q]
      BY <1>0, <2>5 DEF Write, Doubt, TypeOK
    <3>5. R1(n)' /\ R2(n)' /\ F(n)'
      BY <2>a, <3>1, <3>2, <3>3, <3>4
    <3>6. durable' = durable /\ durableVer' = durableVer /\ harm' = harm
          /\ \A m \in Nodes : m # n => doubt'[m] = doubt[m]
      BY <1>0, <2>5 DEF Write, Doubt, newest, TypeOK
    <3> QED
      BY <2>d, <3>1, <3>5, <3>6
  <2>6. ASSUME NEW q \in Pages, Grow(n, q)
        PROVE  RecoverExact' /\ \A m \in Nodes : R1(m)' /\ R2(m)' /\ F(m)'
    <3>1. /\ pc[n] = "running" /\ pc' = pc /\ hashes' = hashes /\ doubt' = doubt
          /\ UNCHANGED <<version, ver, snapshot, deltas>> /\ mem[n][q] = Absent
      BY <2>6 DEF Grow, storeVars
    <3>2. \A p \in Pages : mem'[n][p] = IF p = q THEN 0 ELSE mem[n][p]
      BY <1>0, <2>6 DEF Grow, TypeOK, Memory
    <3>3. Image' = Image /\ (HasVersion(n)' <=> HasVersion(n))
      BY <3>1 DEF Image, HasVersion
    <3>4. hashes[n][q] # 0
      BY <3>1 DEF RecoveryInv, Allocated, Absent
    <3>5. R1(n)' /\ R2(n)' /\ F(n)'
      BY <2>a, <3>1, <3>2, <3>3, <3>4
    <3>6. durable' = durable /\ durableVer' = durableVer /\ harm' = harm
      BY <2>6 DEF Grow, newest
    <3> QED
      BY <2>d, <3>1, <3>5, <3>6
  <2>7. CASE Return(n) \/ Fenced(n) \/ Crash(n)
    <3>1. /\ pc'[n] = "idle" /\ mem'[n] = FreshMemory
          /\ hashes'[n] = Nothing(Pages)
      BY <1>0, <2>7, DiscardFacts DEF Return, Fenced, Crash
    <3>2. R1(n)' /\ R2(n)' /\ F(n)'
      BY <3>1 DEF Working, Checkpoint
    <3>3. /\ UNCHANGED <<version, snapshot, deltas, durable, durableVer, harm>>
          /\ \A m \in Nodes : m # n => doubt'[m] = doubt[m]
      BY <1>0, <2>7, DiscardFacts DEF Return, Fenced, Crash
    <3> QED
      BY <2>d, <3>2, <3>3
  <2>8. CASE CompareAndSwap(n)
    <3>1. /\ pc[n] = "running" /\ ver[n] = version /\ version' = version + 1
          /\ pc'[n] \in {"save", "diff"}
          /\ UNCHANGED <<snapshot, deltas, mem, hashes, durable, harm, doubt>>
      BY <1>0, <1>a, <2>8, AcceptsIsEqual
      DEF CompareAndSwap, NextVersion, GoTo, newest, TypeOK
    <3>2. Image' = Image
      BY <3>1 DEF Image
    <3>3. R1(n)' /\ R2(n)' /\ F(n)'
      BY <2>a, <3>1, <3>2 DEF HasVersion, Working
    <3>4. ASSUME NEW m \in Nodes, m # n PROVE R1(m)' /\ R2(m)' /\ F(m)'
      <4>1. ~HasVersion(m)'
        BY <1>a, <2>c, <3>1, <3>4 DEF HasVersion
      <4> QED
        BY <2>a, <2>c, <3>4, <4>1
    <3>5. RecoverExact'
      BY <3>1, <3>2 DEF RecoveryInv, RecoverExact, RecoversDespite
    <3> QED
      BY <3>3, <3>4, <3>5
  <2>9. CASE SaveFull(n)
    <3>1. /\ pc[n] = "save" /\ pc'[n] \in Working /\ snapshot' = mem[n]
          /\ UNCHANGED <<version, deltas, ver, mem, hashes>>
      BY <1>0, <2>9 DEF SaveFull, Save, GoTo, TypeOK, Working, Checkpoint
    <3>2. doubt'[n] = IF harm' = {} THEN {} ELSE doubt[n]
      <4>1. (IF harm' = {} THEN {} ELSE doubt[n]) \in SUBSET Troubles
        BY <1>0 DEF TypeOK
      <4> QED
        BY <1>0, <2>9, <4>1, WroteUnderFacts DEF SaveFull
    <3>3. ver[n] = version => durable' = mem[n]
      BY <1>0, <2>9, CapturedFacts DEF SaveFull, FencingInv, NoneAhead
    <3>4. \A p \in Pages : FreshMemory[p] # Absent => mem[n][p] # Absent
      BY DEF RecoveryInv, Allocated
    <3>5. ASSUME harm' = {} PROVE ver[n] = version /\ Image' = mem[n]
      <4>1. ver[n] = version /\ ~(ver[n] > 1)
        BY <2>9, <3>5 DEF SaveFull, WroteLate
      <4>2. deltas = Nothing(Pages)
        BY <1>a, <4>1 DEF RecoveryInv, Stored
      <4> QED
        BY <2>t, <3>1, <3>4, <4>1, <4>2, ImageOfSnapshot DEF Image
    <3>6. RecoverExact'
      BY <3>3, <3>5 DEF RecoverExact, RecoversDespite
    <3>7. R1(n)' /\ R2(n)'
      BY <3>1 DEF Working, Checkpoint
    <3>8. F(n)'
      <4>1. CASE harm' = {}
        BY <3>1, <3>5, <4>1
      <4>2. ASSUME harm' # {}, HasVersion(n)', doubt'[n] = {}, NEW p \in Pages,
                   mem'[n][p] = hashes'[n][p]
            PROVE  mem'[n][p] = Image'[p]
        <5>1. mem[n][p] = Image[p]
          BY <2>a, <3>1, <3>2, <4>2 DEF HasVersion, Working, Checkpoint
        <5>2. Image[p] = IF deltas[p] # Absent THEN deltas[p]
                        ELSE IF snapshot[p] # Absent THEN snapshot[p]
                        ELSE FreshMemory[p]
          BY <2>t, ImageAt DEF Image
        <5>3. Image'[p] = IF deltas[p] # Absent THEN deltas[p]
                         ELSE IF mem[n][p] # Absent THEN mem[n][p]
                         ELSE FreshMemory[p]
          BY <2>t, <3>1, ImageAt DEF Image
        <5> QED
          BY <3>1, <3>4, <5>1, <5>2, <5>3
      <4> QED
        BY <4>1, <4>2
    <3>9. ASSUME NEW m \in Nodes, m # n PROVE R1(m)' /\ R2(m)' /\ F(m)'
      <4>1. HasVersion(m)' => "overlap" \in doubt'[m]
        BY <1>0, <2>9, <3>9, AfterWrite
      <4>2. R1(m)'
        BY <2>a, <2>c, <3>9
      <4> QED
        BY <4>1, <4>2
    <3> QED
      BY <3>6, <3>7, <3>8, <3>9
  <2>10. CASE Truncate(n)
    <3>1. /\ pc[n] = "truncate" /\ pc'[n] \in Working
          /\ deltas' = Nothing(Pages)
          /\ harm' = (harm \ {"untruncated"}) \cup WroteLate(n)
          /\ UNCHANGED <<version, snapshot, ver, mem, durable>>
      BY <1>0, <2>10
      DEF Truncate, TruncateDeltas, GoTo, newest, TypeOK, Memory, Working
    <3>2. doubt'[n] = IF harm' = {} THEN {} ELSE doubt[n]
      <4>1. (IF harm' = {} THEN {} ELSE doubt[n]) \in SUBSET Troubles
        BY <1>0 DEF TypeOK
      <4> QED
        BY <1>0, <2>10, <4>1, WroteUnderFacts DEF Truncate
    <3>3. harm' = {} => harm \subseteq {"untruncated"} /\ ver[n] = version
      BY <3>1 DEF WroteLate
    <3>4. ASSUME Truncating(n), harm \subseteq {"untruncated"} \/ doubt[n] = {}
          PROVE  Image' = mem[n] /\ durable = mem[n]
      <4>1. snapshot = mem[n] /\ durable = mem[n]
        BY <1>0, <3>4 DEF OrderInv, Pending
      <4>2. \A p \in Pages : FreshMemory[p] # Absent => mem[n][p] # Absent
        BY DEF RecoveryInv, Allocated
      <4> QED
        BY <2>t, <3>1, <4>1, <4>2, ImageOfSnapshot DEF Image
    <3>5. RecoverExact'
      BY <3>1, <3>3, <3>4 DEF RecoverExact, RecoversDespite, Truncating
    <3>6. HasVersion(n)' /\ doubt'[n] = {} => Image' = mem'[n]
      BY <3>1, <3>2, <3>3, <3>4 DEF HasVersion, Truncating
    <3> QED
      BY <2>10, <2>e, <3>1, <3>5, <3>6
  <2>11. CASE TruncateFails(n)
    <3>1. /\ pc[n] = "truncate" /\ pc'[n] = "running"
          /\ UNCHANGED <<version, ver, mem, hashes, doubt, snapshot, deltas>>
      BY <1>0, <2>11 DEF TruncateFails, GoTo, storeVars, TypeOK
    <3>2. Image' = Image /\ (HasVersion(n)' => HasVersion(n))
      BY <3>1 DEF Image, HasVersion
    <3>3. R1(n)' /\ R2(n)' /\ F(n)'
      BY <2>a, <3>1, <3>2 DEF Working, Checkpoint
    <3>4. durable' = durable /\ durableVer' = durableVer /\ harm' = harm
      BY <2>11 DEF TruncateFails, newest
    <3> QED
      BY <2>d, <3>1, <3>3, <3>4
  <2>12. CASE SaveDirty(n)
    <3>1. /\ pc[n] = "diff" /\ pc'[n] = "running"
          /\ UNCHANGED <<version, ver, mem>>
      BY <1>0, <2>12 DEF SaveDirty, GoTo, TypeOK
    <3>2. doubt'[n] = doubt[n]
      BY <1>0, <2>12, WroteUnderFacts DEF SaveDirty, TypeOK
    <3>3. harm' = {} => doubt[n] = {} /\ ver[n] = version
      BY <2>12 DEF SaveDirty, WroteLate
    <3>4. ver[n] = version => durable' = mem[n]
      BY <1>0, <2>12, CapturedFacts DEF SaveDirty, FencingInv, NoneAhead
    <3>5. ver[n] = version /\ doubt[n] = {} => Image' = mem[n]
      BY <2>12, <3>1, ImageOfDelta DEF HasVersion
    <3>6. RecoverExact'
      BY <3>3, <3>4, <3>5 DEF RecoverExact, RecoversDespite
    <3>7. HasVersion(n)' /\ doubt'[n] = {} => Image' = mem'[n]
      BY <3>1, <3>2, <3>5 DEF HasVersion
    <3> QED
      BY <2>12, <2>e, <3>1, <3>6, <3>7 DEF Working
  <2> QED
    BY <1>2, <2>1, <2>2, <2>3, <2>4, <2>5, <2>6, <2>7, <2>8, <2>9, <2>10,
       <2>11, <2>12 DEF Step
<1> QED
  BY <1>1, <1>2 DEF Next

\* Whatever crashes, fails, overlaps or is written, snapshot plus dirty pages
\* rebuild the memory of the newest checkpoint, page for page, unless one of
\* the four troubles has reached the record and no checkpoint has set it right
\* since.
THEOREM Recovery == Spec => []RecoverExact
<1>1. RecoveryInv => RecoverExact
  BY DEF RecoveryInv
<1> QED
  BY <1>1, InitRecovery, StepRecovery, PTL DEF Spec

\* A session still entitled to write, whose reads succeeded and were not
\* written under, has restored exactly the newest checkpoint, if the record was
\* in order.
THEOREM ExactRestore == Spec => RestoreIsExact
<1>1. RecoveryInv /\ [Next]_vars =>
        [\A n \in Nodes :
           pc[n] = "overlay" /\ pc'[n] = "running" /\ ver[n] = version
             /\ doubt'[n] = {} /\ harm = {}
             => mem'[n] = durable]_vars
  <2> SUFFICES ASSUME RecoveryInv, [Next]_vars, NEW n \in Nodes,
                      pc[n] = "overlay", pc'[n] = "running", ver[n] = version,
                      doubt'[n] = {}, harm = {}
               PROVE  mem'[n] = durable
    OBVIOUS
  <2>1. TypeOK
    BY DEF RecoveryInv, OrderInv, FencingInv
  <2>2. Step(n)
    BY <2>1, OwnStep
  <2>3. ~LoadDeltasFails(n)
    BY <2>1 DEF LoadDeltasFails, Doubt, TypeOK
  <2>4. LoadDeltas(n)
    BY <2>1, <2>2, <2>3, DiscardFacts
    DEF Step, TypeOK, Start, LoadSnapshot, LoadSnapshotFails, Write, Grow,
        Return, CompareAndSwap, Fenced, SaveFull, Truncate, TruncateFails,
        SaveDirty, Crash, GoTo
  <2>5. /\ mem'[n] = Overlay(mem[n], deltas) /\ doubt[n] = {}
    BY <2>1, <2>4 DEF LoadDeltas, TypeOK
  <2>6. mem[n] = Overlay(FreshMemory, snapshot)
    BY <2>5 DEF RecoveryInv, Restoring, HasVersion
  <2> QED
    BY <2>5, <2>6 DEF RecoveryInv, RecoverExact, RecoversDespite, Image
<1> QED
  BY <1>1, InitRecovery, StepRecovery, PTL DEF Spec, RestoreIsExact

(***************************************************************************)
(* Checkpointing implements DurableMemory.                                 *)
(***************************************************************************)

\* While the record is sound the stored memory is the newest checkpoint.
LEMMA SoundIsDurable == RecoveryInv /\ Sound => StoredMemory = durable
<1> SUFFICES ASSUME RecoveryInv, Sound PROVE StoredMemory = durable
  OBVIOUS
<1>1. CASE \E n \in Nodes : Truncating(n)
  <2>1. PICK n \in Nodes : Truncating(n)
    BY <1>1
  <2>2. harm \subseteq {"untruncated"}
    BY DEF Sound
  <2>3. snapshot = mem[n] /\ durable = mem[n]
    BY <2>1, <2>2 DEF RecoveryInv, OrderInv, Pending
  <2> QED
    BY <1>1, <2>3 DEF StoredMemory
<1>2. CASE ~\E n \in Nodes : Truncating(n)
  BY <1>2 DEF StoredMemory, Sound, RecoveryInv, RecoverExact, RecoversDespite
<1> QED
  BY <1>1, <1>2

\* A session's step that keeps the record sound is a step of DurableMemory.
LEMMA StepRefines ==
    ASSUME RecoveryInv, RecoveryInv', NEW n \in Nodes, Step(n), Sound',
           Sound => StoredMemory = durable,
           (Sound => StoredMemory = durable)'
    PROVE  Durable!Next
<1>0. TypeOK /\ TypeOK' /\ FencingInv
  BY DEF RecoveryInv, OrderInv, FencingInv
<1>a. /\ version \in Nat
      /\ \A m \in Nodes : ver[m] \in Nat /\ ver[m] <= version
  BY <1>0 DEF FencingInv, NoneAhead, TypeOK
<1>b. /\ Sound => StoredMemory = durable
      /\ StoredMemory' = durable'
  OBVIOUS
<1>c. /\ Copies = [m \in Nodes |-> IF HasCopy(m) THEN {mem[m]} ELSE {}]
      /\ Copies' = [m \in Nodes |-> IF HasCopy(m)' THEN {mem'[m]} ELSE {}]
  BY DEF Copies
<1>d. /\ \A m \in Nodes : Truncating(m) => harm # {}
      /\ \A m \in Nodes : Truncating(m)' => harm' # {}
      /\ \A m \in Nodes : Truncating(m) /\ Sound => harm = {"untruncated"}
  BY DEF RecoveryInv, OrderInv, Marked, Sound
<1>e. \A m \in Nodes : m # n =>
        /\ pc'[m] = pc[m] /\ ver'[m] = ver[m] /\ mem'[m] = mem[m]
  BY <1>0, OthersKeep
<1>l. \* Copies are lost, or nothing changes.
      ASSUME Sound, durable' = durable, NEW nodes \in SUBSET Nodes,
             \A m \in Nodes : /\ HasCopy(m)' <=> HasCopy(m) /\ m \notin nodes
                              /\ HasCopy(m)' => mem'[m] = mem[m]
      PROVE  Durable!Next
  <2>1. Copies' = [m \in Nodes |-> IF m \in nodes THEN {} ELSE Copies[m]]
    BY <1>c, <1>l
  <2>2. Durable!Lose(nodes)
    BY <1>b, <1>l, <2>1 DEF Durable!Lose
  <2> QED
    BY <1>l, <2>2 DEF Durable!Next
<1>q. \* A step that writes nothing and after which the same session truncates.
      ASSUME UNCHANGED <<version, snapshot, deltas, durable, durableVer, harm>>,
             \A m \in Nodes : m # n => doubt'[m] = doubt[m],
             ~Truncating(n), ~Truncating(n)'
      PROVE  /\ Sound
             /\ \A m \in Nodes : Truncating(m)' <=> Truncating(m)
             /\ \A m \in Nodes : m # n => (HasCopy(m)' <=> HasCopy(m))
             /\ {} \in SUBSET Nodes /\ {n} \in SUBSET Nodes
  <2>1. \A m \in Nodes : Truncating(m)' <=> Truncating(m)
    BY <1>e, <1>q DEF Truncating
  <2>2. Sound
    BY <1>q, <2>1 DEF Sound
  <2>3. \A m \in Nodes : m # n => (HasCopy(m)' <=> HasCopy(m))
    BY <1>e, <1>q, <2>1 DEF HasCopy
  <2> QED
    BY <2>1, <2>2, <2>3
<1>w. \* The newest session has written its memory.
      ASSUME SaveFull(n) \/ SaveDirty(n), ver[n] = version, mem' = mem,
             durable' = mem[n], Sound => HasCopy(n) \/ doubt[n] # {}
      PROVE  Durable!Next
  <2>1. ASSUME NEW m \in Nodes, m # n PROVE ~HasCopy(m)'
    BY <1>0, <1>w, <2>1, AfterWrite DEF HasCopy, HasVersion, Working, Checkpoint
  <2>2. Durable!OnlyCopies({n})
    BY <1>b, <1>c, <1>w, <2>1 DEF Durable!OnlyCopies
  <2>3. CASE ~Sound
    BY <2>2, <2>3 DEF Durable!Next, Durable!Repair
  <2>4. CASE Sound /\ HasCopy(n)
    <3>1. StoredMemory' \in Copies[n]
      BY <1>b, <1>c, <1>w, <2>4
    <3> QED
      BY <2>2, <2>4, <3>1 DEF Durable!Next, Durable!Write
  <2>5. CASE Sound /\ doubt[n] # {}
    BY <2>2, <2>5 DEF Durable!Next, Durable!Overwrite, Astray
  <2> QED
    BY <1>w, <2>3, <2>4, <2>5
<1>1. CASE \/ Start(n) \/ LoadSnapshot(n) \/ LoadSnapshotFails(n)
           \/ LoadDeltasFails(n)
  <2>1. /\ pc[n] \in {"idle", "load", "overlay"}
        /\ pc'[n] \in {"load", "overlay"} \/ doubt'[n] # {}
        /\ pc'[n] \in {"load", "overlay", "running"}
        /\ UNCHANGED <<version, snapshot, deltas, durable, durableVer, harm>>
        /\ \A m \in Nodes : m # n => doubt'[m] = doubt[m]
    BY <1>0, <1>1
    DEF Start, LoadSnapshot, LoadSnapshotFails, LoadDeltasFails, GoTo, Doubt,
        storeVars, newest, TypeOK
  <2>2. ~HasCopy(n) /\ ~HasCopy(n)' /\ ~Truncating(n) /\ ~Truncating(n)'
    BY <2>1 DEF HasCopy, Truncating, Checkpoint
  <2>3. \A m \in Nodes : HasCopy(m)' <=> HasCopy(m) /\ m \notin {}
    BY <1>q, <2>1, <2>2
  <2> QED
    BY <1>e, <1>l, <1>q, <2>1, <2>2, <2>3
<1>2. CASE LoadDeltas(n)
  <2>1. /\ pc[n] = "overlay" /\ pc'[n] = "running" /\ doubt' = doubt
        /\ mem'[n] = Overlay(mem[n], deltas) /\ ver' = ver
        /\ UNCHANGED <<version, snapshot, deltas, durable, durableVer, harm>>
    BY <1>0, <1>2 DEF LoadDeltas, GoTo, storeVars, newest, TypeOK
  <2>2. ~HasCopy(n) /\ ~Truncating(n) /\ ~Truncating(n)'
    BY <2>1 DEF HasCopy, Truncating, Checkpoint
  <2>3. /\ Sound /\ \A m \in Nodes : Truncating(m)' <=> Truncating(m)
        /\ \A m \in Nodes : m # n => (HasCopy(m)' <=> HasCopy(m))
    BY <1>q, <2>1, <2>2
  <2>4. CASE ~HasCopy(n)'
    <3>1. \A m \in Nodes : HasCopy(m)' <=> HasCopy(m) /\ m \notin {}
      BY <2>2, <2>3, <2>4
    <3> QED
      BY <1>e, <1>l, <1>q, <2>1, <2>2, <2>3, <2>4, <3>1
  <2>5. CASE HasCopy(n)'
    <3>1. HasVersion(n) /\ doubt[n] = {} /\ \A m \in Nodes : ~Truncating(m)
      BY <2>1, <2>2, <2>3, <2>5 DEF HasCopy, HasVersion
    <3>2. Image = durable
      BY <2>3, <3>1 DEF Sound, RecoveryInv, RecoverExact, RecoversDespite
    <3>3. mem'[n] = durable
      BY <2>1, <3>1, <3>2 DEF RecoveryInv, Restoring, Image
    <3>4. Copies[n] = {} /\ Copies' = [Copies EXCEPT ![n] = {durable}]
      BY <1>c, <1>e, <2>2, <2>3, <2>5, <3>3
    <3>5. Durable!Restore(n)
      BY <1>b, <2>1, <2>3, <3>4 DEF Durable!Restore
    <3> QED
      BY <2>3, <3>5 DEF Durable!Next
  <2> QED
    BY <2>4, <2>5
<1>3. CASE \/ \E p \in Pages, c \in Contents : Write(n, p, c)
           \/ \E p \in Pages : Grow(n, p)
  <2>1. /\ pc[n] = "running" /\ pc' = pc /\ ver' = ver
        /\ doubt[n] \subseteq doubt'[n]
        /\ UNCHANGED <<version, snapshot, deltas, durable, durableVer, harm>>
        /\ \A m \in Nodes : m # n => doubt'[m] = doubt[m]
    BY <1>0, <1>3 DEF Write, Grow, Doubt, storeVars, newest, TypeOK
  <2>2. ~Truncating(n) /\ ~Truncating(n)'
    BY <2>1 DEF Truncating
  <2>3. /\ Sound /\ \A m \in Nodes : Truncating(m)' <=> Truncating(m)
        /\ \A m \in Nodes : m # n => (HasCopy(m)' <=> HasCopy(m))
    BY <1>q, <2>1, <2>2
  <2>4. HasCopy(n)' => HasCopy(n)
    BY <2>1, <2>3 DEF HasCopy
  <2>5. CASE ~HasCopy(n)'
    <3>1. \A m \in Nodes : HasCopy(m)' <=> HasCopy(m) /\ m \notin {n}
      BY <2>3, <2>5
    <3> QED
      BY <1>e, <1>l, <1>q, <2>1, <2>2, <2>3, <2>5, <3>1
  <2>6. CASE HasCopy(n)'
    <3>1. Copies[n] # {} /\ Copies' = [Copies EXCEPT ![n] = {mem'[n]}]
      BY <1>c, <1>e, <2>3, <2>4, <2>6
    <3>2. mem'[n] \in Copies'[n]
      BY <1>c, <2>6
    <3>3. Durable!Work(n)
      BY <1>b, <2>1, <2>3, <3>1, <3>2 DEF Durable!Work
    <3> QED
      BY <2>3, <3>3 DEF Durable!Next
  <2> QED
    BY <2>5, <2>6
<1>4. CASE Return(n) \/ Fenced(n) \/ Crash(n)
  <2>1. /\ pc'[n] = "idle"
        /\ UNCHANGED <<version, snapshot, deltas, durable, durableVer, harm>>
        /\ \A m \in Nodes : m # n => doubt'[m] = doubt[m]
    BY <1>0, <1>4, DiscardFacts DEF Return, Fenced, Crash
  <2>2. ~HasCopy(n)' /\ ~Truncating(n)'
    BY <2>1 DEF HasCopy, Truncating, Checkpoint
  <2>3. ~Truncating(n)
    <3>1. SUFFICES ASSUME Truncating(n) PROVE FALSE
      OBVIOUS
    <3>2. \A m \in Nodes : ~Truncating(m)'
      BY <1>0, <1>e, <2>1, <2>2, <3>1
      DEF Truncating, FencingInv, OneWriterPerVersion, Checkpoint
    <3> QED
      BY <1>d, <2>1, <3>1, <3>2 DEF Sound
  <2>4. \A m \in Nodes : HasCopy(m)' <=> HasCopy(m) /\ m \notin {n}
    BY <1>q, <2>1, <2>2, <2>3
  <2> QED
    BY <1>e, <1>l, <1>q, <2>1, <2>2, <2>3, <2>4
<1>5. CASE CompareAndSwap(n)
  <2>1. /\ pc[n] = "running" /\ ver[n] = version /\ version' = version + 1
        /\ ver'[n] = version' /\ pc'[n] \in {"save", "diff"}
        /\ UNCHANGED <<mem, durable, harm, doubt>>
    BY <1>0, <1>a, <1>5, AcceptsIsEqual
    DEF CompareAndSwap, GoTo, NextVersion, newest, TypeOK
  <2>2. \A m \in Nodes : m # n => ver'[m] # version'
    BY <1>a, <1>e, <2>1
  <2>3. \A m \in Nodes : ~Truncating(m)'
    BY <2>1, <2>2 DEF Truncating
  <2>4. harm = {}
    BY <2>1, <2>3 DEF Sound
  <2>5. Sound /\ \A m \in Nodes : ~Truncating(m)
    BY <1>d, <2>4 DEF Sound
  <2>6. HasCopy(n)' <=> HasCopy(n)
    BY <2>1, <2>3, <2>5 DEF HasCopy, Checkpoint
  <2>7. \A m \in Nodes : m # n => ~HasCopy(m)'
    BY <2>2 DEF HasCopy
  <2>8. /\ \A m \in Nodes : HasCopy(m)' <=> HasCopy(m) /\ m \notin Nodes \ {n}
        /\ Nodes \ {n} \in SUBSET Nodes
    BY <2>6, <2>7
  <2> QED
    BY <1>l, <2>1, <2>5, <2>8
<1>6. CASE SaveFull(n)
  <2>1. /\ pc[n] = "save" /\ UNCHANGED <<version, ver, mem>>
        /\ ver[n] # version => "overlap" \in harm'
    BY <1>0, <1>6 DEF SaveFull, WroteLate
  <2>2. ver[n] = version
    BY <2>1 DEF Sound
  <2>3. durable' = mem[n]
    BY <1>0, <1>6, <2>2, CapturedFacts DEF SaveFull, FencingInv, NoneAhead
  <2>4. \A m \in Nodes : ~Truncating(m)
    BY <1>0, <2>1, <2>2
    DEF Truncating, FencingInv, OneWriterPerVersion, Checkpoint
  <2>5. HasCopy(n) \/ doubt[n] # {}
    BY <2>1, <2>2, <2>4 DEF HasCopy, Checkpoint
  <2> QED
    BY <1>6, <1>w, <2>1, <2>2, <2>3, <2>5
<1>7. CASE SaveDirty(n)
  <2>1. /\ pc[n] = "diff" /\ pc'[n] = "running"
        /\ UNCHANGED <<version, ver, mem>>
        /\ doubt[n] \cup WroteLate(n) # {} =>
             doubt[n] \cup WroteLate(n) \subseteq harm'
    BY <1>0, <1>7 DEF SaveDirty, GoTo, TypeOK
  <2>2. ver[n] = version
    BY <2>1 DEF Sound, WroteLate
  <2>3. durable' = mem[n]
    BY <1>0, <1>7, <2>2, CapturedFacts DEF SaveDirty, FencingInv, NoneAhead
  <2>4. \A m \in Nodes : ~Truncating(m)
    BY <1>0, <2>1, <2>2
    DEF Truncating, FencingInv, OneWriterPerVersion, Checkpoint
  <2>5. HasCopy(n) \/ doubt[n] # {}
    BY <2>1, <2>2, <2>4 DEF HasCopy, Checkpoint
  <2> QED
    BY <1>7, <1>w, <2>1, <2>2, <2>3, <2>5
<1>8. CASE Truncate(n)
  <2>1. /\ pc[n] = "truncate" /\ pc'[n] = "running"
        /\ harm' = (harm \ {"untruncated"}) \cup WroteLate(n)
        /\ UNCHANGED <<version, ver, mem, durable>>
    BY <1>0, <1>8 DEF Truncate, GoTo, newest, TypeOK
  <2>2. Truncating(n)
    BY <2>1 DEF Sound, WroteLate, Truncating
  <2>3. harm' = {} /\ harm = {"untruncated"}
    BY <1>d, <2>1, <2>2 DEF Sound, WroteLate
  <2>4. Sound
    BY <2>2, <2>3 DEF Sound
  <2>5. doubt'[n] = {}
    BY <1>0, <1>8, <2>3, WroteUnderFacts DEF Truncate
  <2>6. \A m \in Nodes : m # n => ~HasCopy(m) /\ ~HasCopy(m)'
    <3>1. ASSUME NEW m \in Nodes, m # n PROVE ~HasCopy(m)'
      BY <1>0, <1>8, <3>1, AfterWrite DEF HasCopy, HasVersion, Checkpoint
    <3> QED
      BY <2>2, <3>1 DEF HasCopy
  <2>7. HasCopy(n)'
    BY <1>d, <2>1, <2>2, <2>3, <2>5 DEF HasCopy, Truncating
  <2>8. mem[n] = durable
    BY <2>2, <2>3 DEF RecoveryInv, OrderInv, Pending
  <2>9. CASE HasCopy(n)
    <3>1. \A m \in Nodes : HasCopy(m)' <=> HasCopy(m) /\ m \notin {}
      BY <2>6, <2>7, <2>9
    <3>2. {} \in SUBSET Nodes
      OBVIOUS
    <3> QED
      BY <1>l, <2>1, <2>4, <3>1, <3>2
  <2>10. CASE ~HasCopy(n)
    <3>1. Copies[n] = {} /\ Copies' = [Copies EXCEPT ![n] = {durable}]
      BY <1>c, <2>1, <2>6, <2>7, <2>8, <2>10
    <3>2. Durable!Restore(n)
      BY <1>b, <2>1, <2>4, <3>1 DEF Durable!Restore
    <3> QED
      BY <2>4, <3>2 DEF Durable!Next
  <2> QED
    BY <2>9, <2>10
<1>9. CASE TruncateFails(n)
  <2>1. /\ pc[n] = "truncate" /\ pc'[n] = "running"
        /\ UNCHANGED <<version, ver, mem, doubt, snapshot, deltas, durable,
                      durableVer, harm>>
    BY <1>0, <1>9 DEF TruncateFails, GoTo, storeVars, newest, TypeOK
  <2>2. ~Truncating(n)'
    BY <2>1 DEF Truncating
  <2>3. ~Truncating(n)
    <3>1. SUFFICES ASSUME Truncating(n) PROVE FALSE
      OBVIOUS
    <3>2. \A m \in Nodes : ~Truncating(m)'
      BY <1>0, <1>e, <2>1, <2>2, <3>1
      DEF Truncating, FencingInv, OneWriterPerVersion, Checkpoint
    <3> QED
      BY <1>d, <2>1, <3>1, <3>2 DEF Sound
  <2>4. ~HasCopy(n) /\ ~HasCopy(n)'
    BY <2>1, <2>3 DEF HasCopy, Truncating
  <2>5. \A m \in Nodes : HasCopy(m)' <=> HasCopy(m) /\ m \notin {}
    BY <1>q, <2>1, <2>2, <2>3, <2>4
  <2> QED
    BY <1>l, <1>q, <2>1, <2>2, <2>3, <2>5
<1> QED
  BY <1>1, <1>2, <1>3, <1>4, <1>5, <1>6, <1>7, <1>8, <1>9 DEF Step

\* Any nodes over one store, any interleaving of their restores and checkpoints
\* and anything that fails are one durable memory, which a trouble damages and
\* a checkpoint repairs: in between, a session writes only what it has made of
\* exactly the memory written last, or has itself met a trouble.
THEOREM OneDurableMemory == Spec => Implements
<1>1. Init => Durable!Init
  <2> SUFFICES ASSUME Init PROVE Durable!Init
    OBVIOUS
  <2>1. Sound
    BY DEF Init, Sound
  <2>2. StoredMemory = FreshMemory
    BY <2>1, InitRecovery, SoundIsDurable DEF Init
  <2>3. Copies = [n \in Nodes |-> {}]
    BY DEF Init, Copies, HasCopy, Checkpoint
  <2>4. Sound = TRUE
    BY <2>1 DEF Sound
  <2> QED
    BY <2>2, <2>3, <2>4 DEF Durable!Init
<1>2. /\ RecoveryInv /\ (Sound => StoredMemory = durable) /\ [Next]_vars
      /\ RecoveryInv' /\ (Sound => StoredMemory = durable)'
      => [Durable!Next]_(Durable!vars)
  <2> SUFFICES ASSUME RecoveryInv, RecoveryInv', [Next]_vars,
                      Sound => StoredMemory = durable,
                      (Sound => StoredMemory = durable)'
               PROVE  [Durable!Next]_(Durable!vars)
    OBVIOUS
  <2>1. CASE UNCHANGED vars
    BY <2>1
    DEF vars, Durable!vars, StoredMemory, Copies, Astray, Sound, Image,
        Truncating, HasCopy
  <2>2. CASE ~Sound'
    BY <2>2 DEF Durable!Next, Durable!Damage
  <2>3. ASSUME NEW n \in Nodes, Step(n), Sound' PROVE Durable!Next
    BY <2>3, StepRefines
  <2> QED
    BY <2>1, <2>2, <2>3 DEF Next
<1> QED
  BY <1>1, <1>2, SoundIsDurable, InitRecovery, StepRecovery, PTL
  DEF Spec, Implements, Durable!Spec

=============================================================================
