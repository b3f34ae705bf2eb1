------------------------- MODULE WarmSessionsProofs -------------------------
(***************************************************************************)
(* Proofs about WarmSessions, for any number of engines.                   *)
(***************************************************************************)
EXTENDS WarmSessions, TLAPS

Holding == {"restore", "invoke", "guest", "save"}

\* A call past Bind has a session, one past Find a module.
Equipped ==
    \A e \in Engines :
        /\ pc[e] \in Holding \cup {"find"} => active[e] # Absent
        /\ pc[e] \in Holding => module[e] # Absent

\* The inductive invariant behind NoLeak.
LeakInv == TypeOK /\ Equipped /\ NoLeak

LEMMA InitLeak == Init => LeakInv
<1> SUFFICES ASSUME Init PROVE LeakInv
  OBVIOUS
<1>1. 0 \in 0 .. MaxVersion /\ -1 \in -1 .. MaxVersion
  BY BoundsAssumption
<1>2. keep \in [Engines -> BOOLEAN] /\ astray \in [Engines -> BOOLEAN]
  BY Zenon DEF Init
<1>3. /\ version \in 0 .. MaxVersion /\ image \in 0 .. MaxVersion
      /\ active \in [Engines -> -1 .. MaxVersion]
      /\ module \in [Engines -> -1 .. MaxVersion]
      /\ pc \in [Engines -> PC] /\ meta \in [Engines -> 0 .. MaxVersion]
  BY <1>1 DEF Init, PC, Absent
<1>4. Equipped /\ NoLeak
  BY DEF Init, Equipped, Holding, NoLeak
<1> QED
  BY <1>2, <1>3, <1>4 DEF TypeOK, LeakInv

\* What the deferred function leaves behind.
LEMMA LeaveMoves ==
    ASSUME LeakInv, NEW e \in Engines, NEW failed \in BOOLEAN,
           pc[e] \in Holding, Leave(e, failed)
    PROVE  /\ pc' = [pc EXCEPT ![e] = "idle"]
           /\ active' \in [Engines -> -1 .. MaxVersion]
           /\ module' \in [Engines -> -1 .. MaxVersion]
           /\ active'[e] = Absent <=> module'[e] = Absent
           /\ \A d \in Engines : d # e =>
                active'[d] = active[d] /\ module'[d] = module[d]
           /\ failed = TRUE => module'[e] = Absent
           /\ module'[e] # Absent => module'[e] = module[e]
<1>1. CASE Drop(e)
  BY <1>1, BoundsAssumption DEF Leave, GoTo, Drop, LeakInv, TypeOK, Absent
<1>2. CASE failed = FALSE /\ UNCHANGED engineVars
  BY <1>2 DEF Leave, GoTo, engineVars, LeakInv, TypeOK, Equipped
<1> QED
  BY <1>1, <1>2, Zenon DEF Leave

\* What it does to the history.
LEMMA LeaveAstray ==
    ASSUME LeakInv, NEW e \in Engines, NEW failed \in BOOLEAN, Leave(e, failed)
    PROVE  /\ astray' \in [Engines -> BOOLEAN]
           /\ astray'[e] = (astray[e] \/ pc[e] = "restore" \/ active[e] # version)
           /\ \A d \in Engines : d # e => astray'[d] = astray[d]
<1>1. astray \in [Engines -> BOOLEAN]
  BY DEF LeakInv, TypeOK
<1>2. astray' = [astray EXCEPT ![e] =
                   (astray[e] \/ pc[e] = "restore" \/ active[e] # version)]
  BY DEF Leave, Astray
<1> QED
  BY <1>1, <1>2, Zenon

\* The steps that end a call through the deferred function.
Leaving(e) == RestoreFails(e) \/ Reject(e) \/ Fenced(e) \/ Trap(e) \/ Complete(e)

\* Each of them is a Leave of a call that has a module, and nothing else.
LEMMA LeavingLeaves ==
    ASSUME NEW e \in Engines, Leaving(e)
    PROVE  /\ pc[e] \in Holding
           /\ \E failed \in BOOLEAN :
                Leave(e, failed) /\ (pc[e] = "save" => failed = TRUE)
           /\ UNCHANGED <<storeVars, meta, keep>>
<1>1. CASE RestoreFails(e)
  BY <1>1 DEF RestoreFails, Holding
<1>2. CASE Reject(e)
  BY <1>2 DEF Reject, Holding
<1>3. CASE Fenced(e)
  BY <1>3 DEF Fenced, Holding
<1>4. CASE Trap(e)
  BY <1>4 DEF Trap, Holding
<1>5. CASE Complete(e)
  BY <1>5 DEF Complete, Holding
<1> QED
  BY <1>1, <1>2, <1>3, <1>4, <1>5 DEF Leaving

\* The history stays a function to BOOLEAN.
LEMMA StepAstray ==
    ASSUME LeakInv, NEW e \in Engines, Step(e)
    PROVE  astray' \in [Engines -> BOOLEAN]
<1>0. astray \in [Engines -> BOOLEAN]
  BY DEF LeakInv, TypeOK
<1>1. CASE Begin(e)
  BY <1>0, <1>1, Zenon DEF Begin, Astray
<1>2. CASE Restore(e)
  BY <1>0, <1>2, Zenon DEF Restore, Astray, SaveUnderWay
<1>3. CASE RestoreMisses(e)
  BY <1>0, <1>3, Zenon DEF RestoreMisses, Astray
<1>4. CASE SaveMemory(e)
  BY <1>4, Zenon DEF SaveMemory
<1>5. CASE Leaving(e)
  BY <1>5, LeavingLeaves, LeaveAstray
<1>6. CASE astray' = astray
  BY <1>0, <1>6
<1> QED
  BY <1>1, <1>2, <1>3, <1>4, <1>5, <1>6
  DEF Step, Leaving, Bind, Find, InstantiateFails, Invoke, CompareAndSwap,
      CloseInstance, Crash

\* Every step keeps types, sessions and modules in order.
LEMMA StepLeak == LeakInv /\ [Next]_vars => LeakInv'
<1> SUFFICES ASSUME LeakInv, [Next]_vars PROVE LeakInv'
  OBVIOUS
<1>1. CASE UNCHANGED vars
  BY <1>1 DEF vars, LeakInv, TypeOK, Equipped, NoLeak
<1>2. ASSUME NEW e \in Engines, Step(e) PROVE LeakInv'
  <2>0. TypeOK /\ Equipped /\ NoLeak
    BY DEF LeakInv
  <2>a. astray' \in [Engines -> BOOLEAN]
    BY <1>2, StepAstray
  <2>1. CASE Begin(e)
    <3>2. keep' \in [Engines -> BOOLEAN]
      BY <2>0, <2>1, Zenon DEF Begin, TypeOK
    <3>3. /\ pc' \in [Engines -> PC] /\ meta' \in [Engines -> 0 .. MaxVersion]
          /\ UNCHANGED <<version, image, active, module>>
      BY <2>0, <2>1 DEF Begin, GoTo, storeVars, engineVars, TypeOK, PC
    <3>4. Equipped' /\ NoLeak'
      BY <2>0, <2>1, <3>3 DEF Begin, GoTo, TypeOK, Equipped, NoLeak, Holding
    <3> QED
      BY <2>0, <2>a, <3>2, <3>3, <3>4 DEF LeakInv, TypeOK
  <2>2. CASE Bind(e)
    BY <2>0, <2>a, <2>2, BoundsAssumption
    DEF Bind, GoTo, storeVars, LeakInv, TypeOK, PC, Equipped, NoLeak, Holding,
        Absent
  <2>3. CASE Find(e)
    BY <2>0, <2>a, <2>3, BoundsAssumption
    DEF Find, GoTo, storeVars, LeakInv, TypeOK, PC, Equipped, NoLeak, Holding,
        Absent
  <2>4. CASE InstantiateFails(e)
    BY <2>0, <2>a, <2>4, BoundsAssumption
    DEF InstantiateFails, GoTo, storeVars, LeakInv, TypeOK, PC, Equipped,
        NoLeak, Holding, Absent
  <2>5. CASE Restore(e)
    BY <2>0, <2>a, <2>5, BoundsAssumption
    DEF Restore, GoTo, storeVars, LeakInv, TypeOK, PC, Equipped, NoLeak,
        Holding, Absent
  <2>6. CASE Invoke(e) \/ RestoreMisses(e)
    BY <2>0, <2>a, <2>6
    DEF Invoke, RestoreMisses, GoTo, storeVars, engineVars, LeakInv, TypeOK, PC, Equipped,
        NoLeak, Holding
  <2>7. CASE Leaving(e)
    <3>1. /\ pc' = [pc EXCEPT ![e] = "idle"]
          /\ active' \in [Engines -> -1 .. MaxVersion]
          /\ module' \in [Engines -> -1 .. MaxVersion]
          /\ active'[e] = Absent <=> module'[e] = Absent
          /\ \A d \in Engines : d # e =>
               active'[d] = active[d] /\ module'[d] = module[d]
      BY <2>7, LeavingLeaves, LeaveMoves
    <3>2. UNCHANGED <<version, image, meta, keep>>
      BY <2>7, LeavingLeaves DEF storeVars
    <3>3. TypeOK'
      BY <2>0, <2>a, <3>1, <3>2 DEF TypeOK, PC
    <3>4. Equipped' /\ NoLeak'
      BY <2>0, <3>1 DEF TypeOK, Equipped, NoLeak, Holding
    <3> QED
      BY <3>3, <3>4 DEF LeakInv
  <2>8. CASE CompareAndSwap(e)
    <3>1. active[e] + 1 \in 0 .. MaxVersion
      BY <2>0, <2>8, BoundsAssumption
      DEF CompareAndSwap, TypeOK, Equipped, Holding, Absent
    <3> QED
      BY <2>0, <2>a, <2>8, <3>1, BoundsAssumption
      DEF CompareAndSwap, NextVersion, GoTo, LeakInv, TypeOK, PC, Equipped,
          NoLeak, Holding, Absent
  <2>9. CASE SaveMemory(e)
    <3>1. active[e] \in 0 .. MaxVersion
      BY <2>0, <2>9, BoundsAssumption
      DEF SaveMemory, TypeOK, Equipped, Holding, Absent
    <3> QED
      BY <2>0, <2>a, <2>9, <3>1
      DEF SaveMemory, GoTo, LeakInv, TypeOK, PC, Equipped, NoLeak, Holding,
          Absent
  <2>10. CASE CloseInstance(e)
    BY <2>0, <2>a, <2>10, BoundsAssumption
    DEF CloseInstance, Drop, storeVars, LeakInv, TypeOK, Equipped, NoLeak,
        Holding, Absent
  <2>11. CASE Crash(e)
    BY <2>0, <2>a, <2>11, BoundsAssumption
    DEF Crash, Drop, GoTo, storeVars, LeakInv, TypeOK, PC, Equipped, NoLeak,
        Holding, Absent
  <2> QED
    BY <1>2, <2>1, <2>2, <2>3, <2>4, <2>5, <2>6, <2>7, <2>8, <2>9, <2>10, <2>11
    DEF Step, Leaving
<1> QED
  BY <1>1, <1>2 DEF Next

\* Every reachable state is well typed.
THEOREM TypeCorrect == Spec => []TypeOK
<1>1. LeakInv => TypeOK
  BY DEF LeakInv
<1> QED
  BY <1>1, InitLeak, StepLeak, PTL DEF Spec

\* However calls end, an engine between calls has a session for the instance
\* exactly when it has a module.
THEOREM Leakless == Spec => []NoLeak
<1>1. LeakInv => NoLeak
  BY DEF LeakInv
<1> QED
  BY <1>1, InitLeak, StepLeak, PTL DEF Spec

(***************************************************************************)
(* A guest runs on the memory of the last checkpoint, is fenced, or has    *)
(* gone astray.                                                            *)
(***************************************************************************)

\* The version a call's next compare-and-swap will present.
Presents(e) == IF pc[e] = "bind" THEN meta[e] ELSE active[e]

\* A call that presents the stored version is saving that checkpoint.
OtherSaves(e) ==
    \E d \in Engines : d # e /\ pc[d] = "save" /\ active[d] = version

\* What holds of every engine.  No call is ahead of the store.  While one saves
\* the last checkpoint, another that presents the stored version has gone
\* astray, or will if it restores.  A module kept between calls, and that of a
\* call that presents the stored version, has the stored memory.
Sound(e) ==
    /\ pc[e] # "idle" => Presents(e) <= version
    /\ OtherSaves(e) /\ pc[e] # "idle" /\ Presents(e) = version
         => pc[e] # "save" /\ (pc[e] # "restore" => astray[e])
    /\ pc[e] = "idle" /\ module[e] # Absent /\ ~astray[e] => module[e] = image
    /\ /\ pc[e] \in {"bind", "find", "invoke", "guest"}
       /\ Presents(e) = version /\ module[e] # Absent /\ ~astray[e]
       => module[e] = image

LatestInv == LeakInv /\ \A e \in Engines : Sound(e)

LEMMA InitLatest == Init => LatestInv
<1> SUFFICES ASSUME Init PROVE LatestInv
  OBVIOUS
<1>1. \A e \in Engines : Sound(e)
  BY DEF Init, Sound
<1> QED
  BY <1>1, InitLeak DEF LatestInv

\* A step of e that leaves the others and the store alone.
Alone(e) ==
    /\ version' = version /\ image' = image
    /\ \A d \in Engines : d # e =>
         /\ pc'[d] = pc[d] /\ active'[d] = active[d] /\ meta'[d] = meta[d]
         /\ module'[d] = module[d] /\ astray'[d] = astray[d]

\* Such a step that does not start a save keeps the others sound.
LEMMA OnlyOne ==
    ASSUME LatestInv, LeakInv', NEW e \in Engines, Alone(e), pc'[e] # "save",
           Sound(e)'
    PROVE  LatestInv'
<1>1. ASSUME NEW d \in Engines, d # e PROVE Sound(d)'
  <2>1. Sound(d) /\ Presents(d)' = Presents(d)
    BY <1>1 DEF LatestInv, Presents, Alone
  <2>2. OtherSaves(d)' => OtherSaves(d)
    BY DEF OtherSaves, Alone
  <2> QED
    BY <1>1, <2>1, <2>2 DEF Sound, Alone
<1> QED
  BY <1>1 DEF LatestInv

LEMMA StepLatest ==
    ASSUME LatestInv, [Next]_vars
    PROVE  LatestInv'
<1>0. LeakInv /\ LeakInv' /\ TypeOK
  BY StepLeak DEF LatestInv, LeakInv
<1>1. CASE UNCHANGED vars
  BY <1>0, <1>1 DEF vars, LatestInv, Sound, OtherSaves, Presents
<1>2. ASSUME NEW e \in Engines, Step(e) PROVE LatestInv'
  <2>0. /\ Sound(e) /\ Equipped
        /\ pc \in [Engines -> PC] /\ version \in Nat
        /\ meta \in [Engines -> Nat] /\ active \in [Engines -> Int]
        /\ module \in [Engines -> Int] /\ astray \in [Engines -> BOOLEAN]
    BY <1>0 DEF LatestInv, TypeOK, LeakInv
  <2>s. ASSUME Alone(e), pc'[e] # "save" PROVE OtherSaves(e)' <=> OtherSaves(e)
    BY <2>s DEF Alone, OtherSaves
  <2>1. CASE Begin(e)
    <3>1. /\ pc[e] = "idle" /\ UNCHANGED <<version, image, active, module>>
          /\ pc' = [pc EXCEPT ![e] = "bind"] /\ meta' = [meta EXCEPT ![e] = version]
      BY <2>1 DEF Begin, GoTo, storeVars, engineVars
    <3>2. /\ astray'[e] = (astray[e] \/ SaveUnderWay(e))
          /\ \A d \in Engines : d # e => astray'[d] = astray[d]
      BY <2>0, <2>1, Zenon DEF Begin, Astray
    <3>3. Alone(e) /\ pc'[e] = "bind" /\ Presents(e)' = version
      BY <2>0, <3>1, <3>2 DEF Alone, Presents
    <3>4. OtherSaves(e) => astray'[e]
      BY <3>2 DEF OtherSaves, SaveUnderWay
    <3>5. module'[e] # Absent /\ ~astray'[e] => module'[e] = image'
      BY <2>0, <3>1, <3>2 DEF Sound
    <3>6. Sound(e)'
      BY <2>0, <2>s, <3>1, <3>3, <3>4, <3>5 DEF Sound
    <3> QED
      BY <1>0, <3>3, <3>6, OnlyOne
  <2>2. CASE Bind(e)
    <3>1. /\ pc[e] = "bind" /\ pc' = [pc EXCEPT ![e] = "find"]
          /\ active' = [active EXCEPT ![e] = meta[e]]
          /\ UNCHANGED <<version, image, module, meta, astray>>
      BY <2>2 DEF Bind, GoTo, storeVars
    <3>2. Alone(e) /\ pc'[e] = "find" /\ Presents(e)' = Presents(e)
      BY <2>0, <3>1 DEF Alone, Presents
    <3>3. Sound(e)'
      BY <2>0, <2>s, <3>1, <3>2 DEF Sound
    <3> QED
      BY <1>0, <3>2, <3>3, OnlyOne
  <2>3. CASE Find(e)
    <3>1. /\ pc[e] = "find" /\ UNCHANGED <<version, image, active, meta, astray>>
          /\ \/ /\ pc' = [pc EXCEPT ![e] = "invoke"] /\ module' = module
             \/ /\ pc' = [pc EXCEPT ![e] = "restore"]
                /\ module' = [module EXCEPT ![e] = 0]
      BY <2>3 DEF Find, GoTo, storeVars
    <3>2. /\ Alone(e) /\ Presents(e)' = Presents(e)
          /\ \/ pc'[e] = "invoke" /\ module'[e] = module[e]
             \/ pc'[e] = "restore"
      BY <2>0, <3>1 DEF Alone, Presents
    <3>3. Sound(e)'
      BY <2>0, <2>s, <3>1, <3>2 DEF Sound
    <3> QED
      BY <1>0, <3>2, <3>3, OnlyOne
  <2>4. CASE InstantiateFails(e)
    <3>1. /\ pc' = [pc EXCEPT ![e] = "idle"] /\ module[e] = Absent
          /\ active' = [active EXCEPT ![e] = Absent]
          /\ UNCHANGED <<version, image, module, meta, astray>>
      BY <2>4 DEF InstantiateFails, GoTo, storeVars
    <3>2. Alone(e) /\ pc'[e] = "idle" /\ module'[e] = Absent
      BY <2>0, <3>1 DEF Alone
    <3>3. Sound(e)'
      BY <3>2 DEF Sound
    <3> QED
      BY <1>0, <3>2, <3>3, OnlyOne
  <2>5. CASE Restore(e)
    <3>1. /\ pc[e] = "restore" /\ pc' = [pc EXCEPT ![e] = "invoke"]
          /\ module' = [module EXCEPT ![e] = image]
          /\ UNCHANGED <<version, image, active, meta>>
      BY <2>5 DEF Restore, GoTo, storeVars
    <3>2. /\ astray'[e] = SaveUnderWay(e)
          /\ \A d \in Engines : d # e => astray'[d] = astray[d]
      BY <2>0, <2>5, Zenon DEF Restore, Astray
    <3>3. /\ Alone(e) /\ pc'[e] = "invoke" /\ Presents(e)' = Presents(e)
          /\ module'[e] = image'
      BY <2>0, <3>1, <3>2 DEF Alone, Presents
    <3>4. OtherSaves(e) => astray'[e]
      BY <3>2 DEF OtherSaves, SaveUnderWay
    <3>5. Sound(e)'
      BY <2>0, <2>s, <3>1, <3>3, <3>4 DEF Sound
    <3> QED
      BY <1>0, <3>3, <3>5, OnlyOne
  <2>6. CASE RestoreMisses(e)
    <3>1. /\ pc[e] = "restore" /\ pc' = [pc EXCEPT ![e] = "invoke"]
          /\ UNCHANGED <<version, image, active, module, meta>>
      BY <2>6 DEF RestoreMisses, GoTo, storeVars, engineVars
    <3>2. /\ astray'[e] = TRUE
          /\ \A d \in Engines : d # e => astray'[d] = astray[d]
      BY <2>0, <2>6, Zenon DEF RestoreMisses, Astray
    <3>3. Alone(e) /\ pc'[e] = "invoke" /\ Presents(e)' = Presents(e)
      BY <2>0, <3>1, <3>2 DEF Alone, Presents
    <3>4. Sound(e)'
      BY <2>0, <2>s, <3>1, <3>2, <3>3 DEF Sound
    <3> QED
      BY <1>0, <3>3, <3>4, OnlyOne
  <2>7. CASE Invoke(e)
    <3>1. /\ pc[e] = "invoke" /\ pc' = [pc EXCEPT ![e] = "guest"]
          /\ UNCHANGED <<version, image, active, module, meta, astray>>
      BY <2>7 DEF Invoke, GoTo, storeVars, engineVars
    <3>2. Alone(e) /\ pc'[e] = "guest" /\ Presents(e)' = Presents(e)
      BY <2>0, <3>1 DEF Alone, Presents
    <3>3. Sound(e)'
      BY <2>0, <2>s, <3>1, <3>2 DEF Sound
    <3> QED
      BY <1>0, <3>2, <3>3, OnlyOne
  <2>8. CASE Leaving(e)
    <3>1. PICK failed \in BOOLEAN :
            Leave(e, failed) /\ (pc[e] = "save" => failed = TRUE)
      BY <2>8, LeavingLeaves
    <3>2. pc[e] \in Holding /\ UNCHANGED <<version, image, meta>>
      BY <2>8, LeavingLeaves DEF storeVars
    <3>3. /\ pc' = [pc EXCEPT ![e] = "idle"]
          /\ pc[e] = "save" => module'[e] = Absent
          /\ module'[e] # Absent => module'[e] = module[e]
          /\ \A d \in Engines : d # e =>
               active'[d] = active[d] /\ module'[d] = module[d]
      BY <1>0, <3>1, <3>2, LeaveMoves
    <3>4. /\ astray'[e] = (astray[e] \/ pc[e] = "restore" \/ active[e] # version)
          /\ \A d \in Engines : d # e => astray'[d] = astray[d]
      BY <1>0, <3>1, LeaveAstray
    <3>5. Alone(e) /\ pc'[e] = "idle"
      BY <2>0, <3>2, <3>3, <3>4 DEF Alone
    <3>6. module'[e] # Absent /\ ~astray'[e] => module'[e] = image'
      BY <2>0, <3>2, <3>3, <3>4 DEF Sound, Holding, Presents
    <3>7. Sound(e)'
      BY <3>5, <3>6 DEF Sound
    <3> QED
      BY <1>0, <3>5, <3>7, OnlyOne
  <2>9. CASE CompareAndSwap(e)
    <3>1. /\ pc[e] = "guest" /\ active[e] = version /\ version' = version + 1
          /\ active' = [active EXCEPT ![e] = version + 1]
          /\ pc' = [pc EXCEPT ![e] = "save"]
          /\ UNCHANGED <<image, module, meta, astray>>
      BY <2>9 DEF CompareAndSwap, SaveMetadataAccepts, NextVersion, GoTo
    <3>2. ASSUME NEW d \in Engines, d # e, pc[d] # "idle"
          PROVE  Presents(d)' = Presents(d) /\ Presents(d) <= version
                 /\ Presents(d) \in Int
      BY <2>0, <3>1, <3>2 DEF LatestInv, Sound, Presents
    <3>3. ~OtherSaves(e)'
      <4>1. SUFFICES ASSUME NEW d \in Engines, d # e, pc'[d] = "save",
                            active'[d] = version'
                     PROVE  FALSE
        BY DEF OtherSaves
      <4>2. pc[d] = "save" /\ Presents(d) = active'[d]
        BY <2>0, <3>1, <4>1 DEF Presents
      <4> QED
        BY <2>0, <3>1, <3>2, <4>1, <4>2
    <3>4. Sound(e)'
      BY <2>0, <3>1, <3>3 DEF Sound, Presents
    <3>5. ASSUME NEW d \in Engines, d # e PROVE Sound(d)'
      <4>1. pc'[d] = pc[d] /\ Sound(d)
        BY <2>0, <3>1, <3>5 DEF LatestInv
      <4>2. pc[d] # "idle" =>
              Presents(d)' <= version' /\ Presents(d)' # version'
        BY <2>0, <3>1, <3>2, <3>5
      <4> QED
        BY <3>1, <4>1, <4>2 DEF Sound
    <3> QED
      BY <1>0, <3>4, <3>5 DEF LatestInv
  <2>10. CASE SaveMemory(e)
    <3>1. /\ pc[e] = "save" /\ pc' = [pc EXCEPT ![e] = "guest"]
          /\ image' = active[e] /\ module' = [module EXCEPT ![e] = active[e]]
          /\ UNCHANGED <<version, active, meta>>
      BY <2>10 DEF SaveMemory, GoTo
    <3>2. \A d \in Engines : d # e =>
            (~astray'[d] => ~astray[d] /\ pc[d] # "idle" /\ active[e] = version)
      BY <2>10, Zenon DEF SaveMemory
    <3>3. \A d \in Engines : Presents(d)' = Presents(d)
      BY <2>0, <3>1 DEF Presents
    <3>4. Sound(e)'
      <4>1. pc'[e] = "guest" /\ module'[e] = image' /\ Presents(e) = active[e]
        BY <2>0, <3>1 DEF Presents
      <4>2. OtherSaves(e)' => OtherSaves(e)
        BY <3>1, <2>0 DEF OtherSaves
      <4>3. ~(OtherSaves(e) /\ active[e] = version)
        BY <2>0, <3>1, <4>1 DEF Sound
      <4> QED
        BY <2>0, <3>1, <3>3, <4>1, <4>2, <4>3 DEF Sound
    <3>5. ASSUME NEW d \in Engines, d # e PROVE Sound(d)'
      <4>1. pc'[d] = pc[d] /\ Sound(d) /\ module'[d] = module[d]
        BY <2>0, <3>1, <3>5 DEF LatestInv
      <4>2. OtherSaves(d)' => OtherSaves(d)
        BY <2>0, <3>1 DEF OtherSaves
      <4>3. active[e] = version => OtherSaves(d)
        BY <3>1, <3>5 DEF OtherSaves
      <4>4. astray[d] => astray'[d]
        BY <3>2, <3>5
      <4>5. pc[d] = "idle" => astray'[d]
        BY <3>2, <3>5
      <4>6. ~astray'[d] => active[e] = version /\ ~astray[d]
        BY <3>2, <3>5
      <4> QED
        BY <3>1, <3>3, <4>1, <4>2, <4>3, <4>4, <4>5, <4>6 DEF Sound
    <3> QED
      BY <1>0, <3>4, <3>5 DEF LatestInv
  <2>11. CASE CloseInstance(e) \/ Crash(e)
    <3>1. /\ pc'[e] = "idle" /\ \A d \in Engines : d # e => pc'[d] = pc[d]
          /\ module' = [module EXCEPT ![e] = Absent]
          /\ active' = [active EXCEPT ![e] = Absent]
          /\ UNCHANGED <<version, image, meta, astray>>
      BY <2>0, <2>11 DEF CloseInstance, Crash, Drop, GoTo, storeVars
    <3>2. Alone(e) /\ module'[e] = Absent
      BY <2>0, <3>1 DEF Alone
    <3>3. Sound(e)'
      BY <3>1, <3>2 DEF Sound
    <3> QED
      BY <1>0, <3>1, <3>2, <3>3, OnlyOne
  <2> QED
    BY <1>2, <2>1, <2>2, <2>3, <2>4, <2>5, <2>6, <2>7, <2>8, <2>9, <2>10, <2>11
    DEF Step, Leaving
<1> QED
  BY <1>1, <1>2 DEF Next

\* A guest whose checkpoint the store would accept runs on the memory of the
\* last checkpoint, whatever engines crash and calls fail, unless its engine
\* went astray.
THEOREM FencedOrLatest == Spec => []RunsOnLatest
<1>1. LatestInv /\ [Next]_vars => LatestInv'
  BY StepLatest
<1>2. LatestInv => RunsOnLatest
  BY DEF LatestInv, LeakInv, Equipped, Holding, Sound, Presents, RunsOnLatest
<1> QED
  BY <1>1, <1>2, InitLatest, PTL DEF Spec

=============================================================================
