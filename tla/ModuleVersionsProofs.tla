------------------------ MODULE ModuleVersionsProofs ------------------------
(***************************************************************************)
(* The registry has every module an instance needs, an engine compiles a   *)
(* module once, and a guest runs the module its metadata named, for any    *)
(* engines, modules, instances and sessions.                               *)
(***************************************************************************)
EXTENDS ModuleVersions, TLAPS

(***************************************************************************)
(* Types.                                                                  *)
(***************************************************************************)

\* A session that is under way has an engine that is up, an instance and a
\* module.
Bound ==
    \A s \in Sessions : pc[s] # "idle" =>
        at[s] \in up /\ of[s] \in Instances /\ module[s] \in Hashes

\* An instance with a record has a module in it.
Named == \A i \in Instances : version[i] > 0 => hash[i] \in Hashes

TypeInv == TypeOK /\ Bound /\ Named

LEMMA InitType == Init => TypeInv
BY NoneAssumption, BoundsAssumption
DEF Init, TypeInv, TypeOK, Bound, Named, PC, Lookup

\* The sessions that return are idle, the others as before.
LEMMA ReturnTyped ==
    ASSUME TypeOK, NEW S, Return(S)
    PROVE  /\ pc' \in [Sessions -> PC]
           /\ at' \in [Sessions -> Engines \cup {None}]
           /\ of' \in [Sessions -> Instances \cup {None}]
           /\ ver' \in [Sessions -> 0 .. MaxVersion]
           /\ module' \in [Sessions -> Hashes \cup {None}]
           /\ \A s \in Sessions : pc'[s] # "idle" =>
                 /\ s \notin S /\ pc'[s] = pc[s] /\ at'[s] = at[s]
                 /\ of'[s] = of[s] /\ ver'[s] = ver[s] /\ module'[s] = module[s]
BY BoundsAssumption DEF TypeOK, Return, PC

\* Every step keeps the types.
LEMMA StepType == TypeInv /\ [Next]_vars => TypeInv'
<1> SUFFICES ASSUME TypeInv, [Next]_vars PROVE TypeInv'
  OBVIOUS
<1>0. TypeOK /\ Bound /\ Named
  BY DEF TypeInv
<1>1. CASE UNCHANGED vars
  BY <1>0, <1>1 DEF vars, TypeInv, TypeOK, Bound, Named
<1>2. ASSUME NEW e \in Engines, NewEngine(e) PROVE TypeInv'
  <2>1. Built[e] \in Hashes
    BY BuiltAssumption
  <2>2. TypeOK'
    BY <1>0, <1>2, <2>1 DEF NewEngine, sessionVars, TypeOK
  <2> QED
    BY <1>0, <1>2, <2>2 DEF NewEngine, sessionVars, TypeInv, Bound, Named
<1>3. ASSUME NEW e \in Engines, NewEngineFails(e) PROVE TypeInv'
  BY <1>0, <1>3, BuiltAssumption
  DEF NewEngineFails, engineVars, sessionVars, TypeInv, TypeOK, Bound, Named
<1>4. ASSUME NEW e \in Engines, Crash(e) PROVE TypeInv'
  <2>1. Return({s \in Sessions : at[s] = e}) /\ UNCHANGED storeVars
    BY <1>4 DEF Crash
  <2>2. TypeOK'
    BY <1>0, <1>4, <2>1, ReturnTyped DEF Crash, storeVars, TypeOK
  <2>3. Bound'
    BY <1>0, <1>4, <2>1, ReturnTyped DEF Crash, Bound
  <2> QED
    BY <1>0, <2>1, <2>2, <2>3 DEF storeVars, TypeInv, Named
<1>5. ASSUME NEW s \in Sessions, NEW e \in Engines, NEW i \in Instances,
             Begin(s, e, i)
      PROVE  TypeInv'
  <2> DEFINE wanted == IF version[i] = 0 THEN Built[e] ELSE hash[i]
  <2>1. wanted \in Hashes
    BY <1>0, BuiltAssumption, BoundsAssumption DEF TypeOK, Named
  <2>2. TypeOK'
    BY <1>0, <1>5, <2>1
    DEF Begin, GoTo, storeVars, engineVars, TypeOK, PC, Lookup
  <2>3. Bound'
    BY <1>0, <1>5, <2>1 DEF Begin, GoTo, storeVars, engineVars, TypeOK, Bound
  <2> QED
    BY <1>0, <1>5, <2>2, <2>3 DEF Begin, storeVars, TypeInv, Named
<1>6. ASSUME NEW s \in Sessions, Step(s) PROVE TypeInv'
  <2>1. CASE LookUp(s)
    BY <1>0, <2>1
    DEF LookUp, GoTo, storeVars, engineVars, TypeInv, TypeOK, Bound, Named, PC,
        Lookup
  <2>2. CASE LoadWasm(s)
    BY <1>0, <2>2
    DEF LoadWasm, GoTo, storeVars, engineVars, TypeInv, TypeOK, Bound, Named, PC,
        Lookup
  <2>3. CASE LoadWasmFails(s) \/ End(s)
    BY <1>0, <2>3, ReturnTyped
    DEF LoadWasmFails, End, storeVars, engineVars, TypeInv, TypeOK, Bound, Named
  <2>4. CASE Lock(s)
    BY <1>0, <2>4
    DEF Lock, GoTo, storeVars, TypeInv, TypeOK, Bound, Named, PC, Lookup
  <2>5. CASE Compile(s)
    <3>1. at[s] \in Engines /\ module[s] \in Hashes
      BY <1>0, <2>5 DEF Compile, TypeOK, Bound
    <3>2. TypeOK'
      BY <1>0, <2>5, <3>1 DEF Compile, GoTo, storeVars, TypeOK, PC, Lookup
    <3> QED
      BY <1>0, <2>5, <3>2 DEF Compile, GoTo, storeVars, TypeInv, TypeOK, Bound, Named
  <2>6. CASE CompileFails(s)
    BY <1>0, <2>6, ReturnTyped
    DEF CompileFails, storeVars, TypeInv, TypeOK, Bound, Named
  <2>7. CASE Instantiate(s)
    <3>1. CASE NameTaken(s)
      BY <1>0, <2>7, <3>1, ReturnTyped
      DEF Instantiate, storeVars, engineVars, TypeInv, TypeOK, Bound, Named
    <3>2. CASE ~NameTaken(s)
      BY <1>0, <2>7, <3>2
      DEF Instantiate, GoTo, storeVars, engineVars, TypeInv, TypeOK, Bound, Named,
          PC, Lookup
    <3> QED
      BY <3>1, <3>2
  <2>8. CASE Checkpoint(s)
    <3>1. /\ at[s] \in Engines /\ of[s] \in Instances /\ module[s] \in Hashes
          /\ Built[at[s]] \in Hashes
      BY <1>0, <2>8, BuiltAssumption DEF Checkpoint, TypeOK, Bound
    <3>2. NextVersion(ver[s]) \in 0 .. MaxVersion
      BY <1>0, <2>8, BoundsAssumption DEF Checkpoint, NextVersion, TypeOK
    <3>3. TypeOK'
      BY <1>0, <2>8, <3>1, <3>2 DEF Checkpoint, engineVars, TypeOK
    <3> QED
      BY <1>0, <2>8, <3>1, <3>3
      DEF Checkpoint, engineVars, TypeInv, TypeOK, Bound, Named
  <2> QED
    BY <1>6, <2>1, <2>2, <2>3, <2>4, <2>5, <2>6, <2>7, <2>8 DEF Step
<1> QED
  BY <1>1, <1>2, <1>3, <1>4, <1>5, <1>6 DEF Next

\* The variables have their types.
THEOREM TypeCorrect == Spec => []TypeOK
<1>1. TypeInv => TypeOK
  BY DEF TypeInv
<1> QED
  BY <1>1, InitType, StepType, PTL DEF Spec

(***************************************************************************)
(* The registry.                                                           *)
(***************************************************************************)

\* An engine that is up has registered its module, and a session runs a
\* registered one.
Registered ==
    /\ \A e \in up : Built[e] \in registry
    /\ \A s \in Sessions : pc[s] # "idle" => module[s] \in registry

RegistryInv == RegistryIsComplete /\ Registered

LEMMA StepRegistry == TypeInv /\ RegistryInv /\ [Next]_vars => RegistryInv'
<1> SUFFICES ASSUME TypeInv, RegistryInv, [Next]_vars PROVE RegistryInv'
  OBVIOUS
<1>0. TypeOK /\ Bound /\ RegistryIsComplete /\ Registered
  BY DEF TypeInv, RegistryInv
<1>1. CASE UNCHANGED vars
  BY <1>0, <1>1 DEF vars, RegistryInv, RegistryIsComplete, Registered
<1>2. ASSUME NEW e \in Engines, NewEngine(e) \/ NewEngineFails(e) PROVE RegistryInv'
  BY <1>0, <1>2
  DEF NewEngine, NewEngineFails, engineVars, sessionVars, RegistryInv,
      RegistryIsComplete, Registered
<1>3. ASSUME NEW e \in Engines, Crash(e) PROVE RegistryInv'
  BY <1>0, <1>3, ReturnTyped
  DEF Crash, storeVars, RegistryInv, RegistryIsComplete, Registered
<1>4. ASSUME NEW s \in Sessions, NEW e \in Engines, NEW i \in Instances,
             Begin(s, e, i)
      PROVE  RegistryInv'
  <2> DEFINE wanted == IF version[i] = 0 THEN Built[e] ELSE hash[i]
  <2>1. wanted \in registry
    BY <1>0, <1>4, BoundsAssumption
    DEF Begin, TypeOK, Registered, RegistryIsComplete
  <2> QED
    BY <1>0, <1>4, <2>1
    DEF Begin, GoTo, storeVars, engineVars, TypeOK, RegistryInv,
        RegistryIsComplete, Registered
<1>5. ASSUME NEW s \in Sessions, Step(s) PROVE RegistryInv'
  <2>1. CASE LookUp(s) \/ LoadWasm(s)
    BY <1>0, <2>1
    DEF LookUp, LoadWasm, GoTo, storeVars, engineVars, TypeOK, RegistryInv,
        RegistryIsComplete, Registered
  <2>2. CASE LoadWasmFails(s) \/ End(s)
    BY <1>0, <2>2, ReturnTyped
    DEF LoadWasmFails, End, storeVars, engineVars, RegistryInv,
        RegistryIsComplete, Registered
  <2>3. CASE Lock(s) \/ Compile(s)
    BY <1>0, <2>3
    DEF Lock, Compile, GoTo, storeVars, TypeOK, RegistryInv, RegistryIsComplete,
        Registered
  <2>4. CASE CompileFails(s)
    BY <1>0, <2>4, ReturnTyped
    DEF CompileFails, storeVars, RegistryInv, RegistryIsComplete, Registered
  <2>5. CASE Instantiate(s)
    <3>1. CASE NameTaken(s)
      BY <1>0, <2>5, <3>1, ReturnTyped
      DEF Instantiate, storeVars, engineVars, RegistryInv, RegistryIsComplete,
          Registered
    <3>2. CASE ~NameTaken(s)
      BY <1>0, <2>5, <3>2
      DEF Instantiate, GoTo, storeVars, engineVars, TypeOK, RegistryInv,
          RegistryIsComplete, Registered
    <3> QED
      BY <3>1, <3>2
  <2>6. CASE Checkpoint(s)
    <3>1. of[s] \in Instances /\ {Built[at[s]], module[s]} \subseteq registry
      BY <1>0, <2>6 DEF Checkpoint, Bound, Registered
    <3>2. RegistryIsComplete'
      BY <1>0, <2>6, <3>1 DEF Checkpoint, TypeOK, RegistryIsComplete
    <3>3. Registered'
      BY <1>0, <2>6 DEF Checkpoint, engineVars, Registered
    <3> QED
      BY <3>2, <3>3 DEF RegistryInv
  <2> QED
    BY <1>5, <2>1, <2>2, <2>3, <2>4, <2>5, <2>6 DEF Step
<1> QED
  BY <1>1, <1>2, <1>3, <1>4, <1>5 DEF Next

\* No instance is left without the module its metadata names or the module
\* that wrote its memory, whatever engines come and go.
THEOREM RegistryComplete == Spec => []RegistryIsComplete
<1>1. Init => RegistryInv
  BY DEF Init, RegistryInv, RegistryIsComplete, Registered
<1>2. RegistryInv => RegistryIsComplete
  BY DEF RegistryInv
<1> QED
  BY <1>1, <1>2, InitType, StepType, StepRegistry, PTL DEF Spec

(***************************************************************************)
(* The cache.                                                              *)
(***************************************************************************)

\* What is compiled is in the cache, and a session about to compile holds the
\* lock and has looked.
CompileInv ==
    /\ \A e \in Engines, h \in Hashes :
          compiles[e][h] = IF h \in cache[e] THEN 1 ELSE 0
    /\ \A e \in Engines : e \notin up => cache[e] = {}
    /\ \A s \in Sessions : pc[s] = "compile" =>
          owner[at[s]] = s /\ module[s] \notin cache[at[s]]

LEMMA StepCompile == TypeInv /\ CompileInv /\ [Next]_vars => CompileInv'
<1> SUFFICES ASSUME TypeInv, CompileInv, [Next]_vars PROVE CompileInv'
  OBVIOUS
<1>0. TypeOK /\ Bound
  BY DEF TypeInv
<1>1. CASE UNCHANGED vars
  BY <1>1 DEF vars, CompileInv
<1>2. ASSUME NEW e \in Engines, NewEngine(e) PROVE CompileInv'
  <2>1. Built[e] \in Hashes
    BY BuiltAssumption
  <2>2. \A s \in Sessions : pc[s] = "compile" => at[s] # e
    BY <1>0, <1>2 DEF NewEngine, Bound
  <2> QED
    BY <1>0, <1>2, <2>1, <2>2 DEF NewEngine, sessionVars, TypeOK, CompileInv
<1>3. ASSUME NEW e \in Engines, NewEngineFails(e) PROVE CompileInv'
  BY <1>3 DEF NewEngineFails, engineVars, sessionVars, CompileInv
<1>4. ASSUME NEW e \in Engines, Crash(e) PROVE CompileInv'
  <2>1. \A s \in Sessions : pc'[s] = "compile" =>
           pc[s] = "compile" /\ at'[s] = at[s] /\ module'[s] = module[s] /\ at[s] # e
    BY <1>0, <1>4, ReturnTyped DEF Crash
  <2> QED
    BY <1>0, <1>4, <2>1 DEF Crash, TypeOK, CompileInv
<1>5. ASSUME NEW s \in Sessions, NEW e \in Engines, NEW i \in Instances,
             Begin(s, e, i)
      PROVE  CompileInv'
  BY <1>0, <1>5 DEF Begin, GoTo, engineVars, TypeOK, CompileInv
<1>6. ASSUME NEW s \in Sessions, Step(s) PROVE CompileInv'
  <2>1. CASE LookUp(s) \/ LoadWasm(s)
    BY <1>0, <2>1 DEF LookUp, LoadWasm, GoTo, engineVars, TypeOK, CompileInv
  <2>2. CASE LoadWasmFails(s) \/ End(s)
    BY <1>0, <2>2, ReturnTyped DEF LoadWasmFails, End, engineVars, CompileInv
  <2>3. CASE Lock(s)
    <3>1. \A t \in Sessions : pc[t] = "compile" => at[t] # at[s]
      BY <2>3, NoneAssumption DEF Lock, CompileInv
    <3>2. at[s] \in Engines
      BY <1>0, <2>3 DEF Lock, TypeOK, Bound
    <3>3. UNCHANGED <<up, cache, compiles, at, module>>
      BY <2>3 DEF Lock
    <3>4. ASSUME NEW t \in Sessions, pc'[t] = "compile"
          PROVE  owner'[at[t]] = t /\ module[t] \notin cache[at[t]]
      <4>1. CASE t # s
        <5>1. pc[t] = "compile" /\ at[t] # at[s]
          BY <1>0, <2>3, <3>1, <3>4, <4>1 DEF Lock, GoTo, TypeOK
        <5>2. owner'[at[t]] = owner[at[t]]
          BY <1>0, <2>3, <5>1 DEF Lock, TypeOK, Bound
        <5> QED
          BY <5>1, <5>2 DEF CompileInv
      <4>2. CASE t = s
        BY <1>0, <2>3, <3>2, <3>4, <4>2 DEF Lock, GoTo, TypeOK
      <4> QED
        BY <4>1, <4>2
    <3> QED
      BY <3>3, <3>4 DEF CompileInv
  <2>4. CASE Compile(s)
    <3>1. \A t \in Sessions : pc[t] = "compile" /\ at[t] = at[s] => t = s
      BY <2>4 DEF Compile, CompileInv
    <3>2. at[s] \in up /\ at[s] \in Engines /\ module[s] \in Hashes
      BY <1>0, <2>4 DEF Compile, TypeOK, Bound
    <3>3. compiles[at[s]][module[s]] = 0
      BY <2>4, <3>2 DEF Compile, CompileInv
    <3>4. \A e \in Engines, h \in Hashes :
             compiles'[e][h] = IF h \in cache'[e] THEN 1 ELSE 0
      BY <1>0, <2>4, <3>2, <3>3 DEF Compile, TypeOK, CompileInv
    <3> QED
      BY <1>0, <2>4, <3>1, <3>2, <3>4 DEF Compile, GoTo, TypeOK, CompileInv
  <2>5. CASE CompileFails(s)
    <3>1. \A t \in Sessions : pc[t] = "compile" /\ at[t] = at[s] => t = s
      BY <2>5 DEF CompileFails, CompileInv
    <3>2. \A t \in Sessions : pc'[t] = "compile" =>
             /\ t # s /\ pc[t] = "compile" /\ at'[t] = at[t] /\ module'[t] = module[t]
      BY <1>0, <2>5, ReturnTyped DEF CompileFails
    <3> QED
      BY <1>0, <2>5, <3>1, <3>2 DEF CompileFails, TypeOK, CompileInv
  <2>6. CASE Instantiate(s)
    <3>1. CASE NameTaken(s)
      BY <1>0, <2>6, <3>1, ReturnTyped DEF Instantiate, engineVars, CompileInv
    <3>2. CASE ~NameTaken(s)
      BY <1>0, <2>6, <3>2 DEF Instantiate, GoTo, engineVars, TypeOK, CompileInv
    <3> QED
      BY <3>1, <3>2
  <2>7. CASE Checkpoint(s)
    BY <2>7 DEF Checkpoint, engineVars, CompileInv
  <2> QED
    BY <1>6, <2>1, <2>2, <2>3, <2>4, <2>5, <2>6, <2>7 DEF Step
<1> QED
  BY <1>1, <1>2, <1>3, <1>4, <1>5, <1>6 DEF Next

\* An engine compiles a module at most once, however many sessions have missed
\* it in the cache.
THEOREM CompiledAtMostOnce == Spec => []CompiledOnce
<1>1. Init => CompileInv
  BY DEF Init, CompileInv
<1>2. CompileInv => CompiledOnce
  BY DEF CompileInv, CompiledOnce
<1> QED
  BY <1>1, <1>2, InitType, StepType, StepCompile, PTL DEF Spec

(***************************************************************************)
(* The module a guest runs.                                                *)
(***************************************************************************)

\* A session is never ahead of the store, and one that is up to date has the
\* module the metadata name or the one it has checkpointed itself.
VersionInv ==
    \A s \in Sessions : pc[s] # "idle" =>
        /\ ver[s] <= version[of[s]]
        /\ ver[s] > 0 /\ ver[s] = version[of[s]] =>
              module[s] \in {hash[of[s]], writer[of[s]]}

LEMMA StepVersion == TypeInv /\ VersionInv /\ [Next]_vars => VersionInv'
<1> SUFFICES ASSUME TypeInv, VersionInv, [Next]_vars PROVE VersionInv'
  OBVIOUS
<1>0. TypeOK /\ Bound
  BY DEF TypeInv
<1>1. CASE UNCHANGED vars
  BY <1>1 DEF vars, VersionInv
<1>2. ASSUME NEW e \in Engines, NewEngine(e) \/ NewEngineFails(e) PROVE VersionInv'
  BY <1>2 DEF NewEngine, NewEngineFails, sessionVars, VersionInv
<1>3. ASSUME NEW e \in Engines, Crash(e) PROVE VersionInv'
  BY <1>0, <1>3, ReturnTyped DEF Crash, storeVars, VersionInv
<1>4. ASSUME NEW s \in Sessions, NEW e \in Engines, NEW i \in Instances,
             Begin(s, e, i)
      PROVE  VersionInv'
  BY <1>0, <1>4, BoundsAssumption
  DEF Begin, GoTo, storeVars, TypeOK, VersionInv
<1>5. ASSUME NEW s \in Sessions, Step(s) PROVE VersionInv'
  <2>1. CASE LookUp(s) \/ LoadWasm(s) \/ Lock(s) \/ Compile(s)
    BY <1>0, <2>1
    DEF LookUp, LoadWasm, Lock, Compile, GoTo, storeVars, TypeOK, VersionInv
  <2>2. CASE LoadWasmFails(s) \/ End(s) \/ CompileFails(s)
    BY <1>0, <2>2, ReturnTyped
    DEF LoadWasmFails, End, CompileFails, storeVars, VersionInv
  <2>3. CASE Instantiate(s)
    <3>1. CASE NameTaken(s)
      BY <1>0, <2>3, <3>1, ReturnTyped DEF Instantiate, storeVars, VersionInv
    <3>2. CASE ~NameTaken(s)
      BY <1>0, <2>3, <3>2 DEF Instantiate, GoTo, storeVars, TypeOK, VersionInv
    <3> QED
      BY <3>1, <3>2
  <2>4. CASE Checkpoint(s)
    <3>1. of[s] \in Instances /\ ver[s] \in Nat /\ ver[s] = version[of[s]]
      BY <1>0, <2>4 DEF Checkpoint, SaveMetadataAccepts, TypeOK, Bound
    <3>2. /\ \A i \in Instances : version'[i] = IF i = of[s] THEN ver[s] + 1 ELSE version[i]
          /\ \A i \in Instances : i # of[s] => hash'[i] = hash[i] /\ writer'[i] = writer[i]
          /\ writer'[of[s]] = module[s]
      BY <1>0, <2>4, <3>1 DEF Checkpoint, NextVersion, TypeOK
    <3>3. /\ \A t \in Sessions : ver'[t] = IF t = s THEN ver[s] + 1 ELSE ver[t]
          /\ UNCHANGED <<pc, of, module>>
      BY <1>0, <2>4 DEF Checkpoint, NextVersion, TypeOK
    <3>4. \A t \in Sessions : pc[t] # "idle" => of[t] \in Instances /\ ver[t] \in Nat
      BY <1>0 DEF TypeOK, Bound
    <3> QED
      BY <3>1, <3>2, <3>3, <3>4 DEF VersionInv
  <2> QED
    BY <1>5, <2>1, <2>2, <2>3, <2>4 DEF Step
<1> QED
  BY <1>1, <1>2, <1>3, <1>4, <1>5 DEF Next

\* A guest that may still checkpoint runs the module that wrote its memory,
\* as long as the metadata name it.
THEOREM RunsTheModule == Spec => []RunsItsModule
<1>1. Init => VersionInv
  BY DEF Init, VersionInv
<1>2. VersionInv => RunsItsModule
  BY DEF VersionInv, RunsItsModule
<1> QED
  BY <1>1, <1>2, InitType, StepType, StepVersion, PTL DEF Spec

=============================================================================
