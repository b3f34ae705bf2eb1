----------------------- MODULE OverlappingCallsProofs -----------------------
(***************************************************************************)
(* Proofs about OverlappingCalls, for any number of calls of any kinds and *)
(* any bound.                                                              *)
(***************************************************************************)
EXTENDS OverlappingCalls, TLAPS

Places == {"new", "bind", "look", "instantiate", "restore", "invoke", "guest",
           "save", "close", "done"}

\* The types the argument needs.
Typed ==
    /\ version \in Nat /\ image \in Nat
    /\ active \in Calls \cup {None} /\ name \in Calls \cup {None}
    /\ meta \in [Calls -> Nat] /\ memory \in [Calls -> Nat]
    /\ kind \in [Calls -> Kinds] /\ pc \in [Calls -> Places]
    /\ loaded \in [Calls -> Nat]
    /\ session \in [Calls -> Calls \cup {None}]
    /\ module \in [Calls -> Calls \cup {None}]
    /\ taken \in [Calls -> Nat] /\ astray \in [Calls -> BOOLEAN]

\* Nobody is ahead of the store.
NotAhead ==
    \A c \in Calls :
        loaded[c] <= version /\ meta[c] <= version /\ taken[c] <= version

\* A call that has a Session, and one that has a module open.
Bound  == {"look", "instantiate", "restore", "invoke", "guest", "save"}
Opened == {"restore", "invoke", "guest", "save"}

\* The active session is one that a RunBPMN has made, and one is under way.
ActiveIsHeld ==
    active # None =>
        /\ kind[active] = "bpmn"
        /\ \E c \in Calls : kind[c] = "bpmn" /\ pc[c] \in Bound

\* The module that has the name is open, and the call that made it will close it.
NameIsHeld == name # None => pc[name] \in Opened /\ module[name] = name

\* The Session of a call: one of a RunBPMN for a RunBPMN, its own for any other.
\* A call that has returned has not had another's than a RunBPMN's either.
SessionsApart ==
    \A c \in Calls :
        /\ pc[c] \in Bound =>
             IF kind[c] = "bpmn" THEN session[c] \in Calls /\ kind[session[c]] = "bpmn"
                                 ELSE session[c] = c
        /\ session[c] \notin {None, c} => kind[session[c]] = "bpmn"

\* A call has no Session before Bind.
Unbound == \A c \in Calls : pc[c] \in {"new", "bind"} => session[c] = None

\* The module of a call: its own until it is restored, and for ever unless
\* RunBPMN has looked for one and found it.
ModulesApart ==
    \A c \in Calls :
        /\ pc[c] = "look" => kind[c] = "bpmn"
        /\ pc[c] \in Opened =>
             /\ module[c] \in Calls
             /\ pc[c] = "restore" \/ kind[c] # "bpmn" => module[c] = c

\* A call is saving the last checkpoint.
OtherSaves(c) ==
    \E d \in Calls : d # c /\ pc[d] = "save" /\ taken[d] = version

\* What holds of a call with a session and a module of its own.  While it saves,
\* its session has the Version it took, and nobody else saves that Version.
\* Restored, and with the stored Version in its session, it has the stored
\* memory or has gone astray, and has gone astray if another is saving.
Sound(c) ==
    /\ pc[c] = "save" => meta[c] = taken[c] /\ ~(OtherSaves(c) /\ taken[c] = version)
    /\ pc[c] \in {"invoke", "guest"} /\ meta[c] = version =>
         /\ OtherSaves(c) => astray[c]
         /\ ~astray[c] => memory[c] = image

Fresh == \A c \in Calls : Unshared(c) => Sound(c)

Inv ==
    /\ Typed /\ NotAhead
    /\ ActiveIsHeld /\ NameIsHeld /\ SessionsApart /\ Unbound /\ ModulesApart
    /\ Fresh

LEMMA InitInv == Init => Inv
<1> SUFFICES ASSUME Init PROVE Inv
  OBVIOUS
<1>a. astray \in [Calls -> BOOLEAN]
  BY Zenon DEF Init
<1>1. Typed /\ NotAhead
  BY <1>a DEF Init, Typed, NotAhead, Places
<1>2. ActiveIsHeld /\ NameIsHeld
  BY DEF Init, ActiveIsHeld, NameIsHeld
<1>3. SessionsApart /\ Unbound /\ ModulesApart /\ Fresh
  BY DEF Init, SessionsApart, Unbound, ModulesApart, Fresh, Sound, Bound, Opened
<1> QED
  BY <1>1, <1>2, <1>3 DEF Inv

\* A call whose compare-and-swap succeeds has a Session and a module, its
\* Session has the stored Version, and the Version goes up by one.
LEMMA SwapFacts ==
    ASSUME Inv, NEW c \in Calls, CompareAndSwap(c)
    PROVE  /\ session[c] \in Calls /\ module[c] \in Calls /\ pc[c] = "guest"
           /\ meta[session[c]] = version
           /\ version' = version + 1
           /\ meta' = [meta EXCEPT ![session[c]] = version']
           /\ taken' = [taken EXCEPT ![c] = version']
           /\ pc' = [pc EXCEPT ![c] = "save"]
           /\ UNCHANGED <<image, active, name, memory, kind, loaded, session,
                          module, astray>>
<1>1. pc[c] = "guest"
  BY DEF CompareAndSwap
<1>2. session[c] \in Calls
  BY <1>1 DEF Inv, SessionsApart, Bound
<1>3. module[c] \in Calls
  BY <1>1 DEF Inv, ModulesApart, Opened
<1>4. meta[session[c]] = version
  BY DEF CompareAndSwap, SaveMetadataAccepts
<1> QED
  BY <1>1, <1>2, <1>3, <1>4 DEF CompareAndSwap, NextVersion, GoTo

\* The history stays a function to BOOLEAN.
LEMMA StepAstray ==
    ASSUME Typed, NEW c \in Calls, Step(c)
    PROVE  astray' \in [Calls -> BOOLEAN]
<1>0. astray \in [Calls -> BOOLEAN]
  BY DEF Typed
<1>1. CASE Restore(c)
  BY <1>0, <1>1, Zenon DEF Restore, SaveUnderWay
<1>2. CASE RestoreMisses(c)
  BY <1>0, <1>2, Zenon DEF RestoreMisses
<1>3. CASE SaveMemory(c)
  BY <1>3, Zenon DEF SaveMemory
<1>4. CASE astray' = astray
  BY <1>0, <1>4
<1> QED
  BY <1>1, <1>2, <1>3, <1>4
  DEF Step, Begin, Bind, Look, Instantiate, InstantiateFails, Invoke,
      CompareAndSwap, Return, CloseInstance

LEMMA StepTyped ==
    ASSUME Inv, NEW c \in Calls, Step(c)
    PROVE  Typed'
<1>0. Typed
  BY DEF Inv
<1>a. astray' \in [Calls -> BOOLEAN]
  BY <1>0, StepAstray
<1>1. CASE Begin(c)
  BY <1>0, <1>a, <1>1 DEF Begin, GoTo, storeVars, engineVars, callVars, Typed, Places
<1>2. CASE Bind(c)
  BY <1>0, <1>a, <1>2 DEF Bind, GoTo, storeVars, engineVars, callVars, Typed, Places
<1>3. CASE Look(c)
  BY <1>0, <1>a, <1>3 DEF Look, GoTo, storeVars, engineVars, callVars, Typed, Places
<1>4. CASE Instantiate(c)
  BY <1>0, <1>a, <1>4 DEF Instantiate, GoTo, storeVars, engineVars, callVars, Typed, Places
<1>5. CASE InstantiateFails(c)
  BY <1>0, <1>a, <1>5 DEF InstantiateFails, GoTo, storeVars, engineVars, callVars, Typed, Places
<1>6. CASE Restore(c) \/ RestoreMisses(c)
  BY <1>0, <1>a, <1>6 DEF Restore, RestoreMisses, GoTo, storeVars, engineVars, callVars, Typed, Places
<1>7. CASE Invoke(c)
  BY <1>0, <1>a, <1>7 DEF Invoke, GoTo, storeVars, engineVars, callVars, Typed, Places
<1>8. CASE CompareAndSwap(c)
  BY <1>0, <1>a, <1>8, SwapFacts DEF Typed, Places
<1>11. CASE SaveMemory(c)
  BY <1>0, <1>a, <1>11 DEF SaveMemory, GoTo, callVars, Typed, Places
<1>9. CASE Return(c)
  BY <1>0, <1>a, <1>9 DEF Return, CloseModule, GoTo, storeVars, engineVars, callVars, Typed, Places
<1>10. CASE CloseInstance(c)
  BY <1>0, <1>a, <1>10 DEF CloseInstance, CloseModule, GoTo, storeVars, engineVars, callVars, Typed, Places
<1> QED
  BY <1>1, <1>2, <1>3, <1>4, <1>5, <1>6, <1>7, <1>8, <1>9, <1>10,
     <1>11 DEF Step

\* A call moves on its own: the others stay where they are.
LEMMA OthersStay ==
    ASSUME Typed, NEW c \in Calls, Step(c)
    PROVE  /\ kind' = kind
           /\ \A d \in Calls : d # c =>
                /\ pc'[d] = pc[d] /\ loaded'[d] = loaded[d]
                /\ session'[d] = session[d] /\ module'[d] = module[d]
                /\ taken'[d] = taken[d]
<1>1. CASE Begin(c) \/ Bind(c) \/ Look(c)
  BY <1>1 DEF Begin, Bind, Look, GoTo, Typed
<1>2. CASE Instantiate(c) \/ InstantiateFails(c) \/ Invoke(c)
  BY <1>2 DEF Instantiate, InstantiateFails, Invoke, GoTo, callVars, Typed
<1>3. CASE Restore(c) \/ RestoreMisses(c)
  BY <1>3 DEF Restore, RestoreMisses, GoTo, callVars, Typed
<1>4. CASE CompareAndSwap(c) \/ SaveMemory(c)
  BY <1>4 DEF CompareAndSwap, SaveMemory, GoTo, callVars, Typed
<1>5. CASE Return(c) \/ CloseInstance(c)
  BY <1>5 DEF Return, CloseInstance, GoTo, callVars, Typed
<1> QED
  BY <1>1, <1>2, <1>3, <1>4, <1>5 DEF Step

LEMMA StepNotAhead ==
    ASSUME Inv, NEW c \in Calls, Step(c)
    PROVE  NotAhead'
<1>0. Typed /\ NotAhead
  BY DEF Inv
<1>1. CASE Begin(c)
  BY <1>0, <1>1 DEF Begin, storeVars, engineVars, Typed, NotAhead
<1>2. CASE Bind(c)
  <2>1. /\ version' = version /\ loaded' = loaded /\ taken' = taken
        /\ \A d \in Calls : meta'[d] \in {meta[d], loaded[c]}
    BY <1>0, <1>2 DEF Bind, storeVars, Typed
  <2> QED
    BY <1>0, <2>1 DEF NotAhead
<1>3. CASE CompareAndSwap(c)
  <2>1. /\ version' = version + 1 /\ loaded' = loaded
        /\ \A d \in Calls : meta'[d] \in {meta[d], version'}
        /\ \A d \in Calls : taken'[d] \in {taken[d], version'}
    BY <1>0, <1>3, SwapFacts DEF Typed
  <2> QED
    BY <1>0, <2>1 DEF NotAhead, Typed
<1>4. CASE UNCHANGED <<version, loaded, meta, taken>>
  BY <1>0, <1>4 DEF NotAhead
<1> QED
  BY <1>1, <1>2, <1>3, <1>4
  DEF Step, Look, Instantiate, InstantiateFails, Restore, RestoreMisses, Invoke,
      SaveMemory, Return, CloseInstance, storeVars, engineVars, callVars

LEMMA StepActive ==
    ASSUME Inv, NEW c \in Calls, Step(c)
    PROVE  ActiveIsHeld'
<1>0. Typed /\ ActiveIsHeld
  BY DEF Inv
<1>1. /\ kind' = kind
      /\ \A d \in Calls : d # c => pc'[d] = pc[d]
  BY <1>0, OthersStay
<1>2. CASE active' = None
  BY <1>2 DEF ActiveIsHeld
<1>3. CASE Bind(c) /\ kind[c] = "bpmn"
  <2>1. pc'[c] = "look" /\ active' \in {active, c} \ {None}
    BY <1>0, <1>3, NoneAssumption DEF Bind, GoTo, Typed
  <2>2. kind'[active'] = "bpmn"
    BY <1>0, <1>1, <1>3, <2>1 DEF ActiveIsHeld
  <2> QED
    BY <1>1, <1>3, <2>1, <2>2 DEF ActiveIsHeld, Bound
<1>4. ASSUME active' = active,
             kind[c] = "bpmn" /\ pc[c] \in Bound => pc'[c] \in Bound
      PROVE  ActiveIsHeld'
  BY <1>0, <1>1, <1>4 DEF ActiveIsHeld
<1>5. CASE Bind(c) /\ kind[c] # "bpmn"
  BY <1>4, <1>5 DEF Bind
<1>6. CASE \/ Begin(c) \/ Look(c) \/ Instantiate(c) \/ Restore(c)
           \/ RestoreMisses(c) \/ Invoke(c) \/ SaveMemory(c)
  <2>1. active' = active /\ (pc[c] \in Bound => pc'[c] \in Bound)
    BY <1>0, <1>6
    DEF Begin, Look, Instantiate, Restore, RestoreMisses, Invoke, SaveMemory,
        GoTo, engineVars, Typed, Bound
  <2> QED
    BY <1>4, <2>1
<1>7. CASE CompareAndSwap(c)
  <2>1. active' = active /\ pc'[c] \in Bound
    BY <1>0, <1>7 DEF CompareAndSwap, GoTo, Typed, Bound
  <2> QED
    BY <1>4, <2>1
<1>8. CASE InstantiateFails(c) \/ Return(c)
  BY <1>2, <1>4, <1>8 DEF InstantiateFails, Return
<1>9. CASE CloseInstance(c)
  BY <1>2, <1>4, <1>9 DEF CloseInstance
<1> QED
  BY <1>3, <1>5, <1>6, <1>7, <1>8, <1>9 DEF Step

LEMMA StepName ==
    ASSUME Inv, NEW c \in Calls, Step(c)
    PROVE  NameIsHeld'
<1>0. Typed /\ NameIsHeld
  BY DEF Inv
<1>1. \A d \in Calls : d # c => pc'[d] = pc[d] /\ module'[d] = module[d]
  BY <1>0, OthersStay
<1>2. CASE name' = None
  BY <1>2 DEF NameIsHeld
<1>3. CASE Instantiate(c)
  BY <1>0, <1>3 DEF Instantiate, GoTo, Typed, NameIsHeld, Opened
<1>4. ASSUME name' = name,
             name = c /\ pc[c] \in Opened => pc'[c] \in Opened /\ module'[c] = module[c]
      PROVE  NameIsHeld'
  BY <1>0, <1>1, <1>4 DEF NameIsHeld, Typed
<1>5. CASE Begin(c) \/ Bind(c) \/ Look(c) \/ InstantiateFails(c)
  <2>1. name' = name /\ pc[c] \notin Opened
    BY <1>5 DEF Begin, Bind, Look, InstantiateFails, engineVars, Opened
  <2> QED
    BY <1>4, <2>1
<1>6. CASE \/ Restore(c) \/ RestoreMisses(c) \/ Invoke(c)
           \/ CompareAndSwap(c) \/ SaveMemory(c)
  <2>1. /\ name' = name /\ module' = module
        /\ pc[c] \in Opened /\ pc'[c] \in Opened
    BY <1>0, <1>6
    DEF Restore, RestoreMisses, Invoke, CompareAndSwap, SaveMemory, GoTo,
        engineVars, callVars, Typed, Opened
  <2> QED
    BY <1>4, <2>1
<1>7. CASE Return(c)
  <2>1. CASE module[c] = name
    BY <1>2, <1>7, <2>1 DEF Return, CloseModule
  <2>2. CASE module[c] # name
    <3>1. name' = name
      BY <1>7, <2>2 DEF Return, CloseModule
    <3>2. name # c
      BY <1>0, <2>2, NoneAssumption DEF NameIsHeld
    <3> QED
      BY <1>4, <3>1, <3>2
  <2> QED
    BY <2>1, <2>2
<1>8. CASE CloseInstance(c)
  <2>1. name' = None \/ (name' = name /\ pc[c] = "new")
    BY <1>8 DEF CloseInstance, CloseModule
  <2> QED
    BY <1>2, <1>4, <2>1 DEF Opened
<1> QED
  BY <1>3, <1>5, <1>6, <1>7, <1>8 DEF Step

LEMMA StepSessions ==
    ASSUME Inv, NEW c \in Calls, Step(c)
    PROVE  SessionsApart'
<1>0. Typed /\ ActiveIsHeld /\ SessionsApart
  BY DEF Inv
<1>1. /\ kind' = kind
      /\ \A d \in Calls : d # c => pc'[d] = pc[d] /\ session'[d] = session[d]
  BY <1>0, OthersStay
<1>2. CASE Bind(c)
  <2>1. session'[c] = IF kind[c] = "bpmn" /\ active # None THEN active ELSE c
    BY <1>0, <1>2 DEF Bind, Typed
  <2>2. active # None => active \in Calls /\ kind[active] = "bpmn"
    BY <1>0 DEF Typed, ActiveIsHeld
  <2> QED
    BY <1>0, <1>1, <2>1, <2>2 DEF SessionsApart
<1>3. ASSUME session' = session, pc'[c] \in Bound => pc[c] \in Bound
      PROVE  SessionsApart'
  BY <1>0, <1>1, <1>3 DEF SessionsApart
<1>4. CASE \/ Begin(c) \/ Look(c) \/ Instantiate(c) \/ InstantiateFails(c)
           \/ Restore(c) \/ RestoreMisses(c) \/ Invoke(c) \/ CompareAndSwap(c)
           \/ SaveMemory(c) \/ Return(c) \/ CloseInstance(c)
  <2>1. session' = session /\ (pc'[c] \in Bound => pc[c] \in Bound)
    BY <1>0, <1>4
    DEF Begin, Look, Instantiate, InstantiateFails, Restore, RestoreMisses,
        Invoke, CompareAndSwap, SaveMemory, Return, CloseInstance, GoTo, callVars,
        Typed, Bound
  <2> QED
    BY <1>3, <2>1
<1> QED
  BY <1>2, <1>4 DEF Step

LEMMA StepModules ==
    ASSUME Inv, NEW c \in Calls, Step(c)
    PROVE  ModulesApart'
<1>0. Typed /\ ModulesApart
  BY DEF Inv
<1>1. /\ kind' = kind
      /\ \A d \in Calls : d # c => pc'[d] = pc[d] /\ module'[d] = module[d]
  BY <1>0, OthersStay
<1>2. ASSUME pc'[c] # "look",
             pc'[c] \in Opened =>
               /\ module'[c] \in Calls
               /\ pc'[c] = "restore" \/ kind[c] # "bpmn" => module'[c] = c
      PROVE  ModulesApart'
  BY <1>0, <1>1, <1>2 DEF ModulesApart
<1>3. CASE Begin(c) \/ InstantiateFails(c) \/ Return(c) \/ CloseInstance(c)
  <2>1. pc'[c] \notin Opened /\ pc'[c] # "look"
    BY <1>0, <1>3
    DEF Begin, InstantiateFails, Return, CloseInstance, GoTo, Typed, Opened
  <2> QED
    BY <1>2, <2>1
<1>4. CASE Bind(c)
  <2>1. pc'[c] = IF kind[c] = "bpmn" THEN "look" ELSE "instantiate"
    BY <1>0, <1>4 DEF Bind, GoTo, Typed
  <2> QED
    BY <1>0, <1>1, <2>1 DEF ModulesApart, Opened
<1>5. CASE Look(c)
  <2>1. /\ module'[c] = name
        /\ pc'[c] = IF name = None THEN "instantiate" ELSE "invoke"
    BY <1>0, <1>5 DEF Look, GoTo, Typed
  <2>2. kind[c] = "bpmn"
    BY <1>0, <1>5 DEF Look, ModulesApart
  <2> QED
    BY <1>0, <1>2, <2>1, <2>2 DEF Typed, Opened
<1>6. CASE Instantiate(c)
  BY <1>0, <1>2, <1>6 DEF Instantiate, GoTo, Typed
<1>7. CASE \/ Restore(c) \/ RestoreMisses(c) \/ Invoke(c)
           \/ CompareAndSwap(c) \/ SaveMemory(c)
  <2>1. /\ module' = module /\ pc[c] \in Opened /\ pc'[c] # "look"
        /\ pc'[c] = "restore" => pc[c] = "restore"
    BY <1>0, <1>7
    DEF Restore, RestoreMisses, Invoke, CompareAndSwap, SaveMemory, GoTo,
        callVars, Typed, Opened
  <2> QED
    BY <1>0, <1>2, <2>1 DEF ModulesApart
<1> QED
  BY <1>3, <1>4, <1>5, <1>6, <1>7 DEF Step

LEMMA StepUnbound ==
    ASSUME Inv, NEW c \in Calls, Step(c)
    PROVE  Unbound'
<1>0. Typed /\ Unbound
  BY DEF Inv
<1>1. \A d \in Calls : d # c => pc'[d] = pc[d] /\ session'[d] = session[d]
  BY <1>0, OthersStay
<1>2. CASE Begin(c)
  BY <1>0, <1>1, <1>2 DEF Begin, Unbound
<1>3. CASE ~Begin(c)
  <2>1. pc'[c] \notin {"new", "bind"}
    BY <1>0, <1>3
    DEF Step, Bind, Look, Instantiate, InstantiateFails, Restore, RestoreMisses,
        Invoke, CompareAndSwap, SaveMemory, Return, CloseInstance, GoTo, Typed
  <2> QED
    BY <1>0, <1>1, <2>1 DEF Unbound
<1> QED
  BY <1>2, <1>3

\* A restored call that shares nothing has shared nothing before.
LEMMA WasUnshared ==
    ASSUME Inv, NEW c \in Calls, Step(c), NEW d \in Calls, Unshared(d)',
           pc'[d] \in {"invoke", "guest", "save"}
    PROVE  Unshared(d) /\ ~(d = c /\ Look(c))
<1>0. Typed /\ NameIsHeld /\ Unbound
  BY DEF Inv
<1>1. /\ \A x \in Calls : x # c =>
           pc'[x] = pc[x] /\ session'[x] = session[x] /\ module'[x] = module[x]
      /\ session'[d] = d /\ module'[d] = d
      /\ \A x \in Calls : x # d => session'[x] # d
  BY <1>0, OthersStay DEF Unshared
<1>2. CASE Bind(c)
  <2>1. c # d /\ pc[c] = "bind"
    BY <1>0, <1>2 DEF Bind, GoTo, Typed
  <2>2. session[c] # d
    BY <1>0, <2>1, NoneAssumption DEF Unbound
  <2>3. ~Look(c)
    BY <2>1 DEF Look
  <2> QED
    BY <1>1, <2>1, <2>2, <2>3 DEF Unshared
<1>3. CASE Look(c)
  <2>1. session' = session /\ module'[c] = name /\ pc[c] = "look"
    BY <1>0, <1>3 DEF Look, Typed
  <2>2. name # c
    BY <1>0, <2>1, NoneAssumption DEF NameIsHeld, Opened
  <2> QED
    BY <1>1, <2>1, <2>2 DEF Unshared
<1>4. CASE Instantiate(c)
  <2>1. c # d /\ session' = session
    BY <1>0, <1>4 DEF Instantiate, GoTo, Typed
  <2> QED
    BY <1>1, <2>1 DEF Unshared
<1>5. CASE UNCHANGED <<session, module>> /\ ~Look(c)
  BY <1>1, <1>5 DEF Unshared
<1> QED
  BY <1>2, <1>3, <1>4, <1>5
  DEF Step, Begin, InstantiateFails, Restore, RestoreMisses, Invoke,
      CompareAndSwap, SaveMemory, Return, CloseInstance, callVars

\* A step that saves nothing and starts no save leaves a call sound whose own
\* state it leaves alone.
LEMMA StaysSound ==
    ASSUME NEW d \in Calls, Sound(d), OtherSaves(d)' => OtherSaves(d),
           UNCHANGED <<version, image>>,
           pc'[d] = pc[d] \/ (pc[d] = "invoke" /\ pc'[d] = "guest"),
           meta'[d] = meta[d], memory'[d] = memory[d], taken'[d] = taken[d],
           astray'[d] = astray[d]
    PROVE  Sound(d)'
BY DEF Sound

LEMMA StepFresh ==
    ASSUME Inv, NEW c \in Calls, Step(c)
    PROVE  Fresh'
<1>0. Typed /\ NotAhead /\ SessionsApart /\ ModulesApart /\ Fresh
  BY DEF Inv
<1>t. /\ meta \in [Calls -> Nat] /\ memory \in [Calls -> Nat]
      /\ taken \in [Calls -> Nat] /\ astray \in [Calls -> BOOLEAN]
      /\ pc \in [Calls -> Places] /\ version \in Nat
      /\ session \in [Calls -> Calls \cup {None}]
  BY <1>0 DEF Typed
<1>1. /\ kind' = kind
      /\ \A x \in Calls : x # c =>
           pc'[x] = pc[x] /\ session'[x] = session[x] /\ taken'[x] = taken[x]
  BY <1>0, OthersStay
<1>2. SUFFICES ASSUME NEW d \in Calls, Unshared(d)',
                      pc'[d] \in {"invoke", "guest", "save"}
               PROVE  Sound(d)'
  BY DEF Fresh, Sound
<1>3. Unshared(d) /\ Sound(d) /\ ~(d = c /\ Look(c))
  BY <1>0, <1>2, WasUnshared DEF Fresh
<1>4. session[d] = d /\ module[d] = d /\ \A x \in Calls : x # d => session[x] # d
  BY <1>3 DEF Unshared
<1>5. ASSUME pc'[c] # "save", version' = version
      PROVE  OtherSaves(d)' => OtherSaves(d)
  BY <1>1, <1>5 DEF OtherSaves
<1>6. CASE \/ Begin(c) \/ Look(c) \/ InstantiateFails(c) \/ Return(c)
           \/ CloseInstance(c)
  <2>1. /\ UNCHANGED <<version, image, meta, memory, taken, astray>>
        /\ Look(c) \/ pc'[c] \notin {"invoke", "guest", "save"}
        /\ pc'[c] # "save"
    BY <1>t, <1>6
    DEF Begin, Look, InstantiateFails, Return, CloseInstance, GoTo, storeVars,
        engineVars, callVars
  <2>2. d # c
    BY <1>2, <1>3, <2>1
  <2> QED
    BY <1>1, <1>3, <1>5, <2>1, <2>2, StaysSound
<1>7. CASE Bind(c)
  <2>1. /\ UNCHANGED <<version, image, memory, taken, astray>>
        /\ pc'[c] \notin {"invoke", "guest", "save"}
        /\ meta' = [meta EXCEPT ![session'[c]] = loaded[c]]
    BY <1>t, <1>7 DEF Bind, GoTo, storeVars
  <2>2. d # c /\ session'[c] # d
    BY <1>2, <2>1 DEF Unshared
  <2>3. meta'[d] = meta[d]
    BY <1>t, <2>1, <2>2
  <2> QED
    BY <1>1, <1>3, <1>5, <2>1, <2>2, <2>3, StaysSound
<1>8. CASE Instantiate(c)
  <2>1. /\ UNCHANGED <<version, image, meta, taken, astray>>
        /\ pc'[c] = "restore" /\ memory' = [memory EXCEPT ![c] = 0]
    BY <1>t, <1>8 DEF Instantiate, GoTo, storeVars
  <2>2. d # c /\ memory'[d] = memory[d]
    BY <1>t, <1>2, <2>1
  <2> QED
    BY <1>1, <1>3, <1>5, <2>1, <2>2, StaysSound
<1>9. CASE Restore(c)
  <2>1. /\ UNCHANGED <<version, image, meta, taken>> /\ pc'[c] = "invoke"
        /\ memory' = [memory EXCEPT ![c] = image]
    BY <1>0, <1>t, <1>9
    DEF Restore, GoTo, storeVars, callVars, ModulesApart, Opened
  <2>2. /\ astray'[c] = SaveUnderWay(c)
        /\ \A x \in Calls : x # c => astray'[x] = astray[x]
    BY <1>t, <1>9, Zenon DEF Restore
  <2>3. CASE d = c
    <3>1. OtherSaves(d) => astray'[d]
      BY <2>2, <2>3 DEF OtherSaves, SaveUnderWay
    <3>2. memory'[d] = image'
      BY <1>t, <2>1, <2>3
    <3> QED
      BY <1>5, <2>1, <2>3, <3>1, <3>2 DEF Sound
  <2>4. CASE d # c
    BY <1>t, <1>1, <1>3, <1>5, <2>1, <2>2, <2>4, StaysSound
  <2> QED
    BY <2>3, <2>4
<1>10. CASE RestoreMisses(c)
  <2>1. /\ UNCHANGED <<version, image, meta, memory, taken>>
        /\ pc'[c] = "invoke"
    BY <1>t, <1>10 DEF RestoreMisses, GoTo, storeVars, engineVars, callVars
  <2>2. /\ astray'[c] = TRUE
        /\ \A x \in Calls : x # c => astray'[x] = astray[x]
    BY <1>t, <1>10, Zenon DEF RestoreMisses
  <2>3. CASE d = c
    BY <2>1, <2>2, <2>3 DEF Sound
  <2>4. CASE d # c
    BY <1>1, <1>3, <1>5, <2>1, <2>2, <2>4, StaysSound
  <2> QED
    BY <2>3, <2>4
<1>11. CASE Invoke(c)
  <2>1. /\ UNCHANGED <<version, image, meta, memory, taken, astray>>
        /\ pc[c] = "invoke" /\ pc'[c] = "guest"
    BY <1>t, <1>11 DEF Invoke, GoTo, storeVars, engineVars, callVars
  <2> QED
    BY <1>1, <1>3, <1>5, <2>1, StaysSound
<1>12. CASE CompareAndSwap(c)
  <2>1. /\ version' = version + 1 /\ pc'[c] = "save"
        /\ meta' = [meta EXCEPT ![session[c]] = version']
        /\ taken' = [taken EXCEPT ![c] = version']
        /\ session[c] \in Calls
    BY <1>t, <1>12, SwapFacts
  <2>2. \A x \in Calls : x # c => taken'[x] <= version /\ taken'[x] # version'
    BY <1>0, <1>t, <2>1 DEF NotAhead
  <2>3. CASE d = c
    <3>1. meta'[d] = version' /\ taken'[d] = version'
      BY <1>t, <1>4, <2>1, <2>3
    <3>2. ~OtherSaves(d)'
      BY <2>2, <2>3 DEF OtherSaves
    <3> QED
      BY <2>1, <2>3, <3>1, <3>2 DEF Sound
  <2>4. CASE d # c
    <3>1. meta'[d] = meta[d] /\ meta[d] # version' /\ taken'[d] = taken[d]
      BY <1>0, <1>t, <1>1, <1>4, <2>1, <2>4 DEF NotAhead
    <3> QED
      BY <1>1, <1>3, <2>2, <2>4, <3>1 DEF Sound
  <2> QED
    BY <2>3, <2>4
<1>13. CASE SaveMemory(c)
  <2>1. /\ UNCHANGED <<version, meta, taken>> /\ image' = taken[c]
        /\ pc[c] = "save" /\ pc'[c] = "guest"
        /\ memory' = [memory EXCEPT ![module[c]] = taken[c]]
    BY <1>t, <1>13 DEF SaveMemory, GoTo, callVars
  <2>2. OtherSaves(d)' => OtherSaves(d)
    BY <1>5, <2>1
  <2>3. CASE d = c
    <3>1. memory'[d] = image'
      BY <1>t, <1>4, <2>1, <2>3
    <3> QED
      BY <1>3, <2>1, <2>2, <2>3, <3>1 DEF Sound
  <2>4. CASE d # c
    <3>1. astray'[d] = (astray[d] \/ taken[c] # version)
      BY <1>13, <2>4, Zenon DEF SaveMemory
    <3>2. taken[c] = version => OtherSaves(d)
      BY <2>1, <2>4 DEF OtherSaves
    <3> QED
      BY <1>1, <1>3, <2>1, <2>2, <2>4, <3>1, <3>2 DEF Sound
  <2> QED
    BY <2>3, <2>4
<1> QED
  BY <1>6, <1>7, <1>8, <1>9, <1>10, <1>11, <1>12, <1>13 DEF Step

LEMMA StepInv == Inv /\ [Next]_vars => Inv'
<1> SUFFICES ASSUME Inv, [Next]_vars PROVE Inv'
  OBVIOUS
<1>1. CASE UNCHANGED vars
  BY <1>1
  DEF vars, Inv, Typed, NotAhead, ActiveIsHeld, NameIsHeld, SessionsApart,
      Unbound, ModulesApart, Fresh, Unshared, Sound, OtherSaves
<1>2. ASSUME NEW c \in Calls, Step(c) PROVE Inv'
  BY <1>2, StepTyped, StepNotAhead, StepActive, StepName, StepSessions,
     StepUnbound, StepModules, StepFresh
  DEF Inv
<1> QED
  BY <1>1, <1>2 DEF Next

\* Once every call has returned, activeSessions and the runtime's table hold
\* nothing of the instance, in whatever order calls took and dropped each
\* other's session and module.
THEOREM NothingLeaks == Spec => []NothingLeft
<1>1. Inv => NothingLeft
  BY DEF Inv, Typed, ActiveIsHeld, NameIsHeld, Bound, Opened, NothingLeft
<1> QED
  BY <1>1, InitInv, StepInv, PTL DEF Spec

\* A guest that shares nothing, as every guest of ExecuteWithArgs, and that the
\* store would let checkpoint runs on the memory of the last checkpoint, unless
\* it went astray.
THEOREM UnsharedIsCurrent == Spec => []RunsOnLatest
<1>1. Inv => RunsOnLatest
  <2> SUFFICES ASSUME Inv, NEW c \in Calls, pc[c] = "guest",
                      kind[c] = "execute" \/ Unshared(c),
                      meta[session[c]] = version, ~astray[c]
               PROVE  memory[module[c]] = image
    BY DEF RunsOnLatest
  <2>1. Unshared(c)
    <3>1. SUFFICES ASSUME kind[c] = "execute" PROVE Unshared(c)
      OBVIOUS
    <3>2. session[c] = c /\ module[c] = c
      BY <3>1 DEF Inv, SessionsApart, ModulesApart, Bound, Opened
    <3>3. \A d \in Calls \ {c} : session[d] # c
      BY <3>1, NoneAssumption DEF Inv, SessionsApart
    <3> QED
      BY <3>2, <3>3 DEF Unshared
  <2> QED
    BY <2>1 DEF Inv, Fresh, Sound, Unshared
<1> QED
  BY <1>1, InitInv, StepInv, PTL DEF Spec

=============================================================================
