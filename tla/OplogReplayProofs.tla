------------------------- MODULE OplogReplayProofs -------------------------
(***************************************************************************)
(* Proofs about OplogReplay, for any workflow, any number of nodes and any *)
(* bounds.                                                                 *)
(***************************************************************************)
EXTENDS OplogReplay, FiniteSetTheorems, TLAPS

\* The calls, as pairs.
LEMMA CallPairs ==
    ASSUME NEW s, NEW k
    PROVE  <<s, k>> \in Calls <=>
             s \in 1 .. Len(Program) /\ k \in 1 .. Len(Program[s])
BY DEF Calls

\* Every call is a pair of positive numbers.
LEMMA CallShape ==
    ASSUME NEW c \in Calls
    PROVE  /\ c = <<c[1], c[2]>>
           /\ c[1] \in Nat \ {0} /\ c[2] \in Nat \ {0}
BY ProgramAssumption DEF Calls

\* The workflow and its steps have lengths.
LEMMA Lengths ==
    /\ Len(Program) \in Nat
    /\ \A s \in 1 .. Len(Program) : Len(Program[s]) \in Nat
BY ProgramAssumption

\* A guest that is at a call is at a call of the workflow.
LEMMA AtCallIsCall ==
    ASSUME TypeOK, NEW n \in Nodes, AtCall(n)
    PROVE  Current(n) \in Calls
<1>1. step[n] \in 1 .. Len(Program) /\ call[n] \in Nat \ {0}
  BY Lengths DEF TypeOK, AtCall
<1>2. call[n] \in 1 .. Len(Program[step[n]])
  BY <1>1, Lengths DEF AtCall
<1> QED
  BY <1>1, <1>2, CallPairs DEF Current

\* A call that returns an error ends the session.
LEMMA GiveUpMoves ==
    ASSUME TypeOK, NEW n \in Nodes, GiveUp(n)
    PROVE  /\ pc' = [pc EXCEPT ![n] = "idle"] /\ pc'[n] = "idle"
           /\ pc' \in [Nodes -> PC] /\ call' = call
           /\ \A m \in Nodes : m # n => pc'[m] = pc[m]
           /\ done' = done /\ failed' \in BOOLEAN /\ overlapped' = overlapped
<1>1. pc' = [pc EXCEPT ![n] = "idle"] /\ pc \in [Nodes -> PC]
  BY DEF GiveUp, GoTo, TypeOK
<1>2. failed' \in BOOLEAN
  BY Zenon DEF GiveUp
<1>3. call' = call /\ done' = done /\ overlapped' = overlapped
  BY DEF GiveUp
<1> QED
  BY <1>1, <1>2, <1>3 DEF PC

\* Taking a response leads back to the guest or out of the session.
LEMMA DeliverMoves ==
    ASSUME TypeOK, NEW n \in Nodes, Deliver(n)
    PROVE  /\ \/ pc' = [pc EXCEPT ![n] = "guest"]
              \/ pc' = [pc EXCEPT ![n] = "idle"]
           /\ pc' \in [Nodes -> PC] /\ call' \in [Nodes -> Nat \ {0}]
           /\ pc'[n] \in {"guest", "idle"}
           /\ \A m \in Nodes : m # n => call'[m] = call[m] /\ pc'[m] = pc[m]
           /\ pc'[n] = "guest" => call'[n] = call[n] + 1
           /\ done' = done /\ failed' \in BOOLEAN /\ overlapped' = overlapped
<1>0. call \in [Nodes -> Nat \ {0}] /\ pc \in [Nodes -> PC]
  BY DEF TypeOK
<1>1. CASE GiveUp(n)
  BY <1>0, <1>1, GiveUpMoves
<1>2. CASE Accept(n)
  <2>1. /\ pc' = [pc EXCEPT ![n] = "guest"]
        /\ call' = [call EXCEPT ![n] = call[n] + 1]
    BY <1>2 DEF Accept, GoTo
  <2>2. call[n] + 1 \in Nat \ {0}
    BY <1>0
  <2>3. done' = done /\ failed' \in BOOLEAN /\ overlapped' = overlapped
    BY <1>2 DEF Accept, ends, TypeOK
  <2> QED
    BY <1>0, <2>1, <2>2, <2>3 DEF PC
<1> QED
  BY <1>1, <1>2 DEF Deliver

\* A session that performs a call or records its response is at a call.
RecordsCall ==
    \A n \in Nodes : pc[n] \in {"perform", "record"} => Current(n) \in Calls

LEMMA InitType == Init => TypeOK /\ RecordsCall
<1> SUFFICES ASSUME Init PROVE TypeOK /\ RecordsCall
  OBVIOUS
<1>1. RecordsCall
  BY DEF Init, RecordsCall
<1>2. 1 \in 1 .. Len(Program) + 1 /\ 0 \in 0 .. MaxVersion /\ 0 \in 0 .. MaxFailures
  BY Lengths, BoundsAssumption
<1>3. /\ resumes \in BOOLEAN /\ truncated \in BOOLEAN /\ done \in BOOLEAN
      /\ failed \in BOOLEAN /\ overlapped \in BOOLEAN
  BY Zenon DEF Init
<1>4. /\ version \in 0 .. MaxVersion /\ saved \in 1 .. Len(Program) + 1
      /\ pc \in [Nodes -> PC] /\ ver \in [Nodes -> 0 .. MaxVersion]
      /\ step \in [Nodes -> 1 .. Len(Program) + 1]
      /\ call \in [Nodes -> Nat \ {0}] /\ index \in [Nodes -> Nat]
      /\ failures \in 0 .. MaxFailures
  BY <1>2 DEF Init, PC
<1>5. /\ log = {} /\ executed \subseteq Calls /\ recorded \subseteq Calls
      /\ missed \subseteq Calls /\ misplaced \subseteq Calls
      /\ oversized \subseteq Oversized
  BY DEF Init
<1> QED
  BY <1>1, <1>3, <1>4, <1>5 DEF TypeOK

\* Every step keeps the types.
LEMMA StepType ==
    TypeOK /\ RecordsCall /\ [Next]_vars => TypeOK' /\ RecordsCall'
<1> SUFFICES ASSUME TypeOK, RecordsCall, [Next]_vars
             PROVE  TypeOK' /\ RecordsCall'
  OBVIOUS
<1>1. CASE UNCHANGED vars
  BY <1>1 DEF vars, TypeOK, RecordsCall, Current
<1>2. ASSUME NEW n \in Nodes, Step(n) PROVE TypeOK' /\ RecordsCall'
  <2>0. /\ pc \in [Nodes -> PC] /\ step[n] \in Nat /\ call[n] \in Nat
        /\ index[n] \in Nat /\ index \in [Nodes -> Nat]
        /\ failures \in 0 .. MaxFailures
    BY Lengths DEF TypeOK
  <2>f. ASSUME Fault PROVE failures' \in 0 .. MaxFailures
    BY <2>0, <2>f, BoundsAssumption DEF Fault
  <2>1. CASE Start(n)
    <3>1. overlapped' \in BOOLEAN
      BY <2>1, Zenon DEF Start
    <3>2. RecordsCall'
      BY <2>0, <2>1 DEF Start, RecordsCall, Current, GoTo
    <3>3. /\ pc' \in [Nodes -> PC] /\ ver' \in [Nodes -> 0 .. MaxVersion]
          /\ step' \in [Nodes -> 1 .. Len(Program) + 1]
          /\ call' \in [Nodes -> Nat \ {0}] /\ index' \in [Nodes -> Nat]
      BY <2>1, Lengths DEF Start, TypeOK, PC, GoTo
    <3> QED
      BY <2>1, <3>1, <3>2, <3>3
      DEF Start, guest, storeVars, calls, TypeOK
  <2>2. CASE Replay(n)
    <3>1. Current(n) \in Calls
      BY <2>2, AtCallIsCall DEF Replay
    <3>2. RecordsCall'
      BY <2>2, DeliverMoves DEF Replay, RecordsCall, Current
    <3>3. /\ pc' \in [Nodes -> PC] /\ call' \in [Nodes -> Nat \ {0}]
          /\ done' = done /\ failed' \in BOOLEAN /\ overlapped' = overlapped
      BY <2>2, DeliverMoves DEF Replay
    <3>4. index' \in [Nodes -> Nat] /\ misplaced' \subseteq Calls
      BY <2>0, <2>2, <3>1 DEF Replay, TypeOK
    <3> QED
      BY <2>2, <3>2, <3>3, <3>4 DEF Replay, guest, storeVars, TypeOK
  <2>3. CASE Search(n)
    <3>1. Current(n) \in Calls
      BY <2>3, AtCallIsCall DEF Search
    <3>2. RecordsCall'
      BY <2>0, <2>3, <3>1 DEF Search, GoTo, RecordsCall, Current
    <3>3. /\ pc' \in [Nodes -> PC] /\ index' \in [Nodes -> Nat]
          /\ missed' \subseteq Calls
      BY <2>0, <2>3, <3>1 DEF Search, GoTo, PC, TypeOK
    <3> QED
      BY <2>3, <3>2, <3>3 DEF Search, guest, storeVars, ends, TypeOK
  <2>4. CASE SearchFails(n)
    <3>1. Current(n) \in Calls
      BY <2>4, AtCallIsCall DEF SearchFails
    <3>2. RecordsCall'
      BY <2>0, <2>4, <3>1 DEF SearchFails, GoTo, RecordsCall, Current
    <3>3. /\ pc' \in [Nodes -> PC] /\ index' \in [Nodes -> Nat]
          /\ failures' \in 0 .. MaxFailures
      BY <2>0, <2>f, <2>4 DEF SearchFails, GoTo, PC
    <3> QED
      BY <2>4, <3>2, <3>3 DEF SearchFails, guest, storeVars, calls, ends, TypeOK
  <2>5. CASE Perform(n)
    <3>1. Current(n) \in Calls
      BY <2>5 DEF Perform, RecordsCall
    <3>2. RecordsCall'
      BY <2>0, <2>5, <3>1 DEF Perform, GoTo, RecordsCall, Current
    <3>3. pc' \in [Nodes -> PC] /\ executed' \subseteq Calls
      BY <2>0, <2>5, <3>1 DEF Perform, GoTo, PC, TypeOK
    <3> QED
      BY <2>5, <3>2, <3>3 DEF Perform, guest, storeVars, ends, TypeOK
  <2>6. CASE PerformFails(n)
    <3>1. RecordsCall'
      BY <2>6, GiveUpMoves DEF PerformFails, RecordsCall, Current
    <3>2. /\ pc' \in [Nodes -> PC] /\ call' = call /\ done' = done
          /\ failed' \in BOOLEAN /\ overlapped' = overlapped
          /\ failures' \in 0 .. MaxFailures
      BY <2>f, <2>6, GiveUpMoves DEF PerformFails
    <3> QED
      BY <2>6, <3>1, <3>2 DEF PerformFails, guest, storeVars, calls, TypeOK
  <2>7. CASE Record(n)
    <3>1. Current(n) \in Calls
      BY <2>7 DEF Record, RecordsCall
    <3>2. \A e \in log' : e.index \in Nat /\ e.response \in Calls
      BY <2>0, <2>7, <3>1 DEF Record, SaveOplog, TypeOK
    <3>3. RecordsCall'
      BY <2>7, DeliverMoves DEF Record, RecordsCall, Current
    <3>4. /\ pc' \in [Nodes -> PC] /\ call' \in [Nodes -> Nat \ {0}]
          /\ done' = done /\ failed' \in BOOLEAN /\ overlapped' = overlapped
      BY <2>7, DeliverMoves DEF Record
    <3>5. recorded' \subseteq Calls
      BY <2>7, <3>1 DEF Record, TypeOK
    <3> QED
      BY <2>7, <3>2, <3>3, <3>4, <3>5 DEF Record, guest, TypeOK
  <2>8. CASE RecordFails(n)
    <3>1. /\ pc' \in [Nodes -> PC] /\ call' \in [Nodes -> Nat \ {0}]
          /\ done' = done /\ failed' \in BOOLEAN /\ overlapped' = overlapped
          /\ pc'[n] \in {"guest", "idle"}
          /\ \A m \in Nodes : m # n => call'[m] = call[m] /\ pc'[m] = pc[m]
      <4>1. CASE Deliver(n)
        BY <4>1, DeliverMoves
      <4>2. CASE GiveUp(n)
        BY <4>2, GiveUpMoves DEF TypeOK
      <4> QED
        BY <2>8, <4>1, <4>2 DEF RecordFails
    <3>2. RecordsCall'
      BY <2>8, <3>1 DEF RecordFails, RecordsCall, Current
    <3>3. failures' \in 0 .. MaxFailures
      BY <2>f, <2>8 DEF RecordFails
    <3> QED
      BY <2>8, <3>1, <3>2, <3>3 DEF RecordFails, guest, storeVars, calls, TypeOK
  <2>9. CASE CompareAndSwap(n)
    <3>1. RecordsCall'
      BY <2>0, <2>9 DEF CompareAndSwap, GoTo, RecordsCall, Current
    <3>2. step[n] + 1 \in 1 .. Len(Program) + 1
      BY <2>0, <2>9, Lengths DEF CompareAndSwap, AtCheckpoint
    <3>3. ver[n] + 1 \in 0 .. MaxVersion
      BY <2>9, BoundsAssumption DEF CompareAndSwap, TypeOK
    <3>4. /\ version' \in 0 .. MaxVersion /\ ver' \in [Nodes -> 0 .. MaxVersion]
          /\ step' \in [Nodes -> 1 .. Len(Program) + 1]
          /\ call' \in [Nodes -> Nat \ {0}] /\ pc' \in [Nodes -> PC]
      BY <2>9, <3>2, <3>3 DEF CompareAndSwap, NextVersion, GoTo, TypeOK, PC
    <3> QED
      BY <2>9, <3>1, <3>4 DEF CompareAndSwap, guest, calls, ends, TypeOK
  <2>10. CASE Fenced(n)
    BY <2>10
    DEF Fenced, guest, storeVars, calls, ends, TypeOK, RecordsCall, PC, Current,
        GoTo
  <2>11. CASE SaveMemory(n)
    BY <2>11
    DEF SaveMemory, guest, calls, ends, TypeOK, RecordsCall, PC, Current, GoTo
  <2>12. CASE TruncateLog(n)
    <3>1. truncated' \in BOOLEAN
      BY <2>12, Zenon DEF TruncateLog
    <3>2. log' \subseteq log
      BY <2>12 DEF TruncateLog, TruncateOplog
    <3>3. pc' \in [Nodes -> PC] /\ RecordsCall'
      BY <2>0, <2>12 DEF TruncateLog, RecordsCall, PC, Current, GoTo
    <3> QED
      BY <2>12, <3>1, <3>2, <3>3 DEF TruncateLog, guest, ends, TypeOK
  <2>13. CASE TruncateLogFails(n)
    BY <2>13
    DEF TruncateLogFails, guest, storeVars, calls, ends, TypeOK, RecordsCall, PC,
        Current, GoTo
  <2>14. CASE Finish(n)
    <3>1. done' \in BOOLEAN
      BY <2>14, Zenon DEF Finish
    <3>2. pc' \in [Nodes -> PC] /\ RecordsCall'
      BY <2>0, <2>14 DEF Finish, RecordsCall, PC, Current, GoTo
    <3> QED
      BY <2>14, <3>1, <3>2 DEF Finish, guest, storeVars, calls, TypeOK
  <2>15. CASE Crash(n)
    <3>1. failures' \in 0 .. MaxFailures
      BY <2>f, <2>15 DEF Crash
    <3>2. pc' \in [Nodes -> PC] /\ RecordsCall'
      BY <2>0, <2>15 DEF Crash, RecordsCall, PC, Current, GoTo
    <3> QED
      BY <2>15, <3>1, <3>2 DEF Crash, guest, storeVars, calls, ends, TypeOK
  <2> QED
    BY <1>2, <2>1, <2>2, <2>3, <2>4, <2>5, <2>6, <2>7, <2>8, <2>9, <2>10,
       <2>11, <2>12, <2>13, <2>14, <2>15 DEF Step, Run
<1> QED
  BY <1>1, <1>2 DEF Next

\* Every reachable state is well typed.
THEOREM TypeCorrect == Spec => []TypeOK
BY InitType, StepType, PTL DEF Spec

(***************************************************************************)
(* What replay guarantees.  A guest that resumes is answered by name: what *)
(* lies behind it has been called under its API name, by some call of the  *)
(* workflow.  A guest that starts over is answered with responses to its   *)
(* own calls, which is RightAnswers and shown further down.                *)
(***************************************************************************)
RightAnswers ==
    ~resumes =>
        \A n \in Nodes :
            AtCall(n) => \A e \in Matches(n) : e.response = Current(n)

\* What is known of a call c behind a guest; r says whether the guest resumes
\* and x which calls were performed.
Covered(c, r, x) == IF r THEN \E d \in x : Api(d) = Api(c) ELSE c \in x

\* An entry holds the response of a call to its API that was performed.
LogSound ==
    \A e \in log : e.api = Api(e.response) /\ e.response \in executed

\* The call c lies before the position (s, k) of a guest.
Before(c, s, k) == c[1] < s \/ (c[1] = s /\ c[2] < k)

\* Everything before a running guest, and everything before the position in
\* the stored memory, is covered.
Positions ==
    \A n \in Nodes : pc[n] # "idle" =>
        \A c \in Calls :
            Before(c, step[n], call[n]) => Covered(c, resumes, executed)

Recording == \A n \in Nodes : pc[n] = "record" => Current(n) \in executed

SavedSound == \A c \in Calls : c[1] < saved => Covered(c, resumes, executed)

DoneSound == done => \A c \in Calls : Covered(c, resumes, executed)

ReplayInv ==
    /\ TypeOK /\ RecordsCall
    /\ LogSound /\ Positions /\ Recording /\ SavedSound
    /\ RerunMatches /\ DoneSound

LEMMA InitReplay == Init => ReplayInv
<1> SUFFICES ASSUME Init PROVE ReplayInv
  OBVIOUS
<1>1. TypeOK /\ RecordsCall
  BY InitType
<1>2. SavedSound
  BY CallShape DEF Init, SavedSound
<1>3. LogSound /\ Positions /\ Recording
  BY DEF Init, LogSound, Positions, Recording
<1>4. RerunMatches /\ DoneSound
  BY Zenon DEF Init, RerunMatches, ResponseMatchesCall, DoneSound
<1> QED
  BY <1>1, <1>2, <1>3, <1>4 DEF ReplayInv

\* A call that was performed is covered, and stays so.
LEMMA CoveredBy ==
    ASSUME NEW c, NEW r \in BOOLEAN, NEW x, NEW y, x \subseteq y
    PROVE  /\ c \in x => Covered(c, r, x)
           /\ Covered(c, r, x) => Covered(c, r, y)
BY DEF Covered

\* Past the call (s, k) lie the calls before it and the call itself.
LEMMA BeforeNext ==
    ASSUME NEW c \in Calls, NEW s \in Nat, NEW k \in Nat, Before(c, s, k + 1)
    PROVE  Before(c, s, k) \/ c = <<s, k>>
BY CallShape DEF Before

\* Nothing of a step lies before its first call.
LEMMA BeforeFirst ==
    ASSUME NEW c \in Calls, NEW s \in Nat
    PROVE  Before(c, s, 1) <=> c[1] < s
BY CallShape DEF Before

\* A guest that takes the response of a covered call stays behind what is
\* covered.
LEMMA DeliverPositions ==
    ASSUME ReplayInv, NEW n \in Nodes, Deliver(n), pc[n] # "idle",
           step' = step, executed' = executed, resumes' = resumes,
           Covered(Current(n), resumes, executed)
    PROVE  Positions' /\ Recording'
<1>1. TypeOK
  BY DEF ReplayInv
<1>2. ASSUME NEW m \in Nodes, m # n, pc'[m] # "idle", NEW c \in Calls,
             Before(c, step'[m], call'[m])
      PROVE  Covered(c, resumes', executed')
  <2>1. call'[m] = call[m] /\ pc'[m] = pc[m]
    BY <1>1, <1>2, DeliverMoves
  <2> QED
    BY <1>2, <2>1 DEF ReplayInv, Positions
<1>3. ASSUME pc'[n] # "idle", NEW c \in Calls, Before(c, step'[n], call'[n])
      PROVE  Covered(c, resumes', executed')
  <2>1. call'[n] = call[n] + 1
    BY <1>1, <1>3, DeliverMoves
  <2>2. step[n] \in Nat /\ call[n] \in Nat
    BY <1>1, Lengths DEF TypeOK
  <2>3. Before(c, step[n], call[n]) \/ c = Current(n)
    BY <1>3, <2>1, <2>2, BeforeNext DEF Current
  <2> QED
    BY <2>3 DEF ReplayInv, Positions
<1>4. Positions'
  BY <1>2, <1>3 DEF Positions
<1>5. Recording'
  BY <1>1, DeliverMoves DEF ReplayInv, Recording, Current
<1> QED
  BY <1>4, <1>5

\* Every step keeps the invariant.
LEMMA StepReplay ==
    ASSUME RightAnswers, ReplayInv, [Next]_vars
    PROVE  ReplayInv'
<1>0. TypeOK /\ TypeOK' /\ RecordsCall /\ RecordsCall'
  BY StepType DEF ReplayInv
<1>1. CASE UNCHANGED vars
  BY <1>0, <1>1
  DEF vars, ReplayInv, LogSound, Positions, Recording, SavedSound,
      RerunMatches, ResponseMatchesCall, DoneSound, Current
<1>2. ASSUME NEW n \in Nodes, Step(n) PROVE ReplayInv'
  <2>0. /\ LogSound /\ Positions /\ Recording /\ SavedSound
        /\ RerunMatches /\ DoneSound
        /\ executed \subseteq Calls /\ pc \in [Nodes -> PC]
        /\ \A m \in Nodes : step[m] \in Nat /\ call[m] \in Nat
        /\ saved \in Nat /\ resumes \in BOOLEAN
    <3>1. /\ LogSound /\ Positions /\ Recording /\ SavedSound
          /\ RerunMatches /\ DoneSound
      BY DEF ReplayInv
    <3>2. executed \subseteq Calls /\ pc \in [Nodes -> PC] /\ resumes \in BOOLEAN
      BY <1>0 DEF TypeOK
    <3>3. saved \in Nat
      <4>1. saved \in 1 .. Len(Program) + 1
        BY <1>0 DEF TypeOK
      <4> QED
        BY <4>1, Lengths
    <3>4. \A m \in Nodes : step[m] \in Nat
      <4>1. step \in [Nodes -> 1 .. Len(Program) + 1]
        BY <1>0 DEF TypeOK
      <4> QED
        BY <4>1, Lengths
    <3>5. \A m \in Nodes : call[m] \in Nat
      BY <1>0 DEF TypeOK
    <3> QED
      BY <3>1, <3>2, <3>3, <3>4, <3>5
  <2>1. CASE Start(n)
    <3>1. ASSUME NEW c \in Calls, c[1] < (IF resumes THEN saved ELSE 1)
          PROVE  Covered(c, resumes, executed)
      BY <2>0, <3>1, CallShape DEF SavedSound
    <3>2. /\ step'[n] \in Nat /\ step'[n] = (IF resumes THEN saved ELSE 1)
          /\ call'[n] = 1
      BY <1>0, <2>0, <2>1 DEF Start, TypeOK
    <3>3. \A m \in Nodes : m # n =>
            pc'[m] = pc[m] /\ step'[m] = step[m] /\ call'[m] = call[m]
      BY <1>0, <2>1 DEF Start, GoTo, TypeOK
    <3>4. UNCHANGED <<resumes, saved, log, executed, misplaced, done>>
      BY <2>1 DEF Start, guest, storeVars, calls
    <3>5. Positions'
      BY <2>0, <3>1, <3>2, <3>3, <3>4, BeforeFirst DEF Positions
    <3>6. Recording'
      BY <2>0, <2>1, <3>3, <3>4 DEF Start, GoTo, Recording, Current
    <3> QED
      BY <1>0, <2>0, <3>4, <3>5, <3>6
      DEF ReplayInv, LogSound, SavedSound, RerunMatches, ResponseMatchesCall,
          DoneSound
  <2>2. CASE Replay(n)
    <3>1. Current(n) \in Calls /\ AtCall(n)
      BY <1>0, <2>2, AtCallIsCall DEF Replay
    <3>2. PICK e \in Matches(n) :
            misplaced' = IF e.response = Current(n) THEN misplaced
                         ELSE misplaced \cup {Current(n)}
      BY <2>2 DEF Replay
    <3>3. e \in log /\ e.api = Api(Current(n))
      BY <3>2 DEF Matches
    <3>4. e.response \in executed /\ Api(e.response) = Api(Current(n))
      BY <2>0, <3>3 DEF LogSound
    <3>5. ~resumes => e.response = Current(n)
      BY <3>1, <3>2 DEF RightAnswers
    <3>6. Covered(Current(n), resumes, executed)
      BY <2>0, <3>4, <3>5 DEF Covered
    <3>7. /\ Deliver(n) /\ pc[n] # "idle"
          /\ UNCHANGED <<resumes, saved, log, step, executed>>
      BY <2>2 DEF Replay, AtCall, guest, storeVars
    <3>8. done' = done
      BY <1>0, <3>7, DeliverMoves
    <3>9. Positions' /\ Recording'
      BY <3>6, <3>7, DeliverPositions
    <3>10. RerunMatches'
      BY <2>0, <3>2, <3>5, <3>7 DEF RerunMatches, ResponseMatchesCall
    <3> QED
      BY <1>0, <2>0, <3>7, <3>8, <3>9, <3>10
      DEF ReplayInv, LogSound, SavedSound, DoneSound
  <2>3. CASE Search(n) \/ SearchFails(n)
    <3>1. /\ pc' = [pc EXCEPT ![n] = "perform"] /\ pc[n] = "guest"
          /\ UNCHANGED <<resumes, saved, log, step, call, executed, misplaced,
                         done>>
      BY <2>3
      DEF Search, SearchFails, AtCall, GoTo, guest, storeVars, calls, ends
    <3>2. Positions' /\ Recording'
      BY <2>0, <3>1 DEF Positions, Recording, Current
    <3> QED
      BY <1>0, <2>0, <3>1, <3>2
      DEF ReplayInv, LogSound, SavedSound, RerunMatches, ResponseMatchesCall,
          DoneSound
  <2>4. CASE Perform(n)
    <3>1. /\ pc' = [pc EXCEPT ![n] = "record"] /\ pc[n] = "perform"
          /\ executed' = executed \cup {Current(n)}
          /\ UNCHANGED <<resumes, saved, log, step, call, misplaced, done>>
      BY <2>4 DEF Perform, GoTo, guest, storeVars, ends
    <3>2. \A c : Covered(c, resumes, executed) => Covered(c, resumes', executed')
      BY <2>0, <3>1, CoveredBy
    <3>3. Positions'
      BY <2>0, <3>1, <3>2 DEF Positions
    <3>4. Recording'
      BY <2>0, <3>1 DEF Recording, Current
    <3>5. LogSound' /\ SavedSound' /\ DoneSound'
      BY <2>0, <3>1, <3>2 DEF LogSound, SavedSound, DoneSound
    <3> QED
      BY <1>0, <2>0, <3>1, <3>3, <3>4, <3>5
      DEF ReplayInv, RerunMatches, ResponseMatchesCall
  <2>5. CASE Record(n)
    <3>1. Current(n) \in executed /\ Deliver(n) /\ pc[n] # "idle"
      BY <2>0, <2>5 DEF Record, Recording
    <3>2. UNCHANGED <<resumes, saved, step, executed, misplaced>>
      BY <2>5 DEF Record, guest
    <3>3. LogSound'
      BY <2>0, <2>5, <3>1 DEF Record, SaveOplog, LogSound
    <3>4. Covered(Current(n), resumes, executed)
      BY <2>0, <3>1, CoveredBy
    <3>5. Positions' /\ Recording' /\ done' = done
      BY <1>0, <3>1, <3>2, <3>4, DeliverPositions, DeliverMoves
    <3> QED
      BY <1>0, <2>0, <3>2, <3>3, <3>5
      DEF ReplayInv, SavedSound, RerunMatches, ResponseMatchesCall, DoneSound
  <2>6. CASE RecordFails(n) /\ Deliver(n)
    <3>1. Current(n) \in executed /\ pc[n] # "idle"
      BY <2>0, <2>6 DEF RecordFails, Recording
    <3>2. UNCHANGED <<resumes, saved, log, step, executed, misplaced>>
      BY <2>6 DEF RecordFails, guest, storeVars, calls
    <3>3. Covered(Current(n), resumes, executed)
      BY <2>0, <3>1, CoveredBy
    <3>4. Positions' /\ Recording' /\ done' = done
      BY <1>0, <2>6, <3>1, <3>2, <3>3, DeliverPositions, DeliverMoves
    <3> QED
      BY <1>0, <2>0, <3>2, <3>4
      DEF ReplayInv, LogSound, SavedSound, RerunMatches, ResponseMatchesCall,
          DoneSound
  <2>7. CASE \/ PerformFails(n) \/ Fenced(n) \/ Crash(n)
             \/ RecordFails(n) /\ GiveUp(n)
    <3>1. /\ pc' = [pc EXCEPT ![n] = "idle"]
          /\ UNCHANGED <<resumes, saved, log, step, call, executed, misplaced,
                         done>>
      BY <2>7
      DEF PerformFails, Fenced, Crash, RecordFails, GiveUp, GoTo, guest,
          storeVars, calls, ends
    <3>2. Positions' /\ Recording'
      BY <2>0, <3>1 DEF Positions, Recording, Current
    <3> QED
      BY <1>0, <2>0, <3>1, <3>2
      DEF ReplayInv, LogSound, SavedSound, RerunMatches, ResponseMatchesCall,
          DoneSound
  <2>8. CASE CompareAndSwap(n)
    <3>1. /\ step[n] \in 1 .. Len(Program) /\ call[n] > Len(Program[step[n]])
          /\ Len(Program[step[n]]) \in Nat
      BY <1>0, <2>8, Lengths DEF CompareAndSwap, AtCheckpoint, TypeOK
    <3>2. ASSUME NEW c \in Calls, c[1] < step[n] + 1
          PROVE  Covered(c, resumes, executed)
      <4>1. /\ c = <<c[1], c[2]>> /\ c[1] \in Nat /\ c[2] \in Nat
            /\ c[2] \in 1 .. Len(Program[c[1]])
        BY CallShape, CallPairs
      <4>2. Before(c, step[n], call[n])
        BY <2>0, <3>1, <3>2, <4>1 DEF Before
      <4> QED
        BY <2>0, <2>8, <4>2 DEF CompareAndSwap, AtCheckpoint, Positions
    <3>3. /\ step'[n] = step[n] + 1 /\ call'[n] = 1 /\ pc'[n] = "save"
          /\ \A m \in Nodes : m # n =>
               pc'[m] = pc[m] /\ step'[m] = step[m] /\ call'[m] = call[m]
      BY <1>0, <2>8 DEF CompareAndSwap, GoTo, TypeOK
    <3>4. UNCHANGED <<resumes, saved, log, executed, misplaced, done>>
      BY <2>8 DEF CompareAndSwap, guest, calls, ends
    <3>5. Positions'
      BY <2>0, <3>2, <3>3, <3>4, BeforeFirst DEF Positions
    <3>6. Recording'
      BY <2>0, <3>3, <3>4 DEF Recording, Current
    <3> QED
      BY <1>0, <2>0, <3>4, <3>5, <3>6
      DEF ReplayInv, LogSound, SavedSound, RerunMatches, ResponseMatchesCall,
          DoneSound
  <2>9. CASE SaveMemory(n)
    <3>1. /\ saved' = step[n] /\ pc[n] # "idle"
          /\ UNCHANGED <<resumes, log, step, call, executed, misplaced, done>>
      BY <2>9 DEF SaveMemory, guest, calls, ends
    <3>2. ASSUME NEW c \in Calls, c[1] < step[n]
          PROVE  Covered(c, resumes, executed)
      BY <2>0, <3>1, <3>2 DEF Positions, Before
    <3>3. SavedSound'
      BY <3>1, <3>2 DEF SavedSound
    <3>4. Positions' /\ Recording'
      BY <2>0, <2>9, <3>1 DEF SaveMemory, GoTo, Positions, Recording, Current
    <3> QED
      BY <1>0, <2>0, <3>1, <3>3, <3>4
      DEF ReplayInv, LogSound, RerunMatches, ResponseMatchesCall, DoneSound
  <2>10. CASE TruncateLog(n) \/ TruncateLogFails(n)
    <3>1. /\ pc' = [pc EXCEPT ![n] = "guest"] /\ pc[n] # "idle"
          /\ log' \subseteq log
          /\ UNCHANGED <<resumes, saved, step, call, executed, misplaced, done>>
      BY <2>10
      DEF TruncateLog, TruncateLogFails, TruncateOplog, GoTo, guest, storeVars,
          calls, ends
    <3>2. Positions' /\ Recording'
      BY <2>0, <3>1 DEF Positions, Recording, Current
    <3> QED
      BY <1>0, <2>0, <3>1, <3>2
      DEF ReplayInv, LogSound, SavedSound, RerunMatches, ResponseMatchesCall,
          DoneSound
  <2>11. CASE Finish(n)
    <3>1. /\ pc[n] # "idle" /\ step[n] > Len(Program)
          /\ UNCHANGED <<resumes, saved, log, step, call, executed, misplaced>>
      BY <2>11 DEF Finish, guest, storeVars, calls
    <3>2. DoneSound'
      <4>1. ASSUME NEW c \in Calls PROVE Covered(c, resumes, executed)
        <5>1. c[1] \in 1 .. Len(Program)
          BY CallShape, CallPairs
        <5>2. Before(c, step[n], call[n])
          BY <2>0, <3>1, <5>1, Lengths DEF Before
        <5> QED
          BY <2>0, <3>1, <5>2 DEF Positions
      <4> QED
        BY <3>1, <4>1 DEF DoneSound
    <3>3. Positions' /\ Recording'
      BY <2>0, <2>11, <3>1 DEF Finish, GoTo, Positions, Recording, Current
    <3> QED
      BY <1>0, <2>0, <3>1, <3>2, <3>3
      DEF ReplayInv, LogSound, SavedSound, RerunMatches, ResponseMatchesCall
  <2> QED
    BY <1>2, <2>1, <2>2, <2>3, <2>4, <2>5, <2>6, <2>7, <2>8, <2>9, <2>10,
       <2>11 DEF Step, Run, RecordFails
<1> QED
  BY <1>1, <1>2 DEF Next

(***************************************************************************)
(* A guest that starts over on each execution.  Session.callIndex, which   *)
(* starts from 0 with it, is then the number of calls before the guest's   *)
(* position: the same for a call in every session, and different for       *)
(* different calls.                                                        *)
(***************************************************************************)
CallsBefore(s, k) == {c \in Calls : Before(c, s, k)}

\* The index of a call.
Rank(c) == Cardinality(CallsBefore(c[1], c[2])) + 1

\* The workflow has finitely many calls.
LEMMA CallsFinite == IsFiniteSet(Calls)
<1> DEFINE steps == 1 .. Len(Program)
           ofStep == [s \in steps |-> {s} \X (1 .. Len(Program[s]))]
           parts == {{s} \X (1 .. Len(Program[s])) : s \in steps}
<1>1. IsFiniteSet(steps)
  BY FS_Interval, Lengths
<1>2. ofStep \in Surjection(steps, parts)
  BY DEF Surjection
<1>3. IsFiniteSet(parts)
  BY <1>1, <1>2, FS_Surjection
<1>4. ASSUME NEW s \in steps PROVE IsFiniteSet({s} \X (1 .. Len(Program[s])))
  <2>1. IsFiniteSet({s})
    BY FS_Singleton
  <2>2. IsFiniteSet(1 .. Len(Program[s]))
    <3>1. 1 \in Int /\ Len(Program[s]) \in Int
      BY Lengths
    <3> QED
      BY <3>1, FS_Interval
  <2> QED
    BY <2>1, <2>2, FS_Product
<1>5. \A part \in parts : IsFiniteSet(part)
  BY <1>4
<1>6. IsFiniteSet(UNION parts)
  BY <1>3, <1>5, FS_UNION
<1> QED
  BY <1>6 DEF Calls

LEMMA CallsBeforeFinite ==
    ASSUME NEW s, NEW k
    PROVE  /\ IsFiniteSet(CallsBefore(s, k))
           /\ Cardinality(CallsBefore(s, k)) \in Nat
<1>1. CallsBefore(s, k) \in SUBSET Calls
  BY DEF CallsBefore
<1> QED
  BY <1>1, CallsFinite, FS_Subset, FS_CardinalityType

\* Nothing lies before the first call.
LEMMA RankFirst == Cardinality(CallsBefore(1, 1)) = 0
<1>1. CallsBefore(1, 1) = {}
  BY CallShape DEF CallsBefore, Before
<1> QED
  BY <1>1, FS_EmptySet

\* Past a call lies one call more.
LEMMA RankNext ==
    ASSUME NEW s \in Nat, NEW k \in Nat, <<s, k>> \in Calls
    PROVE  Cardinality(CallsBefore(s, k + 1)) = Cardinality(CallsBefore(s, k)) + 1
<1>1. <<s, k>> \notin CallsBefore(s, k)
  BY DEF CallsBefore, Before
<1>2. CallsBefore(s, k + 1) = CallsBefore(s, k) \cup {<<s, k>>}
  <2>1. ASSUME NEW c \in CallsBefore(s, k + 1)
        PROVE  c \in CallsBefore(s, k) \cup {<<s, k>>}
    BY BeforeNext DEF CallsBefore
  <2>2. ASSUME NEW c \in CallsBefore(s, k) \cup {<<s, k>>}
        PROVE  c \in CallsBefore(s, k + 1)
    BY CallShape DEF CallsBefore, Before
  <2> QED
    BY <2>1, <2>2
<1> QED
  BY <1>1, <1>2, CallsBeforeFinite, FS_AddElement

\* From behind the last call of a step no call lies before the next step.
LEMMA RankStep ==
    ASSUME NEW s \in 1 .. Len(Program), NEW k \in Nat, k > Len(Program[s])
    PROVE  CallsBefore(s + 1, 1) = CallsBefore(s, k)
<1>1. Len(Program[s]) \in Nat /\ s \in Nat
  BY Lengths
<1>2. ASSUME NEW c \in Calls
      PROVE  Before(c, s + 1, 1) <=> Before(c, s, k)
  <2>1. /\ c = <<c[1], c[2]>> /\ c[1] \in Nat \ {0} /\ c[2] \in Nat \ {0}
        /\ c[2] \in 1 .. Len(Program[c[1]])
    BY CallShape, CallPairs
  <2> QED
    BY <1>1, <2>1 DEF Before
<1> QED
  BY <1>2 DEF CallsBefore

\* Different calls have different indices.
LEMMA RankIdentifies ==
    ASSUME NEW c \in Calls, NEW d \in Calls, Rank(c) = Rank(d)
    PROVE  c = d
<1>1. ASSUME NEW a \in Calls, NEW b \in Calls, Before(a, b[1], b[2])
      PROVE  Rank(a) # Rank(b)
  <2>1. CallsBefore(a[1], a[2]) \in SUBSET CallsBefore(b[1], b[2])
    BY <1>1, CallShape DEF CallsBefore, Before
  <2>2. a \in CallsBefore(b[1], b[2]) /\ a \notin CallsBefore(a[1], a[2])
    BY <1>1, CallShape DEF CallsBefore, Before
  <2>3. Cardinality(CallsBefore(a[1], a[2])) # Cardinality(CallsBefore(b[1], b[2]))
    BY <2>1, <2>2, CallsBeforeFinite, FS_Subset
  <2> QED
    BY <2>3, CallsBeforeFinite DEF Rank
<1>2. c = d \/ Before(c, d[1], d[2]) \/ Before(d, c[1], c[2])
  <2>1. /\ c = <<c[1], c[2]>> /\ c[1] \in Nat /\ c[2] \in Nat
        /\ d = <<d[1], d[2]>> /\ d[1] \in Nat /\ d[2] \in Nat
    BY CallShape
  <2>2. (c[1] = d[1] /\ c[2] = d[2]) \/ Before(c, d[1], d[2]) \/ Before(d, c[1], c[2])
    BY <2>1 DEF Before
  <2> QED
    BY <2>1, <2>2
<1> QED
  BY <1>1, <1>2

(***************************************************************************)
(* The invariant of such a guest: the index is the rank of its position,   *)
(* entries carry the rank of their call, and until the log is truncated it *)
(* has an entry of every call that was recorded.                           *)
(***************************************************************************)
IndexIsRank ==
    ~resumes =>
        \A n \in Nodes : pc[n] # "idle" =>
            index[n] = Cardinality(CallsBefore(step[n], call[n]))
                         + (IF pc[n] \in {"perform", "record"} THEN 1 ELSE 0)

LogRanked ==
    ~resumes =>
        \A e \in log : e.api = Api(e.response) /\ e.index = Rank(e.response)

RecordedInLog == ~truncated => \A c \in recorded : \E e \in log : e.response = c

RerunInv == TypeOK /\ RecordsCall /\ IndexIsRank /\ LogRanked /\ RecordedInLog

LEMMA InitRerun == Init => RerunInv
<1> SUFFICES ASSUME Init PROVE RerunInv
  OBVIOUS
<1>1. TypeOK /\ RecordsCall
  BY InitType
<1> QED
  BY <1>1 DEF Init, RerunInv, IndexIsRank, LogRanked, RecordedInLog

\* The guest asks the log for the rank of its call.
LEMMA AsksForRank ==
    ASSUME ~resumes, RerunInv, NEW n \in Nodes, AtCall(n)
    PROVE  Current(n) \in Calls /\ Rank(Current(n)) = index[n] + 1
<1>1. Current(n) \in Calls
  BY AtCallIsCall DEF RerunInv
<1>2. index[n] = Cardinality(CallsBefore(step[n], call[n])) + 0
  BY DEF RerunInv, IndexIsRank, AtCall
<1>3. Cardinality(CallsBefore(step[n], call[n])) \in Nat
  BY CallsBeforeFinite
<1> QED
  BY <1>1, <1>2, <1>3 DEF Rank, Current

\* So it is answered with a response to that call.
LEMMA RanksIdentify ==
    ASSUME RerunInv
    PROVE  RightAnswers
<1> SUFFICES ASSUME ~resumes, NEW n \in Nodes, AtCall(n), NEW e \in Matches(n)
             PROVE  e.response = Current(n)
  BY DEF RightAnswers
<1>1. Current(n) \in Calls /\ Rank(Current(n)) = index[n] + 1
  BY AsksForRank
<1>2. e \in log /\ e.index = index[n] + 1 /\ e.response \in Calls
  BY DEF Matches, RerunInv, TypeOK
<1>3. Rank(e.response) = Rank(Current(n))
  BY <1>1, <1>2 DEF RerunInv, LogRanked
<1> QED
  BY <1>1, <1>2, <1>3, RankIdentifies

\* Taking the response of a call keeps index and position together.
LEMMA DeliverRank ==
    ASSUME TypeOK, NEW n \in Nodes, Deliver(n), Current(n) \in Calls,
           pc'[n] # "idle"
    PROVE  /\ Cardinality(CallsBefore(step[n], call'[n]))
                = Cardinality(CallsBefore(step[n], call[n])) + 1
           /\ pc'[n] = "guest"
<1>1. call'[n] = call[n] + 1 /\ pc'[n] = "guest"
  BY DeliverMoves
<1>2. step[n] \in Nat /\ call[n] \in Nat
  BY Lengths DEF TypeOK
<1> QED
  BY <1>1, <1>2, RankNext DEF Current

\* A step is the step of one session, and of one kind of guest.
LEMMA OthersStay ==
    ASSUME TypeOK, NEW n \in Nodes, Step(n)
    PROVE  /\ \A m \in Nodes : m # n =>
                /\ pc'[m] = pc[m] /\ step'[m] = step[m]
                /\ call'[m] = call[m] /\ index'[m] = index[m]
           /\ resumes' = resumes /\ oversized' = oversized
<1>0. /\ pc \in [Nodes -> PC] /\ index \in [Nodes -> Nat]
      /\ step \in [Nodes -> 1 .. Len(Program) + 1]
      /\ call \in [Nodes -> Nat \ {0}]
  BY DEF TypeOK
<1>1. CASE Start(n)
  BY <1>0, <1>1 DEF Start, GoTo, guest
<1>2. CASE Replay(n)
  BY <1>0, <1>2, DeliverMoves DEF Replay, guest
<1>3. CASE Search(n) \/ SearchFails(n) \/ Perform(n)
  BY <1>0, <1>3 DEF Search, SearchFails, Perform, GoTo, guest
<1>4. CASE Record(n)
  BY <1>0, <1>4, DeliverMoves DEF Record, guest
<1>5. CASE RecordFails(n)
  BY <1>0, <1>5, DeliverMoves, GiveUpMoves DEF RecordFails, guest
<1>6. CASE CompareAndSwap(n)
  BY <1>0, <1>6 DEF CompareAndSwap, GoTo, guest
<1>7. CASE PerformFails(n) \/ Fenced(n) \/ Crash(n)
  BY <1>0, <1>7 DEF PerformFails, Fenced, Crash, GiveUp, GoTo, guest
<1>8. CASE SaveMemory(n) \/ TruncateLog(n) \/ TruncateLogFails(n) \/ Finish(n)
  BY <1>0, <1>8
  DEF SaveMemory, TruncateLog, TruncateLogFails, Finish, GoTo, guest
<1> QED
  BY <1>1, <1>2, <1>3, <1>4, <1>5, <1>6, <1>7, <1>8 DEF Step, Run

\* Every step keeps the index in step with the position.
LEMMA StepIndex ==
    ASSUME RerunInv, [Next]_vars
    PROVE  IndexIsRank'
<1>0. TypeOK /\ RecordsCall /\ IndexIsRank
  BY DEF RerunInv
<1>1. CASE UNCHANGED vars
  BY <1>0, <1>1 DEF vars, IndexIsRank
<1>2. ASSUME NEW n \in Nodes, Step(n) PROVE IndexIsRank'
  <2>0. /\ pc \in [Nodes -> PC] /\ index \in [Nodes -> Nat]
        /\ step \in [Nodes -> 1 .. Len(Program) + 1]
        /\ call \in [Nodes -> Nat \ {0}]
    BY <1>0 DEF TypeOK
  <2>1. /\ \A m \in Nodes : m # n =>
             /\ pc'[m] = pc[m] /\ step'[m] = step[m]
             /\ call'[m] = call[m] /\ index'[m] = index[m]
        /\ resumes' = resumes
    BY <1>0, <1>2, OthersStay
  <2>2. SUFFICES
          ASSUME ~resumes, pc'[n] # "idle"
          PROVE  index'[n] = Cardinality(CallsBefore(step'[n], call'[n]))
                       + (IF pc'[n] \in {"perform", "record"} THEN 1 ELSE 0)
    BY <1>0, <2>1 DEF IndexIsRank
  <2>3. Cardinality(CallsBefore(step[n], call[n])) \in Nat
    BY CallsBeforeFinite
  <2>4. CASE Start(n)
    <3>1. index'[n] = 0 /\ step'[n] = 1 /\ call'[n] = 1 /\ pc'[n] = "guest"
      BY <2>0, <2>2, <2>4 DEF Start, GoTo
    <3> QED
      BY <3>1, RankFirst
  <2>5. CASE Replay(n)
    <3>1. Current(n) \in Calls /\ pc[n] = "guest"
      BY <1>0, <2>5, AtCallIsCall DEF Replay, AtCall
    <3>2. index[n] = Cardinality(CallsBefore(step[n], call[n]))
      BY <1>0, <2>2, <2>3, <3>1 DEF IndexIsRank
    <3>3. index'[n] = index[n] + 1 /\ step' = step /\ Deliver(n)
      BY <2>0, <2>5 DEF Replay
    <3> QED
      BY <1>0, <2>2, <2>3, <3>1, <3>2, <3>3, DeliverRank
  <2>6. CASE Search(n) \/ SearchFails(n)
    <3>1. /\ pc[n] = "guest" /\ pc'[n] = "perform" /\ index'[n] = index[n] + 1
          /\ step' = step /\ call' = call
      BY <2>0, <2>6 DEF Search, SearchFails, AtCall, GoTo
    <3> QED
      BY <1>0, <2>2, <2>3, <3>1 DEF IndexIsRank
  <2>7. CASE Perform(n)
    <3>1. /\ pc[n] = "perform" /\ pc'[n] = "record" /\ index' = index
          /\ step' = step /\ call' = call
      BY <2>0, <2>7 DEF Perform, GoTo
    <3> QED
      BY <1>0, <2>2, <2>3, <3>1 DEF IndexIsRank
  <2>8. CASE (Record(n) \/ RecordFails(n)) /\ Deliver(n)
    <3>1. /\ pc[n] = "record" /\ Current(n) \in Calls /\ Deliver(n)
          /\ index' = index /\ step' = step
      BY <1>0, <2>8 DEF Record, RecordFails, RecordsCall
    <3>2. index[n] = Cardinality(CallsBefore(step[n], call[n])) + 1
      BY <1>0, <2>2, <3>1 DEF IndexIsRank
    <3> QED
      BY <1>0, <2>2, <2>3, <3>1, <3>2, DeliverRank
  <2>9. CASE CompareAndSwap(n)
    <3>1. /\ pc[n] = "guest" /\ pc'[n] = "save" /\ index' = index
          /\ step'[n] = step[n] + 1 /\ call'[n] = 1
          /\ step[n] \in 1 .. Len(Program) /\ call[n] \in Nat
          /\ call[n] > Len(Program[step[n]])
      BY <2>0, <2>9, Lengths DEF CompareAndSwap, AtCheckpoint, GoTo
    <3>2. CallsBefore(step[n] + 1, 1) = CallsBefore(step[n], call[n])
      BY <3>1, RankStep
    <3> QED
      BY <1>0, <2>2, <3>1, <3>2 DEF IndexIsRank
  <2>10. CASE SaveMemory(n) \/ TruncateLog(n) \/ TruncateLogFails(n)
    <3>1. /\ pc[n] \in {"save", "truncate"} /\ pc'[n] \in {"truncate", "guest"}
          /\ step' = step /\ call' = call /\ index' = index
      BY <2>0, <2>10 DEF SaveMemory, TruncateLog, TruncateLogFails, GoTo
    <3> QED
      BY <1>0, <2>2, <3>1 DEF IndexIsRank
  <2>11. CASE PerformFails(n) \/ Fenced(n) \/ Crash(n) \/ Finish(n)
    <3>1. pc'[n] = "idle"
      BY <2>0, <2>11 DEF PerformFails, Fenced, Crash, Finish, GiveUp, GoTo
    <3> QED
      BY <2>2, <3>1
  <2>12. CASE RecordFails(n)
    <3>1. CASE Deliver(n)
      BY <2>8, <2>12, <3>1
    <3>2. CASE GiveUp(n)
      BY <1>0, <2>2, <3>2, GiveUpMoves
    <3> QED
      BY <2>12, <3>1, <3>2 DEF RecordFails
  <2>13. CASE Record(n)
    BY <2>8, <2>13 DEF Record
  <2> QED
    BY <1>2, <2>4, <2>5, <2>6, <2>7, <2>9, <2>10, <2>11, <2>12, <2>13
    DEF Step, Run
<1> QED
  BY <1>1, <1>2 DEF Next

\* A session that records a response does so under the rank of the call.
LEMMA StepLog ==
    ASSUME RerunInv, [Next]_vars
    PROVE  LogRanked' /\ RecordedInLog'
<1>0. TypeOK /\ RecordsCall /\ IndexIsRank /\ LogRanked /\ RecordedInLog
  BY DEF RerunInv
<1>1. CASE UNCHANGED <<resumes, log, recorded, truncated>>
  BY <1>0, <1>1 DEF LogRanked, RecordedInLog
<1>2. ASSUME NEW n \in Nodes, Record(n) PROVE LogRanked' /\ RecordedInLog'
  <2>1. ~resumes => index[n] = Rank(Current(n))
    BY <1>0, <1>2 DEF Record, IndexIsRank, Rank, Current
  <2> DEFINE e == [nr |-> 1 + Max({0} \cup {f.nr : f \in log}),
                   index |-> index[n], api |-> Api(Current(n)),
                   response |-> Current(n)]
  <2>2. /\ log' = log \cup {e} /\ e.index = index[n]
        /\ e.api = Api(Current(n)) /\ e.response = Current(n)
    BY <1>2 DEF Record, SaveOplog
  <2> HIDE DEF e
  <2>3. /\ truncated' = truncated /\ resumes' = resumes
        /\ recorded' = recorded \cup {Current(n)}
    BY <1>2 DEF Record, guest
  <2>4. LogRanked'
    BY <1>0, <2>1, <2>2, <2>3 DEF LogRanked
  <2>5. RecordedInLog'
    BY <1>0, <2>2, <2>3 DEF RecordedInLog
  <2> QED
    BY <2>4, <2>5
<1>3. ASSUME NEW n \in Nodes, TruncateLog(n) PROVE LogRanked' /\ RecordedInLog'
  <2>1. log' \subseteq log /\ truncated' = TRUE /\ resumes' = resumes
    BY <1>3 DEF TruncateLog, TruncateOplog, guest
  <2> QED
    BY <1>0, <2>1 DEF LogRanked, RecordedInLog
<1>4. ASSUME NEW n \in Nodes, Step(n)
      PROVE  \/ Record(n) \/ TruncateLog(n)
             \/ UNCHANGED <<resumes, log, recorded, truncated>>
  BY <1>4
  DEF Step, Run, Start, Replay, Search, SearchFails, Perform, PerformFails,
      RecordFails, CompareAndSwap, Fenced, SaveMemory, TruncateLogFails, Finish,
      Crash, guest, storeVars, calls
<1> QED
  BY <1>1, <1>2, <1>3, <1>4 DEF Next, vars

LEMMA StepRerun ==
    ASSUME RerunInv, [Next]_vars
    PROVE  RerunInv'
<1>1. TypeOK' /\ RecordsCall'
  BY StepType DEF RerunInv
<1> QED
  BY <1>1, StepIndex, StepLog DEF RerunInv

\* Both invariants hold in every reachable state.
LEMMA ReplayInvariant == Spec => [](RerunInv /\ ReplayInv)
<1>1. Init => RerunInv /\ ReplayInv
  BY InitRerun, InitReplay
<1>2. RerunInv /\ ReplayInv /\ [Next]_vars => (RerunInv /\ ReplayInv)'
  BY StepRerun, RanksIdentify, StepReplay
<1> QED
  BY <1>1, <1>2, PTL DEF Spec

\* A guest that starts over gets for every call its own response, though calls
\* of its workflow share API names, sessions run at the same time, and reads
\* and writes of the log fail.
THEOREM RerunIsRight == Spec => []RerunMatches
<1>1. ReplayInv => RerunMatches
  BY DEF ReplayInv
<1> QED
  BY <1>1, ReplayInvariant, PTL

\* When run() has returned 0, every API of the workflow was called, and every
\* call of a guest that starts over was performed.
THEOREM CompletionIsReal == Spec => []CompletedMeansPerformed
<1>1. ASSUME ReplayInv PROVE CompletedMeansPerformed
  <2>1. SUFFICES ASSUME done
                 PROVE  /\ \A c \in Calls : \E d \in executed : Api(d) = Api(c)
                        /\ ~resumes => executed = Calls
    BY DEF CompletedMeansPerformed
  <2>2. /\ \A c \in Calls : Covered(c, resumes, executed)
        /\ resumes \in BOOLEAN /\ executed \subseteq Calls
    BY <1>1, <2>1 DEF ReplayInv, DoneSound, TypeOK
  <2> QED
    BY <2>2 DEF Covered
<1> QED
  BY <1>1, ReplayInvariant, PTL

\* A session of a guest that starts over finds what was recorded before it
\* searched.
LEMMA StepMissed ==
    ASSUME RerunInv, RecordedIsFound, [Next]_vars
    PROVE  RecordedIsFound'
<1>1. ASSUME NEW n \in Nodes, Search(n) PROVE RecordedIsFound'
  <2>1. /\ resumes' = resumes /\ truncated' = truncated
        /\ missed' = missed \cup ({Current(n)} \cap recorded)
    BY <1>1 DEF Search, guest
  <2>2. SUFFICES ASSUME ~resumes, ~truncated, Current(n) \in recorded
                 PROVE  FALSE
    BY <2>1 DEF RecordedIsFound
  <2>3. AtCall(n) /\ Matches(n) = {}
    BY <1>1 DEF Search
  <2>4. Rank(Current(n)) = index[n] + 1
    BY <2>2, <2>3, AsksForRank
  <2>5. PICK e \in log : e.response = Current(n)
    BY <2>2 DEF RerunInv, RecordedInLog
  <2>6. e.index = index[n] + 1 /\ e.api = Api(Current(n))
    BY <2>2, <2>4, <2>5 DEF RerunInv, LogRanked
  <2> QED
    BY <2>3, <2>6 DEF Matches
<1>2. CASE UNCHANGED <<resumes, missed, truncated>>
  BY <1>2 DEF RecordedIsFound
<1>3. ASSUME NEW n \in Nodes, TruncateLog(n) PROVE RecordedIsFound'
  BY <1>3 DEF TruncateLog, RecordedIsFound
<1>4. ASSUME NEW n \in Nodes, Step(n)
      PROVE  Search(n) \/ TruncateLog(n) \/ UNCHANGED <<resumes, missed, truncated>>
  BY <1>4
  DEF Step, Run, Start, Replay, SearchFails, Perform, PerformFails, Record,
      RecordFails, CompareAndSwap, Fenced, SaveMemory, TruncateLogFails, Finish,
      Crash, guest, calls
<1> QED
  BY <1>1, <1>2, <1>3, <1>4 DEF Next, vars

\* Until the log is truncated, no session of such a guest searches in vain for
\* a response that was recorded.
THEOREM RerunFinds == Spec => []RecordedIsFound
<1>1. Init => RecordedIsFound
  BY DEF Init, RecordedIsFound
<1>2. RerunInv /\ RecordedIsFound /\ [Next]_vars
        => (RerunInv /\ RecordedIsFound)'
  BY StepRerun, StepMissed
<1> QED
  BY <1>1, <1>2, InitRerun, PTL DEF Spec

(***************************************************************************)
(* A call whose response exceeds the guest's buffer.  No guest, running or *)
(* saved, gets past it, whether its workflow resumes or starts over and    *)
(* whether the log can be read or not.                                     *)
(***************************************************************************)
NotPastOversized ==
    /\ \A n \in Nodes : pc[n] # "idle" =>
         \A c \in oversized : ~Before(c, step[n], call[n])
    /\ \A c \in oversized : ~(c[1] < saved)

LEMMA StepOversized ==
    ASSUME TypeOK, RecordsCall, NotPastOversized, OversizedStaysFailed,
           [Next]_vars
    PROVE  NotPastOversized' /\ OversizedStaysFailed'
<1>0. oversized \subseteq Calls
  BY OversizedAssumption DEF TypeOK
<1>1. CASE UNCHANGED vars
  BY <1>1 DEF vars, NotPastOversized, OversizedStaysFailed
<1>2. ASSUME NEW n \in Nodes, Step(n)
      PROVE  NotPastOversized' /\ OversizedStaysFailed'
  <2>0. /\ pc \in [Nodes -> PC] /\ call \in [Nodes -> Nat \ {0}]
        /\ step \in [Nodes -> 1 .. Len(Program) + 1]
        /\ \A m \in Nodes : step[m] \in Nat /\ call[m] \in Nat
        /\ saved \in Nat
    BY Lengths DEF TypeOK
  <2>o. /\ oversized' = oversized
        /\ \A m \in Nodes : m # n =>
             pc'[m] = pc[m] /\ step'[m] = step[m] /\ call'[m] = call[m]
    BY <1>2, OthersStay
  <2>s. ASSUME saved' = saved, done' = done,
               pc'[n] # "idle" =>
                 \A c \in oversized : ~Before(c, step'[n], call'[n])
        PROVE  NotPastOversized' /\ OversizedStaysFailed'
    BY <2>o, <2>s DEF NotPastOversized, OversizedStaysFailed
  <2>1. CASE Start(n)
    <3>1. /\ step'[n] = (IF resumes THEN saved ELSE 1) /\ call'[n] = 1
          /\ saved' = saved /\ done' = done
      BY <2>0, <2>1 DEF Start, GoTo, storeVars
    <3>2. ASSUME NEW c \in oversized PROVE ~Before(c, step'[n], call'[n])
      <4>1. c[1] \in Nat \ {0} /\ c[2] \in Nat \ {0} /\ ~(c[1] < saved)
        BY <1>0, CallShape DEF NotPastOversized
      <4>2. CASE resumes
        <5>1. step'[n] = saved /\ call'[n] = 1
          BY <3>1, <4>2
        <5> QED
          BY <4>1, <5>1 DEF Before
      <4>3. CASE ~resumes
        <5>1. step'[n] = 1 /\ call'[n] = 1
          BY <3>1, <4>3
        <5> QED
          BY <4>1, <5>1 DEF Before
      <4> QED
        BY <4>2, <4>3
    <3> QED
      BY <2>s, <3>1, <3>2
  <2>2. CASE (Replay(n) \/ Record(n) \/ RecordFails(n)) /\ Deliver(n)
    <3>1. /\ Deliver(n) /\ step' = step /\ saved' = saved /\ pc[n] # "idle"
      BY <2>2 DEF Replay, Record, RecordFails, AtCall, storeVars
    <3>2. done' = done /\ (pc'[n] # "idle" => call'[n] = call[n] + 1)
      BY <3>1, DeliverMoves
    <3>3. ASSUME pc'[n] # "idle", NEW c \in oversized
          PROVE  ~Before(c, step'[n], call'[n])
      <4>1. c # Current(n)
        BY <2>0, <3>1, <3>3, GiveUpMoves DEF Deliver
      <4>2. c \in Calls /\ ~Before(c, step[n], call[n])
        BY <1>0, <3>1 DEF NotPastOversized
      <4> QED
        BY <2>0, <3>1, <3>2, <3>3, <4>1, <4>2, BeforeNext DEF Current
    <3> QED
      BY <2>s, <3>1, <3>2, <3>3
  <2>3. CASE CompareAndSwap(n)
    <3>1. /\ pc[n] = "guest" /\ step'[n] = step[n] + 1 /\ call'[n] = 1
          /\ step[n] \in 1 .. Len(Program) /\ call[n] > Len(Program[step[n]])
          /\ saved' = saved /\ done' = done
      BY <2>0, <2>3, Lengths DEF CompareAndSwap, AtCheckpoint, GoTo, ends
    <3>2. ASSUME NEW c \in oversized PROVE ~Before(c, step'[n], call'[n])
      <4>1. c \in Calls /\ ~Before(c, step[n], call[n])
        BY <1>0, <3>1 DEF NotPastOversized
      <4>2. CallsBefore(step[n] + 1, 1) = CallsBefore(step[n], call[n])
        BY <2>0, <3>1, RankStep
      <4> QED
        BY <3>1, <4>1, <4>2 DEF CallsBefore
    <3> QED
      BY <2>s, <3>1, <3>2
  <2>4. CASE SaveMemory(n)
    <3>1. /\ pc[n] # "idle" /\ saved' = step[n] /\ done' = done
          /\ step' = step /\ call' = call
      BY <2>0, <2>4 DEF SaveMemory, GoTo, ends
    <3>2. \A c \in oversized : ~(c[1] < step[n])
      BY <3>1 DEF NotPastOversized, Before
    <3> QED
      BY <2>o, <3>1, <3>2 DEF NotPastOversized, OversizedStaysFailed
  <2>5. CASE Finish(n)
    <3>1. /\ pc[n] # "idle" /\ step[n] > Len(Program)
          /\ step' = step /\ call' = call /\ saved' = saved
      BY <2>0, <2>5 DEF Finish, GoTo, storeVars
    <3>2. ASSUME NEW c \in oversized PROVE FALSE
      <4>1. c[1] \in 1 .. Len(Program) /\ ~(c[1] < step[n])
        BY <1>0, <3>1, CallShape, CallPairs DEF NotPastOversized, Before
      <4> QED
        BY <2>0, <3>1, <4>1, Lengths
    <3> QED
      BY <2>o, <3>1, <3>2 DEF NotPastOversized, OversizedStaysFailed
  <2>6. CASE \/ Search(n) \/ SearchFails(n) \/ Perform(n) \/ PerformFails(n)
             \/ Fenced(n) \/ Crash(n) \/ TruncateLog(n) \/ TruncateLogFails(n)
             \/ RecordFails(n) /\ GiveUp(n)
    <3>1. /\ step' = step /\ call' = call /\ saved' = saved /\ done' = done
          /\ pc'[n] # "idle" => pc[n] # "idle"
      BY <2>0, <2>6
      DEF Search, SearchFails, Perform, AtCall, PerformFails, Fenced, Crash,
          TruncateLog, TruncateLogFails, RecordFails, GiveUp, GoTo, storeVars,
          ends
    <3> QED
      BY <2>s, <3>1 DEF NotPastOversized
  <2>7. CASE RecordFails(n)
    BY <2>2, <2>6, <2>7 DEF RecordFails
  <2>8. CASE Replay(n) \/ Record(n)
    BY <2>2, <2>8 DEF Replay, Record
  <2> QED
    BY <1>2, <2>1, <2>3, <2>4, <2>5, <2>6, <2>7, <2>8 DEF Step, Run
<1> QED
  BY <1>1, <1>2 DEF Next

\* A workflow with a call whose response never fits does not complete.
THEOREM OversizedNeverCompletes == Spec => []OversizedStaysFailed
<1> DEFINE Inv == TypeOK /\ RecordsCall /\ NotPastOversized
                    /\ OversizedStaysFailed
<1>1. Init => Inv
  <2> SUFFICES ASSUME Init PROVE Inv
    OBVIOUS
  <2>1. NotPastOversized
    BY OversizedAssumption, CallShape DEF Init, NotPastOversized
  <2>2. OversizedStaysFailed
    BY Zenon DEF Init, OversizedStaysFailed
  <2> QED
    BY <2>1, <2>2, InitType
<1>2. Inv /\ [Next]_vars => Inv'
  BY StepType, StepOversized
<1> QED
  BY <1>1, <1>2, PTL DEF Spec

=============================================================================
