-------------------------- MODULE FileStoreProofs --------------------------
(***************************************************************************)
(* One FileSnapshotStore value, for any clients, pages and bounds and      *)
(* whatever file a crash or a full disk tears: no version is granted       *)
(* twice, acknowledged log entries are only lost with the log that is      *)
(* being rewritten, and the files implement RecordStore.                   *)
(***************************************************************************)
EXTENDS FileStore, TLAPS

\* The types the argument needs.
Typed ==
    /\ disk = [f \in Files |-> disk[f]]
    /\ disk["meta"] \in Nat
    /\ disk["bin"] \in Memory /\ disk["deltas"] \in Memory
    /\ pc \in [Clients -> PC]
    /\ held \in [Clients -> Nat]
    /\ file \in [Clients -> Files]
    /\ new = [c \in Clients |-> new[c]]
    /\ \A c \in Clients : /\ new[c] = [f \in Files |-> new[c][f]]
                          /\ new[c]["meta"] \in Nat
                          /\ new[c]["bin"] \in Memory
                          /\ new[c]["deltas"] \in Memory

LEMMA MissingFiles ==
    /\ Missing = [f \in Files |-> Missing[f]]
    /\ Missing["meta"] = 0 /\ Missing["oplog"] = {}
    /\ Missing["bin"] = Nothing(Pages) /\ Missing["deltas"] = Nothing(Pages)
BY DEF Missing, Files

LEMMA NothingIsMemory == Nothing(Pages) \in Memory
BY DEF Nothing, Memory

LEMMA InitTyped == Init => Typed
BY MissingFiles, NothingIsMemory DEF Init, Typed, PC, Files

\* A call that begins to write has a content of the file's type.
LEMMA WillWriteTyped ==
    ASSUME Typed, NEW c \in Clients, NEW f \in Files, NEW content,
           f = "meta" => content \in Nat,
           f \in {"bin", "deltas"} => content \in Memory,
           WillWrite(c, f, content), held' \in [Clients -> Nat]
    PROVE  Typed'
<1> DEFINE wanted == [Missing EXCEPT ![f] = content]
<1>1. /\ wanted = [g \in Files |-> wanted[g]]
      /\ wanted["meta"] \in Nat /\ wanted["bin"] \in Memory
      /\ wanted["deltas"] \in Memory
  BY MissingFiles, NothingIsMemory DEF Files
<1>2. /\ new' = [d \in Clients |-> new'[d]]
      /\ \A d \in Clients : new'[d] = IF d = c THEN wanted ELSE new[d]
  BY DEF WillWrite, Typed
<1>3. /\ pc' \in [Clients -> PC] /\ file' \in [Clients -> Files] /\ UNCHANGED disk
  BY DEF WillWrite, GoTo, Typed, PC, InCall
<1> HIDE DEF wanted
<1> QED
  BY <1>1, <1>2, <1>3 DEF Typed

\* A call that ends drops its content.
LEMMA AnswerTyped ==
    ASSUME Typed, NEW c \in Clients, Answer(c)
    PROVE  /\ pc' \in [Clients -> PC] /\ held' \in [Clients -> Nat]
           /\ file' \in [Clients -> Files]
           /\ new' = [d \in Clients |-> new'[d]]
           /\ \A d \in Clients : /\ new'[d] = [f \in Files |-> new'[d][f]]
                                 /\ new'[d]["meta"] \in Nat
                                 /\ new'[d]["bin"] \in Memory
                                 /\ new'[d]["deltas"] \in Memory
<1>1. /\ new' = [d \in Clients |-> new'[d]]
      /\ \A d \in Clients : new'[d] = IF d = c THEN Missing ELSE new[d]
  BY DEF Answer, Typed
<1>2. \A d \in Clients : /\ new'[d] = [f \in Files |-> new'[d][f]]
                         /\ new'[d]["meta"] \in Nat
                         /\ new'[d]["bin"] \in Memory
                         /\ new'[d]["deltas"] \in Memory
  BY <1>1, MissingFiles, NothingIsMemory DEF Typed
<1> QED
  BY <1>1, <1>2 DEF Answer, GoTo, Typed, PC, Files

\* The content of a missing file has the type of the file.
LEMMA SomeMissing ==
    ASSUME Typed, disk' = [f \in Files |-> disk'[f]],
           \A f \in Files : disk'[f] \in {disk[f], Missing[f]}
    PROVE  disk'["meta"] \in Nat /\ disk'["bin"] \in Memory /\ disk'["deltas"] \in Memory
BY MissingFiles, NothingIsMemory DEF Typed, Files

\* The files whose writing stops.
LEMMA StoppedTyped ==
    ASSUME Typed, NEW F, Stopped(F)
    PROVE  /\ disk' = [f \in Files |-> disk'[f]]
           /\ \A f \in Files : disk'[f] = IF f \in F /\ f # "meta" THEN Missing[f]
                                                               ELSE disk[f]
           /\ disk'["meta"] \in Nat /\ disk'["bin"] \in Memory
           /\ disk'["deltas"] \in Memory
<1>1. /\ disk' = [f \in Files |-> disk'[f]]
      /\ \A f \in Files : disk'[f] = IF f \in F /\ f # "meta" THEN Missing[f]
                                                          ELSE disk[f]
  BY DEF Stopped
<1> QED
  BY <1>1, SomeMissing

\* The same of the clients that end, whatever becomes of the files.
LEMMA EndTyped ==
    ASSUME Typed, NEW S, End(S), disk' = [f \in Files |-> disk'[f]],
           disk'["meta"] \in Nat /\ disk'["bin"] \in Memory /\ disk'["deltas"] \in Memory
    PROVE  /\ Typed'
           /\ \A c \in Clients : pc'[c] = IF c \in S THEN "closed" ELSE pc[c]
           /\ \A c \in Clients : c \notin S => file'[c] = file[c] /\ new'[c] = new[c]
<1>1. /\ new' = [d \in Clients |-> new'[d]]
      /\ \A d \in Clients : new'[d] = IF d \in S THEN Missing ELSE new[d]
  BY DEF End
<1>2. \A d \in Clients : /\ new'[d] = [f \in Files |-> new'[d][f]]
                         /\ new'[d]["meta"] \in Nat
                         /\ new'[d]["bin"] \in Memory
                         /\ new'[d]["deltas"] \in Memory
  BY <1>1, MissingFiles, NothingIsMemory DEF Typed
<1>3. pc' \in [Clients -> PC] /\ held' \in [Clients -> Nat] /\ file' \in [Clients -> Files]
  BY DEF End, Typed, PC, Files
<1> QED
  BY <1>1, <1>2, <1>3 DEF End, Typed

\* A file that is removed has the content of a missing one.
LEMMA RemoveTyped ==
    ASSUME Typed, NEW f, RemoveFile(f)
    PROVE  /\ disk' = [g \in Files |-> disk'[g]]
           /\ \A g \in Files : disk'[g] = IF g = f THEN Missing[g] ELSE disk[g]
           /\ disk'["meta"] \in Nat /\ disk'["bin"] \in Memory
           /\ disk'["deltas"] \in Memory
<1>1. /\ disk' = [g \in Files |-> disk'[g]]
      /\ \A g \in Files : disk'[g] = IF g = f THEN Missing[g] ELSE disk[g]
  BY DEF RemoveFile, Typed
<1> QED
  BY <1>1, SomeMissing

\* Every step keeps the types.
LEMMA StepTyped == Typed /\ [Next]_vars => Typed'
<1> SUFFICES ASSUME Typed, [Next]_vars PROVE Typed'
  OBVIOUS
<1>1. CASE UNCHANGED vars
  BY <1>1 DEF vars, Typed
<1>2. ASSUME NEW c \in Clients, Step(c) PROVE Typed'
  <2>1. CASE Open(c)
    BY <2>1 DEF Open, GoTo, Typed, PC
  <2>2. ASSUME NEW content \in Contents,
               SaveSnapshot(c, [p \in Pages |-> content])
        PROVE  Typed'
    <3>1. [p \in Pages |-> content] \in Memory
      BY DEF Memory
    <3> QED
      BY <2>2, <3>1, WillWriteTyped DEF SaveSnapshot, Typed, Files
  <2>3. ASSUME NEW p \in Pages, NEW content \in Contents, AddDeltas(c, p, content)
        PROVE  Typed'
    <3>1. ReadOrEmpty("deltas") \in Memory
      BY MissingFiles, NothingIsMemory DEF ReadOrEmpty, Typed
    <3>2. [ReadOrEmpty("deltas") EXCEPT ![p] = content] \in Memory
      BY <3>1 DEF Memory
    <3> QED
      BY <2>3, <3>2, WillWriteTyped DEF AddDeltas, Typed, Files
  <2>4. ASSUME NEW index \in Indices, AppendOplog(c, index) PROVE Typed'
    <3> DEFINE list == ReadOrEmpty("oplog")
    <3>1. /\ WillWrite(c, "oplog", list \cup {NewEntry(list, index)})
          /\ UNCHANGED held
      BY <2>4 DEF AppendOplog
    <3> HIDE DEF list
    <3> QED
      BY <3>1, WillWriteTyped DEF Typed, Files
  <2>5. ASSUME NEW before \in 0 .. MaxIndex, CutOplog(c, before) PROVE Typed'
    BY <2>5, WillWriteTyped DEF CutOplog, Typed, Files
  <2>6. CASE Swap(c)
    <3>1. Incremented(held[c]) \in Nat
      BY DEF Incremented, Typed
    <3>2. held' \in [Clients -> Nat]
      BY <2>6, <3>1 DEF Swap, Typed
    <3> QED
      BY <2>6, <3>1, <3>2, WillWriteTyped DEF Swap, Files
  <2>7. CASE StoreWasm(c)
    BY <2>7, WillWriteTyped DEF StoreWasm, Typed, Files
  <2>9. CASE TruncateFile(c)
    BY <2>9 DEF TruncateFile, GoTo, Typed, PC, InCall
  <2>10. CASE FillFile(c)
    <3>1. /\ disk' = [g \in Files |-> disk'[g]]
          /\ \A g \in Files : disk'[g] = IF g = file[c] THEN new[c][g] ELSE disk[g]
      BY <2>10 DEF FillFile, Typed
    <3>2. /\ disk'["meta"] \in Nat /\ disk'["bin"] \in Memory
          /\ disk'["deltas"] \in Memory
      BY <3>1 DEF Typed, Files
    <3> QED
      BY <2>10, <3>1, <3>2, AnswerTyped DEF FillFile, Typed
  <2>11. CASE FillFileFails(c)
    BY <2>11, AnswerTyped, StoppedTyped DEF FillFileFails, Typed
  <2>12. CASE RemoveDeltas(c)
    BY <2>12, RemoveTyped DEF RemoveDeltas, clients, Typed
  <2>13. CASE BeginDelete(c)
    BY <2>13 DEF BeginDelete, GoTo, Typed, PC, InCall
  <2>14. CASE DeleteFile(c) \/ PassFile(c)
    <3>1. RemoveFile(Head(todo[c])) \/ UNCHANGED disk
      BY <2>14 DEF DeleteFile, PassFile
    <3>2. pc' \in [Clients -> PC] /\ UNCHANGED <<held, file, new>>
      BY <2>14 DEF DeleteFile, PassFile, NextFile, GoTo, Typed, PC
    <3> QED
      BY <3>1, <3>2, RemoveTyped DEF Typed
  <2>15. CASE Close(c)
    BY <2>15, EndTyped DEF Close, Typed
  <2>16. CASE Crash(c)
    BY <2>16, EndTyped, StoppedTyped DEF Crash
  <2> QED
    BY <1>2, <2>1, <2>2, <2>3, <2>4, <2>5, <2>6, <2>7, <2>9, <2>10, <2>11,
       <2>12, <2>13, <2>14, <2>15, <2>16
    DEF Step
<1> QED
  BY <1>1, <1>2 DEF Next

(***************************************************************************)
(* One call at a time.                                                     *)
(***************************************************************************)
OneCall == \A c, d \in Clients : pc[c] \in InCall /\ pc[d] \in InCall => c = d

Quiet == \A c \in Clients : pc[c] \notin InCall

LEMMA WillWriteFrame ==
    ASSUME Typed, Shared, NEW c \in Clients, NEW f \in Files, NEW content,
           WillWrite(c, f, content)
    PROVE  /\ Quiet /\ pc[c] = "open"
           /\ pc'[c] = "truncate" /\ file'[c] = f /\ new'[c][f] = content
           /\ \A d \in Clients : d # c => pc'[d] = pc[d]
           /\ UNCHANGED <<disk, torn, todo, granted, regranted>>
<1>1. new'[c] = [Missing EXCEPT ![f] = content]
  BY DEF WillWrite, Typed
<1>2. new'[c][f] = content
  BY <1>1, MissingFiles
<1> QED
  BY <1>2 DEF WillWrite, MayCall, MutexFree, GoTo, Typed, Quiet

LEMMA AnswerFrame ==
    ASSUME Typed, OneCall, NEW c \in Clients, pc[c] \in InCall, Answer(c)
    PROVE  /\ Quiet' /\ pc'[c] = "open" /\ UNCHANGED todo
           /\ \A d \in Clients : d # c => pc'[d] = pc[d]
BY DEF Answer, GoTo, Typed, OneCall, Quiet, InCall

\* A session that ends, and a process that dies, begin no call.
LEMMA EndFrame ==
    ASSUME Typed, NEW c \in Clients, Close(c) \/ Crash(c)
    PROVE  \A d \in Clients : pc'[d] \in InCall =>
                /\ pc'[d] = pc[d] /\ file'[d] = file[d] /\ new'[d] = new[d]
<1>1. PICK S : End(S)
  BY DEF Close, Crash
<1> QED
  BY <1>1 DEF End, InCall

\* When the one process dies nobody is left in a call.
LEMMA CrashFrame ==
    ASSUME Shared, NEW c \in Clients, Crash(c)
    PROVE  /\ \A d \in Clients : pc'[d] = "closed"
           /\ Stopped({file[d] : d \in {e \in Clients : pc[e] = "write"}})
BY DEF Crash, Process, End

LEMMA StepOneCall ==
    ASSUME Shared, Typed, OneCall, [Next]_vars
    PROVE  OneCall'
<1>1. CASE UNCHANGED vars
  BY <1>1 DEF vars, OneCall
<1>2. ASSUME NEW c \in Clients, Step(c) PROVE OneCall'
  <2>1. ASSUME NEW f \in Files, NEW content, WillWrite(c, f, content)
        PROVE  OneCall'
    BY <2>1, WillWriteFrame DEF Quiet, OneCall, InCall
  <2>2. CASE Open(c) \/ BeginDelete(c)
    BY <2>2 DEF Open, BeginDelete, MutexFree, GoTo, InCall, Typed, OneCall
  <2>3. CASE TruncateFile(c)
    BY <2>3 DEF TruncateFile, GoTo, InCall, Typed, OneCall
  <2>4. CASE FillFile(c) \/ FillFileFails(c)
    <3>1. Quiet'
      BY <2>4, AnswerFrame DEF FillFile, FillFileFails, InCall
    <3> QED
      BY <3>1 DEF Quiet, OneCall
  <2>5. CASE RemoveDeltas(c)
    BY <2>5 DEF RemoveDeltas, clients, OneCall
  <2>6. CASE DeleteFile(c) \/ PassFile(c)
    BY <2>6 DEF DeleteFile, PassFile, NextFile, GoTo, InCall, Typed, OneCall
  <2>7. CASE Close(c) \/ Crash(c)
    BY <2>7, EndFrame DEF OneCall
  <2> QED
    BY <1>2, <2>1, <2>2, <2>3, <2>4, <2>5, <2>6, <2>7
    DEF Step, SaveSnapshot, AddDeltas, AppendOplog, CutOplog, Swap, StoreWasm,
        Files
<1> QED
  BY <1>1, <1>2 DEF Next

(***************************************************************************)
(* Versions.                                                               *)
(***************************************************************************)
Writing(c) == pc[c] \in {"truncate", "write"}

\* Versions are granted up to the one on disk, and the one being written is the
\* next.
VersionInv ==
    /\ granted \subseteq 1 .. disk["meta"]
    /\ ~regranted
    /\ \A c \in Clients : Writing(c) /\ file[c] = "meta" =>
          new[c]["meta"] = disk["meta"] + 1

\* SaveMetadata lets nobody through but a caller with the version on disk, and
\* nobody at all when the file cannot be read.
LEMMA AcceptsCurrent ==
    ASSUME Typed, NEW version, Accepts(version)
    PROVE  Readable("meta") /\ version = disk["meta"]
BY MissingFiles DEF Accepts, ReadOrEmpty, Readable

LEMMA OneMore ==
    ASSUME NEW n \in Nat, NEW G, G \subseteq 1 .. n
    PROVE  n + 1 \notin G /\ G \cup {n + 1} \subseteq 1 .. (n + 1)
OBVIOUS

\* While a file is deleted nobody writes one.
LEMMA DeleteIsAlone ==
    ASSUME Typed, OneCall, NEW c \in Clients, DeleteFile(c) \/ PassFile(c)
    PROVE  pc[c] \in InCall /\ \A d \in Clients : ~Writing(d)'
<1>1. /\ pc \in [Clients -> PC] /\ pc[c] = "delete" /\ pc[c] \in InCall
      /\ pc' = pc \/ pc' = [pc EXCEPT ![c] = "closed"]
  BY DEF Typed, DeleteFile, PassFile, NextFile, GoTo, InCall
<1>2. ASSUME NEW d \in Clients, d # c PROVE pc[d] \notin InCall
  BY <1>1, <1>2 DEF OneCall
<1>3. ASSUME NEW d \in Clients PROVE pc'[d] \notin {"truncate", "write"}
  <2>1. CASE d = c
    BY <1>1, <2>1
  <2>2. CASE d # c
    <3>1. pc'[d] = pc[d]
      BY <1>1, <2>2
    <3> QED
      BY <1>2, <2>2, <3>1 DEF InCall
  <2> QED
    BY <2>1, <2>2
<1> QED
  BY <1>1, <1>3 DEF Writing

LEMMA StepVersion ==
    ASSUME Shared, Typed, OneCall, VersionInv, [Next]_vars
    PROVE  VersionInv'
<1>1. CASE UNCHANGED vars
  BY <1>1 DEF vars, VersionInv, Writing
<1>2. ASSUME NEW c \in Clients, Step(c) PROVE VersionInv'
  <2>1. ASSUME NEW f \in Files, NEW content, WillWrite(c, f, content),
               f = "meta" => content = disk["meta"] + 1
        PROVE  VersionInv'
    <3>1. \A d \in Clients : Writing(d)' => d = c
      BY <2>1, WillWriteFrame DEF Quiet, Writing, InCall
    <3>2. file'[c] = f /\ new'[c][f] = content /\ UNCHANGED <<disk, granted, regranted>>
      BY <2>1, WillWriteFrame
    <3> QED
      BY <2>1, <3>1, <3>2 DEF VersionInv
  <2>2. CASE Swap(c)
    <3>1. Incremented(held[c]) = disk["meta"] + 1
      BY <2>2, AcceptsCurrent DEF Swap, Incremented
    <3> QED
      BY <2>1, <2>2, <3>1 DEF Swap, Files
  <2>3. CASE \/ \E content \in Contents : SaveSnapshot(c, [p \in Pages |-> content])
             \/ \E p \in Pages, content \in Contents : AddDeltas(c, p, content)
             \/ \E index \in Indices : AppendOplog(c, index)
             \/ \E before \in 0 .. MaxIndex : CutOplog(c, before)
             \/ StoreWasm(c)
    BY <2>1, <2>3
    DEF SaveSnapshot, AddDeltas, AppendOplog, CutOplog, StoreWasm, Files
  <2>4. CASE Open(c) \/ BeginDelete(c) \/ TruncateFile(c)
    <3>1. UNCHANGED <<disk, file, new, history>>
      BY <2>4 DEF Open, BeginDelete, TruncateFile
    <3>2. \A d \in Clients : Writing(d)' => Writing(d)
      BY <2>4 DEF Open, BeginDelete, TruncateFile, GoTo, Typed, Writing
    <3> QED
      BY <3>1, <3>2 DEF history, VersionInv
  <2>5. CASE FillFile(c)
    <3>1. Quiet'
      BY <2>5, AnswerFrame DEF FillFile, InCall
    <3>2. CASE file[c] = "meta"
      <4>1. new[c]["meta"] = disk["meta"] + 1 /\ disk'["meta"] = new[c]["meta"]
        BY <2>5, <3>2 DEF FillFile, VersionInv, Writing, Typed, Files
      <4>2. disk["meta"] \in Nat /\ granted \subseteq 1 .. disk["meta"]
        BY DEF Typed, VersionInv
      <4>3. /\ new[c]["meta"] \notin granted
            /\ granted \cup {new[c]["meta"]} \subseteq 1 .. disk'["meta"]
        <5>1. /\ disk["meta"] + 1 \notin granted
              /\ granted \cup {disk["meta"] + 1} \subseteq 1 .. (disk["meta"] + 1)
          BY <4>2, OneMore
        <5> QED
          BY <4>1, <5>1
      <4>4. granted' = granted \cup {new[c]["meta"]} /\ ~regranted'
        BY <2>5, <3>2, <4>3 DEF FillFile, VersionInv
      <4> QED
        BY <3>1, <4>3, <4>4 DEF VersionInv, Quiet, Writing, InCall
    <3>3. CASE file[c] # "meta"
      <4>1. disk'["meta"] = disk["meta"] /\ granted' = granted /\ ~regranted'
        BY <2>5, <3>3 DEF FillFile, Typed, VersionInv, Files
      <4> QED
        BY <3>1, <4>1 DEF VersionInv, Quiet, Writing, InCall
    <3> QED
      BY <3>2, <3>3
  <2>6. CASE FillFileFails(c)
    <3>1. Quiet'
      BY <2>6, AnswerFrame DEF FillFileFails, InCall
    <3>2. disk'["meta"] = disk["meta"] /\ UNCHANGED <<granted, regranted>>
      BY <2>6, StoppedTyped DEF FillFileFails, Stopped, Files
    <3> QED
      BY <3>1, <3>2 DEF VersionInv, Quiet, Writing, InCall
  <2>8. CASE RemoveDeltas(c)
    <3>1. disk'["meta"] = disk["meta"]
      BY <2>8, RemoveTyped DEF RemoveDeltas, Files
    <3> QED
      BY <2>8, <3>1 DEF RemoveDeltas, clients, history, VersionInv, Writing
  <2>9. CASE DeleteFile(c)
    <3>1. pc[c] \in InCall /\ \A d \in Clients : ~Writing(d)'
      BY <2>9, DeleteIsAlone
    <3>2. disk'["meta"] = IF Head(todo[c]) = "meta" THEN 0 ELSE disk["meta"]
      BY <2>9, RemoveTyped, MissingFiles DEF DeleteFile, Files
    <3> QED
      BY <2>9, <3>1, <3>2 DEF DeleteFile, NextFile, VersionInv
  <2>10. CASE PassFile(c)
    <3>1. \A d \in Clients : ~Writing(d)'
      BY <2>10, DeleteIsAlone
    <3> QED
      BY <2>10, <3>1 DEF PassFile, NextFile, VersionInv
  <2>11. CASE Close(c)
    BY <2>11, EndFrame DEF Close, history, VersionInv, Writing, InCall
  <2>12. CASE Crash(c)
    <3>1. \A d \in Clients : ~Writing(d)'
      BY <2>12, CrashFrame DEF Writing
    <3>2. disk'["meta"] = disk["meta"] /\ UNCHANGED <<granted, regranted>>
      BY <2>12, CrashFrame, StoppedTyped DEF Stopped, Files
    <3> QED
      BY <3>1, <3>2 DEF VersionInv
  <2> QED
    BY <1>2, <2>2, <2>3, <2>4, <2>5, <2>6, <2>8, <2>9, <2>10, <2>11, <2>12
    DEF Step
<1> QED
  BY <1>1, <1>2 DEF Next

\* SaveMetadata of one store value grants each version once, whatever file a
\* crash has torn.
THEOREM VersionOnce == ASSUME Shared PROVE Spec => []VersionGrantedOnce
<1> DEFINE Inv == Typed /\ OneCall /\ VersionInv
<1>1. Init => Inv
  BY InitTyped DEF Init, OneCall, VersionInv, Writing, InCall
<1>2. Inv /\ [Next]_vars => Inv'
  BY StepTyped, StepOneCall, StepVersion
<1>3. Inv => VersionGrantedOnce
  BY DEF VersionInv, VersionGrantedOnce
<1> QED
  BY <1>1, <1>2, <1>3, PTL DEF Spec

(***************************************************************************)
(* Torn files.                                                             *)
(***************************************************************************)

\* A file is torn while it is being written, and deltas and log that stay torn
\* are lost.
TornInv ==
    /\ \A c \in Clients : pc[c] = "write" => file[c] \in torn
    /\ \A f \in {"deltas", "oplog"} : f \in torn /\ Settled(f) => disk[f] = Missing[f]

\* A step that writes nothing, tears nothing and does not touch deltas and log.
LEMMA TornFrame ==
    ASSUME TornInv, torn' \subseteq torn,
           \A f \in {"deltas", "oplog"} :
               f \in torn' => disk'[f] \in {disk[f], Missing[f]},
           \A d \in Clients : pc[d] # "write" /\ pc'[d] # "write"
    PROVE  TornInv'
BY DEF TornInv, Settled

LEMMA StepTorn ==
    ASSUME Shared, Typed, OneCall, TornInv, [Next]_vars
    PROVE  TornInv'
<1>1. CASE UNCHANGED vars
  BY <1>1 DEF vars, TornInv, Settled
<1>2. ASSUME NEW c \in Clients, Step(c) PROVE TornInv'
  <2>1. ASSUME NEW f \in Files, NEW content, WillWrite(c, f, content)
        PROVE  TornInv'
    BY <2>1, WillWriteFrame, TornFrame DEF Quiet, InCall
  <2>2. CASE Open(c) \/ BeginDelete(c)
    <3>1. \A d \in Clients : pc[d] # "write" /\ pc'[d] # "write"
      BY <2>2 DEF Open, BeginDelete, MutexFree, GoTo, Typed, InCall
    <3>2. UNCHANGED <<disk, torn>>
      BY <2>2 DEF Open, BeginDelete
    <3> QED
      BY <3>1, <3>2, TornFrame
  <2>3. CASE TruncateFile(c)
    <3>1. /\ torn' = torn \cup {file[c]} /\ UNCHANGED <<disk, file>>
          /\ \A d \in Clients : pc'[d] = "write" <=> d = c
      BY <2>3 DEF TruncateFile, GoTo, Typed, OneCall, InCall
    <3>2. \A d \in Clients : pc[d] # "write"
      BY <2>3 DEF TruncateFile, OneCall, InCall
    <3> QED
      BY <3>1, <3>2 DEF TornInv, Settled
  <2>4. CASE FillFile(c) \/ FillFileFails(c)
    <3>1. \A d \in Clients : pc'[d] # "write" /\ (pc[d] = "write" => d = c)
      BY <2>4, AnswerFrame DEF FillFile, FillFileFails, OneCall, Quiet, InCall
    <3>2. file[c] \in torn
      BY <2>4 DEF FillFile, FillFileFails, TornInv
    <3>3. CASE FillFile(c)
      <4>1. /\ torn' = torn \ {file[c]}
            /\ \A f \in Files : f # file[c] => disk'[f] = disk[f]
        BY <3>2, <3>3 DEF FillFile, Typed
      <4> QED
        BY <3>1, <4>1 DEF TornInv, Settled, Files
    <3>4. CASE FillFileFails(c)
      <4>1. /\ torn' = torn
            /\ \A f \in Files : f # "meta" =>
                  disk'[f] = IF f = file[c] THEN Missing[f] ELSE disk[f]
        BY <3>4, StoppedTyped DEF FillFileFails, Stopped
      <4> QED
        BY <3>1, <4>1 DEF TornInv, Settled, Files
    <3> QED
      BY <2>4, <3>3, <3>4
  <2>5. CASE RemoveDeltas(c)
    <3>1. \A d \in Clients : pc[d] # "write" /\ pc'[d] # "write"
      BY <2>5 DEF RemoveDeltas, MayCall, MutexFree, clients, InCall
    <3>2. /\ torn' \subseteq torn
          /\ \A f \in Files : disk'[f] \in {disk[f], Missing[f]}
      BY <2>5, RemoveTyped DEF RemoveDeltas, RemoveFile
    <3> QED
      BY <3>1, <3>2, TornFrame DEF Files
  <2>6. CASE DeleteFile(c) \/ PassFile(c)
    <3>1. \A d \in Clients : pc[d] # "write" /\ pc'[d] # "write"
      BY <2>6 DEF DeleteFile, PassFile, NextFile, GoTo, Typed, OneCall, InCall
    <3>2. /\ torn' \subseteq torn
          /\ \A f \in Files : disk'[f] \in {disk[f], Missing[f]}
      BY <2>6, RemoveTyped DEF DeleteFile, PassFile, RemoveFile
    <3> QED
      BY <3>1, <3>2, TornFrame DEF Files
  <2>7. CASE Close(c)
    <3>1. /\ \A d \in Clients : pc'[d] = "write" <=> pc[d] = "write"
          /\ \A d \in Clients : d # c => file'[d] = file[d]
          /\ pc[c] # "write" /\ UNCHANGED <<disk, torn>>
      BY <2>7 DEF Close, End
    <3> QED
      BY <3>1 DEF TornInv, Settled
  <2>8. CASE Crash(c)
    <3> DEFINE F == {file[d] : d \in {e \in Clients : pc[e] = "write"}}
    <3>1. /\ UNCHANGED torn
          /\ \A d \in Clients : pc'[d] = "closed"
          /\ \A f \in Files : f # "meta" =>
                disk'[f] = IF f \in F THEN Missing[f] ELSE disk[f]
      BY <2>8, CrashFrame, StoppedTyped DEF Stopped
    <3>2. \A f : f \notin F => Settled(f)
      BY DEF Settled
    <3> HIDE DEF F
    <3> QED
      BY <3>1, <3>2 DEF TornInv, Files
  <2> QED
    BY <1>2, <2>1, <2>2, <2>3, <2>4, <2>5, <2>6, <2>7, <2>8
    DEF Step, SaveSnapshot, AddDeltas, AppendOplog, CutOplog, Swap, StoreWasm,
        Files
<1> QED
  BY <1>1, <1>2 DEF Next

\* A call that begins finds in deltas and log what `disk` says.
LEMMA ReadsDisk ==
    ASSUME Quiet, TornInv, NEW f \in {"deltas", "oplog"}
    PROVE  ReadOrEmpty(f) = disk[f]
BY DEF Quiet, TornInv, Settled, ReadOrEmpty, Readable, InCall

(***************************************************************************)
(* What a call is about to write follows from what is on disk.             *)
(***************************************************************************)
DeltasPending(c) ==
    \E p \in Pages, content \in Contents :
        new[c]["deltas"] = [disk["deltas"] EXCEPT ![p] = content]

LogPending(c) ==
    \/ \E index \in Indices :
          new[c]["oplog"] = disk["oplog"] \cup {NewEntry(disk["oplog"], index)}
    \/ \E before \in 0 .. MaxIndex :
          new[c]["oplog"] = {e \in disk["oplog"] : e.index > before}

PendingInv ==
    /\ acked \subseteq disk["oplog"]
    /\ \A c \in Clients : Writing(c) /\ file[c] = "deltas" => DeltasPending(c)
    /\ \A c \in Clients : Writing(c) /\ file[c] = "oplog" =>
          LogPending(c) /\ acked \subseteq new[c]["oplog"]

LEMMA StepPending ==
    ASSUME Shared, Typed, OneCall, TornInv, PendingInv, [Next]_vars
    PROVE  PendingInv'
<1>1. CASE UNCHANGED vars
  BY <1>1 DEF vars, PendingInv, Writing, DeltasPending, LogPending
<1>2. ASSUME NEW c \in Clients, Step(c) PROVE PendingInv'
  <2>0. ASSUME UNCHANGED <<disk, acked>>,
               \A d \in Clients : Writing(d)' =>
                   Writing(d) /\ file'[d] = file[d] /\ new'[d] = new[d]
        PROVE  PendingInv'
    BY <2>0 DEF PendingInv, DeltasPending, LogPending
  <2>1. ASSUME NEW f \in Files, NEW content, WillWrite(c, f, content),
               f \notin {"deltas", "oplog"}, UNCHANGED acked
        PROVE  PendingInv'
    <3>1. \A d \in Clients : Writing(d)' => d = c
      BY <2>1, WillWriteFrame DEF Quiet, Writing, InCall
    <3>2. file'[c] = f /\ UNCHANGED disk
      BY <2>1, WillWriteFrame
    <3> QED
      BY <2>1, <3>1, <3>2 DEF PendingInv
  <2>2. CASE \/ \E content \in Contents : SaveSnapshot(c, [p \in Pages |-> content])
             \/ Swap(c)
             \/ StoreWasm(c)
    BY <2>1, <2>2 DEF SaveSnapshot, Swap, StoreWasm, Files
  <2>3. ASSUME NEW p \in Pages, NEW content \in Contents, AddDeltas(c, p, content)
        PROVE  PendingInv'
    <3> DEFINE wanted == [ReadOrEmpty("deltas") EXCEPT ![p] = content]
    <3>1. WillWrite(c, "deltas", wanted) /\ UNCHANGED acked /\ "deltas" \in Files
      BY <2>3 DEF AddDeltas, Files
    <3> HIDE DEF wanted
    <3>2. /\ Quiet /\ UNCHANGED disk /\ file'[c] = "deltas"
          /\ new'[c]["deltas"] = wanted
          /\ \A d \in Clients : Writing(d)' => d = c
      BY <3>1, WillWriteFrame DEF Quiet, Writing, InCall
    <3>3. wanted = [disk["deltas"] EXCEPT ![p] = content]
      BY <3>2, ReadsDisk DEF wanted
    <3>4. DeltasPending(c)'
      BY <3>2, <3>3 DEF DeltasPending
    <3> QED
      BY <3>1, <3>2, <3>4 DEF PendingInv
  <2>4. ASSUME NEW index \in Indices, AppendOplog(c, index) PROVE PendingInv'
    <3> DEFINE list   == ReadOrEmpty("oplog")
               wanted == list \cup {NewEntry(list, index)}
    <3>1. WillWrite(c, "oplog", wanted) /\ UNCHANGED acked /\ "oplog" \in Files
      BY <2>4 DEF AppendOplog, Files
    <3> HIDE DEF wanted
    <3>2. /\ Quiet /\ UNCHANGED disk /\ file'[c] = "oplog"
          /\ new'[c]["oplog"] = wanted
          /\ \A d \in Clients : Writing(d)' => d = c
      BY <3>1, WillWriteFrame DEF Quiet, Writing, InCall
    <3>3. wanted = disk["oplog"] \cup {NewEntry(disk["oplog"], index)}
      BY <3>2, ReadsDisk DEF wanted
    <3>4. LogPending(c)'
      BY <3>2, <3>3 DEF LogPending
    <3>5. acked \subseteq wanted
      BY <3>3 DEF PendingInv
    <3> QED
      BY <3>1, <3>2, <3>4, <3>5 DEF PendingInv
  <2>5. ASSUME NEW before \in 0 .. MaxIndex, CutOplog(c, before) PROVE PendingInv'
    <3> DEFINE wanted == {e \in disk["oplog"] : e.index > before}
    <3>1. /\ WillWrite(c, "oplog", wanted) /\ "oplog" \in Files
          /\ acked' = {e \in acked : e.index > before}
      BY <2>5 DEF CutOplog, Files
    <3>2. acked' \subseteq wanted /\ acked' \subseteq disk["oplog"]
      BY <3>1 DEF PendingInv
    <3> HIDE DEF wanted
    <3>3. /\ UNCHANGED disk /\ file'[c] = "oplog"
          /\ new'[c]["oplog"] = wanted
          /\ \A d \in Clients : Writing(d)' => d = c
      BY <3>1, WillWriteFrame DEF Quiet, Writing, InCall
    <3>4. LogPending(c)'
      BY <3>3 DEF LogPending, wanted
    <3> QED
      BY <3>2, <3>3, <3>4 DEF PendingInv
  <2>6. CASE Open(c) \/ BeginDelete(c) \/ TruncateFile(c)
    <3>1. UNCHANGED <<disk, file, new, history>>
      BY <2>6 DEF Open, BeginDelete, TruncateFile
    <3>2. \A d \in Clients : Writing(d)' => Writing(d)
      BY <2>6 DEF Open, BeginDelete, TruncateFile, GoTo, Typed, Writing
    <3> QED
      BY <2>0, <3>1, <3>2 DEF history
  <2>7. CASE FillFile(c)
    <3>1. \A d \in Clients : ~Writing(d)'
      BY <2>7, AnswerFrame DEF FillFile, Quiet, Writing, InCall
    <3>2. CASE file[c] = "oplog"
      <4>1. disk'["oplog"] = new[c]["oplog"] /\ acked' = acked \cup new[c]["oplog"]
        BY <2>7, <3>2 DEF FillFile, Typed, Files
      <4>2. acked \subseteq new[c]["oplog"]
        BY <2>7, <3>2 DEF FillFile, PendingInv, Writing
      <4> QED
        BY <3>1, <4>1, <4>2 DEF PendingInv
    <3>3. CASE file[c] # "oplog"
      <4>1. disk'["oplog"] = disk["oplog"] /\ acked' = acked
        BY <2>7, <3>3 DEF FillFile, Typed, Files
      <4> QED
        BY <3>1, <4>1 DEF PendingInv
    <3> QED
      BY <3>2, <3>3
  <2>8. CASE FillFileFails(c)
    <3>1. \A d \in Clients : ~Writing(d)'
      BY <2>8, AnswerFrame DEF FillFileFails, Quiet, Writing, InCall
    <3>2. acked' = {} \/ (disk'["oplog"] = disk["oplog"] /\ acked' = acked)
      BY <2>8, StoppedTyped DEF FillFileFails, Stopped, Files
    <3> QED
      BY <3>1, <3>2 DEF PendingInv
  <2>10. CASE RemoveDeltas(c)
    <3>1. disk'["oplog"] = disk["oplog"] /\ UNCHANGED acked
      BY <2>10, RemoveTyped DEF RemoveDeltas, history, Files
    <3>2. \A d \in Clients : ~Writing(d)'
      BY <2>10 DEF RemoveDeltas, MayCall, MutexFree, clients, Writing, InCall
    <3> QED
      BY <3>1, <3>2 DEF PendingInv
  <2>11. CASE DeleteFile(c)
    <3>1. \A d \in Clients : ~Writing(d)'
      BY <2>11, DeleteIsAlone
    <3>2. /\ Head(todo[c]) = "oplog" => acked' = {}
          /\ Head(todo[c]) # "oplog" =>
                disk'["oplog"] = disk["oplog"] /\ acked' = acked
      BY <2>11, RemoveTyped DEF DeleteFile, Files
    <3> QED
      BY <3>1, <3>2 DEF PendingInv
  <2>12. CASE PassFile(c)
    <3>1. \A d \in Clients : ~Writing(d)'
      BY <2>12, DeleteIsAlone
    <3> QED
      BY <2>0, <2>12, <3>1 DEF PassFile
  <2>13. CASE Close(c)
    BY <2>0, <2>13, EndFrame DEF Close, history, Writing, InCall
  <2>14. CASE Crash(c)
    <3>1. \A d \in Clients : ~Writing(d)'
      BY <2>14, CrashFrame DEF Writing
    <3>2. acked' = {} \/ (disk'["oplog"] = disk["oplog"] /\ acked' = acked)
      BY <2>14, CrashFrame, StoppedTyped DEF Stopped, Files
    <3> QED
      BY <3>1, <3>2 DEF PendingInv
  <2> QED
    BY <1>2, <2>2, <2>3, <2>4, <2>5, <2>6, <2>7, <2>8, <2>10, <2>11, <2>12,
       <2>13, <2>14
    DEF Step
<1> QED
  BY <1>1, <1>2 DEF Next

\* The invariant of one store value.
StoreInv == Typed /\ OneCall /\ VersionInv /\ TornInv /\ PendingInv

LEMMA InitStore == Init => StoreInv
BY InitTyped, MissingFiles
DEF Init, StoreInv, OneCall, VersionInv, TornInv, Settled, PendingInv, Writing, InCall

LEMMA StepStore ==
    ASSUME Shared, StoreInv, [Next]_vars
    PROVE  StoreInv'
BY StepTyped, StepOneCall, StepVersion, StepTorn, StepPending DEF StoreInv

\* What SaveOplog has acknowledged can be read back until it is truncated, the
\* instance deleted or the rewriting of the log stopped halfway.
THEOREM AckedStays == ASSUME Shared PROVE Spec => []AckedIsStored
<1>1. StoreInv => AckedIsStored
  <2> SUFFICES ASSUME StoreInv, Settled("oplog") PROVE acked \subseteq LoadOplog
    BY DEF AckedIsStored
  <2>1. LoadOplog = disk["oplog"]
    BY MissingFiles DEF StoreInv, TornInv, Settled, LoadOplog, Readable
  <2> QED
    BY <2>1 DEF StoreInv, PendingInv
<1>2. StoreInv /\ [Next]_vars => StoreInv'
  BY StepStore
<1> QED
  BY <1>1, <1>2, InitStore, PTL DEF Spec

(***************************************************************************)
(* Refinement: a call takes effect when its file is filled, whose old      *)
(* content `disk` keeps until then; if the writing stops before, it loses  *)
(* the record.                                                             *)
(***************************************************************************)
Deleting == \E c \in Clients : pc[c] = "delete"

\* A step into no Delete and out of none leaves Deleting alone.
LEMMA DeletingUnchanged ==
    ASSUME NEW c \in Clients, pc[c] # "delete", pc'[c] # "delete",
           \A d \in Clients : d # c => pc'[d] = pc[d]
    PROVE  Deleting' = Deleting
BY DEF Deleting

\* Nobody writes a record.
LEMMA NoRecordWritten ==
    ASSUME \A d \in Clients : pc[d] # "write"
    PROVE  RecordsWritten = {}
BY DEF RecordsWritten

\* One client at most writes one.
LEMMA OneRecordWritten ==
    ASSUME Typed, OneCall, NEW c \in Clients, pc[c] = "write"
    PROVE  RecordsWritten = IF file[c] \in {"bin", "deltas", "oplog"}
                              THEN {Record[file[c]]} ELSE {}
<1>1. \A d \in Clients : pc[d] = "write" <=> d = c
  BY DEF OneCall, InCall
<1>2. DOMAIN Record = {"bin", "deltas", "oplog"}
  BY DEF Record
<1> QED
  BY <1>1, <1>2 DEF RecordsWritten

\* A step after which nobody writes begins no writing.
LEMMA WritingEnds ==
    ASSUME \A d \in Clients : pc'[d] # "write"
    PROVE  Records!NothingBegins
BY DEF Records!NothingBegins, RecordsWritten

\* The four records as the files have them.
Untouched(files) == \A f \in {"meta", "bin", "deltas", "oplog"} \ files : disk'[f] = disk[f]

\* A file that is being written is lost when the writing stops.
LEMMA StoppedRefines ==
    ASSUME StoreInv, NEW c \in Clients, pc[c] = "write", Stopped({file[c]}),
           Deleting' = Deleting, \A d \in Clients : pc'[d] # "write"
    PROVE  [Records!Next]_(Records!vars)
<1>0. Typed /\ OneCall
  BY DEF StoreInv
<1>1. \A f \in Files : disk'[f] = IF f = file[c] /\ f # "meta" THEN Missing[f]
                                                            ELSE disk[f]
  BY <1>0, StoppedTyped
<1>2. RecordsWritten = (IF file[c] \in {"bin", "deltas", "oplog"}
                          THEN {Record[file[c]]} ELSE {}) /\ RecordsWritten' = {}
  BY <1>0, OneRecordWritten DEF RecordsWritten
<1>3. Records!NothingBegins
  BY WritingEnds
<1>4. Records!Nothing(Pages) = Nothing(Pages)
  BY DEF Nothing, Absent, Records!Nothing, Records!Absent
<1>5. Untouched({file[c]}) /\ disk'["meta"] = disk["meta"]
  BY <1>1 DEF Untouched, Files
<1>6. CASE file[c] = "bin"
  <2>1. disk'["bin"] = Nothing(Pages) /\ "snapshot" \in RecordsWritten
    BY <1>1, <1>2, <1>6, MissingFiles DEF Files, Record
  <2>2. Records!Lose("snapshot")
    BY <1>3, <1>4, <1>5, <1>6, <2>1 DEF Untouched, Records!Lose, Deleting
  <2> QED
    BY <2>2 DEF Records!Next
<1>7. CASE file[c] = "deltas"
  <2>1. disk'["deltas"] = Nothing(Pages) /\ "deltas" \in RecordsWritten
    BY <1>1, <1>2, <1>7, MissingFiles DEF Files, Record
  <2>2. Records!Lose("deltas")
    BY <1>3, <1>4, <1>5, <1>7, <2>1 DEF Untouched, Records!Lose, Deleting
  <2> QED
    BY <2>2 DEF Records!Next
<1>8. CASE file[c] = "oplog"
  <2>1. disk'["oplog"] = {} /\ "log" \in RecordsWritten
    BY <1>1, <1>2, <1>8, MissingFiles DEF Files, Record
  <2>2. Records!Lose("log")
    BY <1>3, <1>4, <1>5, <1>8, <2>1 DEF Untouched, Records!Lose, Deleting
  <2> QED
    BY <2>2 DEF Records!Next
<1>9. CASE file[c] \notin {"bin", "deltas", "oplog"}
  <2>1. UNCHANGED RecordsWritten
    BY <1>2, <1>9
  <2> QED
    BY <1>5, <1>9, <2>1 DEF Untouched, Records!vars, Deleting
<1> QED
  BY <1>6, <1>7, <1>8, <1>9

LEMMA FillRefines ==
    ASSUME StoreInv, NEW c \in Clients, FillFile(c)
    PROVE  [Records!Next]_(Records!vars)
<1> DEFINE f == file[c]
<1>0. Typed /\ OneCall /\ VersionInv /\ PendingInv /\ Writing(c)
  BY DEF StoreInv, FillFile, Writing
<1>1. Deleting' = Deleting
  BY <1>0, AnswerFrame, DeletingUnchanged DEF FillFile, InCall
<1>2. \A g \in Files : disk'[g] = IF g = f THEN new[c][g] ELSE disk[g]
  BY <1>0 DEF FillFile, Typed
<1>3. f \in Files
  BY <1>0 DEF Typed
<1>a. Quiet'
  BY <1>0, AnswerFrame DEF FillFile, InCall
<1>b. Records!NothingBegins
  BY <1>a, WritingEnds DEF Quiet, InCall
<1>c. f \notin {"bin", "deltas", "oplog"} => UNCHANGED RecordsWritten
  <2>1. pc[c] = "write" /\ RecordsWritten' = {}
    BY <1>a, NoRecordWritten DEF FillFile, Quiet, InCall, RecordsWritten
  <2> QED
    BY <1>0, <2>1, OneRecordWritten
<1> HIDE DEF f
<1>4. CASE f = "meta"
  <2>1. disk'["meta"] = disk["meta"] + 1
    BY <1>0, <1>2, <1>4 DEF VersionInv, f, Files
  <2>2. /\ disk'["bin"] = disk["bin"] /\ disk'["deltas"] = disk["deltas"]
        /\ disk'["oplog"] = disk["oplog"]
    BY <1>2, <1>4 DEF Files
  <2>3. Records!Advance(disk["meta"])
    BY <1>1, <1>b, <2>1, <2>2
    DEF Records!Advance, Records!NextVersion, Records!SaveMetadataAccepts, Deleting
  <2> QED
    BY <2>3 DEF Records!Next
<1>5. CASE f = "bin"
  <2>1. new[c]["bin"] \in Records!Memory
    BY <1>0 DEF Typed, Memory, Absent, Records!Memory, Records!Absent
  <2>2. /\ disk'["meta"] = disk["meta"] /\ disk'["bin"] = new[c]["bin"]
        /\ disk'["deltas"] = disk["deltas"] /\ disk'["oplog"] = disk["oplog"]
    BY <1>2, <1>5 DEF Files
  <2>3. Records!Replace(new[c]["bin"])
    BY <1>1, <1>b, <2>2 DEF Records!Replace, Records!Save, Deleting
  <2> QED
    BY <2>1, <2>3 DEF Records!Next
<1>6. CASE f = "deltas"
  <2>1. PICK p \in Pages, content \in Contents :
             new[c]["deltas"] = [disk["deltas"] EXCEPT ![p] = content]
    BY <1>0, <1>6 DEF PendingInv, DeltasPending, f
  <2> DEFINE dirty == [Nothing(Pages) EXCEPT ![p] = content]
  <2>2. dirty \in Records!Memory
    BY DEF Records!Memory, Records!Absent, Nothing, Absent
  <2>3. disk["deltas"] \in Memory /\ content # Absent
    BY <1>0, ContentsAssumption DEF Typed, Absent
  <2>4. [disk["deltas"] EXCEPT ![p] = content] = Records!SaveDeltas(disk["deltas"], dirty)
    BY <2>3
    DEF Memory, Nothing, Absent, Records!SaveDeltas, Records!Overlay, Records!Absent
  <2>5. /\ disk'["meta"] = disk["meta"] /\ disk'["bin"] = disk["bin"]
        /\ disk'["deltas"] = new[c]["deltas"] /\ disk'["oplog"] = disk["oplog"]
    BY <1>2, <1>6 DEF Files
  <2>6. Records!Add(disk["deltas"], dirty)
    BY <1>1, <1>b, <2>1, <2>4, <2>5 DEF Records!Add, Deleting
  <2> QED
    BY <2>2, <2>6 DEF Records!Next
<1>7. CASE f = "oplog"
  <2>1. LogPending(c)
    BY <1>0, <1>7 DEF PendingInv, f
  <2>2. /\ disk'["meta"] = disk["meta"] /\ disk'["bin"] = disk["bin"]
        /\ disk'["deltas"] = disk["deltas"] /\ disk'["oplog"] = new[c]["oplog"]
    BY <1>2, <1>7 DEF Files
  <2>3. ASSUME NEW index \in Indices,
               new[c]["oplog"] = disk["oplog"] \cup {NewEntry(disk["oplog"], index)}
        PROVE  Records!Next
    <3>1. new[c]["oplog"] = Records!SaveOplog(disk["oplog"], index, "call", "answer")
      BY <2>3 DEF NewEntry, Records!SaveOplog, Max, Records!Max
    <3>2. Records!Append(disk["oplog"], index, "call", "answer")
      BY <1>1, <1>b, <2>2, <3>1 DEF Records!Append, Deleting
    <3> QED
      BY <3>2 DEF Records!Next
  <2>4. ASSUME NEW before \in 0 .. MaxIndex,
               new[c]["oplog"] = {e \in disk["oplog"] : e.index > before}
        PROVE  Records!Next
    <3>1. Records!Cut(disk["oplog"], before)
      BY <1>1, <1>b, <2>2, <2>4 DEF Records!Cut, Records!TruncateOplog, Deleting
    <3>2. before \in Indices \cup {0}
      BY BoundsAssumption DEF Indices
    <3> QED
      BY <3>1, <3>2 DEF Records!Next
  <2> QED
    BY <2>1, <2>3, <2>4 DEF LogPending
<1>8. CASE f = "wasm"
  <2>1. /\ disk'["meta"] = disk["meta"] /\ disk'["bin"] = disk["bin"]
        /\ disk'["deltas"] = disk["deltas"] /\ disk'["oplog"] = disk["oplog"]
    BY <1>2, <1>8 DEF Files
  <2> QED
    BY <1>1, <1>c, <1>8, <2>1 DEF Records!vars, Deleting
<1> QED
  BY <1>3, <1>4, <1>5, <1>6, <1>7, <1>8 DEF Files

LEMMA StepRefines ==
    ASSUME Shared, StoreInv, [Next]_vars
    PROVE  [Records!Next]_(Records!vars)
<1>0. Typed /\ OneCall
  BY DEF StoreInv
<1>1. CASE UNCHANGED vars
  BY <1>1 DEF vars, Records!vars, RecordsWritten
<1>2. ASSUME NEW c \in Clients, Step(c) PROVE [Records!Next]_(Records!vars)
  <2>0. ASSUME UNCHANGED disk, Deleting' = Deleting,
               \A d \in Clients : pc[d] # "write" /\ pc'[d] # "write"
        PROVE  [Records!Next]_(Records!vars)
    <3>1. UNCHANGED RecordsWritten
      BY <2>0 DEF RecordsWritten
    <3> QED
      BY <2>0, <3>1 DEF Records!vars, Deleting
  <2>1. ASSUME NEW f \in Files, NEW content, WillWrite(c, f, content)
        PROVE  [Records!Next]_(Records!vars)
    <3>1. UNCHANGED disk /\ Deleting' = Deleting
      BY <1>0, <2>1, WillWriteFrame, DeletingUnchanged
    <3>2. \A d \in Clients : pc[d] # "write" /\ pc'[d] # "write"
      BY <1>0, <2>1, WillWriteFrame DEF Quiet, InCall
    <3> QED
      BY <2>0, <3>1, <3>2
  <2>2. CASE Open(c)
    <3>1. UNCHANGED disk /\ Deleting' = Deleting
      BY <1>0, <2>2, DeletingUnchanged DEF Open, GoTo, Typed
    <3>2. \A d \in Clients : pc[d] # "write" /\ pc'[d] # "write"
      BY <1>0, <2>2 DEF Open, MutexFree, GoTo, Typed, InCall
    <3> QED
      BY <2>0, <3>1, <3>2
  <2>3. CASE TruncateFile(c)
    <3>1. /\ UNCHANGED <<disk, file>> /\ Deleting' = Deleting
          /\ pc'[c] = "write" /\ OneCall' /\ Typed'
      BY <1>0, <1>2, <2>3, DeletingUnchanged, StepTyped, StepOneCall
      DEF TruncateFile, GoTo, Typed, Next
    <3>2. RecordsWritten = {}
      BY <2>3, <1>0, NoRecordWritten DEF TruncateFile, OneCall, InCall
    <3>3. RecordsWritten' = IF file[c] \in {"bin", "deltas", "oplog"}
                              THEN {Record[file[c]]} ELSE {}
      <4>1. \A d \in Clients : pc'[d] = "write" <=> d = c
        BY <3>1 DEF OneCall, InCall
      <4>2. DOMAIN Record = {"bin", "deltas", "oplog"}
        BY DEF Record
      <4> QED
        BY <3>1, <4>1, <4>2 DEF RecordsWritten
    <3>4. CASE file[c] \in {"bin", "deltas", "oplog"}
      <4>1. Records!Begin(Record[file[c]])
        BY <3>1, <3>2, <3>3, <3>4 DEF Records!Begin, Deleting
      <4>2. Record[file[c]] \in {"snapshot", "deltas", "log"}
        BY <3>4 DEF Record
      <4> QED
        BY <4>1, <4>2 DEF Records!Next
    <3>5. CASE file[c] \notin {"bin", "deltas", "oplog"}
      BY <3>1, <3>2, <3>3, <3>5 DEF Records!vars, Deleting
    <3> QED
      BY <3>4, <3>5
  <2>4. CASE FillFile(c)
    BY <2>4, FillRefines
  <2>5. CASE FillFileFails(c)
    <3>1. Quiet' /\ Deleting' = Deleting
      BY <1>0, <2>5, AnswerFrame, DeletingUnchanged DEF FillFileFails, InCall
    <3> QED
      BY <2>5, <3>1, StoppedRefines DEF FillFileFails, Quiet, InCall
  <2>6. CASE RemoveDeltas(c)
    <3>1. Records!TruncateDeltas(disk["deltas"]) = Nothing(Pages)
      BY <1>0
      DEF Typed, Memory, Nothing, Absent, Records!TruncateDeltas, Records!Nothing,
          Records!Absent
    <3>2. /\ disk'["meta"] = disk["meta"] /\ disk'["bin"] = disk["bin"]
          /\ disk'["deltas"] = Nothing(Pages) /\ disk'["oplog"] = disk["oplog"]
      BY <1>0, <2>6, RemoveTyped, MissingFiles DEF RemoveDeltas, Files
    <3>3. Deleting' = Deleting /\ \A d \in Clients : pc'[d] # "write"
      BY <2>6 DEF RemoveDeltas, MayCall, MutexFree, clients, Deleting, InCall
    <3>4. Records!Clear
      BY <3>1, <3>2, <3>3, WritingEnds DEF Records!Clear, Deleting
    <3> QED
      BY <3>4 DEF Records!Next
  <2>7. CASE BeginDelete(c)
    <3>1. ~Deleting /\ UNCHANGED disk
      BY <2>7 DEF BeginDelete, MutexFree, InCall, Deleting
    <3>2. Deleting' /\ \A d \in Clients : pc'[d] # "write"
      BY <1>0, <2>7 DEF BeginDelete, MutexFree, GoTo, Typed, Deleting, InCall
    <3>3. Records!BeginDelete
      BY <3>1, <3>2, WritingEnds DEF Records!BeginDelete, Deleting
    <3> QED
      BY <3>3 DEF Records!Next
  <2>8. CASE DeleteFile(c) \/ PassFile(c)
    <3>1. Deleting /\ Deleting' \in BOOLEAN
      BY <2>8 DEF DeleteFile, PassFile, Deleting
    <3>2. /\ disk'["meta"] \in {disk["meta"], 0}
          /\ disk'["bin"] \in {disk["bin"], Nothing(Pages)}
          /\ disk'["deltas"] \in {disk["deltas"], Nothing(Pages)}
          /\ disk'["oplog"] \in {disk["oplog"], {}}
      BY <1>0, <2>8, RemoveTyped, MissingFiles DEF DeleteFile, PassFile, Files
    <3>3. \A d \in Clients : pc'[d] # "write"
      BY <1>0, <2>8, DeleteIsAlone DEF Writing
    <3>4. Records!Forget
      BY <3>1, <3>2, <3>3, WritingEnds
      DEF Nothing, Absent, Records!Forget, Records!Nothing, Records!Absent, Deleting
    <3> QED
      BY <3>4 DEF Records!Next
  <2>9. CASE Close(c)
    <3>1. /\ UNCHANGED disk /\ pc[c] # "delete" /\ pc'[c] # "delete"
          /\ \A d \in Clients : d # c => pc'[d] = pc[d] /\ file'[d] = file[d]
          /\ pc[c] # "write" /\ pc'[c] # "write"
      BY <2>9 DEF Close, End
    <3>2. Deleting' = Deleting
      BY <3>1, DeletingUnchanged
    <3>3. UNCHANGED RecordsWritten
      BY <3>1 DEF RecordsWritten
    <3> QED
      BY <3>1, <3>2, <3>3 DEF Records!vars, Deleting
  <2>10. CASE Crash(c)
    <3> DEFINE F == {file[d] : d \in {e \in Clients : pc[e] = "write"}}
    <3>1. ~Deleting' /\ Stopped(F) /\ \A d \in Clients : pc'[d] # "write"
      BY <2>10, CrashFrame DEF Deleting
    <3>2. ASSUME NEW e \in Clients, pc[e] = "write"
          PROVE  [Records!Next]_(Records!vars)
      <4>1. F = {file[e]}
        BY <1>0, <3>2 DEF OneCall, InCall
      <4>2. ~Deleting
        BY <1>0, <3>2 DEF Deleting, OneCall, InCall
      <4>3. Deleting' = Deleting
        BY <3>1, <4>2 DEF Deleting
      <4> QED
        BY <3>1, <3>2, <4>1, <4>3, StoppedRefines
    <3>3. ASSUME \A e \in Clients : pc[e] # "write"
          PROVE  [Records!Next]_(Records!vars)
      <4>1. F = {}
        BY <3>3
      <4>2. UNCHANGED disk
        BY <1>0, <3>1, <4>1 DEF Stopped, Typed
      <4>3. CASE Deleting
        <5>1. Records!Forget
          BY <3>1, <4>2, <4>3, WritingEnds DEF Records!Forget, Deleting
        <5> QED
          BY <5>1 DEF Records!Next
      <4>4. CASE ~Deleting
        <5>1. Deleting' = Deleting
          BY <3>1, <4>4 DEF Deleting
        <5> QED
          BY <2>0, <3>1, <3>3, <4>2, <5>1
      <4> QED
        BY <4>3, <4>4
    <3> QED
      BY <3>2, <3>3
  <2> QED
    BY <1>2, <2>1, <2>2, <2>3, <2>4, <2>5, <2>6, <2>7, <2>8, <2>9, <2>10
    DEF Step, SaveSnapshot, AddDeltas, AppendOplog, CutOplog, Swap, StoreWasm,
        Files
<1> QED
  BY <1>1, <1>2 DEF Next

\* A FileSnapshotStore implements RecordStore, as long as it is the only one over
\* its directory.
THEOREM Refinement == ASSUME Shared PROVE Spec => Implements
<1>1. StoreInv /\ [Next]_vars => StoreInv'
  BY StepStore
<1>2. Init => Records!Init
  BY MissingFiles
  DEF Init, Nothing, Absent, RecordsWritten, Records!Init, Records!Nothing,
      Records!Absent
<1>3. StoreInv /\ [Next]_vars => [Records!Next]_(Records!vars)
  BY StepRefines
<1> QED
  BY <1>1, <1>2, <1>3, InitStore, PTL DEF Spec, Implements, Records!Spec

=============================================================================
