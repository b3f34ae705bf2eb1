---------------------------- MODULE OplogReplay ----------------------------
(***************************************************************************)
(* The operation log: a workflow written with runner.Run, its API calls    *)
(* through host_call_api and host_get_time, and how a restarted session    *)
(* replays what an earlier one recorded.                                   *)
(*                                                                         *)
(* A workflow is a sequence of steps, a step a sequence of calls (the API  *)
(* names); runner.Run executes the steps in order and checkpoints after    *)
(* each.  Its position, currentStep, lives in linear memory and survives a *)
(* restart; which call of the step is next lives on the guest's stack and  *)
(* does not.  A guest that does not use runner.Run and starts over from    *)
(* its first call on each execution does not resume.                       *)
(*                                                                         *)
(* Memory is abstracted to currentStep, saved in one step: Checkpointing   *)
(* is about that save.  A response is identified with the call the handler *)
(* produced it for.                                                        *)
(***************************************************************************)
EXTENDS SnapshotStore, Sequences

CONSTANTS
    Nodes,           \* engines that may execute the instance
    Program,         \* the workflow: a sequence of sequences of API names
    Oversized,       \* calls whose response may exceed the guest's buffer
    SnapshotPeriod,  \* versions between full snapshots; 5 in the code
    MaxVersion,      \* bound: checkpoints taken, over all sessions
    MaxFailures      \* bound: lost sessions and failing calls

Calls  == UNION {{s} \X (1 .. Len(Program[s])) : s \in 1 .. Len(Program)}
Api(c) == Program[c[1]][c[2]]

ASSUME ProgramAssumption == Program \in Seq(Seq(STRING))
ASSUME OversizedAssumption == Oversized \subseteq Calls
ASSUME BoundsAssumption ==
    /\ MaxVersion \in Nat /\ MaxFailures \in Nat
    /\ SnapshotPeriod \in Nat \ {0}

VARIABLES
    \* The guest, the same in every session.
    resumes,    \* whether currentStep is in linear memory
    oversized,  \* calls whose response exceeds its buffer
    \* The store.
    version,    \* InstanceMeta.Version, 0 when there is no record
    saved,      \* currentStep in the stored memory image
    log,        \* the operation log
    \* The session of each node.
    pc,         \* where it stands
    ver,        \* Session.meta.Version
    step,       \* the guest's current step
    call,       \* its next call in that step
    index,      \* Session.callIndex
    \* History, read by the properties only.
    executed,   \* calls a handler has performed
    recorded,   \* calls whose response has been put in the log
    missed,     \* calls whose response was recorded and not found
    misplaced,  \* calls that were given the response of another call
    truncated,  \* whether the log has been truncated
    done,       \* whether run() has returned 0
    failed,     \* whether run() has returned -1
    overlapped, \* whether two sessions have run at once
    failures    \* what the environment has failed so far

guest     == <<resumes, oversized>>
storeVars == <<version, saved, log>>
calls     == <<executed, recorded, missed, misplaced, truncated>>
ends      == <<done, failed, overlapped>>
vars      == <<resumes, oversized, version, saved, log, pc, ver, step, call,
               index, executed, recorded, missed, misplaced, truncated, done,
               failed, overlapped, failures>>

PC == {"idle", "guest", "perform", "record", "save", "truncate"}

IsFullSnapshot(v) == v = 1 \/ (v > 1 /\ v % SnapshotPeriod = 0)

Init ==
    /\ resumes \in BOOLEAN /\ oversized \in {{}, Oversized}
    /\ version = 0 /\ saved = 1 /\ log = {}
    /\ pc = [n \in Nodes |-> "idle"]
    /\ ver = [n \in Nodes |-> 0]
    /\ step = [n \in Nodes |-> 1]
    /\ call = [n \in Nodes |-> 1]
    /\ index = [n \in Nodes |-> 0]
    /\ executed = {} /\ recorded = {} /\ missed = {} /\ misplaced = {}
    /\ truncated = FALSE /\ done = FALSE /\ failed = FALSE
    /\ overlapped = FALSE /\ failures = 0

GoTo(n, where) == pc' = [pc EXCEPT ![n] = where]

\* Something fails that is not the guest's doing.
Fault == failures < MaxFailures /\ failures' = failures + 1

\* A call returns an error to the guest: its step fails and run() returns -1,
\* which ExecuteWithArgs reports as (false, nil), like completion.
GiveUp(n) ==
    /\ GoTo(n, "idle")
    /\ failed' = TRUE
    /\ UNCHANGED <<call, done, overlapped>>

\* The call the guest is about to make or making.
Current(n) == <<step[n], call[n]>>

AtCall(n) ==
    /\ pc[n] = "guest"
    /\ step[n] <= Len(Program)
    /\ call[n] <= Len(Program[step[n]])

\* Mutant of AtCheckpoint: the last call of a step is skipped.
AtCheckpointEarly(n) ==
    /\ pc[n] = "guest"
    /\ step[n] <= Len(Program)
    /\ call[n] >= Len(Program[step[n]])

AtCheckpoint(n) ==
    /\ pc[n] = "guest"
    /\ step[n] <= Len(Program)
    /\ call[n] > Len(Program[step[n]])

(***************************************************************************)
(* ExecuteWithArgs: metadata and memory are loaded; callIndex, which no    *)
(* store keeps, starts from 0.  An instance may be executed again, also    *)
(* while another session of it runs, until its run() has returned 0.       *)
(***************************************************************************)
Start(n) ==
    /\ pc[n] = "idle" /\ ~done
    /\ GoTo(n, "guest")
    /\ ver' = [ver EXCEPT ![n] = version]
    /\ step' = [step EXCEPT ![n] = IF resumes THEN saved ELSE 1]
    /\ call' = [call EXCEPT ![n] = 1]
    /\ index' = [index EXCEPT ![n] = 0]
    /\ overlapped' = (overlapped \/ \E m \in Nodes : pc[m] # "idle")
    /\ UNCHANGED <<guest, storeVars, calls, done, failed, failures>>

(***************************************************************************)
(* host_call_api and host_get_time.                                        *)
(***************************************************************************)

\* Mutant of Matches: the call index is not compared.
MatchesApiOnly(n) == {e \in log : e.api = Api(Current(n))}

\* Mutant of Matches: callIndex is read before it is incremented.
MatchesPreviousIndex(n) ==
    {e \in log : e.index = index[n] /\ e.api = Api(Current(n))}

\* The entries LoadOplog's result is searched for: same index, same API name;
\* the request is not compared.
Matches(n) == {e \in log : e.index = index[n] + 1 /\ e.api = Api(Current(n))}

\* The guest takes a response and goes on to its next call.
Accept(n) ==
    /\ GoTo(n, "guest")
    /\ call' = [call EXCEPT ![n] = @ + 1]
    /\ UNCHANGED ends

\* Mutant of Deliver: the size of the guest's buffer is not looked at.
DeliverTruncated(n) == Accept(n)

\* The response is written to the guest's buffer, if it fits.
Deliver(n) == IF Current(n) \in oversized THEN GiveUp(n) ELSE Accept(n)

\* The first matching entry answers the call.
Replay(n) ==
    /\ AtCall(n)
    /\ \E e \in Matches(n) :
         /\ \A f \in Matches(n) : e.nr <= f.nr
         /\ misplaced' = IF e.response = Current(n) THEN misplaced
                         ELSE misplaced \cup {Current(n)}
    /\ index' = [index EXCEPT ![n] = @ + 1]
    /\ Deliver(n)
    /\ UNCHANGED <<guest, storeVars, ver, step, executed, recorded, missed,
                   truncated, failures>>

\* The log is loaded and has no matching entry.
Search(n) ==
    /\ AtCall(n) /\ Matches(n) = {}
    /\ missed' = missed \cup ({Current(n)} \cap recorded)
    /\ index' = [index EXCEPT ![n] = @ + 1]
    /\ GoTo(n, "perform")
    /\ UNCHANGED <<guest, storeVars, ver, step, call, executed, recorded,
                   misplaced, truncated, ends, failures>>

\* LoadOplog fails: the call goes ahead as if nothing were recorded.
SearchFails(n) ==
    /\ AtCall(n)
    /\ Fault
    /\ index' = [index EXCEPT ![n] = @ + 1]
    /\ GoTo(n, "perform")
    /\ UNCHANGED <<guest, storeVars, ver, step, call, calls, ends>>

\* The handler performs the call; other sessions have gone on since the search.
Perform(n) ==
    /\ pc[n] = "perform"
    /\ executed' = executed \cup {Current(n)}
    /\ GoTo(n, "record")
    /\ UNCHANGED <<guest, storeVars, ver, step, call, index, recorded, missed,
                   misplaced, truncated, ends, failures>>

\* The handler returns an error or nothing.  The time has no handler to fail.
PerformFails(n) ==
    /\ pc[n] = "perform"
    /\ Api(Current(n)) # "host_get_time"
    /\ Fault /\ GiveUp(n)
    /\ UNCHANGED <<guest, storeVars, ver, step, index, calls>>

\* SaveOplog, then the response is handed over.
Record(n) ==
    /\ pc[n] = "record"
    /\ log' = SaveOplog(log, index[n], Api(Current(n)), Current(n))
    /\ recorded' = recorded \cup {Current(n)}
    /\ Deliver(n)
    /\ UNCHANGED <<guest, version, saved, ver, step, index, executed, missed,
                   misplaced, truncated, failures>>

\* SaveOplog fails: host_call_api returns -1, host_get_time only logs it.
RecordFails(n) ==
    /\ pc[n] = "record"
    /\ Fault
    /\ IF Api(Current(n)) = "host_get_time" THEN Deliver(n) ELSE GiveUp(n)
    /\ UNCHANGED <<guest, storeVars, ver, step, index, calls>>

(***************************************************************************)
(* The end of a step: currentStep++ and the checkpoint host function.      *)
(***************************************************************************)
CompareAndSwap(n) ==
    /\ AtCheckpoint(n)
    /\ ver[n] < MaxVersion
    /\ SaveMetadataAccepts(version, ver[n])
    /\ version' = NextVersion(ver[n])
    /\ ver' = [ver EXCEPT ![n] = NextVersion(@)]
    /\ step' = [step EXCEPT ![n] = @ + 1]
    /\ call' = [call EXCEPT ![n] = 1]
    /\ GoTo(n, "save")
    /\ UNCHANGED <<guest, saved, log, index, calls, ends, failures>>

Fenced(n) ==
    /\ AtCheckpoint(n)
    /\ ~SaveMetadataAccepts(version, ver[n])
    /\ GoTo(n, "idle")
    /\ UNCHANGED <<guest, storeVars, ver, step, call, index, calls, ends,
                   failures>>

\* Save or SaveDeltas; a full snapshot above version 1 truncates the log.
SaveMemory(n) ==
    /\ pc[n] = "save"
    /\ saved' = step[n]
    /\ GoTo(n, IF ver[n] > 1 /\ IsFullSnapshot(ver[n]) THEN "truncate"
               ELSE "guest")
    /\ UNCHANGED <<guest, version, log, ver, step, call, index, calls, ends,
                   failures>>

TruncateLog(n) ==
    /\ pc[n] = "truncate"
    /\ log' = TruncateOplog(log, index[n])
    /\ truncated' = TRUE
    /\ GoTo(n, "guest")
    /\ UNCHANGED <<guest, version, saved, ver, step, call, index, executed,
                   recorded, missed, misplaced, ends, failures>>

\* The handler discards TruncateOplog's error.
TruncateLogFails(n) ==
    /\ pc[n] = "truncate"
    /\ GoTo(n, "guest")
    /\ UNCHANGED <<guest, storeVars, ver, step, call, index, calls, ends,
                   failures>>

\* All steps are behind the guest: run() returns 0.
Finish(n) ==
    /\ pc[n] = "guest"
    /\ step[n] > Len(Program)
    /\ done' = TRUE
    /\ GoTo(n, "idle")
    /\ UNCHANGED <<guest, storeVars, ver, step, call, index, calls, failed,
                   overlapped, failures>>

\* The session dies: a trap, a cancelled context, the end of the process.
Crash(n) ==
    /\ pc[n] # "idle"
    /\ Fault
    /\ GoTo(n, "idle")
    /\ UNCHANGED <<guest, storeVars, ver, step, call, index, calls, ends>>

Run(n) ==
    \/ Replay(n)
    \/ Search(n)
    \/ SearchFails(n)
    \/ Perform(n)
    \/ PerformFails(n)
    \/ Record(n)
    \/ RecordFails(n)
    \/ CompareAndSwap(n)
    \/ Fenced(n)
    \/ SaveMemory(n)
    \/ TruncateLog(n)
    \/ TruncateLogFails(n)
    \/ Finish(n)
    \/ Crash(n)

Step(n) == Start(n) \/ Run(n)

Next == \E n \in Nodes : Step(n)

Spec == Init /\ [][Next]_vars

\* A caller executes the instance again after ExecuteWithArgs has returned an
\* error, not after it has returned (false, nil).
Retry(n) == Start(n) /\ ~failed

\* A session that can move does, and lost sessions are retried.
FairSpec ==
    /\ Spec
    /\ \A n \in Nodes : WF_vars(Run(n))
    /\ WF_vars(\E n \in Nodes : Retry(n))

(***************************************************************************)
(* Properties.                                                             *)
(***************************************************************************)

\* Every variable has its type; the guest's position stays in the workflow.
TypeOK ==
    /\ resumes \in BOOLEAN /\ oversized \subseteq Oversized
    /\ version \in 0 .. MaxVersion
    /\ saved \in 1 .. Len(Program) + 1
    /\ \A e \in log : e.index \in Nat /\ e.response \in Calls
    /\ pc \in [Nodes -> PC]
    /\ ver \in [Nodes -> 0 .. MaxVersion]
    /\ step \in [Nodes -> 1 .. Len(Program) + 1]
    /\ call \in [Nodes -> Nat \ {0}]
    /\ index \in [Nodes -> Nat]
    /\ executed \subseteq Calls /\ recorded \subseteq Calls
    /\ missed \subseteq Calls /\ misplaced \subseteq Calls
    /\ truncated \in BOOLEAN /\ done \in BOOLEAN /\ failed \in BOOLEAN
    /\ overlapped \in BOOLEAN
    /\ failures \in 0 .. MaxFailures

\* No call is answered with the response of another call: "automatically
\* records to and replays from Oplog to ensure determinism" (runner.go).
ResponseMatchesCall == misplaced = {}

\* So it is for a guest that starts over, though calls of it share an API name,
\* sessions run at the same time, fail to read or to write the log and truncate
\* it under each other: its call index identifies the call.
RerunMatches == ~resumes => ResponseMatchesCall

\* When run() has returned 0, every API of the workflow has been called, and
\* for a guest that starts over every call has been performed: neither a
\* resumed position nor a replayed entry skips one.
CompletedMeansPerformed ==
    done => /\ \A c \in Calls : \E d \in executed : Api(d) = Api(c)
            /\ ~resumes => executed = Calls

\* Until the log is truncated, a session of a guest that starts over finds the
\* response of every call recorded before it searched, whichever sessions
\* recorded it: a call is performed again only if it was recorded after the
\* search, or the log could not be read.
RecordedIsFound == ~resumes /\ ~truncated => missed = {}

\* A workflow does not complete past a call whose response never fits the
\* guest's buffer, however often it is executed again and whichever sessions
\* recorded the response: a replayed response is measured like a fresh one.
OversizedStaysFailed == oversized # {} => ~done

\* An instance whose lost sessions are retried completes, unless one of its
\* calls returned an error to the guest, after which ExecuteWithArgs gives the
\* caller no reason to try again, or two sessions of it ran at once.
EventuallyDone == <>(done \/ failed \/ overlapped)

=============================================================================
