---------------------------- MODULE ActiveIndex ----------------------------
(***************************************************************************)
(* The index of active instances, kept in two ways for the same calls:     *)
(* MemorySnapshotStore and FileSnapshotStore rewrite one list under their  *)
(* mutex; S3SnapshotStore has an object active.json per instance, which    *)
(* LoadActiveIndex finds by listing the bucket page by page and reads in   *)
(* one goroutine each.  Calls of other clients fall between its requests.  *)
(*                                                                         *)
(* Instances are numbers, in the order of their names.  An instance that   *)
(* reports itself also has a meta.json in the bucket, the object that      *)
(* stands for all its others.  The specification is called IndexSpec, and  *)
(* its parts likewise, so that a module can extend this one and S3Store,   *)
(* which is about the other objects of the bucket.                         *)
(***************************************************************************)
EXTENDS SnapshotStore, Sequences

CONSTANTS
    Instances,   \* workflow instances
    Infos,       \* what an instance reports about itself: JSON objects that
                 \* have its instance_id
    Garbled,     \* a report that is no JSON object
    None,        \* no information: no object
    Failed,      \* the result of a request that fails
    PageSize     \* objects in a page of a listing

ASSUME InstancesAssumption == Instances \subseteq Nat \ {0}
ASSUME NoneAssumption == /\ {None, Failed, Garbled} \cap Infos = {}
                         /\ None # Failed /\ None # Garbled
ASSUME PageAssumption == PageSize \in Nat \ {0}

VARIABLES
    mirrored,  \* whether the calls also go to a memory or a file store, to
               \* compare.  (LoadActiveIndex changes neither index: its calls
               \* are in the other behaviours.)
    list,      \* the index of that store
    \* The bucket.
    active,    \* active.json of each instance
    records,   \* the instances with a meta.json
    deleting,  \* the instances whose Delete has removed all but active.json
    \* A call of LoadActiveIndex.
    at,        \* where it stands
    cursor,    \* the last key it has seen, while it lists
    keys,      \* the instances whose active.json it has to read
    worker,    \* where the goroutine that reads it stands
    result,    \* what the goroutine has got
    chan,      \* the goroutines whose result is in resChan
    received,  \* the ones whose result is in activeList
    \* History, read by the properties only.
    seen,      \* what active.json has been since the call began
    diverged   \* instances of which list and bucket were told different things

indexObjects == <<active, records, deleting>>
call         == <<at, cursor, keys, worker, result, chan, received>>
indexVars    == <<mirrored, list, active, records, deleting, at, cursor, keys, worker,
                  result, chan, received, seen, diverged>>
other        == <<mirrored, list, diverged>>

IndexInit ==
    /\ mirrored \in BOOLEAN /\ list = <<>>
    /\ active = [i \in Instances |-> None] /\ records = {} /\ deleting = {}
    /\ at = "idle" /\ cursor = 0 /\ keys = {} /\ chan = {} /\ received = {}
    /\ worker = [i \in Instances |-> "none"]
    /\ result = [i \in Instances |-> None]
    /\ seen = [i \in Instances |-> {}] /\ diverged = {}

(***************************************************************************)
(* Updates.                                                                *)
(***************************************************************************)
Entry(i, info) == [instance |-> i, info |-> info]

\* Mutant of Put: the entry is appended whether or not it replaced another.
PutAlways(index, i, info) ==
    Append([k \in DOMAIN index |->
              IF index[k].instance = i THEN Entry(i, info) ELSE index[k]],
           Entry(i, info))

\* UpdateActiveIndex on the list: an entry takes the place of the instance's
\* entry, or the last.
Put(index, i, info) ==
    LET replaced == [k \in DOMAIN index |->
                       IF index[k].instance = i THEN Entry(i, info) ELSE index[k]]
    IN IF \E k \in DOMAIN index : index[k].instance = i
         THEN replaced
         ELSE Append(index, Entry(i, info))

\* UpdateActiveIndex with `completed`: the entries of the others, in order.
Without(index, i) ==
    LET kept == {k \in DOMAIN index : index[k].instance # i}
        nth(n) == CHOOSE k \in kept : Cardinality({j \in kept : j < k}) = n - 1
    IN [n \in 1 .. Cardinality(kept) |-> index[nth(n)]]

\* The object becomes info, or goes.
PutObject(i, info) ==
    /\ active' = [active EXCEPT ![i] = info]
    /\ seen' = IF at = "idle" THEN seen ELSE [seen EXCEPT ![i] = @ \cup {info}]

\* What becomes of the list, if there is one.
Mirror(index, apart) ==
    /\ list' = IF mirrored THEN index ELSE list
    /\ diverged' = IF mirrored THEN apart ELSE diverged
    /\ UNCHANGED mirrored

\* UpdateActiveIndex, with `completed` or without.
Update(i, info) ==
    /\ Mirror(Put(list, i, info), diverged \ {i})
    /\ PutObject(i, info)
    /\ records' = records \cup {i}
    /\ UNCHANGED <<deleting, call>>

Complete(i) ==
    /\ Mirror(Without(list, i), diverged \ {i})
    /\ PutObject(i, None)
    /\ UNCHANGED <<records, deleting, call>>

\* Only the object of i changes.
BucketAlone(i, info) ==
    /\ PutObject(i, info)
    /\ Mirror(list, IF active[i] = info THEN diverged ELSE diverged \cup {i})
    /\ UNCHANGED call

\* Only the entry of i changes.
ListAlone(index, i, info) ==
    /\ mirrored
    /\ Mirror(index, IF active[i] = info THEN diverged \ {i} ELSE diverged \cup {i})
    /\ UNCHANGED <<indexObjects, call, seen>>

\* The memory and the file store parse the report first and fail if they cannot,
\* even of an instance that has completed.  The bucket takes any, and none of
\* one that has completed.
UpdateGarbled(i) ==
    /\ BucketAlone(i, Garbled)
    /\ records' = records \cup {i}
    /\ UNCHANGED deleting

CompleteGarbled(i) ==
    /\ BucketAlone(i, None)
    /\ UNCHANGED <<records, deleting>>

\* The request to the bucket fails.
UpdateFails(i, info) == ListAlone(Put(list, i, info), i, info)

CompleteFails(i) == ListAlone(Without(list, i), i, None)

\* A crash or a full disk stops the writing of active_index.json; the next
\* update starts from no list.
TearList ==
    /\ mirrored
    /\ Mirror(<<>>, {i \in Instances : active[i] # None})
    /\ UNCHANGED <<indexObjects, call, seen>>

\* Delete of an instance.  The lists are left alone; in the bucket active.json
\* is the last object to go, if no request before has failed.
Delete(i) ==
    /\ i \in records
    /\ records' = records \ {i}
    /\ deleting' \in {deleting, deleting \cup {i}}
    /\ UNCHANGED <<other, active, call, seen>>

DeleteActive(i) ==
    /\ i \in deleting
    /\ deleting' = deleting \ {i}
    /\ BucketAlone(i, None)
    /\ UNCHANGED records

(***************************************************************************)
(* LoadActiveIndex on the bucket.                                          *)
(***************************************************************************)

\* The bucket's keys in order: active.json of an instance, then meta.json.
ActiveKey(i) == 2 * i - 1
MetaKey(i)   == 2 * i
Objects == {ActiveKey(i) : i \in {i \in Instances : active[i] # None}}
             \cup {MetaKey(i) : i \in records}

Begin ==
    /\ ~mirrored
    /\ at = "idle" /\ \A i \in Instances : worker[i] = "none"
    /\ at' = "list" /\ cursor' = 0 /\ keys' = {} /\ chan' = {} /\ received' = {}
    /\ result' = [i \in Instances |-> None]
    /\ seen' = [i \in Instances |-> {active[i]}]
    /\ UNCHANGED <<other, indexObjects, worker>>

\* The call returns; its goroutines do not know.
Return ==
    /\ at' = "idle" /\ cursor' = 0 /\ received' = {}
    /\ seen' = [i \in Instances |-> {}]

\* Mutant of HasMorePages: one request is enough.
OnePage(objects, after) == FALSE

\* The page is truncated.
HasMorePages(objects, after) == \E k \in objects : k > after

\* Mutant of Listed: instances are taken from all keys under instances/.
ListedByPrefix(page) == {i \in Instances : {ActiveKey(i), MetaKey(i)} \cap page # {}}

\* The keys of a page that end in /active.json.
Listed(page) == {i \in Instances : ActiveKey(i) \in page}

\* A page of keys.  After the last, one goroutine per key is started, or "[]"
\* returned if there is none.
NextPage ==
    LET rest == {k \in Objects : k > cursor}
        page == {k \in rest : Cardinality({j \in rest : j < k}) < PageSize}
        last == Max({cursor} \cup page)
    IN /\ at = "list"
       /\ keys' = keys \cup Listed(page)
       /\ IF HasMorePages(Objects, last)
            THEN cursor' = last /\ UNCHANGED <<at, worker, received, seen>>
            ELSE /\ worker' = [i \in Instances |->
                                 IF i \in keys' THEN "read" ELSE "none"]
                 /\ IF keys' = {}
                      THEN Return
                      ELSE at' = "receive" /\ cursor' = 0 /\ UNCHANGED <<received, seen>>
       /\ UNCHANGED <<other, indexObjects, result, chan>>

ListFails ==
    /\ at = "list"
    /\ Return
    /\ UNCHANGED <<other, indexObjects, keys, worker, result, chan>>

\* readObject: the content, or an error if there is no such object any more or
\* the request fails.
Read(i) ==
    /\ worker[i] = "read"
    /\ worker' = [worker EXCEPT ![i] = "send"]
    /\ \E r \in {active[i], Failed} : result' = [result EXCEPT ![i] = r]
    /\ UNCHANGED <<other, indexObjects, at, cursor, keys, chan, received, seen>>

\* Mutant of HasRoom: the channel has no buffer.
Unbuffered == at = "receive"

\* The channel holds a result for each key.
HasRoom == Cardinality(chan) < Cardinality(keys)

Send(i) ==
    /\ worker[i] = "send"
    /\ HasRoom
    /\ chan' = chan \cup {i}
    /\ worker' = [worker EXCEPT ![i] = "none"]
    /\ UNCHANGED <<other, indexObjects, at, cursor, keys, result, received, seen>>

\* A result is received; the first that is an error, or that is no JSON object,
\* ends the call with an error.
Receive(i) ==
    /\ at = "receive" /\ i \in chan
    /\ chan' = chan \ {i}
    /\ IF result[i] \in Infos
         THEN received' = received \cup {i} /\ UNCHANGED <<at, cursor, seen>>
         ELSE Return
    /\ UNCHANGED <<other, indexObjects, keys, worker, result>>

\* activeList is complete.
Finish ==
    /\ at = "receive" /\ received = keys
    /\ Return
    /\ UNCHANGED <<other, indexObjects, keys, worker, result, chan>>

Reader == NextPage \/ ListFails \/ (\E i \in Instances : Receive(i)) \/ Finish

Worker(i) == Read(i) \/ Send(i)

IndexNext ==
    \/ \E i \in Instances, info \in Infos : Update(i, info) \/ UpdateFails(i, info)
    \/ \E i \in Instances : \/ Complete(i) \/ CompleteFails(i)
                           \/ UpdateGarbled(i) \/ CompleteGarbled(i)
                           \/ Delete(i) \/ DeleteActive(i)
    \/ TearList
    \/ Begin
    \/ Reader
    \/ \E i \in Instances : Worker(i)

IndexSpec == IndexInit /\ [][IndexNext]_indexVars

\* The goroutines of a call run until they block or end.
FairSpec ==
    /\ IndexSpec
    /\ WF_indexVars(Reader)
    /\ \A i \in Instances : WF_indexVars(Worker(i))

(***************************************************************************)
(* Properties.                                                             *)
(***************************************************************************)

\* Whatever is updated, completed and deleted while LoadActiveIndex lists page
\* by page and reads in parallel, what it returns of each instance (its entry,
\* or that it has none) was so at some moment of the call.
ListingIsCurrent ==
    at = "receive" /\ received = keys =>
        \A i \in Instances :
            (IF i \in keys THEN result[i] ELSE None) \in seen[i]

\* LoadActiveIndex meets a missing object only when an instance it has listed
\* went away during the call: instances that completed before, and still have
\* their other objects, do not fail it.
MissingOnlyInRace ==
    at = "receive" =>
        \A i \in chan : result[i] = None => {None} \subseteq seen[i] /\ seen[i] # {None}

\* However updates, completions, failures and Deletes follow each other, the
\* list has one entry for each instance that has an active.json, with the same
\* content, and no other; except for an instance of which one of the two was
\* not told the last thing: a report only the bucket took, a request that failed,
\* a list that was torn, or a Delete, which leaves the lists alone.  The next
\* report or completion that reaches both mends it.  (Of an empty list the
\* memory store makes null, the others [].)
StoresAgree ==
    mirrored =>
      \A i \in Instances \ diverged :
        LET mine == {k \in DOMAIN list : list[k].instance = i} IN
        IF active[i] = None
          THEN mine = {}
          ELSE \E k \in DOMAIN list : mine = {k} /\ list[k] = Entry(i, active[i])

\* A call of LoadActiveIndex returns however busy the bucket is, and its
\* goroutines end, those too whose result nobody waits for any more because
\* another's was an error.
ListingEnds ==
    /\ at # "idle" ~> at = "idle"
    /\ \A i \in Instances : worker[i] # "none" ~> worker[i] = "none"

=============================================================================
