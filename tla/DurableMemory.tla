--------------------------- MODULE DurableMemory ---------------------------
(***************************************************************************)
(* What checkpoints promise a workflow instance: there is one memory, and  *)
(* a session that writes it has started from exactly what was written      *)
(* last.  Sessions work on copies; as one writes its own, the copies of    *)
(* the others are worth nothing any more, and any copy may be lost.  A     *)
(* session that has gone astray has no copy; its memory may become the     *)
(* stored one all the same.  The promise ends with Damage, and begins      *)
(* again with Repair: one session's memory becomes the stored one and no   *)
(* other copy is left.                                                     *)
(***************************************************************************)
CONSTANTS
    Nodes,        \* engines, each with at most one session
    FreshMemory   \* the guest's memory at the beginning

VARIABLES
    stored,  \* the memory a session starts from
    copies,  \* per node, a set: its session's memory, or empty
    stray,   \* the nodes whose session has gone astray
    sound    \* whether the promise holds

vars == <<stored, copies, stray, sound>>

Init == stored = FreshMemory /\ copies = [n \in Nodes |-> {}] /\ sound = TRUE

Restore(n) ==
    /\ copies[n] = {}
    /\ copies' = [copies EXCEPT ![n] = {stored}]
    /\ UNCHANGED stored

Work(n) ==
    /\ copies[n] # {}
    /\ \E memory \in copies'[n] : copies' = [copies EXCEPT ![n] = {memory}]
    /\ UNCHANGED stored

\* Only the copies of `nodes` are left.
OnlyCopies(nodes) ==
    \A n \in Nodes : copies'[n] \in (IF n \in nodes THEN {{}, {stored'}} ELSE {{}})

\* The session goes on from what it has written, or ends.
Write(n) ==
    /\ stored' \in copies[n]
    /\ OnlyCopies({n})

\* Nothing is known of what a stray session writes.
Overwrite(n) == n \in stray /\ OnlyCopies({n})

Lose(nodes) ==
    /\ copies' = [n \in Nodes |-> IF n \in nodes THEN {} ELSE copies[n]]
    /\ UNCHANGED stored

Damage == ~sound'

Repair ==
    /\ ~sound /\ sound'
    /\ \E n \in Nodes : OnlyCopies({n})

Next ==
    \/ /\ sound /\ sound'
       /\ \/ \E nodes \in SUBSET Nodes : Lose(nodes)
          \/ \E n \in Nodes : Restore(n) \/ Work(n) \/ Write(n) \/ Overwrite(n)
    \/ Damage
    \/ Repair

Spec == Init /\ [][Next]_vars

=============================================================================
