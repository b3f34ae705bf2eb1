------------------------------ MODULE Streams ------------------------------
(***************************************************************************)
(* The stream host function stream_data: handleDownload and handleUpload   *)
(* of a Session, and the guest's Reader and Writer over them, used by a    *)
(* workflow of runner.Run whose sessions may be lost and restarted.        *)
(*                                                                         *)
(* A step is a sequence of operations: "read" (read the input until the    *)
(* end of file, or until a decoder has a whole document), "write" (one     *)
(* chunk) and "close" (Writer.Close).  Chunks are what one Read or Write   *)
(* moves: <<s, o>> is the chunk operation o of step s writes, <<d, k>> the *)
(* k-th chunk of the d-th document the download handler returned.          *)
(***************************************************************************)
EXTENDS Integers, Sequences, Functions

CONSTANTS
    Program,      \* the workflow: a sequence of sequences of operations
    ChunksPerDoc, \* length of a document, in chunks
    MaxDocs,      \* bound: calls of the download handler
    MaxFailures   \* bound: sessions lost

Operations == {"read", "write", "close"}

ASSUME ProgramAssumption == Program \in Seq(Seq(Operations))
ASSUME BoundsAssumption ==
    ChunksPerDoc \in Nat /\ MaxDocs \in Nat /\ MaxFailures \in Nat

VARIABLES
    \* The Session's stream state, which no checkpoint keeps.
    reader,     \* downloadReader: <<>> for nil, else <<chunks still unread>>
    eof,        \* downloadEOF
    buffer,     \* uploadBuffer
    \* The guest.
    running,    \* whether there is a session
    step, op,   \* its next operation
    got,        \* chunks read by the current "read"
    \* The stored memory image.
    saved,      \* currentStep at the last checkpoint
    \* The host side and history.
    docs,       \* documents the download handler has returned
    uploads,    \* [step, body, ok] of every call of the upload handler
    reads,      \* [fresh, data] of every completed "read"
    fresh,      \* whether the streams were reset since the last one
    done, failures

session == <<reader, eof, buffer>>
vars    == <<reader, eof, buffer, running, step, op, got, saved, docs, uploads,
             reads, fresh, done, failures>>

Doc(d) == [k \in 1 .. ChunksPerDoc |-> <<d, k>>]

Init ==
    /\ reader = <<>> /\ eof = FALSE /\ buffer = <<>>
    /\ running = FALSE /\ step = 1 /\ op = 1 /\ got = <<>>
    /\ saved = 1
    /\ docs = 0 /\ uploads = {} /\ reads = {} /\ fresh = TRUE
    /\ done = FALSE /\ failures = 0

\* A new Session: fresh stream state, the guest at the checkpointed step.
Start ==
    /\ ~running /\ ~done
    /\ running' = TRUE
    /\ step' = saved /\ op' = 1 /\ got' = <<>>
    /\ reader' = <<>> /\ eof' = FALSE /\ buffer' = <<>>
    /\ fresh' = TRUE
    /\ UNCHANGED <<saved, docs, uploads, reads, done, failures>>

At(operation) ==
    /\ running
    /\ step <= Len(Program)
    /\ op <= Len(Program[step])
    /\ Program[step][op] = operation

Advance == op' = op + 1 /\ got' = <<>> /\ UNCHANGED <<running, step, saved, done>>

\* The session is lost, or a failed read makes the step return an error.
Lose ==
    /\ failures < MaxFailures
    /\ failures' = failures + 1
    /\ running' = FALSE
    /\ UNCHANGED <<step, op, got, saved, done>>

(***************************************************************************)
(* handleDownload.                                                         *)
(***************************************************************************)

\* No reader: the handler is asked for a document; then a chunk, as below.
Opened == IF reader = <<>> THEN Doc(docs + 1) ELSE reader[1]

\* A chunk is left: it goes to the guest.
ReadChunk ==
    /\ At("read") /\ ~eof
    /\ reader = <<>> => docs < MaxDocs
    /\ Opened # <<>>
    /\ got' = Append(got, Head(Opened))
    /\ reader' = <<Tail(Opened)>>
    /\ docs' = IF reader = <<>> THEN docs + 1 ELSE docs
    /\ UNCHANGED <<eof, buffer, running, step, op, saved, uploads, reads, fresh,
                   done, failures>>

\* The guest's "read" ends with what it got.
EndRead ==
    /\ reads' = reads \cup {[fresh |-> fresh, data |-> got]}
    /\ fresh' = FALSE
    /\ Advance

\* Mutant of ReadEOF: the exhausted reader is kept.
ReadEOFKeepsReader ==
    /\ At("read") /\ ~eof
    /\ reader # <<>> /\ Opened = <<>>
    /\ eof' = TRUE
    /\ EndRead
    /\ UNCHANGED <<reader, docs, buffer, uploads, failures>>

\* Nothing is left: the reader is dropped, the end remembered, 0 returned.
\* Once remembered, 0 is returned at once.
ReadEOF ==
    /\ At("read")
    /\ \/ eof /\ UNCHANGED <<reader, eof, docs>>
       \/ /\ ~eof
          /\ reader = <<>> => docs < MaxDocs
          /\ Opened = <<>>
          /\ reader' = <<>> /\ eof' = TRUE
          /\ docs' = IF reader = <<>> THEN docs + 1 ELSE docs
    /\ EndRead
    /\ UNCHANGED <<buffer, uploads, failures>>

\* A decoder with a whole document does not read on to the end of file.
ReadDocument ==
    /\ At("read")
    /\ Len(got) = ChunksPerDoc /\ ChunksPerDoc > 0
    /\ EndRead
    /\ UNCHANGED <<session, docs, uploads, failures>>

\* The download handler fails: -1, an error for the guest.
ReadFails ==
    /\ At("read") /\ ~eof /\ reader = <<>>
    /\ Lose
    /\ UNCHANGED <<session, docs, uploads, reads, fresh>>

(***************************************************************************)
(* handleUpload.                                                           *)
(***************************************************************************)
Write ==
    /\ At("write")
    /\ buffer' = Append(buffer, <<step, op>>)
    /\ Advance
    /\ UNCHANGED <<reader, eof, docs, uploads, reads, fresh, failures>>

\* Mutant of Flush: the buffer outlives the upload.
FlushKeepsBuffer(ok) ==
    /\ uploads' = uploads \cup {[step |-> step, body |-> buffer, ok |-> ok]}
    /\ reader' = <<>> /\ eof' = FALSE /\ fresh' = TRUE
    /\ UNCHANGED buffer

\* Mutant of Flush: the download side is not reset.
FlushKeepsReader(ok) ==
    /\ uploads' = uploads \cup {[step |-> step, body |-> buffer, ok |-> ok]}
    /\ buffer' = <<>> /\ fresh' = TRUE
    /\ UNCHANGED <<reader, eof>>

\* The upload handler takes the buffer, or fails; both sides are reset.
Flush(ok) ==
    /\ uploads' = uploads \cup {[step |-> step, body |-> buffer, ok |-> ok]}
    /\ buffer' = <<>> /\ reader' = <<>> /\ eof' = FALSE
    /\ fresh' = TRUE

\* Writer.Close: a zero-length write.  Nothing happens on an empty buffer, and
\* the guest does not look at the host's result.
Close ==
    /\ At("close")
    /\ \/ buffer = <<>> /\ UNCHANGED <<session, uploads, fresh>>
       \/ buffer # <<>> /\ \E ok \in BOOLEAN : Flush(ok)
    /\ Advance
    /\ UNCHANGED <<docs, reads, failures>>

(***************************************************************************)
(* runner.Run: the step ends with a checkpoint, the last one with 0.       *)
(***************************************************************************)

\* Mutant of EndStep: the last operation of a step is skipped.
EndStepEarly ==
    /\ running
    /\ step <= Len(Program) /\ op >= Len(Program[step])
    /\ step' = step + 1 /\ op' = 1 /\ saved' = step + 1
    /\ UNCHANGED <<session, running, got, docs, uploads, reads, fresh, done,
                   failures>>

EndStep ==
    /\ running
    /\ step <= Len(Program) /\ op > Len(Program[step])
    /\ step' = step + 1 /\ op' = 1 /\ saved' = step + 1
    /\ UNCHANGED <<session, running, got, docs, uploads, reads, fresh, done,
                   failures>>

Finish ==
    /\ running /\ step > Len(Program)
    /\ running' = FALSE /\ done' = TRUE
    /\ UNCHANGED <<session, step, op, got, saved, docs, uploads, reads, fresh,
                   failures>>

Crash ==
    /\ running
    /\ Lose
    /\ UNCHANGED <<session, docs, uploads, reads, fresh>>

Next ==
    \/ Start
    \/ ReadChunk
    \/ ReadEOF
    \/ ReadDocument
    \/ ReadFails
    \/ Write
    \/ Close
    \/ EndStep
    \/ Finish
    \/ Crash

Spec == Init /\ [][Next]_vars

(***************************************************************************)
(* Properties.                                                             *)
(***************************************************************************)

\* The operations of the workflow, as <<step, operation>>.
Ops == UNION {{s} \X (1 .. Len(Program[s])) : s \in 1 .. Len(Program)}
Kind(c) == Program[c[1]][c[2]]
Precedes(c, d) == c[1] < d[1] \/ (c[1] = d[1] /\ c[2] < d[2])

\* What the workflow has written when it comes to c: the chunks of the writes
\* after the last close.
Written(c) ==
    {w \in Ops : /\ Kind(w) = "write" /\ Precedes(w, c)
                 /\ ~ \E d \in Ops : /\ Kind(d) = "close"
                                     /\ Precedes(w, d) /\ Precedes(d, c)}

InOrder(body) ==
    \A i, j \in 1 .. Len(body) : i < j => Precedes(body[i], body[j])

\* The body is what c closes, each chunk once and in the order of the writes.
IsOutput(body, c) == InOrder(body) /\ Range(body) = Written(c)

Closes(s) == {o \in 1 .. Len(Program[s]) : Program[s][o] = "close"}

\* The stream state is consistent: the end of file is remembered only without
\* a reader, chunks wait in the buffer in the order they were written, and a
\* session's position stays in the workflow.
TypeOK ==
    /\ eof => reader = <<>>
    /\ InOrder(buffer)
    /\ step \in 1 .. Len(Program) + 1 /\ saved \in 1 .. step
    /\ docs \in 0 .. MaxDocs /\ failures \in 0 .. MaxFailures

\* The first read after a reset of the streams returns one whole document: it
\* neither mixes two answers of the download handler nor ends early.  A further
\* read returns nothing until the next upload.
OneDocumentPerExchange ==
    \A r \in reads : IF r.fresh THEN \E d \in 1 .. docs : r.data = Doc(d)
                                ELSE r.data = <<>>

\* What reaches the upload handler is what the guest wrote since its last
\* close, no more and no less.
UploadsAreWhole ==
    \A u \in uploads : \E o \in Closes(u.step) : IsOutput(u.body, <<u.step, o>>)

\* The outputs of the workflow that are not empty, by where they are closed.
Outputs == {c \in Ops : Kind(c) = "close" /\ Written(c) # {}}

\* When a workflow whose steps close what they write has returned 0, the upload
\* handler has been called with every one of its outputs, whole, whatever
\* sessions were lost on the way.
OutputsReachHandler ==
    done => \A c \in Outputs : \E u \in uploads :
              u.step = c[1] /\ IsOutput(u.body, c)

=============================================================================
