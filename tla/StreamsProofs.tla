--------------------------- MODULE StreamsProofs ---------------------------
(***************************************************************************)
(* Proofs about Streams, for any workflow, any length of documents and any *)
(* bounds.                                                                 *)
(***************************************************************************)
EXTENDS Streams, SequenceTheorems, TLAPS

Chunks == Nat \X Nat

(***************************************************************************)
(* A document that is partly read: the first n chunks, and the others.     *)
(***************************************************************************)
First(d, n) == [k \in 1 .. n |-> <<d, k>>]
Rest(d, n)  == [k \in 1 .. ChunksPerDoc - n |-> <<d, n + k>>]

LEMMA PartsAreSeqs ==
    ASSUME NEW d \in Nat, NEW n \in 0 .. ChunksPerDoc
    PROVE  /\ First(d, n) \in Seq(Chunks) /\ Len(First(d, n)) = n
           /\ Rest(d, n) \in Seq(Chunks) /\ Len(Rest(d, n)) = ChunksPerDoc - n
<1>1. n \in Nat /\ ChunksPerDoc - n \in Nat
  BY BoundsAssumption
<1>2. \A k \in 1 .. n : <<d, k>> \in Chunks
  BY <1>1 DEF Chunks
<1>3. \A k \in 1 .. ChunksPerDoc - n : <<d, n + k>> \in Chunks
  BY <1>1 DEF Chunks
<1> QED
  BY <1>1, <1>2, <1>3 DEF First, Rest

LEMMA WholeParts ==
    ASSUME NEW d \in Nat
    PROVE  /\ First(d, 0) = <<>> /\ Rest(d, 0) = Doc(d)
           /\ First(d, ChunksPerDoc) = Doc(d) /\ Rest(d, ChunksPerDoc) = <<>>
<1>1. 0 \in 0 .. ChunksPerDoc /\ ChunksPerDoc \in 0 .. ChunksPerDoc /\ ChunksPerDoc \in Nat
  BY BoundsAssumption
<1>2. First(d, 0) = <<>> /\ Rest(d, ChunksPerDoc) = <<>>
  BY <1>1, PartsAreSeqs, EmptySeq
<1>3. First(d, ChunksPerDoc) = Doc(d)
  BY DEF First, Doc
<1>4. Rest(d, 0) = Doc(d)
  BY <1>1 DEF Rest, Doc
<1> QED
  BY <1>2, <1>3, <1>4

\* Reading one chunk more.
LEMMA NextPart ==
    ASSUME NEW d \in Nat, NEW n \in 0 .. ChunksPerDoc, n # ChunksPerDoc
    PROVE  /\ n + 1 \in 0 .. ChunksPerDoc
           /\ Rest(d, n) # <<>>
           /\ Tail(Rest(d, n)) = Rest(d, n + 1)
           /\ Append(First(d, n), Head(Rest(d, n))) = First(d, n + 1)
<1>1. n \in Nat /\ n + 1 \in 0 .. ChunksPerDoc /\ ChunksPerDoc \in Nat
  BY BoundsAssumption
<1>2. /\ Rest(d, n) \in Seq(Chunks) /\ Len(Rest(d, n)) = ChunksPerDoc - n
      /\ Rest(d, n + 1) \in Seq(Chunks) /\ Len(Rest(d, n + 1)) = ChunksPerDoc - (n + 1)
      /\ First(d, n) \in Seq(Chunks) /\ Len(First(d, n)) = n
      /\ First(d, n + 1) \in Seq(Chunks) /\ Len(First(d, n + 1)) = n + 1
  BY <1>1, PartsAreSeqs
<1>3. Rest(d, n) # <<>>
  BY <1>1, <1>2, EmptySeq
<1>4. /\ Tail(Rest(d, n)) \in Seq(Chunks)
      /\ Len(Tail(Rest(d, n))) = ChunksPerDoc - n - 1
      /\ \A i \in 1 .. ChunksPerDoc - n - 1 : Tail(Rest(d, n))[i] = Rest(d, n)[i + 1]
  BY <1>2, <1>3, HeadTailProperties
<1>5. \A i \in 1 .. ChunksPerDoc - n - 1 : Rest(d, n)[i + 1] = Rest(d, n + 1)[i]
  BY <1>1 DEF Rest
<1>6. Tail(Rest(d, n)) = Rest(d, n + 1)
  BY <1>1, <1>2, <1>4, <1>5, SeqEqual
<1>7. Head(Rest(d, n)) = <<d, n + 1>> /\ <<d, n + 1>> \in Chunks
  <2>1. Head(Rest(d, n)) = Rest(d, n)[1]
    BY <1>2, <1>3
  <2>2. Rest(d, n)[1] = <<d, n + 1>>
    BY <1>1 DEF Rest
  <2> QED
    BY <1>1, <2>1, <2>2 DEF Chunks
<1>8. Append(First(d, n), <<d, n + 1>>) = First(d, n + 1)
  <2> DEFINE s == Append(First(d, n), <<d, n + 1>>)
  <2>1. /\ s \in Seq(Chunks) /\ Len(s) = n + 1
        /\ \A i \in 1 .. n : s[i] = First(d, n)[i]
        /\ s[n + 1] = <<d, n + 1>>
    BY <1>2, <1>7, AppendProperties
  <2>2. \A i \in 1 .. n + 1 : s[i] = First(d, n + 1)[i]
    BY <1>1, <2>1 DEF First
  <2> QED
    BY <1>2, <2>1, <2>2, SeqEqual
<1> QED
  BY <1>1, <1>3, <1>6, <1>7, <1>8

(***************************************************************************)
(* The invariant.                                                          *)
(***************************************************************************)
Typed ==
    /\ running \in BOOLEAN /\ eof \in BOOLEAN /\ fresh \in BOOLEAN
    /\ done \in BOOLEAN
    /\ step \in 1 .. Len(Program) + 1 /\ op \in Nat \ {0}
    /\ saved \in 1 .. step
    /\ docs \in 0 .. MaxDocs /\ failures \in 0 .. MaxFailures
    /\ buffer \in Seq(Chunks)

\* What waits in the buffer was written before the guest's position, in order.
Buffered ==
    /\ InOrder(buffer)
    /\ running => \A i \in 1 .. Len(buffer) : Precedes(buffer[i], <<step, op>>)

\* The download side of a session: nothing read since the reset, a document
\* partly read by the "read" the guest is at, or the document read to its end.
Untouched == fresh /\ ~eof /\ reader = <<>> /\ got = <<>>
Reading ==
    /\ fresh /\ ~eof /\ docs # 0 /\ At("read")
    /\ \E n \in 0 .. ChunksPerDoc :
          got = First(docs, n) /\ reader = <<Rest(docs, n)>>
Exhausted ==
    /\ ~fresh /\ got = <<>>
    /\ \/ eof /\ reader = <<>>
       \/ ~eof /\ reader = << <<>> >>

Download ==
    /\ eof => reader = <<>>
    /\ running => Untouched \/ Reading \/ Exhausted

LEMMA Lengths ==
    /\ Len(Program) \in Nat
    /\ \A s \in 1 .. Len(Program) : Len(Program[s]) \in Nat
BY ProgramAssumption

\* The position as numbers.
LEMMA Position ==
    ASSUME Typed
    PROVE  step \in Nat \ {0} /\ op \in Nat \ {0} /\ saved \in Nat \ {0}
<1>1. step \in Nat \ {0} /\ op \in Nat \ {0}
  BY Lengths DEF Typed
<1> QED
  BY <1>1 DEF Typed

LEMMA InitTyped == Init => Typed /\ Buffered /\ Download
<1> SUFFICES ASSUME Init PROVE Typed /\ Buffered /\ Download
  OBVIOUS
<1>1. /\ running \in BOOLEAN /\ eof \in BOOLEAN /\ fresh \in BOOLEAN
      /\ done \in BOOLEAN /\ ~running
  BY Zenon DEF Init
<1>2. /\ step \in 1 .. Len(Program) + 1 /\ op \in Nat \ {0}
      /\ saved \in 1 .. step
      /\ docs \in 0 .. MaxDocs /\ failures \in 0 .. MaxFailures
  BY Lengths, BoundsAssumption DEF Init
<1>3. buffer \in Seq(Chunks) /\ Len(buffer) = 0
  BY EmptySeq DEF Init
<1>4. Buffered
  BY <1>1, <1>3 DEF Buffered, InOrder
<1>5. Download
  BY <1>1 DEF Download, Init
<1> QED
  BY <1>1, <1>2, <1>3, <1>4, <1>5 DEF Typed

LEMMA StepTyped ==
    ASSUME Typed, Next
    PROVE  Typed'
<1>0. step \in Nat \ {0} /\ op \in Nat \ {0} /\ saved \in Nat \ {0}
  BY Position
<1>1. op + 1 \in Nat \ {0} /\ <<step, op>> \in Chunks
  BY <1>0 DEF Chunks
<1>2. docs < MaxDocs => docs + 1 \in 0 .. MaxDocs
  BY BoundsAssumption DEF Typed
<1>3. failures < MaxFailures => failures + 1 \in 0 .. MaxFailures
  BY BoundsAssumption DEF Typed
<1>4. <<>> \in Seq(Chunks)
  BY EmptySeq
<1>5. CASE Start
  <2>1. saved \in 1 .. Len(Program) + 1 /\ saved \in 1 .. saved
    BY <1>0, Lengths DEF Typed
  <2>2. /\ running' = TRUE /\ eof' = FALSE /\ fresh' = TRUE /\ buffer' = <<>>
        /\ step' = saved /\ op' = 1
        /\ UNCHANGED <<saved, docs, done, failures>>
    BY <1>5 DEF Start
  <2>3. buffer' \in Seq(Chunks)
    BY <1>4, <2>2
  <2>4. running' \in BOOLEAN /\ eof' \in BOOLEAN /\ fresh' \in BOOLEAN
    BY <2>2
  <2>5. step' \in 1 .. Len(Program) + 1 /\ saved' \in 1 .. step' /\ op' \in Nat \ {0}
    BY <2>1, <2>2
  <2>6. /\ docs' \in 0 .. MaxDocs /\ failures' \in 0 .. MaxFailures
        /\ done' \in BOOLEAN
    BY <2>2 DEF Typed
  <2> QED
    BY <2>3, <2>4, <2>5, <2>6 DEF Typed
<1>6. CASE ReadChunk
  <2>1. docs' \in 0 .. MaxDocs
    BY <1>2, <1>6 DEF ReadChunk, Typed
  <2> QED
    BY <1>6, <2>1 DEF ReadChunk, Typed
<1>7. CASE ReadEOF
  <2>1. docs' \in 0 .. MaxDocs /\ eof' \in BOOLEAN
    BY <1>2, <1>7 DEF ReadEOF, Typed
  <2> QED
    BY <1>1, <1>7, <2>1 DEF ReadEOF, EndRead, Advance, Typed
<1>8. CASE ReadDocument
  BY <1>1, <1>8 DEF ReadDocument, EndRead, Advance, session, Typed
<1>9. CASE ReadFails \/ Crash
  BY <1>3, <1>9 DEF ReadFails, Crash, Lose, session, Typed
<1>10. CASE Write
  <2>1. buffer' \in Seq(Chunks)
    BY <1>1, <1>10, AppendProperties DEF Write, Typed
  <2> QED
    BY <1>1, <1>10, <2>1 DEF Write, Advance, Typed
<1>11. CASE Close
  <2>1. /\ buffer' \in Seq(Chunks) /\ eof' \in BOOLEAN /\ fresh' \in BOOLEAN
    BY <1>4, <1>11 DEF Close, Flush, session, Typed
  <2> QED
    BY <1>1, <1>11, <2>1 DEF Close, Advance, Typed
<1>12. CASE EndStep
  <2>1. step + 1 \in 1 .. Len(Program) + 1 /\ step + 1 \in 1 .. step + 1
    BY <1>0, <1>12, Lengths DEF EndStep
  <2>2. /\ step' = step + 1 /\ op' = 1 /\ saved' = step + 1
        /\ UNCHANGED <<session, running, docs, fresh, done, failures>>
    BY <1>12 DEF EndStep
  <2> QED
    BY <2>1, <2>2 DEF session, Typed
<1>13. CASE Finish
  BY <1>13 DEF Finish, session, Typed
<1> QED
  BY <1>5, <1>6, <1>7, <1>8, <1>9, <1>10, <1>11, <1>12, <1>13 DEF Next

\* Between the positions of an operation and of the one after it lies only that
\* operation.
LEMMA PrecedesNext ==
    ASSUME NEW c \in Chunks, NEW s \in Nat, NEW o \in Nat
    PROVE  Precedes(c, <<s, o + 1>>) <=> Precedes(c, <<s, o>>) \/ c = <<s, o>>
<1>1. c = <<c[1], c[2]>> /\ c[1] \in Nat /\ c[2] \in Nat
  BY DEF Chunks
<1>2. Precedes(c, <<s, o + 1>>) <=> Precedes(c, <<s, o>>) \/ (c[1] = s /\ c[2] = o)
  BY <1>1 DEF Precedes
<1> QED
  BY <1>1, <1>2

LEMMA PrecedesStep ==
    ASSUME NEW c \in Chunks, NEW s \in Nat, NEW o \in Nat, Precedes(c, <<s, o>>)
    PROVE  Precedes(c, <<s + 1, 1>>)
BY DEF Chunks, Precedes

\* What an operation does to the position and the buffer.
LEMMA Moves ==
    ASSUME Next
    PROVE  \/ /\ running' = running /\ step' = step /\ op' = op
              /\ buffer' = buffer /\ ReadChunk
           \/ /\ running /\ running' = running /\ step' = step /\ op' = op + 1
              /\ \/ At("read") /\ buffer' = buffer
                 \/ At("write") /\ buffer' = Append(buffer, <<step, op>>)
                 \/ At("close") /\ buffer' \in {buffer, <<>>}
           \/ EndStep
           \/ running' = FALSE /\ buffer' = buffer
           \/ Start
<1>1. CASE ReadChunk
  BY <1>1 DEF ReadChunk
<1>2. CASE ReadEOF \/ ReadDocument
  BY <1>2 DEF ReadEOF, ReadDocument, EndRead, Advance, At, session
<1>3. CASE Write
  BY <1>3 DEF Write, Advance, At
<1>4. CASE Close
  BY <1>4 DEF Close, Flush, Advance, At, session
<1>5. CASE ReadFails \/ Crash \/ Finish
  BY <1>5 DEF ReadFails, Crash, Finish, Lose, session
<1> QED
  BY <1>1, <1>2, <1>3, <1>4, <1>5 DEF Next

LEMMA StepBuffered ==
    ASSUME Typed, Buffered, Next
    PROVE  Buffered'
<1>0. step \in Nat /\ op \in Nat
  BY Position
<1>1. buffer \in Seq(Chunks) /\ Len(buffer) \in Nat
      /\ \A i \in 1 .. Len(buffer) : buffer[i] \in Chunks
  BY LenProperties, ElementOfSeq DEF Typed
<1>2. CASE buffer' = <<>>
  <2>1. Len(buffer') = 0
    BY <1>2
  <2> QED
    BY <2>1 DEF Buffered, InOrder
<1>3. CASE /\ running' = running /\ step' = step /\ op' = op /\ buffer' = buffer
  BY <1>3 DEF Buffered
<1>4. CASE running /\ step' = step /\ op' = op + 1 /\ buffer' = buffer
  BY <1>0, <1>1, <1>4, PrecedesNext DEF Buffered
<1>5. CASE /\ running /\ step' = step /\ op' = op + 1
           /\ buffer' = Append(buffer, <<step, op>>)
  <2>1. <<step, op>> \in Chunks
    BY <1>0 DEF Chunks
  <2>2. /\ Len(buffer') = Len(buffer) + 1
        /\ \A i \in 1 .. Len(buffer) : buffer'[i] = buffer[i]
        /\ buffer'[Len(buffer) + 1] = <<step, op>>
    BY <1>1, <1>5, <2>1, AppendProperties
  <2>3. ASSUME NEW i \in 1 .. Len(buffer') PROVE Precedes(buffer'[i], <<step, op + 1>>)
    <3>1. CASE i = Len(buffer) + 1
      BY <1>0, <2>1, <2>2, <3>1, PrecedesNext
    <3>2. CASE i # Len(buffer) + 1
      <4>1. i \in 1 .. Len(buffer)
        BY <1>1, <2>2, <3>2
      <4> QED
        BY <1>0, <1>1, <1>5, <2>2, <4>1, PrecedesNext DEF Buffered
    <3> QED
      BY <3>1, <3>2
  <2>4. ASSUME NEW i \in 1 .. Len(buffer'), NEW j \in 1 .. Len(buffer'), i < j
        PROVE  Precedes(buffer'[i], buffer'[j])
    <3>1. i \in 1 .. Len(buffer)
      BY <1>1, <2>2, <2>4
    <3>2. CASE j = Len(buffer) + 1
      BY <1>5, <2>2, <3>1, <3>2 DEF Buffered
    <3>3. CASE j # Len(buffer) + 1
      <4>1. j \in 1 .. Len(buffer)
        BY <1>1, <2>2, <3>3
      <4> QED
        BY <2>2, <2>4, <3>1, <4>1 DEF Buffered, InOrder
    <3> QED
      BY <3>2, <3>3
  <2> QED
    BY <1>5, <2>3, <2>4 DEF Buffered, InOrder
<1>6. CASE EndStep
  BY <1>0, <1>1, <1>6, PrecedesStep DEF EndStep, session, Buffered
<1>7. CASE running' = FALSE /\ buffer' = buffer
  BY <1>7 DEF Buffered
<1>8. CASE Start
  BY <1>2, <1>8 DEF Start
<1> QED
  BY <1>2, <1>3, <1>4, <1>5, <1>6, <1>7, <1>8, Moves

\* The stream state is consistent and the session's position in the workflow.
THEOREM TypeCorrect == Spec => []TypeOK
<1> DEFINE Inv == Typed /\ Buffered /\ (eof => reader = <<>>)
<1>1. Init => Inv
  BY InitTyped DEF Download
<1>2. Inv /\ [Next]_vars => Inv'
  <2> SUFFICES ASSUME Inv, [Next]_vars PROVE Inv'
    OBVIOUS
  <2>1. CASE UNCHANGED vars
    BY <2>1 DEF vars, Typed, Buffered
  <2>2. CASE Next
    <3>1. eof' => reader' = <<>>
      BY <2>2
      DEF Next, Start, ReadChunk, ReadEOF, ReadDocument, ReadFails, Write, Close,
          Flush, EndStep, Finish, Crash, session
    <3> QED
      BY <2>2, <3>1, StepTyped, StepBuffered
  <2> QED
    BY <2>1, <2>2
<1>3. Inv => TypeOK
  BY DEF Typed, Buffered, TypeOK
<1> QED
  BY <1>1, <1>2, <1>3, PTL DEF Spec

(***************************************************************************)
(* The download side.                                                      *)
(***************************************************************************)

\* The document the next chunk is of, by what the session has read.
LEMMA OpenedUntouched ==
    ASSUME Typed, Untouched
    PROVE  /\ docs + 1 \in Nat \ {0} /\ 0 \in 0 .. ChunksPerDoc
           /\ Opened = Rest(docs + 1, 0) /\ got = First(docs + 1, 0)
<1>1. docs + 1 \in Nat \ {0} /\ 0 \in 0 .. ChunksPerDoc
  BY BoundsAssumption DEF Typed
<1> QED
  BY <1>1, WholeParts DEF Opened, Untouched

\* One chunk is read from a document of which n chunks were read.
LEMMA ReadOne ==
    ASSUME NEW d \in Nat, NEW n \in 0 .. ChunksPerDoc,
           Opened = Rest(d, n), got = First(d, n), Opened # <<>>,
           got' = Append(got, Head(Opened)), reader' = <<Tail(Opened)>>
    PROVE  /\ n + 1 \in 0 .. ChunksPerDoc
           /\ got' = First(d, n + 1) /\ reader' = <<Rest(d, n + 1)>>
<1>1. n # ChunksPerDoc
  BY WholeParts
<1> QED
  BY <1>1, NextPart

\* A document of which nothing is left has been read whole.
LEMMA ReadAll ==
    ASSUME NEW d \in Nat, NEW n \in 0 .. ChunksPerDoc, Rest(d, n) = <<>>
    PROVE  First(d, n) = Doc(d)
<1>1. n = ChunksPerDoc
  BY NextPart
<1> QED
  BY <1>1, WholeParts

LEMMA StepDownload ==
    ASSUME Typed, Download, OneDocumentPerExchange, Next
    PROVE  Download' /\ OneDocumentPerExchange'
<1>0. docs \in Nat /\ op \in Nat /\ running \in BOOLEAN
  BY BoundsAssumption DEF Typed
<1>1. ASSUME docs' \in Nat, docs <= docs', reads' = reads
      PROVE  OneDocumentPerExchange'
  BY <1>0, <1>1 DEF OneDocumentPerExchange
<1>2. ASSUME EndRead, docs' \in Nat, docs <= docs',
             IF fresh THEN \E d \in 1 .. docs' : got = Doc(d) ELSE got = <<>>
      PROVE  OneDocumentPerExchange'
  <2>1. reads' = reads \cup {[fresh |-> fresh, data |-> got]}
    BY <1>2 DEF EndRead
  <2>2. ASSUME NEW r \in reads
        PROVE  IF r.fresh THEN \E d \in 1 .. docs' : r.data = Doc(d) ELSE r.data = <<>>
    BY <1>0, <1>2, <2>2 DEF OneDocumentPerExchange
  <2> DEFINE new == [fresh |-> fresh, data |-> got]
  <2>3. IF new.fresh THEN \E d \in 1 .. docs' : new.data = Doc(d) ELSE new.data = <<>>
    BY <1>2
  <2> QED
    BY <2>1, <2>2, <2>3 DEF OneDocumentPerExchange, Doc
<1>3. running => Untouched \/ Reading \/ Exhausted
  BY DEF Download
<1>4. CASE Start
  BY <1>0, <1>1, <1>4 DEF Start, Download, Untouched
<1>5. CASE ReadChunk
  <2>1. /\ running /\ At("read") /\ ~eof /\ eof' = eof /\ fresh' = fresh
        /\ got' = Append(got, Head(Opened)) /\ reader' = <<Tail(Opened)>>
        /\ Opened # <<>> /\ reads' = reads
        /\ docs' = IF reader = <<>> THEN docs + 1 ELSE docs
        /\ UNCHANGED <<running, step, op>>
    BY <1>5 DEF ReadChunk, At
  <2>2. At("read")'
    BY <2>1 DEF At
  <2>3. ASSUME NEW n \in 0 .. ChunksPerDoc, fresh, docs' \in Nat \ {0},
               got' = First(docs', n), reader' = <<Rest(docs', n)>>
        PROVE  Download'
    BY <2>1, <2>2, <2>3 DEF Download, Reading
  <2>4. CASE Untouched
    <3>1. docs' = docs + 1 /\ fresh
      BY <2>1, <2>4 DEF Untouched
    <3>2. /\ docs' \in Nat \ {0} /\ 0 \in 0 .. ChunksPerDoc
          /\ Opened = Rest(docs', 0) /\ got = First(docs', 0)
      BY <2>4, <3>1, OpenedUntouched
    <3>3. /\ 0 + 1 \in 0 .. ChunksPerDoc /\ got' = First(docs', 0 + 1)
          /\ reader' = <<Rest(docs', 0 + 1)>>
      BY <2>1, <3>2, ReadOne
    <3>4. Download'
      BY <2>3, <3>1, <3>2, <3>3
    <3>5. docs' \in Nat /\ docs <= docs' /\ reads' = reads
      BY <1>0, <2>1, <3>1
    <3> QED
      BY <1>1, <3>4, <3>5
  <2>5. CASE Reading
    <3>1. PICK n \in 0 .. ChunksPerDoc :
            got = First(docs, n) /\ reader = <<Rest(docs, n)>>
      BY <2>5 DEF Reading
    <3>2. docs' = docs /\ Opened = Rest(docs, n) /\ fresh /\ docs \in Nat \ {0}
      BY <1>0, <2>1, <2>5, <3>1 DEF Opened, Reading
    <3>3. /\ n + 1 \in 0 .. ChunksPerDoc /\ got' = First(docs, n + 1)
          /\ reader' = <<Rest(docs, n + 1)>>
      BY <2>1, <3>1, <3>2, ReadOne
    <3> QED
      BY <1>1, <2>1, <2>3, <3>2, <3>3
  <2>6. ~Exhausted
    <3> SUFFICES ASSUME Exhausted PROVE FALSE
      OBVIOUS
    <3>1. reader = << <<>> >>
      BY <2>1 DEF Exhausted
    <3>2. reader # <<>> /\ reader[1] = <<>>
      BY <3>1
    <3> QED
      BY <2>1, <3>2 DEF Opened
  <2> QED
    BY <1>3, <2>1, <2>4, <2>5, <2>6
<1>6. CASE ReadEOF
  <2>1. /\ running /\ EndRead /\ fresh' = FALSE /\ got' = <<>>
    BY <1>6 DEF ReadEOF, At, EndRead, Advance
  <2>2. CASE eof /\ UNCHANGED <<reader, eof, docs>>
    <3>1. Exhausted
      BY <1>3, <2>1, <2>2 DEF Untouched, Reading
    <3>2. Exhausted'
      BY <2>1, <2>2, <3>1 DEF Exhausted
    <3>3. ~fresh /\ got = <<>>
      BY <3>1 DEF Exhausted
    <3> QED
      BY <1>0, <1>2, <2>1, <2>2, <3>1, <3>2, <3>3 DEF Exhausted, Download
  <2>3. CASE /\ ~eof /\ Opened = <<>> /\ reader' = <<>> /\ eof' = TRUE
             /\ docs' = IF reader = <<>> THEN docs + 1 ELSE docs
    <3>1. Download'
      BY <2>1, <2>3 DEF Exhausted, Download
    <3>2. IF fresh THEN \E d \in 1 .. docs' : got = Doc(d) ELSE got = <<>>
      <4>1. CASE Untouched
        <5>1. docs' = docs + 1 /\ fresh
          BY <2>3, <4>1 DEF Untouched
        <5>2. /\ docs' \in Nat \ {0} /\ 0 \in 0 .. ChunksPerDoc
              /\ Rest(docs', 0) = <<>> /\ got = First(docs', 0)
          BY <2>3, <4>1, <5>1, OpenedUntouched
        <5>3. got = Doc(docs')
          BY <5>2, ReadAll
        <5> QED
          BY <5>1, <5>2, <5>3
      <4>2. CASE Reading
        <5>1. PICK n \in 0 .. ChunksPerDoc :
                got = First(docs, n) /\ reader = <<Rest(docs, n)>>
          BY <4>2 DEF Reading
        <5>2. docs' = docs /\ Rest(docs, n) = <<>> /\ docs \in Nat \ {0}
          BY <1>0, <2>3, <4>2, <5>1 DEF Opened, Reading
        <5>3. got = Doc(docs')
          BY <5>1, <5>2, ReadAll
        <5> QED
          BY <4>2, <5>2, <5>3 DEF Reading
      <4>3. CASE Exhausted
        BY <4>3 DEF Exhausted
      <4> QED
        BY <1>3, <2>1, <4>1, <4>2, <4>3
    <3> QED
      BY <1>0, <1>2, <2>1, <2>3, <3>1, <3>2
  <2> QED
    BY <1>6, <2>2, <2>3 DEF ReadEOF
<1>7. CASE ReadDocument
  <2>1. /\ running /\ EndRead /\ fresh' = FALSE /\ got' = <<>>
        /\ UNCHANGED <<reader, eof, docs>>
        /\ Len(got) = ChunksPerDoc /\ ChunksPerDoc > 0
    BY <1>7 DEF ReadDocument, At, EndRead, Advance, session
  <2>2. got # <<>>
    BY <2>1
  <2>3. Reading
    BY <1>3, <2>1, <2>2 DEF Untouched, Exhausted
  <2>4. PICK n \in 0 .. ChunksPerDoc :
          got = First(docs, n) /\ reader = <<Rest(docs, n)>>
    BY <2>3 DEF Reading
  <2>5. n = ChunksPerDoc
    BY <1>0, <2>1, <2>4, PartsAreSeqs
  <2>6. got = Doc(docs) /\ reader = << <<>> >>
    BY <1>0, <2>4, <2>5, WholeParts
  <2>7. Download'
    BY <2>1, <2>3, <2>6 DEF Reading, Exhausted, Download
  <2>8. fresh /\ docs \in 1 .. docs'
    BY <1>0, <2>1, <2>3 DEF Reading
  <2> QED
    BY <1>0, <1>2, <2>1, <2>6, <2>7, <2>8
<1>8. CASE ReadFails \/ Crash \/ Finish
  <2>1. running' = FALSE /\ UNCHANGED <<reader, eof, docs, reads>>
    BY <1>8 DEF ReadFails, Crash, Finish, Lose, session
  <2> QED
    BY <1>0, <1>1, <2>1 DEF Download
<1>9. CASE Write
  <2>1. /\ running /\ ~At("read") /\ got' = <<>>
        /\ UNCHANGED <<reader, eof, docs, reads, fresh>>
    BY <1>9 DEF Write, At, Advance
  <2>2. Untouched \/ Exhausted
    BY <1>3, <2>1 DEF Reading
  <2>3. Untouched' \/ Exhausted'
    BY <2>1, <2>2 DEF Untouched, Exhausted
  <2> QED
    BY <1>0, <1>1, <2>1, <2>3 DEF Untouched, Exhausted, Download
<1>10. CASE Close
  <2>1. /\ running /\ ~At("read") /\ got' = <<>> /\ UNCHANGED <<docs, reads>>
    BY <1>10 DEF Close, At, Advance
  <2>2. CASE UNCHANGED <<reader, eof, fresh>>
    <3>1. Untouched \/ Exhausted
      BY <1>3, <2>1 DEF Reading
    <3>2. Untouched' \/ Exhausted'
      BY <2>1, <2>2, <3>1 DEF Untouched, Exhausted
    <3> QED
      BY <1>0, <1>1, <2>1, <3>2 DEF Untouched, Exhausted, Download
  <2>3. CASE reader' = <<>> /\ eof' = FALSE /\ fresh' = TRUE
    BY <1>0, <1>1, <2>1, <2>3 DEF Untouched, Download
  <2> QED
    BY <1>10, <2>2, <2>3 DEF Close, Flush, session
<1>11. CASE EndStep
  <2>1. /\ running /\ UNCHANGED <<reader, eof, fresh, got, docs, reads>>
        /\ ~(op <= Len(Program[step])) /\ step <= Len(Program)
    <3>1. step \in 1 .. Len(Program)
      BY <1>11, Lengths, Position DEF EndStep
    <3>2. Len(Program[step]) \in Nat
      BY <3>1, Lengths
    <3> QED
      BY <1>0, <1>11, <3>2 DEF EndStep, session
  <2>2. Untouched \/ Exhausted
    BY <1>3, <2>1 DEF Reading, At
  <2>3. Untouched' \/ Exhausted'
    BY <2>1, <2>2 DEF Untouched, Exhausted
  <2> QED
    BY <1>0, <1>1, <2>1, <2>3 DEF Untouched, Exhausted, Download
<1> QED
  BY <1>4, <1>5, <1>6, <1>7, <1>8, <1>9, <1>10, <1>11 DEF Next

\* Whatever sessions are lost and whatever steps read, write and close, the first
\* read after a reset gets one whole document and the next gets nothing.
THEOREM DocumentsAreWhole == Spec => []OneDocumentPerExchange
<1> DEFINE Inv == Typed /\ Download /\ OneDocumentPerExchange
<1>1. Init => Inv
  BY InitTyped DEF Init, OneDocumentPerExchange
<1>2. Inv /\ [Next]_vars => Inv'
  <2> SUFFICES ASSUME Inv, [Next]_vars PROVE Inv'
    OBVIOUS
  <2>1. CASE UNCHANGED vars
    BY <2>1
    DEF vars, Typed, Download, Untouched, Reading, Exhausted, At,
        OneDocumentPerExchange
  <2>2. CASE Next
    BY <2>2, StepTyped, StepDownload
  <2> QED
    BY <2>1, <2>2
<1> QED
  BY <1>1, <1>2, PTL DEF Spec

(***************************************************************************)
(* The upload side, for workflows whose steps close what they write.       *)
(***************************************************************************)
StepsClose ==
    \A w \in Ops : Kind(w) = "write" =>
        \E d \in Ops : Kind(d) = "close" /\ d[1] = w[1] /\ Precedes(w, d)

LEMMA OpPairs ==
    ASSUME NEW s, NEW o
    PROVE  <<s, o>> \in Ops <=>
             s \in 1 .. Len(Program) /\ o \in 1 .. Len(Program[s])
BY DEF Ops

LEMMA OpShape ==
    ASSUME NEW c \in Ops
    PROVE  /\ c = <<c[1], c[2]>> /\ c \in Chunks
           /\ c[1] \in Nat \ {0} /\ c[2] \in Nat \ {0}
           /\ c[1] \in 1 .. Len(Program) /\ c[2] \in 1 .. Len(Program[c[1]])
<1>1. c = <<c[1], c[2]>>
  BY DEF Ops
<1>2. c[1] \in 1 .. Len(Program) /\ c[2] \in 1 .. Len(Program[c[1]])
  BY <1>1, OpPairs
<1>3. c[1] \in Nat \ {0} /\ c[2] \in Nat \ {0}
  BY <1>2, Lengths
<1> QED
  BY <1>1, <1>2, <1>3 DEF Chunks

\* The operation a guest is at.
LEMMA AtOp ==
    ASSUME Typed, NEW operation, At(operation)
    PROVE  <<step, op>> \in Ops /\ Kind(<<step, op>>) = operation
<1>1. step \in 1 .. Len(Program)
  BY Lengths, Position DEF At
<1>2. op \in 1 .. Len(Program[step])
  BY <1>1, Lengths, Position DEF At
<1> QED
  BY <1>1, <1>2, OpPairs DEF At, Kind

\* Before the first operation of a step everything is closed.
LEMMA WrittenFirst ==
    ASSUME StepsClose, NEW s \in Nat
    PROVE  Written(<<s, 1>>) = {}
<1> SUFFICES ASSUME NEW w \in Written(<<s, 1>>) PROVE FALSE
  OBVIOUS
<1>1. w \in Ops /\ Kind(w) = "write" /\ Precedes(w, <<s, 1>>)
  BY DEF Written
<1>2. PICK d \in Ops : Kind(d) = "close" /\ d[1] = w[1] /\ Precedes(w, d)
  BY <1>1 DEF StepsClose
<1>3. Precedes(d, <<s, 1>>)
  BY <1>1, <1>2, OpShape DEF Precedes
<1> QED
  BY <1>2, <1>3 DEF Written

\* Behind the last operation of a step, too.
LEMMA WrittenLast ==
    ASSUME StepsClose, NEW s \in 1 .. Len(Program), NEW o \in Nat,
           o > Len(Program[s])
    PROVE  Written(<<s, o>>) = {}
<1> SUFFICES ASSUME NEW w \in Written(<<s, o>>) PROVE FALSE
  OBVIOUS
<1>1. w \in Ops /\ Kind(w) = "write" /\ Precedes(w, <<s, o>>)
  BY DEF Written
<1>2. PICK d \in Ops : Kind(d) = "close" /\ d[1] = w[1] /\ Precedes(w, d)
  BY <1>1 DEF StepsClose
<1>3. Len(Program[s]) \in Nat /\ s \in Nat
  BY Lengths
<1>4. w[1] \in Nat /\ w[2] \in Nat /\ d[2] \in Nat /\ d[2] \in 1 .. Len(Program[d[1]])
  BY <1>1, <1>2, OpShape
<1>5. Precedes(d, <<s, o>>)
  <2>1. w[1] <= s
    BY <1>1, <1>3, <1>4 DEF Precedes
  <2>2. CASE w[1] < s
    BY <1>2, <2>2 DEF Precedes
  <2>3. CASE w[1] = s
    BY <1>2, <1>3, <1>4, <2>3 DEF Precedes
  <2> QED
    BY <1>3, <1>4, <2>1, <2>2, <2>3
<1> QED
  BY <1>2, <1>5 DEF Written

\* What a read, a write and a close do to what is written.
LEMMA WrittenNext ==
    ASSUME NEW s \in Nat, NEW o \in Nat, <<s, o>> \in Ops
    PROVE  /\ Kind(<<s, o>>) = "read" =>
                Written(<<s, o + 1>>) = Written(<<s, o>>)
           /\ Kind(<<s, o>>) = "write" =>
                Written(<<s, o + 1>>) = Written(<<s, o>>) \cup {<<s, o>>}
           /\ Kind(<<s, o>>) = "close" => Written(<<s, o + 1>>) = {}
<1> DEFINE c == <<s, o>>
           next == <<s, o + 1>>
<1>1. \A w \in Ops : Precedes(w, next) <=> Precedes(w, c) \/ w = c
  BY OpShape, PrecedesNext
<1>2. ~Precedes(c, c)
  BY DEF Precedes
<1>3. \A w \in Ops : Precedes(w, c) => w # c
  BY <1>2
<1>4. \A w, d \in Ops : ~(Precedes(c, d) /\ Precedes(d, c))
  BY OpShape DEF Precedes
<1> HIDE DEF c, next
<1>5. CASE Kind(c) = "read"
  <2>1. Written(next) = Written(c)
    BY <1>1, <1>5 DEF Written
  <2> QED
    BY <1>5, <2>1 DEF c, next
<1>6. CASE Kind(c) = "write"
  <2>1. c \in Ops
    BY DEF c
  <2>2. \A w \in Ops : w \in Written(next) <=> w \in Written(c) \/ w = c
    BY <1>1, <1>2, <1>4, <1>6, <2>1 DEF Written
  <2>3. Written(next) = Written(c) \cup {c}
    BY <2>1, <2>2 DEF Written
  <2> QED
    BY <1>6, <2>3 DEF c, next
<1>7. CASE Kind(c) = "close"
  <2>1. c \in Ops
    BY DEF c
  <2>2. \A w \in Ops : w \notin Written(next)
    BY <1>1, <1>7, <2>1 DEF Written
  <2>3. Written(next) = {}
    BY <2>2 DEF Written
  <2> QED
    BY <1>7, <2>3 DEF c, next
<1> QED
  BY <1>5, <1>6, <1>7 DEF c, next

\* The buffer of a session is what the workflow has written since its last close.
BufferWhole == running => Range(buffer) = Written(<<step, op>>)

LEMMA RangeAppend ==
    ASSUME NEW s \in Seq(Chunks), NEW e \in Chunks
    PROVE  Range(Append(s, e)) = Range(s) \cup {e}
<1>1. /\ Append(s, e) \in Seq(Chunks) /\ Len(Append(s, e)) = Len(s) + 1
      /\ \A i \in 1 .. Len(s) : Append(s, e)[i] = s[i]
      /\ Append(s, e)[Len(s) + 1] = e
  BY AppendProperties
<1>2. Range(Append(s, e)) = {Append(s, e)[i] : i \in 1 .. Len(s) + 1}
  BY <1>1, RangeEquality
<1>3. Range(s) = {s[i] : i \in 1 .. Len(s)} /\ Len(s) \in Nat
  BY RangeEquality
<1> QED
  BY <1>1, <1>2, <1>3

LEMMA RangeEmpty == Range(<<>>) = {}
<1>1. DOMAIN <<>> = {}
  OBVIOUS
<1> QED
  BY <1>1 DEF Range

LEMMA StepWhole ==
    ASSUME StepsClose, Typed, BufferWhole, Next
    PROVE  BufferWhole'
<1>0. step \in Nat /\ op \in Nat /\ saved \in Nat /\ buffer \in Seq(Chunks)
      /\ <<step, op>> \in Chunks
  BY Position DEF Typed, Chunks
<1>1. CASE running' = running /\ step' = step /\ op' = op /\ buffer' = buffer
  BY <1>1 DEF BufferWhole
<1>2. ASSUME running, step' = step, op' = op + 1, At("read"), buffer' = buffer
      PROVE  BufferWhole'
  <2>1. <<step, op>> \in Ops /\ Kind(<<step, op>>) = "read"
    BY <1>2, AtOp
  <2>2. Written(<<step, op + 1>>) = Written(<<step, op>>)
    BY <1>0, <2>1, WrittenNext
  <2> QED
    BY <1>2, <2>2 DEF BufferWhole
<1>3. ASSUME running, step' = step, op' = op + 1, At("write"),
             buffer' = Append(buffer, <<step, op>>)
      PROVE  BufferWhole'
  <2>1. Range(buffer') = Range(buffer) \cup {<<step, op>>}
    BY <1>0, <1>3, RangeAppend
  <2>2. Written(<<step, op + 1>>) = Written(<<step, op>>) \cup {<<step, op>>}
    <3>1. <<step, op>> \in Ops /\ Kind(<<step, op>>) = "write"
      BY <1>3, AtOp
    <3> QED
      BY <1>0, <3>1, WrittenNext
  <2> QED
    BY <1>3, <2>1, <2>2 DEF BufferWhole
<1>4. CASE Close
  <2>1. /\ running /\ step' = step /\ op' = op + 1 /\ At("close") /\ buffer' = <<>>
    BY <1>4 DEF Close, Flush, Advance, At, session
  <2>2. <<step, op>> \in Ops /\ Kind(<<step, op>>) = "close"
    BY <2>1, AtOp
  <2>3. Written(<<step, op + 1>>) = {}
    BY <1>0, <2>2, WrittenNext
  <2> QED
    BY <2>1, <2>3, RangeEmpty DEF BufferWhole
<1>5. CASE EndStep
  <2>1. /\ running /\ step' = step + 1 /\ op' = 1 /\ buffer' = buffer
        /\ step \in 1 .. Len(Program) /\ op > Len(Program[step])
    BY <1>0, <1>5, Position, Lengths DEF EndStep, session
  <2>2. Written(<<step, op>>) = {} /\ Written(<<step + 1, 1>>) = {}
    BY <1>0, <2>1, WrittenLast, WrittenFirst
  <2> QED
    BY <2>1, <2>2 DEF BufferWhole
<1>6. CASE running' = FALSE
  BY <1>6 DEF BufferWhole
<1>7. CASE Start
  <2>1. step' = saved /\ op' = 1 /\ buffer' = <<>>
    BY <1>7 DEF Start
  <2> QED
    BY <1>0, <2>1, WrittenFirst, RangeEmpty DEF BufferWhole
<1>8. CASE ReadChunk
  BY <1>1, <1>8 DEF ReadChunk
<1>9. CASE ReadEOF \/ ReadDocument
  BY <1>2, <1>9 DEF ReadEOF, ReadDocument, EndRead, Advance, At, session
<1>10. CASE Write
  BY <1>3, <1>10 DEF Write, Advance, At
<1>11. CASE ReadFails \/ Crash \/ Finish
  BY <1>6, <1>11 DEF ReadFails, Crash, Finish, Lose
<1> QED
  BY <1>4, <1>5, <1>7, <1>8, <1>9, <1>10, <1>11 DEF Next

\* The close a guest is at uploads what it closes.
LEMMA UploadIsOutput ==
    ASSUME Typed, Buffered, BufferWhole, At("close")
    PROVE  op \in Closes(step) /\ IsOutput(buffer, <<step, op>>)
<1>1. <<step, op>> \in Ops /\ Kind(<<step, op>>) = "close"
  BY AtOp
<1>2. op \in Closes(step)
  BY <1>1, OpPairs DEF Closes, Kind
<1>3. running
  BY DEF At
<1> QED
  BY <1>2, <1>3 DEF IsOutput, Buffered, BufferWhole

\* Only a close that finds something in the buffer uploads.
LEMMA UploadsGrow ==
    ASSUME Next
    PROVE  \/ uploads' = uploads
           \/ /\ Close /\ buffer # <<>>
              /\ \E ok \in BOOLEAN :
                   uploads' = uploads \cup {[step |-> step, body |-> buffer, ok |-> ok]}
<1>1. CASE Close
  BY <1>1 DEF Close, Flush
<1>2. CASE Start \/ ReadChunk \/ ReadEOF \/ ReadDocument \/ ReadFails
  BY <1>2 DEF Start, ReadChunk, ReadEOF, ReadDocument, ReadFails
<1>3. CASE Write \/ EndStep \/ Finish \/ Crash
  BY <1>3 DEF Write, EndStep, Finish, Crash
<1> QED
  BY <1>1, <1>2, <1>3 DEF Next

LEMMA StepUploads ==
    ASSUME Typed, Buffered, BufferWhole, UploadsAreWhole, Next
    PROVE  UploadsAreWhole'
<1>1. CASE uploads' = uploads
  BY <1>1 DEF UploadsAreWhole
<1>2. CASE Close /\ buffer # <<>>
  <2>1. op \in Closes(step) /\ IsOutput(buffer, <<step, op>>)
    BY <1>2, UploadIsOutput DEF Close
  <2>2. PICK ok : uploads' \subseteq uploads \cup {[step |-> step, body |-> buffer, ok |-> ok]}
    BY UploadsGrow
  <2> SUFFICES ASSUME NEW u \in uploads'
               PROVE  \E o \in Closes(u.step) : IsOutput(u.body, <<u.step, o>>)
    BY DEF UploadsAreWhole
  <2>3. CASE u \in uploads
    BY <2>3 DEF UploadsAreWhole
  <2>4. CASE u \notin uploads
    <3>1. u.step = step /\ u.body = buffer
      BY <2>2, <2>4
    <3> QED
      BY <2>1, <3>1
  <2> QED
    BY <2>3, <2>4
<1> QED
  BY <1>1, <1>2, UploadsGrow

\* The parts of the upload side's invariant so far, with their temporal step.
Upload == Typed /\ Buffered /\ BufferWhole /\ UploadsAreWhole

LEMMA InitUpload == Init => Upload
<1> SUFFICES ASSUME Init PROVE Upload
  OBVIOUS
<1>1. ~running /\ uploads = {}
  BY DEF Init
<1> QED
  BY <1>1, InitTyped DEF Upload, BufferWhole, UploadsAreWhole

LEMMA StepUpload ==
    ASSUME StepsClose, Upload, [Next]_vars
    PROVE  Upload'
<1>1. CASE UNCHANGED vars
  BY <1>1 DEF vars, Upload, Typed, Buffered, BufferWhole, UploadsAreWhole
<1>2. CASE Next
  BY <1>2, StepTyped, StepBuffered, StepWhole, StepUploads DEF Upload
<1> QED
  BY <1>1, <1>2

\* In a workflow whose steps close what they write, every call of the upload
\* handler gets exactly what one close closes, whatever sessions are lost.
THEOREM UploadsWhole ==
    ASSUME StepsClose
    PROVE  Spec => []UploadsAreWhole
<1>1. Upload => UploadsAreWhole
  BY DEF Upload
<1> QED
  BY <1>1, InitUpload, StepUpload, PTL DEF Spec

(***************************************************************************)
(* No output is skipped: those before the guest's position, those of the   *)
(* steps before the checkpoint, and at the end all have been uploaded.     *)
(***************************************************************************)
Sent(c) == \E u \in uploads : u.step = c[1] /\ IsOutput(u.body, c)

SentBefore  == running => \A c \in Outputs : Precedes(c, <<step, op>>) => Sent(c)
SentSaved   == \A c \in Outputs : c[1] < saved => Sent(c)

\* What was sent stays sent.
LEMMA StaysSent ==
    ASSUME Next
    PROVE  \A c : Sent(c) => Sent(c)'
<1>1. uploads \subseteq uploads'
  BY UploadsGrow
<1> QED
  BY <1>1 DEF Sent

\* The close of an output finds it in the buffer, and uploads it.
LEMMA CloseSends ==
    ASSUME Upload, Close, NEW c \in Outputs, c = <<step, op>>
    PROVE  Sent(c)'
<1>1. IsOutput(buffer, c)
  BY UploadIsOutput DEF Upload, Close
<1>2. buffer # <<>>
  BY <1>1, RangeEmpty DEF IsOutput, Outputs
<1>3. PICK ok : uploads' = uploads \cup {[step |-> step, body |-> buffer, ok |-> ok]}
  BY <1>2 DEF Close, Flush
<1> DEFINE u == [step |-> step, body |-> buffer, ok |-> ok]
<1>4. u \in uploads' /\ u.step = step /\ u.body = buffer
  BY <1>3
<1> HIDE DEF u
<1>5. u.step = c[1] /\ IsOutput(u.body, c)
  BY <1>1, <1>4
<1> QED
  BY <1>4, <1>5 DEF Sent

LEMMA OutputShape ==
    ASSUME NEW c \in Outputs
    PROVE  c \in Ops /\ c \in Chunks /\ Kind(c) = "close"
           /\ c[1] \in 1 .. Len(Program) /\ c[2] \in 1 .. Len(Program[c[1]])
           /\ c[1] \in Nat /\ c[2] \in Nat
BY OpShape DEF Outputs

LEMMA StepSent ==
    ASSUME Upload, SentBefore, SentSaved, Next
    PROVE  SentBefore' /\ SentSaved'
<1>0. step \in Nat /\ op \in Nat /\ saved \in Nat /\ Typed
  BY Position DEF Upload
<1>1. CASE running' = running /\ step' = step /\ op' = op /\ saved' = saved
  BY <1>1, StaysSent DEF SentBefore, SentSaved
<1>2. ASSUME running, step' = step, op' = op + 1, saved' = saved,
             \/ At("read") \/ At("write") \/ Close
      PROVE  SentBefore' /\ SentSaved'
  <2>1. SentSaved'
    BY <1>2, StaysSent DEF SentSaved
  <2>2. ASSUME NEW c \in Outputs, Precedes(c, <<step, op + 1>>) PROVE Sent(c)'
    <3>1. CASE c = <<step, op>>
      <4>1. Kind(<<step, op>>) = "close"
        BY <3>1, OutputShape
      <4>2. ~At("read") /\ ~At("write")
        BY <4>1 DEF At, Kind
      <4> QED
        BY <1>2, <3>1, <4>2, CloseSends
    <3>2. CASE c # <<step, op>>
      <4>1. Precedes(c, <<step, op>>)
        BY <1>0, <2>2, <3>2, PrecedesNext, OutputShape
      <4> QED
        BY <1>2, <4>1, StaysSent DEF SentBefore
    <3> QED
      BY <3>1, <3>2
  <2>3. SentBefore'
    BY <1>2, <2>2 DEF SentBefore
  <2> QED
    BY <2>1, <2>3
<1>3. CASE EndStep
  <2>1. /\ running /\ step' = step + 1 /\ op' = 1 /\ saved' = step + 1
        /\ step \in 1 .. Len(Program) /\ op > Len(Program[step])
    BY <1>0, <1>3, Lengths, Position DEF EndStep
  <2>2. ASSUME NEW c \in Outputs, c[1] < step + 1 PROVE Sent(c)'
    <3>1. Precedes(c, <<step, op>>)
      <4>1. CASE c[1] = step
        BY <1>0, <2>1, <4>1, OutputShape, Lengths DEF Precedes
      <4>2. CASE c[1] # step
        BY <1>0, <2>2, <4>2, OutputShape DEF Precedes
      <4> QED
        BY <4>1, <4>2
    <3> QED
      BY <2>1, <3>1, StaysSent DEF SentBefore
  <2>3. \A c \in Outputs : Precedes(c, <<step + 1, 1>>) => c[1] < step + 1
    BY <1>0, OutputShape DEF Precedes
  <2> QED
    BY <2>1, <2>2, <2>3 DEF SentBefore, SentSaved
<1>4. CASE running' = FALSE /\ saved' = saved
  BY <1>4, StaysSent DEF SentBefore, SentSaved
<1>5. CASE Start
  <2>1. step' = saved /\ op' = 1 /\ saved' = saved
    BY <1>5 DEF Start
  <2>2. \A c \in Outputs : Precedes(c, <<saved, 1>>) => c[1] < saved
    BY <1>0, OutputShape DEF Precedes
  <2> QED
    BY <2>1, <2>2, StaysSent DEF SentBefore, SentSaved
<1>6. CASE ReadChunk
  BY <1>1, <1>6 DEF ReadChunk
<1>7. CASE ReadEOF \/ ReadDocument
  BY <1>2, <1>7 DEF ReadEOF, ReadDocument, EndRead, Advance, At
<1>8. CASE Write
  BY <1>2, <1>8 DEF Write, Advance, At
<1>9. CASE Close
  BY <1>2, <1>9 DEF Close, Advance, At
<1>10. CASE ReadFails \/ Crash \/ Finish
  BY <1>4, <1>10 DEF ReadFails, Crash, Finish, Lose
<1> QED
  BY <1>3, <1>5, <1>6, <1>7, <1>8, <1>9, <1>10 DEF Next

\* Finish is behind every operation.
LEMMA StepDone ==
    ASSUME Upload, SentBefore, OutputsReachHandler, Next
    PROVE  OutputsReachHandler'
<1>1. OutputsReachHandler <=> (done => \A c \in Outputs : Sent(c))
  BY DEF OutputsReachHandler, Sent
<1>2. OutputsReachHandler' <=> (done' => \A c \in Outputs : Sent(c)')
  BY DEF OutputsReachHandler, Sent
<1>3. CASE done' = done
  BY <1>1, <1>2, <1>3, StaysSent
<1>4. CASE Finish
  <2>1. running /\ step > Len(Program) /\ step \in Nat
    BY <1>4, Position DEF Finish, Upload
  <2>2. \A c \in Outputs : Precedes(c, <<step, op>>)
    BY <2>1, OutputShape, Lengths DEF Precedes
  <2> QED
    BY <1>2, <2>1, <2>2, StaysSent DEF SentBefore
<1>5. CASE Start \/ ReadChunk \/ ReadEOF \/ ReadDocument \/ ReadFails
  BY <1>3, <1>5
  DEF Start, ReadChunk, ReadEOF, ReadDocument, ReadFails, EndRead, Advance, Lose
<1>6. CASE Write \/ Close \/ EndStep \/ Crash
  BY <1>3, <1>6 DEF Write, Close, EndStep, Crash, Advance, Lose
<1> QED
  BY <1>4, <1>5, <1>6 DEF Next

\* A workflow whose steps close what they write has, when it returns 0, handed
\* every one of its outputs to the upload handler, whatever sessions were lost.
THEOREM OutputsArrive ==
    ASSUME StepsClose
    PROVE  Spec => []OutputsReachHandler
<1> DEFINE Inv == Upload /\ SentBefore /\ SentSaved /\ OutputsReachHandler
<1>1. Init => Inv
  <2> SUFFICES ASSUME Init PROVE Inv
    OBVIOUS
  <2>1. ~running /\ ~done /\ saved = 1
    BY DEF Init
  <2>2. SentSaved
    BY <2>1, OutputShape DEF SentSaved
  <2> QED
    BY <2>1, <2>2, InitUpload DEF SentBefore, OutputsReachHandler
<1>2. Inv /\ [Next]_vars => Inv'
  <2> SUFFICES ASSUME Inv, [Next]_vars PROVE Inv'
    OBVIOUS
  <2>1. Upload'
    BY StepUpload
  <2>2. CASE UNCHANGED vars
    BY <2>1, <2>2 DEF vars, SentBefore, SentSaved, Sent, OutputsReachHandler
  <2>3. CASE Next
    BY <2>1, <2>3, StepSent, StepDone
  <2> QED
    BY <2>2, <2>3
<1> QED
  BY <1>1, <1>2, PTL DEF Spec

=============================================================================
