--------------------------- MODULE PipelineProofs ---------------------------
(***************************************************************************)
(* Proofs about the two-thread pipeline, for every set of streams, length and *)
(* number of words of the queue, and number of entries.                      *)
(*                                                                         *)
(* The pipeline is first shown to run its queue and its socket as their own   *)
(* modules specify them, so that what is proved of the queue alone holds in    *)
(* it.  The invariant then relates the two ends: what has been processed are   *)
(* answers at increasing positions, the last of them where the reader's        *)
(* cursor stands.                                                            *)
(***************************************************************************)
EXTENDS Pipeline, SequenceTheorems, TLAPS

QueueProofs == INSTANCE SeqLockQueueProofs WITH Readers <- {Main}

USE QueueAssumption

-----------------------------------------------------------------------------
(* The pipeline implements its components.                                   *)

LEMMA SameActions ==
  /\ Queue!Init <=> QueueProofs!Init
  /\ Queue!Enqueue <=> QueueProofs!Enqueue
  /\ Queue!LoadVersion(Main) <=> QueueProofs!LoadVersion(Main)
  /\ Queue!CopyWord(Main) <=> QueueProofs!CopyWord(Main)
  /\ Queue!Retry(Main) <=> QueueProofs!Retry(Main)
  /\ Queue!ReturnEntry(Main) <=> QueueProofs!ReturnEntry(Main)
  /\ Queue!ReturnNothing(Main) <=> QueueProofs!ReturnNothing(Main)
  /\ Queue!Nothing = QueueProofs!Nothing
<1>1. Queue!Init <=> QueueProofs!Init
  BY DEF Queue!Init, QueueProofs!Init, Queue!NewReader, QueueProofs!NewReader,
         Queue!Nothing, QueueProofs!Nothing, Queue!Slots, QueueProofs!Slots
<1>2. Queue!Enqueue <=> QueueProofs!Enqueue
  BY DEF Queue!Enqueue, QueueProofs!Enqueue, Queue!BeginInsert, QueueProofs!BeginInsert,
         Queue!WriteWord, QueueProofs!WriteWord, Queue!EndInsert, QueueProofs!EndInsert,
         Queue!EnqueueSlot, QueueProofs!EnqueueSlot
<1>3. Queue!LoadVersion(Main) <=> QueueProofs!LoadVersion(Main)
  BY DEF Queue!LoadVersion, QueueProofs!LoadVersion, Queue!ReadSlot, QueueProofs!ReadSlot
<1>4. Queue!CopyWord(Main) <=> QueueProofs!CopyWord(Main)
  BY DEF Queue!CopyWord, QueueProofs!CopyWord, Queue!ReadSlot, QueueProofs!ReadSlot
<1>5. Queue!Retry(Main) <=> QueueProofs!Retry(Main)
  BY DEF Queue!Retry, QueueProofs!Retry, Queue!ReadSlot, QueueProofs!ReadSlot,
         Queue!ReadIsStable, QueueProofs!ReadIsStable
<1>6. Queue!ReturnEntry(Main) <=> QueueProofs!ReturnEntry(Main)
  BY DEF Queue!ReturnEntry, QueueProofs!ReturnEntry, Queue!ReadSlot, QueueProofs!ReadSlot,
         Queue!ReadIsStable, QueueProofs!ReadIsStable, Queue!IsNewEntry,
         QueueProofs!IsNewEntry, Queue!VersionExpected, QueueProofs!VersionExpected,
         Queue!Entries, QueueProofs!Entries
<1>7. Queue!ReturnNothing(Main) <=> QueueProofs!ReturnNothing(Main)
  BY DEF Queue!ReturnNothing, QueueProofs!ReturnNothing, Queue!ReadSlot, QueueProofs!ReadSlot,
         Queue!ReadIsStable, QueueProofs!ReadIsStable, Queue!IsNewEntry,
         QueueProofs!IsNewEntry, Queue!Nothing, QueueProofs!Nothing
<1>8. Queue!Nothing = QueueProofs!Nothing
  BY DEF Queue!Nothing, QueueProofs!Nothing
<1> QED BY <1>1, <1>2, <1>3, <1>4, <1>5, <1>6, <1>7, <1>8

\* Every step of the pipeline is a step of the queue or none.
LEMMA QueueSteps == [Next]_vars => [Queue!Next]_(Queue!vars)
<1> SUFFICES ASSUME [Next]_vars PROVE Queue!Next \/ UNCHANGED Queue!vars
  OBVIOUS
<1>1. CASE UNCHANGED queueVars
  BY <1>1 DEF queueVars, Queue!vars
<1>2. CASE Enqueue
  BY <1>2 DEF Enqueue, Queue!Next
<1>3. CASE Dequeue
  BY <1>3 DEF Dequeue, Queue!Next, Queue!ReadNextEntry
<1>4. Enqueue \/ Dequeue \/ UNCHANGED queueVars
  BY DEF Next, Enqueuer, EnqueueLogic, SignalReady, StartEnqueueing, BeginRead,
         StopEnqueueing, Read, Dequeuer, MainLogic, AwaitSignal, ClearSignal,
         ProcessAndTest, Join, vars
<1> QED BY <1>1, <1>2, <1>3, <1>4

\* Every step of the pipeline is a step of the socket's handler or none: the
\* loop of enqueueLogic calls it until the flag is set.
LEMMA SocketSteps == [Next]_vars => [Socket!Next]_(Socket!vars)
<1> SUFFICES ASSUME [Next]_vars PROVE Socket!Next \/ UNCHANGED Socket!vars
  OBVIOUS
<1>1. CASE UNCHANGED socketVars
  BY <1>1 DEF socketVars, Socket!vars, Socket!socketVars
<1>2. CASE BeginRead
  BY <1>2 DEF BeginRead, Socket!Next
<1>3. CASE Read
  BY <1>3 DEF Read, Socket!Next
<1>4. BeginRead \/ Read \/ UNCHANGED socketVars
  BY DEF Next, Enqueuer, EnqueueLogic, SignalReady, StartEnqueueing, Enqueue,
         StopEnqueueing, Dequeuer, MainLogic, AwaitSignal, ClearSignal, Dequeue,
         ProcessAndTest, Join, vars
<1> QED BY <1>1, <1>2, <1>3, <1>4

\* The pipeline uses the queue as SeqLockQueue specifies it, with one reader,
\* and the socket's handler as SocketHandler does: nothing either thread does
\* is outside of what their own modules allow.
THEOREM PipelineRunsItsComponents == Spec => Queue!Spec /\ Socket!Spec
<1>1. Init => Queue!Init /\ Socket!Init
  BY DEF Init
<1> QED BY <1>1, QueueSteps, SocketSteps, PTL DEF Spec, Queue!Spec, Socket!Spec

\* What is proved of the queue holds of the pipeline's.
LEMMA QueueInvariant == Spec => []QueueProofs!QInv
<1>1. Queue!Init => QueueProofs!Init
  BY SameActions
<1>2. [Queue!Next]_(Queue!vars) => [QueueProofs!Next]_(QueueProofs!vars)
  BY SameActions DEF Queue!Next, QueueProofs!Next, Queue!vars, QueueProofs!vars,
                     Queue!ReadNextEntry, QueueProofs!ReadNextEntry
<1>3. QueueProofs!Init => QueueProofs!QInv
  BY QueueProofs!InitHolds
<1>4. QueueProofs!QInv /\ [QueueProofs!Next]_(QueueProofs!vars) => QueueProofs!QInv'
  BY QueueProofs!NextKeeps
<1> QED BY <1>1, <1>2, <1>3, <1>4, PipelineRunsItsComponents, PTL DEF Queue!Spec

-----------------------------------------------------------------------------
(* The inductive invariant.                                                 *)

\* An entry has been dequeued and is still to be processed.
Due == mainThread = "process" /\ ~NothingDequeued

\* The enqueueing thread is at most one entry behind the handler.
Enqueued ==
    /\ TypeOK
    /\ enqueueIndex <= Len(answers)
    /\ enqThread = "read" => enqueueIndex = Len(answers)

Sequences ==
    answers \in Seq(Range(answers)) /\ processed \in Seq(Range(answers))

\* What has been processed lies before the cursor, and the entry at the cursor
\* is the one that is due, or the last that has been processed.
BeforeCursor ==
    \E position \in [DOMAIN processed -> DOMAIN answers] :
       /\ \A n \in DOMAIN processed : processed[n] = answers[position[n]]
       /\ \A m, n \in DOMAIN processed : m < n => position[m] < position[n]
       /\ \A n \in DOMAIN processed : /\ position[n] <= reader[Main].cursor
                                      /\ Due => position[n] < reader[Main].cursor

AtCursor ==
    /\ Due => reader[Main].cursor > 0
    /\ reader[Main].cursor > 0 /\ ~Due =>
          processed # <<>> /\ Last(processed) = answers[reader[Main].cursor]

\* A queue that is not overtaken loses nothing.
Complete ==
    NotOvertaken =>
       /\ Len(processed) = IF Due THEN reader[Main].cursor - 1 ELSE reader[Main].cursor
       /\ \A n \in DOMAIN processed : processed[n] = answers[n]

\* The main thread goes on to join only from a look at the queue that showed
\* that there was nothing left.
SeenAll ==
    mainThread \in {"join", "joined"} \/ (mainThread = "process" /\ NothingDequeued) =>
       reader[Main].publishedAtLoad <= reader[Main].cursor

PInv == Enqueued /\ Sequences /\ BeforeCursor /\ AtCursor /\ Complete /\ SeenAll

-----------------------------------------------------------------------------
(* What the steps of the queue do to the reader of the main thread.           *)

LEMMA QueueFacts ==
  ASSUME QueueProofs!QInv
  PROVE  /\ enqueueIndex \in Nat /\ reader[Main].cursor \in Nat
         /\ reader[Main].publishedAtLoad \in Nat
         /\ reader[Main].cursor <= enqueueIndex
<1>1. enqueueIndex \in Nat /\ reader[Main] \in QueueProofs!ReaderStates
  BY DEF QueueProofs!QInv, QueueProofs!Typed, QueueProofs!Entries
<1>2. reader[Main].cursor <= enqueueIndex
  BY DEF QueueProofs!QInv, QueueProofs!ReadersInv, QueueProofs!Position
<1> QED BY <1>1, <1>2 DEF QueueProofs!ReaderStates, QueueProofs!Entries

\* A step of the producer leaves the reader alone and inserts at most an entry.
LEMMA EnqueueFacts ==
  ASSUME Queue!Enqueue, enqueueIndex \in Nat
  PROVE  reader' = reader /\ (enqueueIndex' = enqueueIndex \/ enqueueIndex' = enqueueIndex + 1)
BY DEF Queue!Enqueue, Queue!BeginInsert, Queue!WriteWord, Queue!EndInsert

\* A step within a call keeps the cursor.
LEMMA ReadOn ==
  ASSUME QueueProofs!QInv,
         Queue!LoadVersion(Main) \/ Queue!CopyWord(Main) \/ Queue!Retry(Main)
  PROVE  reader'[Main].cursor = reader[Main].cursor /\ enqueueIndex' = enqueueIndex
<1>1. /\ reader \in [{Main} -> QueueProofs!ReaderStates]
      /\ reader[Main] \in QueueProofs!ReaderStates
  BY DEF QueueProofs!QInv, QueueProofs!Typed
<1>2. CASE Queue!LoadVersion(Main)
  BY <1>1, <1>2 DEF Queue!LoadVersion, QueueProofs!ReaderStates
<1>3. CASE Queue!CopyWord(Main)
  BY <1>1, <1>3, ZenonT(40) DEF Queue!CopyWord, QueueProofs!ReaderStates
<1>4. CASE Queue!Retry(Main)
  BY <1>1, <1>4 DEF Queue!Retry, QueueProofs!ReaderStates
<1> QED BY <1>2, <1>3, <1>4

\* A call that returns an entry moves the cursor to it, which is the next one
\* as long as no slot has been used twice.
LEMMA EntryDequeued ==
  ASSUME QueueProofs!QInv, Queue!ReturnEntry(Main)
  PROVE  /\ enqueueIndex' = enqueueIndex
         /\ reader'[Main].cursor \in Nat /\ reader'[Main].cursor > reader[Main].cursor
         /\ enqueueIndex <= Length => reader'[Main].cursor = reader[Main].cursor + 1
         /\ reader'[Main].answer # Queue!Nothing
<1> DEFINE c == reader[Main].cursor
<1>1. /\ reader \in [{Main} -> QueueProofs!ReaderStates]
      /\ reader[Main] \in QueueProofs!ReaderStates
      /\ enqueueIndex \in Nat /\ c \in Nat /\ c <= enqueueIndex
  BY QueueFacts DEF QueueProofs!QInv, QueueProofs!Typed
<1>2. PICK k \in QueueProofs!Entries :
         /\ k < enqueueIndex /\ c <= k
         /\ QueueProofs!SlotOf(k) = QueueProofs!SlotOf(c)
         /\ QueueProofs!SlotsStay
         /\ reader' = [reader EXCEPT ![Main] =
               [reader[Main] EXCEPT !.pc = "load", !.answer = [w \in Words |-> k + 1],
                                 !.cursor = k + 1,
                                 !.prevVersion = 2 * QueueProofs!Lap(k + 1) + 2,
                                 !.readIndex = @ + 1]]
  <2>1. QueueProofs!ReturnEntry(Main) /\ Main \in {Main}
    BY SameActions
  <2> QED BY <2>1, QueueProofs!EntryReturned
<1>3. k \in Nat
  BY DEF QueueProofs!Entries
<1>4. reader'[Main].cursor = k + 1 /\ reader'[Main].answer = [w \in Words |-> k + 1]
  BY <1>1, <1>2 DEF QueueProofs!ReaderStates
<1>5. [w \in Words |-> k + 1] # Queue!Nothing
  <2>1. PICK w \in Words : TRUE
    OBVIOUS
  <2>2. k + 1 # -1
    BY <1>3
  <2> QED BY <2>1, <2>2 DEF Queue!Nothing
<1>6. ASSUME enqueueIndex <= Length PROVE k = c
  <2>1. k < Length /\ c < Length
    BY <1>1, <1>2, <1>3, <1>6
  <2>2. QueueProofs!SlotOf(k) = k /\ QueueProofs!SlotOf(c) = c
    BY <1>1, <1>3, <2>1, QueueProofs!FirstLap
  <2> QED BY <1>2, <2>2
<1>7. enqueueIndex' = enqueueIndex
  BY <1>2 DEF QueueProofs!SlotsStay
<1> QED BY <1>1, <1>2, <1>3, <1>4, <1>5, <1>6, <1>7

\* A call that returns nothing was made by a reader that had everything that
\* was published when it looked.
LEMMA NothingLeft ==
  ASSUME QueueProofs!QInv, Queue!ReturnNothing(Main)
  PROVE  /\ enqueueIndex' = enqueueIndex
         /\ reader'[Main].cursor = reader[Main].cursor
         /\ reader'[Main].publishedAtLoad = reader[Main].publishedAtLoad
         /\ reader'[Main].answer = Queue!Nothing
         /\ reader[Main].publishedAtLoad <= reader[Main].cursor
<1>1. /\ reader \in [{Main} -> QueueProofs!ReaderStates]
      /\ reader[Main] \in QueueProofs!ReaderStates
  BY DEF QueueProofs!QInv, QueueProofs!Typed
<1>2. QueueProofs!Typed
  BY DEF QueueProofs!QInv
<1>3. /\ reader[Main].cursor \in Nat /\ reader[Main].publishedAtLoad \in Nat
      /\ reader[Main].initialVersion \in Nat /\ reader[Main].prevVersion \in Nat
  BY <1>2, QueueProofs!TypeFacts
<1>4. reader[Main].pc = "copy" /\ ~(reader[Main].initialVersion >= reader[Main].prevVersion)
  BY DEF Queue!ReturnNothing, Queue!IsNewEntry
<1>5. reader[Main].cursor < reader[Main].publishedAtLoad =>
         reader[Main].prevVersion <= reader[Main].initialVersion
  BY <1>4 DEF QueueProofs!QInv, QueueProofs!ReadersInv, QueueProofs!Copying
<1>6. /\ enqueueIndex' = enqueueIndex
      /\ reader'[Main].cursor = reader[Main].cursor
      /\ reader'[Main].publishedAtLoad = reader[Main].publishedAtLoad
      /\ reader'[Main].answer = Queue!Nothing
  BY <1>1 DEF Queue!ReturnNothing, QueueProofs!ReaderStates
<1> QED BY <1>3, <1>4, <1>5, <1>6

-----------------------------------------------------------------------------
(* Sequences.                                                               *)

LEMMA Appended ==
  ASSUME NEW S, NEW s \in Seq(S), NEW e
  PROVE  /\ Len(s) \in Nat /\ DOMAIN s = 1..Len(s)
         /\ Append(s, e) \in Seq(S \cup {e})
         /\ Len(Append(s, e)) = Len(s) + 1
         /\ DOMAIN Append(s, e) = 1..(Len(s) + 1)
         /\ \A n \in 1..Len(s) : Append(s, e)[n] = s[n]
         /\ Append(s, e)[Len(s) + 1] = e
<1>1. s \in Seq(S \cup {e})
  BY SeqMonotonic
<1> QED BY <1>1, AppendProperties, LenProperties

LEMMA PrefixByElements ==
  ASSUME NEW S, NEW s \in Seq(S), NEW t \in Seq(S), Len(s) <= Len(t),
         \A n \in 1..Len(s) : s[n] = t[n]
  PROVE  IsPrefix(s, t)
<1>1. Len(s) \in Nat /\ Len(t) \in Nat
  BY LenProperties
<1>2. SubSeq(s, 1, Len(s)) = SubSeq(t, 1, Len(s))
  BY <1>1
<1> QED BY <1>2 DEF IsPrefix

-----------------------------------------------------------------------------
(* The invariant is kept.                                                   *)

LEMMA InitHolds == Init => PInv
<1> SUFFICES ASSUME Init PROVE PInv
  OBVIOUS
<1>1. /\ answers = <<>> /\ processed = <<>> /\ enqueueIndex = 0
      /\ reader[Main].cursor = 0 /\ reader[Main].answer = Queue!Nothing
      /\ enqThread = "ready" /\ mainThread = "await" /\ signalFlag = FALSE
  BY DEF Init, Socket!Init, Queue!Init, Queue!NewReader
<1>2. ~Due
  BY <1>1 DEF Due
<1>3. Enqueued /\ Sequences /\ AtCursor /\ SeenAll
  BY <1>1, <1>2 DEF Enqueued, TypeOK, Sequences, AtCursor, SeenAll
<1>4. Complete
  <2>1. Len(processed) = 0 /\ DOMAIN processed = {}
    BY <1>1
  <2>2. reader[Main].cursor = 0
    BY <1>1
  <2> QED BY <1>2, <2>1, <2>2 DEF Complete
<1>5. BeforeCursor
  <2>1. DOMAIN processed = {}
    BY <1>1
  <2>2. [n \in {} |-> n] \in [DOMAIN processed -> DOMAIN answers]
    BY <2>1
  <2> QED BY <2>1, <2>2 DEF BeforeCursor
<1> QED BY <1>3, <1>4, <1>5 DEF PInv

\* A step that neither answers, nor processes, nor hands an entry out.
LEMMA ThreadsMove ==
  ASSUME PInv, UNCHANGED <<answers, processed>>,
         reader'[Main].cursor = reader[Main].cursor,
         Due' <=> Due, Enqueued', SeenAll'
  PROVE  PInv'
<1>1. Sequences'
  BY DEF PInv, Sequences
<1>2. BeforeCursor'
  BY DEF PInv, BeforeCursor
<1>3. AtCursor'
  BY DEF PInv, AtCursor
<1>4. Complete'
  BY DEF PInv, Complete, NotOvertaken
<1> QED BY <1>1, <1>2, <1>3, <1>4 DEF PInv

LEMMA EnqueueLogicKeeps ==
  ASSUME PInv, QueueProofs!QInv,
         SignalReady \/ StartEnqueueing \/ BeginRead \/ StopEnqueueing \/ Enqueue
  PROVE  PInv'
<1>1. UNCHANGED <<answers, processed, mainThread, reader>>
  <2>1. Enqueue => reader' = reader
    BY EnqueueFacts, QueueFacts DEF Enqueue
  <2> QED BY <2>1 DEF SignalReady, StartEnqueueing, BeginRead, StopEnqueueing, Enqueue,
                      Socket!Call, Socket!BeginRead, socketVars, queueVars
<1>2. (Due' <=> Due) /\ SeenAll'
  BY <1>1 DEF Due, NothingDequeued, PInv, SeenAll
<1>3. Enqueued'
  <2>1. enqueueIndex \in Nat /\ Len(answers) \in Nat
    BY QueueFacts, LenProperties DEF PInv, Sequences
  <2>2. CASE SignalReady
    BY <2>2 DEF SignalReady, PInv, Enqueued, TypeOK, socketVars, queueVars
  <2>3. CASE StartEnqueueing
    BY <2>3 DEF StartEnqueueing, PInv, Enqueued, TypeOK, socketVars, queueVars
  <2>4. CASE BeginRead
    BY <2>4 DEF BeginRead, Socket!Call, Socket!BeginRead, PInv, Enqueued, TypeOK, queueVars
  <2>5. CASE StopEnqueueing
    BY <2>5 DEF StopEnqueueing, PInv, Enqueued, TypeOK, socketVars, queueVars
  <2>6. CASE Enqueue
    <3>1. /\ enqueueIndex' = enqueueIndex \/ enqueueIndex' = enqueueIndex + 1
          /\ UNCHANGED <<mainThread, signalFlag, answers>>
      BY <2>1, <2>6, EnqueueFacts DEF Enqueue, socketVars
    <3>2. enqThread = "enqueue" /\ enqueueIndex = Len(answers) - 1 /\ ~signalFlag
      BY <2>6 DEF Enqueue, PInv, Enqueued, TypeOK
    <3>3. enqThread' = IF enqueueIndex' = enqueueIndex THEN "enqueue" ELSE "loop"
      BY <2>6 DEF Enqueue
    <3> QED BY <2>1, <3>1, <3>2, <3>3 DEF PInv, Enqueued, TypeOK
  <2> QED BY <2>2, <2>3, <2>4, <2>5, <2>6
<1> QED BY <1>1, <1>2, <1>3, ThreadsMove

\* What a step of a call under way does to the answers.
LEMMA ProceedFacts ==
  ASSUME Socket!Proceed
  PROVE  \/ answers' = answers /\ stage' # "idle"
         \/ stage' = "idle" /\ \E answer : answers' = Append(answers, answer)
BY DEF Socket!Proceed, Socket!ReadHeader, Socket!ScanForDelimiter, Socket!DiscardLongMsg,
       Socket!ReadRest, Socket!ReadOutOfBounds, Socket!ScanOn, Socket!MeasureMessage

LEMMA ReadKeeps ==
  ASSUME PInv, QueueProofs!QInv, Read
  PROVE  PInv'
<1>1. /\ enqThread = "read" /\ enqueueIndex = Len(answers) /\ ~signalFlag
      /\ UNCHANGED <<mainThread, signalFlag, processed, enqueueIndex, reader>>
  BY DEF Read, PInv, Enqueued, TypeOK, queueVars
<1>2. (Due' <=> Due) /\ SeenAll'
  BY <1>1 DEF Due, NothingDequeued, PInv, SeenAll
<1>3. Socket!Proceed
  BY DEF Read
<1>4. CASE answers' = answers /\ stage' # "idle"
  <2>1. enqThread' \in {"terminated", "read"}
    BY <1>4 DEF Read
  <2>2. Enqueued'
    BY <1>1, <1>4, <2>1 DEF PInv, Enqueued, TypeOK
  <2> QED BY <1>1, <1>2, <1>4, <2>2, ThreadsMove
<1>5. ASSUME NEW answer, answers' = Append(answers, answer), stage' = "idle"
      PROVE  PInv'
  <2> DEFINE S == Range(answers)
             c == reader[Main].cursor
  <2>1. answers \in Seq(S) /\ processed \in Seq(S)
    BY DEF PInv, Sequences
  <2>2. /\ Len(answers) \in Nat /\ DOMAIN answers = 1..Len(answers)
        /\ answers' \in Seq(S \cup {answer})
        /\ Len(answers') = Len(answers) + 1
        /\ DOMAIN answers' = 1..(Len(answers) + 1)
        /\ \A n \in 1..Len(answers) : answers'[n] = answers[n]
        /\ answers'[Len(answers) + 1] = answer
    BY <1>5, <2>1, Appended
  <2>3. c \in Nat /\ c <= Len(answers) /\ c' = c
    BY <1>1, QueueFacts
  <2>4. Enqueued'
    <3>1. enqThread' \in {"terminated", "enqueue"}
      BY <1>5 DEF Read
    <3> QED BY <1>1, <2>2, <3>1 DEF PInv, Enqueued, TypeOK
  <2>5. Sequences'
    <3>1. Range(answers') = S \cup {answer}
      BY <2>2 DEF Range
    <3>2. processed \in Seq(S \cup {answer})
      BY <2>1, SeqMonotonic
    <3> QED BY <1>1, <2>2, <3>1, <3>2 DEF Sequences
  <2>6. BeforeCursor'
    <3>1. PICK position \in [DOMAIN processed -> DOMAIN answers] :
             /\ \A n \in DOMAIN processed : processed[n] = answers[position[n]]
             /\ \A m, n \in DOMAIN processed : m < n => position[m] < position[n]
             /\ \A n \in DOMAIN processed : position[n] <= c /\ (Due => position[n] < c)
      BY DEF PInv, BeforeCursor
    <3>2. position \in [DOMAIN processed -> DOMAIN answers']
      BY <2>2
    <3>3. \A n \in DOMAIN processed : processed[n] = answers'[position[n]]
      BY <2>2, <3>1
    <3> QED BY <1>1, <1>2, <2>3, <3>1, <3>2, <3>3 DEF BeforeCursor
  <2>7. AtCursor'
    BY <1>1, <1>2, <2>2, <2>3 DEF PInv, AtCursor
  <2>8. Complete'
    <3> SUFFICES ASSUME NotOvertaken'
                 PROVE  /\ Len(processed) = IF Due THEN c - 1 ELSE c
                        /\ \A n \in DOMAIN processed : processed[n] = answers'[n]
      BY <1>1, <1>2, <2>3 DEF Complete
    <3>1. NotOvertaken
      BY <2>2 DEF NotOvertaken
    <3>2. /\ Len(processed) = IF Due THEN c - 1 ELSE c
          /\ \A n \in DOMAIN processed : processed[n] = answers[n]
      BY <3>1 DEF PInv, Complete
    <3>3. DOMAIN processed \subseteq 1..Len(answers)
      BY <2>1, <2>2, <2>3, <3>2, LenProperties
    <3> QED BY <2>2, <3>2, <3>3
  <2> QED BY <1>2, <2>4, <2>5, <2>6, <2>7, <2>8 DEF PInv
<1> QED BY <1>3, <1>4, <1>5, ProceedFacts

LEMMA DequeueKeeps ==
  ASSUME PInv, QueueProofs!QInv, Dequeue
  PROVE  PInv'
<1> DEFINE c == reader[Main].cursor
<1>1. /\ mainThread = "dequeue" /\ ~Due
      /\ UNCHANGED <<enqThread, signalFlag, processed, answers>>
  BY DEF Dequeue, Due, socketVars
<1>2. /\ enqueueIndex \in Nat /\ c \in Nat /\ c <= enqueueIndex
      /\ enqueueIndex <= Len(answers) /\ Len(answers) \in Nat
  BY QueueFacts, LenProperties DEF PInv, Enqueued, Sequences
<1>3. ASSUME enqueueIndex' = enqueueIndex, mainThread' \in {"dequeue", "process"}
      PROVE  Enqueued'
  BY <1>1, <1>3 DEF PInv, Enqueued, TypeOK
<1>4. CASE /\ Queue!LoadVersion(Main) \/ Queue!CopyWord(Main) \/ Queue!Retry(Main)
           /\ UNCHANGED mainThread
  <2>1. c' = c /\ enqueueIndex' = enqueueIndex
    BY <1>4, ReadOn
  <2>2. ~Due' /\ SeenAll'
    BY <1>1, <1>4 DEF Due, SeenAll
  <2> QED BY <1>1, <1>3, <1>4, <2>1, <2>2, ThreadsMove
<1>5. CASE Queue!ReturnNothing(Main) /\ mainThread' = "process"
  <2>1. /\ enqueueIndex' = enqueueIndex /\ c' = c
        /\ reader'[Main].publishedAtLoad <= c /\ NothingDequeued'
    BY <1>5, NothingLeft DEF NothingDequeued
  <2>2. ~Due' /\ SeenAll'
    BY <1>5, <2>1 DEF Due, SeenAll
  <2> QED BY <1>1, <1>3, <1>5, <2>1, <2>2, ThreadsMove
<1>6. CASE Queue!ReturnEntry(Main) /\ mainThread' = "process"
  <2>1. /\ enqueueIndex' = enqueueIndex /\ c' \in Nat /\ c' > c /\ ~NothingDequeued'
        /\ enqueueIndex <= Length => c' = c + 1
    BY <1>6, EntryDequeued DEF NothingDequeued
  <2>2. Due'
    BY <1>6, <2>1 DEF Due
  <2>3. Enqueued' /\ Sequences' /\ SeenAll'
    BY <1>1, <1>3, <1>6, <2>1 DEF PInv, Sequences, SeenAll
  <2>4. BeforeCursor'
    <3>1. PICK position \in [DOMAIN processed -> DOMAIN answers] :
             /\ \A n \in DOMAIN processed : processed[n] = answers[position[n]]
             /\ \A m, n \in DOMAIN processed : m < n => position[m] < position[n]
             /\ \A n \in DOMAIN processed : position[n] <= c
      BY DEF PInv, BeforeCursor
    <3>2. \A n \in DOMAIN processed : position[n] \in Int
      BY LenProperties DEF PInv, Sequences
    <3>3. \A n \in DOMAIN processed : position[n] <= c' /\ position[n] < c'
      BY <1>2, <2>1, <3>1, <3>2
    <3> QED BY <1>1, <3>1, <3>3 DEF BeforeCursor
  <2>5. AtCursor'
    BY <1>2, <2>1, <2>2 DEF AtCursor
  <2>6. Complete'
    <3> SUFFICES ASSUME NotOvertaken
                 PROVE  /\ Len(processed) = c' - 1
                        /\ \A n \in DOMAIN processed : processed[n] = answers[n]
      BY <1>1, <2>2 DEF Complete, NotOvertaken
    <3>1. enqueueIndex <= Length
      BY <1>2 DEF NotOvertaken
    <3> QED BY <1>1, <1>2, <2>1, <3>1 DEF PInv, Complete
  <2> QED BY <2>3, <2>4, <2>5, <2>6 DEF PInv
<1> QED BY <1>4, <1>5, <1>6 DEF Dequeue

\* The processing of the entry that is due.
LEMMA ProcessDueKeeps ==
  ASSUME PInv, QueueProofs!QInv, ProcessAndTest, Due
  PROVE  PInv'
<1> DEFINE c == reader[Main].cursor
           S == Range(answers)
           l == Len(processed)
<1>1. /\ mainThread' = "dequeue" /\ processed' = Append(processed, answers[c])
      /\ UNCHANGED <<enqThread, signalFlag, answers, reader, enqueueIndex>>
  BY DEF ProcessAndTest, Due, Stops, Processed, socketVars, queueVars
<1>2. answers \in Seq(S) /\ processed \in Seq(S)
  BY DEF PInv, Sequences
<1>3. /\ Len(answers) \in Nat /\ DOMAIN answers = 1..Len(answers)
      /\ c \in 1..Len(answers)
  <2>1. /\ enqueueIndex \in Nat /\ c \in Nat /\ c <= enqueueIndex
        /\ enqueueIndex <= Len(answers) /\ c > 0
    BY QueueFacts DEF PInv, Enqueued, AtCursor
  <2> QED BY <1>2, <2>1, LenProperties
<1>4. answers[c] \in S
  BY <1>3 DEF Range
<1>5. /\ l \in Nat /\ DOMAIN processed = 1..l
      /\ processed' \in Seq(S) /\ Len(processed') = l + 1 /\ DOMAIN processed' = 1..(l + 1)
      /\ \A n \in 1..l : processed'[n] = processed[n]
      /\ processed'[l + 1] = answers[c]
  <2>1. S \cup {answers[c]} = S
    BY <1>4
  <2> QED BY <1>1, <1>2, <2>1, Appended
<1>6. ~Due'
  BY <1>1 DEF Due
<1>7. Enqueued' /\ Sequences' /\ SeenAll'
  BY <1>1, <1>5 DEF PInv, Enqueued, TypeOK, Sequences, SeenAll
<1>8. BeforeCursor'
  <2>1. PICK position \in [DOMAIN processed -> DOMAIN answers] :
           /\ \A n \in DOMAIN processed : processed[n] = answers[position[n]]
           /\ \A m, n \in DOMAIN processed : m < n => position[m] < position[n]
           /\ \A n \in DOMAIN processed : position[n] < c
    BY DEF PInv, BeforeCursor
  <2> DEFINE later == [n \in 1..(l + 1) |-> IF n = l + 1 THEN c ELSE position[n]]
  <2>2. later \in [DOMAIN processed' -> DOMAIN answers']
    BY <1>1, <1>3, <1>5
  <2>3. \A n \in 1..l : position[n] \in Nat /\ later[n] = position[n] /\ position[n] < c
    BY <1>3, <1>5, <2>1
  <2>4. later[l + 1] = c
    BY <1>5
  <2> HIDE DEF later
  <2>5. \A n \in DOMAIN processed' : processed'[n] = answers'[later[n]]
    BY <1>1, <1>5, <2>1, <2>3, <2>4
  <2>6. \A m, n \in DOMAIN processed' : m < n => later[m] < later[n]
    BY <1>5, <2>1, <2>3, <2>4
  <2>7. \A n \in DOMAIN processed' : later[n] <= c
    BY <1>3, <1>5, <2>3, <2>4
  <2> QED BY <1>1, <1>6, <2>2, <2>5, <2>6, <2>7 DEF BeforeCursor
<1>9. AtCursor'
  <2>1. Last(processed') = answers[c] /\ processed' # <<>>
    BY <1>5 DEF Last
  <2> QED BY <1>1, <1>6, <2>1 DEF AtCursor
<1>10. Complete'
  <2> SUFFICES ASSUME NotOvertaken
               PROVE  /\ Len(processed') = c
                      /\ \A n \in DOMAIN processed' : processed'[n] = answers[n]
    BY <1>1, <1>3, <1>6 DEF Complete, NotOvertaken
  <2>1. l = c - 1 /\ \A n \in DOMAIN processed : processed[n] = answers[n]
    BY DEF PInv, Complete
  <2>2. l + 1 = c
    BY <1>3, <2>1
  <2> QED BY <1>5, <2>1, <2>2
<1> QED BY <1>7, <1>8, <1>9, <1>10 DEF PInv

LEMMA MainLogicKeeps ==
  ASSUME PInv, QueueProofs!QInv, MainLogic
  PROVE  PInv'
<1>1. ASSUME AwaitSignal \/ ClearSignal \/ Join PROVE PInv'
  <2>1. UNCHANGED <<answers, processed, reader, enqueueIndex, enqThread>>
    BY <1>1 DEF AwaitSignal, ClearSignal, Join, socketVars, queueVars
  <2>2. ~Due /\ ~Due'
    BY <1>1 DEF AwaitSignal, ClearSignal, Join, Due
  <2>3. SeenAll'
    BY <1>1, <2>1 DEF AwaitSignal, ClearSignal, Join, PInv, SeenAll
  <2>4. Enqueued'
    BY <1>1, <2>1 DEF AwaitSignal, ClearSignal, Join, PInv, Enqueued, TypeOK
  <2> QED BY <2>1, <2>2, <2>3, <2>4, ThreadsMove
<1>2. ASSUME ProcessAndTest, ~Due PROVE PInv'
  <2>1. /\ mainThread = "process" /\ NothingDequeued /\ processed' = processed
        /\ mainThread' \in {"join", "dequeue"}
        /\ UNCHANGED <<answers, reader, enqueueIndex, enqThread, signalFlag>>
    BY <1>2 DEF ProcessAndTest, Due, Processed, socketVars, queueVars
  <2>2. ~Due' /\ SeenAll' /\ Enqueued'
    BY <2>1 DEF Due, PInv, SeenAll, Enqueued, TypeOK
  <2> QED BY <1>2, <2>1, <2>2, ThreadsMove
<1> QED BY <1>1, <1>2, DequeueKeeps, ProcessDueKeeps DEF MainLogic

LEMMA NextKeeps == PInv /\ QueueProofs!QInv /\ [Next]_vars => PInv'
<1> SUFFICES ASSUME PInv, QueueProofs!QInv, [Next]_vars PROVE PInv'
  OBVIOUS
<1>1. CASE UNCHANGED vars
  <2>1. /\ UNCHANGED <<answers, processed, reader, enqueueIndex, enqThread, mainThread,
                       signalFlag>>
    BY <1>1 DEF vars, socketVars, queueVars
  <2>2. (Due' <=> Due) /\ SeenAll' /\ Enqueued'
    BY <2>1 DEF Due, NothingDequeued, PInv, SeenAll, Enqueued, TypeOK
  <2> QED BY <2>1, <2>2, ThreadsMove
<1> QED BY <1>1, EnqueueLogicKeeps, ReadKeeps, MainLogicKeeps
        DEF Next, Enqueuer, EnqueueLogic, Dequeuer

LEMMA Invariance == Spec => []PInv
BY InitHolds, NextKeeps, QueueInvariant, PTL DEF Spec

-----------------------------------------------------------------------------
(* The theorems.                                                            *)

\* The threads stay where the code can be, and what the enqueueing thread has
\* read is in the queue but for the message it is about to insert.
THEOREM PipelineTyped == Spec => []TypeOK
<1>1. PInv => TypeOK
  BY DEF PInv, Enqueued
<1> QED BY <1>1, Invariance, PTL

\* The main thread processes what the handler has returned in order and without
\* repeating any, also in a queue that is overtaken, and without a gap in one
\* that is not.
THEOREM HandedOverInOrder == Spec => []ProcessedInOrder
<1>1. PInv /\ QueueProofs!QInv => ProcessedInOrder
  <2> SUFFICES ASSUME PInv, QueueProofs!QInv PROVE ProcessedInOrder
    OBVIOUS
  <2>1. \E position \in [DOMAIN processed -> DOMAIN answers] :
           /\ \A n \in DOMAIN processed : processed[n] = answers[position[n]]
           /\ \A m, n \in DOMAIN processed : m < n => position[m] < position[n]
    BY DEF PInv, BeforeCursor
  <2>2. ASSUME NotOvertaken PROVE IsPrefix(processed, answers)
    <3>1. /\ answers \in Seq(Range(answers)) /\ processed \in Seq(Range(answers))
          /\ Len(answers) \in Nat /\ DOMAIN processed = 1..Len(processed)
      BY LenProperties DEF PInv, Sequences
    <3>2. Len(processed) <= reader[Main].cursor /\ \A n \in DOMAIN processed : processed[n] = answers[n]
      BY <2>2, QueueFacts DEF PInv, Complete
    <3>3. Len(processed) <= Len(answers)
      BY <3>1, <3>2, QueueFacts, LenProperties DEF PInv, Enqueued
    <3> QED BY <3>1, <3>2, <3>3, PrefixByElements
  <2> QED BY <2>1, <2>2 DEF ProcessedInOrder
<1> QED BY <1>1, Invariance, QueueInvariant, PTL

\* When the main thread has left its loop, it has processed everything that was
\* in the queue when it last looked, or at least the latest of it.
THEOREM OnlyUnseenAreLost == Spec => []LosesOnlyTheUnseen
<1>1. PInv /\ QueueProofs!QInv => LosesOnlyTheUnseen
  <2> SUFFICES ASSUME PInv, QueueProofs!QInv, mainThread \in {"join", "joined"}
               PROVE  /\ reader[Main].publishedAtLoad > 0 =>
                           \E n \in reader[Main].publishedAtLoad..Len(answers) :
                              Last(processed) = answers[n]
                      /\ NotOvertaken => Len(processed) >= reader[Main].publishedAtLoad
    BY DEF LosesOnlyTheUnseen
  <2>1. /\ ~Due /\ reader[Main].publishedAtLoad <= reader[Main].cursor
        /\ reader[Main].publishedAtLoad \in Nat /\ reader[Main].cursor \in Nat
        /\ reader[Main].cursor <= Len(answers) /\ Len(answers) \in Nat
    BY QueueFacts, LenProperties DEF Due, PInv, SeenAll, Enqueued, Sequences
  <2>2. NotOvertaken => Len(processed) >= reader[Main].publishedAtLoad
    BY <2>1 DEF PInv, Complete
  <2>3. ASSUME reader[Main].publishedAtLoad > 0
        PROVE  \E n \in reader[Main].publishedAtLoad..Len(answers) :
                  Last(processed) = answers[n]
    <3>1. reader[Main].cursor \in reader[Main].publishedAtLoad..Len(answers)
      BY <2>1
    <3>2. Last(processed) = answers[reader[Main].cursor]
      BY <2>1, <2>3 DEF PInv, AtCursor
    <3> QED BY <3>1, <3>2
  <2> QED BY <2>2, <2>3
<1> QED BY <1>1, Invariance, QueueInvariant, PTL

=============================================================================
