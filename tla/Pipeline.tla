------------------------------ MODULE Pipeline ------------------------------
(***************************************************************************)
(* The two threads of Profiling_multithreaded.cpp: one reads messages from    *)
(* the socket (SocketHandler) and enqueues them, the main thread takes them   *)
(* from the queue (SeqLockQueue) and processes them.  They share the queue,   *)
(* the flag that the socket sets with its last byte, and a flag to start      *)
(* together.  Each step makes one access to what is shared.                   *)
(*                                                                         *)
(* The n-th entry of the queue is the n-th answer of the handler.             *)
(***************************************************************************)
EXTENDS Integers, Sequences, SequencesExt

CONSTANTS
    Streams,                    \* what the socket may hold
    Length, Words, MaxEntries,  \* the queue, see SeqLockQueue
    Main                        \* the thread that dequeues

ASSUME QueueAssumption == Length \in Nat \ {0} /\ Words # {} /\ MaxEntries \in Nat

VARIABLES
    enqThread,   \* where enqueueLogic is
    mainThread,  \* where main is
    signalFlag,  \* the flag for the start
    processed,   \* the messages that have been through book.processOrder
    \* the socket and its handler; endOfBuffer is the flag both threads look at
    pieces, memSpan, readIndex, endOfBuffer, stage, bufferSpan, bytesRead,
    msgLength, excessBytes, answers,
    \* the queue
    version, content, enqueueIndex, unwritten, inserting, reader

socketVars == <<pieces, memSpan, readIndex, endOfBuffer, stage, bufferSpan, bytesRead,
                msgLength, excessBytes, answers>>
queueVars  == <<version, content, enqueueIndex, unwritten, inserting, reader>>
vars       == <<enqThread, mainThread, signalFlag, processed, socketVars, queueVars>>

Socket == INSTANCE SocketHandler
Queue  == INSTANCE SeqLockQueue WITH Readers <- {Main}

-----------------------------------------------------------------------------
(* enqueueLogic.                                                             *)

SignalReady ==
    /\ enqThread = "ready" /\ enqThread' = "await"
    /\ signalFlag' = TRUE
    /\ UNCHANGED <<mainThread, processed, socketVars, queueVars>>

StartEnqueueing ==
    /\ enqThread = "await" /\ ~signalFlag
    /\ enqThread' = "loop"
    /\ UNCHANGED <<mainThread, signalFlag, processed, socketVars, queueVars>>

\* The loop's condition, and the begin of readNextMessage.
BeginRead ==
    /\ enqThread = "loop" /\ enqThread' = "read"
    /\ Socket!Call
    /\ UNCHANGED <<mainThread, signalFlag, processed, queueVars>>

StopEnqueueing ==
    /\ enqThread = "loop" /\ endOfBuffer
    /\ enqThread' = "done"
    /\ UNCHANGED <<mainThread, signalFlag, processed, socketVars, queueVars>>

\* readNextMessage goes on.  When it returns an empty optional, value() throws
\* in a function that is noexcept, and the program ends.
Read ==
    /\ enqThread = "read"
    /\ Socket!Proceed
    /\ enqThread' = CASE stage' = "terminated" -> "terminated"
                      [] stage' = "idle" -> IF Last(answers') = Socket!Nothing
                                            THEN "terminated" ELSE "enqueue"
                      [] OTHER -> "read"
    /\ UNCHANGED <<mainThread, signalFlag, processed, queueVars>>

\* Faulty: the next message is read while this one is still being inserted.
EnqueueInPassing ==
    /\ enqThread = "enqueue"
    /\ Queue!Enqueue
    /\ enqThread' = "loop"
    /\ UNCHANGED <<mainThread, signalFlag, processed, socketVars>>

\* queuePtr->enqueue; it is over when the entry has been inserted.
Enqueue ==
    /\ enqThread = "enqueue"
    /\ Queue!Enqueue
    /\ enqThread' = IF enqueueIndex' = enqueueIndex THEN "enqueue" ELSE "loop"
    /\ UNCHANGED <<mainThread, signalFlag, processed, socketVars>>

EnqueueLogic ==
    SignalReady \/ StartEnqueueing \/ BeginRead \/ StopEnqueueing \/ Read \/ Enqueue

-----------------------------------------------------------------------------
(* main.                                                                     *)

AwaitSignal ==
    /\ mainThread = "await" /\ signalFlag
    /\ mainThread' = "clear"
    /\ UNCHANGED <<enqThread, signalFlag, processed, socketVars, queueVars>>

\* Faulty: the flag stays set.
ClearNothing ==
    /\ mainThread = "clear" /\ mainThread' = "dequeue"
    /\ UNCHANGED <<enqThread, signalFlag, processed, socketVars, queueVars>>

ClearSignal ==
    /\ mainThread = "clear" /\ mainThread' = "dequeue"
    /\ signalFlag' = FALSE
    /\ UNCHANGED <<enqThread, processed, socketVars, queueVars>>

\* reader.read_next_entry; it is over when it has returned an entry or nothing.
Dequeue ==
    /\ mainThread = "dequeue"
    /\ \/ /\ Queue!LoadVersion(Main) \/ Queue!CopyWord(Main) \/ Queue!Retry(Main)
          /\ UNCHANGED mainThread
       \/ /\ Queue!ReturnEntry(Main) \/ Queue!ReturnNothing(Main)
          /\ mainThread' = "process"
    /\ UNCHANGED <<enqThread, signalFlag, processed, socketVars>>

NothingDequeued == reader[Main].answer = Queue!Nothing

\* Faulty: has_value() is not looked at.
ProcessedWhateverReturned ==
    IF reader[Main].cursor = 0 THEN processed
    ELSE Append(processed, answers[reader[Main].cursor])

\* book.processOrder, if there is a message.
Processed ==
    IF NothingDequeued THEN processed ELSE Append(processed, answers[reader[Main].cursor])

\* Faulty: the flag alone ends the loop.
StopsOnFlag == endOfBuffer

\* The loop's condition.
Stops == endOfBuffer /\ NothingDequeued

\* The end of one iteration.
ProcessAndTest ==
    /\ mainThread = "process"
    /\ processed' = Processed
    /\ mainThread' = IF Stops THEN "join" ELSE "dequeue"
    /\ UNCHANGED <<enqThread, signalFlag, socketVars, queueVars>>

Join ==
    /\ mainThread = "join" /\ enqThread = "done"
    /\ mainThread' = "joined"
    /\ UNCHANGED <<enqThread, signalFlag, processed, socketVars, queueVars>>

MainLogic == AwaitSignal \/ ClearSignal \/ Dequeue \/ ProcessAndTest \/ Join

-----------------------------------------------------------------------------

Init ==
    /\ enqThread = "ready" /\ mainThread = "await"
    /\ signalFlag = FALSE
    /\ processed = <<>>
    /\ Socket!Init
    /\ Queue!Init

\* The enqueueing thread may end the program under the main thread's feet.
Running == enqThread # "terminated"

Enqueuer == Running /\ EnqueueLogic
Dequeuer == Running /\ MainLogic

Ended == ~Running \/ mainThread = "joined"

Next == Enqueuer \/ Dequeuer \/ (Ended /\ UNCHANGED vars)

Spec == Init /\ [][Next]_vars

\* Two threads that are scheduled, and wait for each other by spinning.
FairSpec == Spec /\ WF_vars(Enqueuer) /\ WF_vars(Dequeuer)

-----------------------------------------------------------------------------
(* Properties.                                                              *)

\* Where the threads are fits what they share: the enqueueing thread has put
\* into the queue what it has read, but for the message it is about to insert.
TypeOK ==
    /\ enqThread \in {"ready", "await", "loop", "read", "enqueue", "done", "terminated"}
    /\ mainThread \in {"await", "clear", "dequeue", "process", "join", "joined"}
    /\ signalFlag => enqThread = "await"
    /\ enqThread \in {"ready", "await", "loop", "done"} => enqueueIndex = Len(answers)
    /\ enqThread = "enqueue" => enqueueIndex = Len(answers) - 1

\* No slot of the queue has been used twice.
NotOvertaken == Len(answers) <= Length

\* What has been processed is what the handler returned, in the order of the
\* stream, without a message twice or an invented one, and without a gap as long
\* as the queue is not overtaken (Profiling_multithreaded.cpp:145-155).
ProcessedInOrder ==
    /\ \E position \in [DOMAIN processed -> DOMAIN answers] :
         /\ \A n \in DOMAIN processed : processed[n] = answers[position[n]]
         /\ \A m, n \in DOMAIN processed : m < n => position[m] < position[n]
    /\ NotOvertaken => IsPrefix(processed, answers)

\* The end flag may be seen before the last messages are, but every message
\* whose insertion was complete when the main thread last looked at the queue
\* is processed or, in a queue that is overtaken, the last of them is.
LosesOnlyTheUnseen ==
    mainThread \in {"join", "joined"} =>
       /\ reader[Main].publishedAtLoad > 0 =>
            \E n \in reader[Main].publishedAtLoad..Len(answers) : Last(processed) = answers[n]
       /\ NotOvertaken => Len(processed) >= reader[Main].publishedAtLoad

AllKnown == \A i \in DOMAIN pieces : pieces[i].kind \in Socket!Types /\ pieces[i].sumOk
                                     /\ pieces[i].lost = 0

\* The threads start together and both end, whichever of them sees the end
\* flag first; with an unusable message the program terminates or ends.
ThreadsFinish ==
    /\ AllKnown ~> mainThread = "joined"
    /\ <>Ended

\* The comment at Profiling_multithreaded.cpp:73-74: all messages are read and
\* enqueued "to be processed by other thread".
AllProcessed == mainThread = "joined" => processed = answers

=============================================================================
