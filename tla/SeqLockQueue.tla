---------------------------- MODULE SeqLockQueue ----------------------------
(***************************************************************************)
(* The single-producer broadcast queue (SeqLockQueue/src/production/         *)
(* Queue.hpp, Element.hpp and SLQ_Auxil.hpp), at the grain of its atomic     *)
(* memory accesses: the enqueueing thread and every reader access a slot's   *)
(* version and the words of its content one at a time.  The order in which   *)
(* the words are copied is left open, as relaxed accesses leave it.  Version *)
(* accesses are taken to be ordered with the copies they enclose, as they    *)
(* are on x86.                                                               *)
(*                                                                         *)
(* The n-th entry enqueued is the number n in every word of its content; 0   *)
(* is the content of a slot before its first entry.                          *)
(***************************************************************************)
EXTENDS Integers

CONSTANTS
    Length,      \* template parameter length_
    Words,       \* the atomically copied words of an entry
    Readers,     \* threads that hold a QueueReader each
    MaxEntries   \* bound on the entries the producer enqueues

ASSUME LengthAssumption  == Length \in Nat \ {0}
ASSUME WordsAssumption   == Words # {}
ASSUME EntriesAssumption == MaxEntries \in Nat

Slots   == 0..(Length - 1)
Entries == 0..MaxEntries

\* An answer without an entry: an empty std::optional.
Nothing == [w \in Words |-> -1]

VARIABLES
    version,       \* SeqLockElement::version of every slot
    content,       \* SeqLockElement::content of every slot, word by word
    enqueueIndex,  \* SeqLockQueue::enqueue_index
    unwritten,     \* words the producer has still to write, while it inserts
    inserting,     \* whether the producer is inside insert()
    reader         \* the QueueReader of each thread and its call under way

vars == <<version, content, enqueueIndex, unwritten, inserting, reader>>

-----------------------------------------------------------------------------
(* SeqLockElement::insert, called by enqueue.                                *)

EnqueueSlot == enqueueIndex % Length

BeginInsert ==
    /\ ~inserting
    /\ enqueueIndex < MaxEntries
    /\ version' = [version EXCEPT ![EnqueueSlot] = @ + 1]
    /\ inserting' = TRUE
    /\ unwritten' = Words
    /\ UNCHANGED <<content, enqueueIndex, reader>>

WriteWord ==
    /\ inserting
    /\ \E w \in unwritten :
         /\ content' = [content EXCEPT ![EnqueueSlot][w] = enqueueIndex + 1]
         /\ unwritten' = unwritten \ {w}
    /\ UNCHANGED <<version, enqueueIndex, inserting, reader>>

\* Faulty: the slot is left with an odd version.
EndInsertOdd ==
    /\ inserting /\ unwritten = {}
    /\ enqueueIndex' = enqueueIndex + 1
    /\ inserting' = FALSE
    /\ UNCHANGED <<version, content, unwritten, reader>>

\* Faulty: the producer stays at the slot.
EndInsertInPlace ==
    /\ inserting /\ unwritten = {}
    /\ version' = [version EXCEPT ![EnqueueSlot] = @ + 1]
    /\ inserting' = FALSE
    /\ UNCHANGED <<content, enqueueIndex, unwritten, reader>>

EndInsert ==
    /\ inserting /\ unwritten = {}
    /\ version' = [version EXCEPT ![EnqueueSlot] = @ + 1]
    /\ enqueueIndex' = enqueueIndex + 1
    /\ inserting' = FALSE
    /\ UNCHANGED <<content, unwritten, reader>>

Enqueue == BeginInsert \/ WriteWord \/ EndInsert

-----------------------------------------------------------------------------
(* QueueReader::read_next_entry, down to SeqLockElement::read.               *)

ReadSlot(r) == reader[r].readIndex % Length

\* The load that opens the do-while loop.  publishedAtLoad is not in the code:
\* it remembers how far the producer had got.
LoadVersion(r) ==
    /\ reader[r].pc = "load"
    /\ reader' = [reader EXCEPT ![r].pc = "copy",
                                ![r].uncopied = Words,
                                ![r].initialVersion = version[ReadSlot(r)],
                                ![r].publishedAtLoad = enqueueIndex]
    /\ UNCHANGED <<version, content, enqueueIndex, unwritten, inserting>>

CopyWord(r) ==
    /\ reader[r].pc = "copy"
    /\ \E w \in reader[r].uncopied :
         reader' = [reader EXCEPT ![r].copy[w] = content[ReadSlot(r)][w],
                                  ![r].uncopied = @ \ {w}]
    /\ UNCHANGED <<version, content, enqueueIndex, unwritten, inserting>>

\* Faulty: the version is not looked at again after the copy.
EvenOnly(initialVersion, finalVersion) == initialVersion % 2 = 0

\* The do-while loop ends.
ReadIsStable(initialVersion, finalVersion) ==
    initialVersion % 2 = 0 /\ initialVersion = finalVersion

\* Faulty: an entry of the last slot leaves the version to wait for as it is
\* for the other slots.
SameVersionExpected(readIndex, initialVersion) == initialVersion

\* prev_version after an entry: slot 0 comes next with a version of its own.
VersionExpected(readIndex, initialVersion) ==
    IF readIndex % Length = Length - 1 THEN initialVersion + 2 ELSE initialVersion

\* Faulty: an entry is new only if its version exceeds the one expected.
LaterThanExpected(initialVersion, prevVersion) == initialVersion > prevVersion

IsNewEntry(initialVersion, prevVersion) == initialVersion >= prevVersion

\* One more attempt: the slot was written to while it was copied.
Retry(r) ==
    /\ reader[r].pc = "copy" /\ reader[r].uncopied = {}
    /\ ~ReadIsStable(reader[r].initialVersion, version[ReadSlot(r)])
    /\ reader' = [reader EXCEPT ![r].pc = "load"]
    /\ UNCHANGED <<version, content, enqueueIndex, unwritten, inserting>>

\* read_next_entry returns an entry, which cursor remembers, or nothing.
ReturnEntry(r) ==
    /\ reader[r].pc = "copy" /\ reader[r].uncopied = {}
    /\ ReadIsStable(reader[r].initialVersion, version[ReadSlot(r)])
    /\ IsNewEntry(reader[r].initialVersion, reader[r].prevVersion)
    /\ reader' = [reader EXCEPT
                    ![r].pc = "load",
                    ![r].answer = reader[r].copy,
                    ![r].cursor = CHOOSE n \in Entries : \E w \in Words : reader[r].copy[w] = n,
                    ![r].prevVersion = VersionExpected(reader[r].readIndex,
                                                       reader[r].initialVersion),
                    ![r].readIndex = @ + 1]
    /\ UNCHANGED <<version, content, enqueueIndex, unwritten, inserting>>

ReturnNothing(r) ==
    /\ reader[r].pc = "copy" /\ reader[r].uncopied = {}
    /\ ReadIsStable(reader[r].initialVersion, version[ReadSlot(r)])
    /\ ~IsNewEntry(reader[r].initialVersion, reader[r].prevVersion)
    /\ reader' = [reader EXCEPT ![r].pc = "load", ![r].answer = Nothing]
    /\ UNCHANGED <<version, content, enqueueIndex, unwritten, inserting>>

ReadNextEntry(r) ==
    LoadVersion(r) \/ CopyWord(r) \/ Retry(r) \/ ReturnEntry(r) \/ ReturnNothing(r)

-----------------------------------------------------------------------------

NewReader == [pc |-> "load", readIndex |-> 0, prevVersion |-> 1,
              initialVersion |-> 0, copy |-> [w \in Words |-> 0], uncopied |-> {},
              answer |-> Nothing, cursor |-> 0, publishedAtLoad |-> 0]

Init ==
    /\ version = [s \in Slots |-> 0]
    /\ content = [s \in Slots |-> [w \in Words |-> 0]]
    /\ enqueueIndex = 0
    /\ unwritten = {}
    /\ inserting = FALSE
    /\ reader = [r \in Readers |-> NewReader]

Next == Enqueue \/ \E r \in Readers : ReadNextEntry(r)

Spec == Init /\ [][Next]_vars

\* The producer finishes what it has begun and enqueues what there is; readers
\* poll for ever (the loop of Profiling_multithreaded.cpp:146-155).
FairSpec == Spec /\ WF_vars(Enqueue) /\ \A r \in Readers : WF_vars(ReadNextEntry(r))

-----------------------------------------------------------------------------
(* Properties.                                                              *)

\* How often the entries go round the slots.
Laps == (MaxEntries + Length - 1) \div Length

\* Versions stay within two steps per lap, slots and readers hold entries that
\* exist.
TypeOK ==
    /\ version \in [Slots -> 0..(2 * Laps)]
    /\ content \in [Slots -> [Words -> Entries]]
    /\ enqueueIndex \in Entries
    /\ unwritten \subseteq Words
    /\ inserting \in BOOLEAN
    /\ \A r \in Readers :
         /\ reader[r].pc \in {"load", "copy"}
         /\ reader[r].readIndex \in Entries
         /\ reader[r].prevVersion \in 1..(2 * Laps + 2)
         /\ reader[r].initialVersion \in 0..(2 * Laps)
         /\ reader[r].copy \in [Words -> Entries]
         /\ reader[r].uncopied \subseteq Words
         /\ reader[r].answer \in [Words -> Entries] \cup {Nothing}
         /\ reader[r].cursor \in Entries
         /\ reader[r].publishedAtLoad \in Entries

\* The entry a reader was last handed is one entry that was enqueued, in all
\* its words, however the producer and the reader interleave.
NoTornReads ==
    \A r \in Readers :
       reader[r].answer # Nothing =>
          \E n \in 1..enqueueIndex : reader[r].answer = [w \in Words |-> n]

Handed(r) == reader'[r].readIndex # reader[r].readIndex

\* Entries are handed out in the order they were enqueued, and a reader that
\* misses any misses whole laps from the point where its next slot was
\* overwritten: with no overwriting it misses none.
MissesOnlyWholeLaps ==
    [][\A r \in Readers : Handed(r) =>
         \E laps \in 0..MaxEntries :
            reader'[r].cursor = reader[r].cursor + 1 + laps * Length]_vars

\* A reader told that there is nothing new had been handed the latest entry
\* that was complete when it looked.
NothingMeansCurrent ==
    [][\A r \in Readers :
         reader[r].pc = "copy" /\ reader'[r].pc = "load" /\ reader'[r].answer = Nothing
         /\ ReadIsStable(reader[r].initialVersion, version[ReadSlot(r)])
           => reader[r].cursor >= reader[r].publishedAtLoad]_vars

\* Every reader gets to the last entry once the producer stops, also a reader
\* that was overtaken and waits at a slot of an older lap.
EveryReaderCatchesUp ==
    \A r \in Readers : <>(reader[r].cursor = MaxEntries)

\* The queue does what the feed promises.
AsFeed == INSTANCE Feed WITH published <- enqueueIndex,
                             cursor <- [r \in Readers |-> reader[r].cursor]

ImplementsFeed == AsFeed!FeedSpec

=============================================================================
