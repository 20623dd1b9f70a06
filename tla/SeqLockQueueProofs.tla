------------------------- MODULE SeqLockQueueProofs -------------------------
(***************************************************************************)
(* Proofs about the queue, for every length, number of words, set of readers *)
(* and number of entries.                                                    *)
(*                                                                         *)
(* Entry k+1 goes to slot SlotOf(k) in lap Lap(k) of the producer, which      *)
(* leaves the version 2 * Lap(k) + 2 there.  The invariant says of every slot *)
(* that is not being written which entry it holds, and of every reader that   *)
(* the version it waits for is the one its next entry will get, and that what *)
(* it has copied is still in the slot while the slot's version is unchanged.  *)
(***************************************************************************)
EXTENDS SeqLockQueue, TLAPS

USE LengthAssumption, WordsAssumption, EntriesAssumption

-----------------------------------------------------------------------------
(* Laps and slots.                                                          *)

Lap(k)    == k \div Length
SlotOf(k) == k % Length

LEMMA Division ==
  ASSUME NEW n \in Nat
  PROVE  /\ Lap(n) \in Nat /\ SlotOf(n) \in Slots
         /\ n = Length * Lap(n) + SlotOf(n)
BY DEF Lap, SlotOf, Slots

\* A product with Length that is positive, or at most Length.
LEMMA Multiples ==
  ASSUME NEW d \in Int
  PROVE  /\ Length * d > -Length => d >= 0
         /\ Length * d > 0 => d >= 1
         /\ Length * d <= Length => d <= 1
         /\ d >= 0 => Length * d >= 0
         /\ Length * d \in Int
OBVIOUS

LEMMA DivisionIsUnique ==
  ASSUME NEW n \in Nat, NEW q \in Int, NEW s \in Slots, n = Length * q + s
  PROVE  Lap(n) = q /\ SlotOf(n) = s
<1>1. Lap(n) \in Nat /\ SlotOf(n) \in Slots /\ n = Length * Lap(n) + SlotOf(n)
  BY Division
<1> DEFINE d == q - Lap(n)
<1>2. d \in Int /\ Length * d = SlotOf(n) - s
  BY <1>1 DEF Slots
<1>3. SlotOf(n) - s < Length /\ SlotOf(n) - s > -Length
  BY <1>1 DEF Slots
<1>4. Length * d < Length /\ Length * d > -Length
  BY <1>2, <1>3
<1>5. d = 0
  <2>1. -d \in Int /\ Length * (-d) > -Length /\ Length * d > -Length
    BY <1>2, <1>4
  <2>2. d >= 0 /\ -d >= 0
    BY <1>2, <2>1, Multiples
  <2> QED BY <1>2, <2>2
<1> QED BY <1>1, <1>2, <1>5, SMTT(30) DEF Slots

\* The next entry goes to the next slot, or to slot 0 in the next lap.
LEMMA NextSlot ==
  ASSUME NEW k \in Nat
  PROVE  IF SlotOf(k) = Length - 1 THEN SlotOf(k + 1) = 0 /\ Lap(k + 1) = Lap(k) + 1
                                   ELSE SlotOf(k + 1) = SlotOf(k) + 1 /\ Lap(k + 1) = Lap(k)
<1>1. Lap(k) \in Nat /\ SlotOf(k) \in Slots /\ k = Length * Lap(k) + SlotOf(k)
  BY Division
<1>2. CASE SlotOf(k) = Length - 1
  <2>1. k + 1 = Length * (Lap(k) + 1) + 0 /\ 0 \in Slots /\ Lap(k) + 1 \in Int /\ k + 1 \in Nat
    BY <1>1, <1>2 DEF Slots
  <2> QED BY <1>2, <2>1, DivisionIsUnique
<1>3. CASE SlotOf(k) # Length - 1
  <2>1. k + 1 = Length * Lap(k) + (SlotOf(k) + 1) /\ SlotOf(k) + 1 \in Slots
        /\ Lap(k) \in Int /\ k + 1 \in Nat
    BY <1>1, <1>3 DEF Slots
  <2> QED BY <1>3, <2>1, DivisionIsUnique
<1> QED BY <1>2, <1>3

\* The entry a lap later.
LEMMA NextLap ==
  ASSUME NEW k \in Nat
  PROVE  SlotOf(k + Length) = SlotOf(k)
<1>1. Lap(k) \in Nat /\ SlotOf(k) \in Slots /\ k = Length * Lap(k) + SlotOf(k)
  BY Division
<1> DEFINE q == Lap(k)
           s == SlotOf(k)
<1>2. q \in Nat /\ s \in Slots /\ s \in Nat /\ k = Length * q + s
  BY <1>1 DEF Slots
<1> HIDE DEF q, s
<1>3. Length * (q + 1) = Length * q + Length /\ Length * q \in Int
  BY <1>2
<1>4. k + Length = Length * (q + 1) + s /\ q + 1 \in Int /\ k + Length \in Nat
  BY <1>2, <1>3
<1>5. SlotOf(k + Length) = s
  BY <1>2, <1>4, DivisionIsUnique
<1> QED BY <1>5 DEF s

\* Two entries of one slot are whole laps apart.
LEMMA SameSlot ==
  ASSUME NEW j \in Nat, NEW k \in Nat, SlotOf(j) = SlotOf(k)
  PROVE  /\ k = j + (Lap(k) - Lap(j)) * Length
         /\ SlotOf(j + 1) = SlotOf(k + 1)
         /\ j < k => Lap(j) < Lap(k)
         /\ Lap(j) <= Lap(k) => j <= k
         /\ k < j + Length => k <= j
         /\ j < k /\ k <= j + Length => Lap(k) = Lap(j) + 1
<1>1. /\ Lap(j) \in Nat /\ j = Length * Lap(j) + SlotOf(j)
      /\ Lap(k) \in Nat /\ k = Length * Lap(k) + SlotOf(k)
      /\ SlotOf(k) \in Int
  BY Division DEF Slots
<1> DEFINE d == Lap(k) - Lap(j)
<1>2. d \in Int /\ -d \in Int /\ Length * d = k - j /\ Length * (-d) = j - k
  BY <1>1
<1>3. k = j + d * Length
  BY <1>2
<1>4. SlotOf(j + 1) = SlotOf(k + 1)
  BY NextSlot
<1> HIDE DEF d
<1>5. /\ k - j > -Length => d >= 0
      /\ k - j > 0 => d >= 1
      /\ k - j <= Length => d <= 1
      /\ d >= 0 => k - j >= 0
  BY <1>2, Multiples
<1>6. j - k > -Length => -d >= 0
  BY <1>2, Multiples
<1>7. -d >= 0 => j - k >= 0
  BY <1>2, Multiples
<1> QED BY <1>1, <1>2, <1>3, <1>4, <1>5, <1>6, <1>7 DEF d

\* No entry is in a later lap than there are laps.
LEMMA LapsBound ==
  ASSUME NEW k \in Nat
  PROVE  /\ Laps \in Nat
         /\ k < MaxEntries => Lap(k) + 1 <= Laps
         /\ k <= MaxEntries => Lap(k) <= Laps
<1> DEFINE m == MaxEntries + Length - 1
<1>1. m \in Nat /\ Laps = Lap(m)
  BY DEF Laps, Lap
<1>2. /\ Lap(m) \in Nat /\ SlotOf(m) \in Slots /\ m = Length * Lap(m) + SlotOf(m)
      /\ Lap(k) \in Nat /\ SlotOf(k) \in Slots /\ k = Length * Lap(k) + SlotOf(k)
  BY <1>1, Division
<1> DEFINE d == Lap(m) - Lap(k)
<1>3. d \in Int /\ d - 1 \in Int
      /\ Length * d = (m - SlotOf(m)) - (k - SlotOf(k))
      /\ Length * (d - 1) = (m - SlotOf(m)) - (k - SlotOf(k)) - Length
  BY <1>1, <1>2 DEF Slots
<1>4. k <= MaxEntries => Length * d > -Length
  BY <1>1, <1>2, <1>3 DEF Slots
<1>5. k < MaxEntries => Length * (d - 1) > -Length
  BY <1>1, <1>2, <1>3 DEF Slots
<1> HIDE DEF d
<1>6. /\ k <= MaxEntries => d >= 0
      /\ k < MaxEntries => d - 1 >= 0
  BY <1>3, <1>4, <1>5, Multiples
<1> QED BY <1>1, <1>2, <1>6 DEF d

\* The first lap.
LEMMA FirstLap ==
  ASSUME NEW k \in Nat, k < Length
  PROVE  Lap(k) = 0 /\ SlotOf(k) = k
BY DivisionIsUnique DEF Slots

-----------------------------------------------------------------------------
(* The inductive invariant.                                                 *)

ReaderStates ==
    [pc : {"load", "copy"}, readIndex : Entries, prevVersion : 1..(2 * Laps + 2),
     initialVersion : 0..(2 * Laps), copy : [Words -> Entries], uncopied : SUBSET Words,
     answer : [Words -> Entries] \cup {Nothing}, cursor : Entries, publishedAtLoad : Entries]

Typed ==
    /\ version \in [Slots -> 0..(2 * Laps)]
    /\ content \in [Slots -> [Words -> Entries]]
    /\ enqueueIndex \in Entries
    /\ unwritten \subseteq Words
    /\ inserting \in BOOLEAN
    /\ reader \in [Readers -> ReaderStates]

\* Slot s before its first entry, and with entry k+1, the latest one for s.
Fresh(s) == /\ enqueueIndex <= s /\ version[s] = 0
            /\ content[s] = [w \in Words |-> 0]

Holds(s, k) == /\ k < enqueueIndex /\ enqueueIndex <= k + Length /\ SlotOf(k) = s
               /\ version[s] = 2 * Lap(k) + 2
               /\ content[s] = [w \in Words |-> k + 1]

\* The slot being written has an odd version and, where it is written, the
\* new entry; all others hold one entry or none.
SlotsInv ==
    /\ inserting =>
          /\ enqueueIndex < MaxEntries
          /\ version[EnqueueSlot] = 2 * Lap(enqueueIndex) + 1
          /\ \A w \in Words \ unwritten : content[EnqueueSlot][w] = enqueueIndex + 1
    /\ \A s \in Slots : ~(inserting /\ s = EnqueueSlot) =>
          Fresh(s) \/ \E k \in Entries : Holds(s, k)

\* The reader's next entry is cursor + 1 or one whole laps later.
Position(r) ==
    /\ reader[r].readIndex <= reader[r].cursor /\ reader[r].cursor <= enqueueIndex
    /\ SlotOf(reader[r].readIndex) = SlotOf(reader[r].cursor)
    /\ \/ reader[r].prevVersion = 2 * Lap(reader[r].cursor) + 2
       \/ reader[r].cursor = 0 /\ reader[r].prevVersion = 1

\* While the version is what the reader loaded, and even, the words it has
\* copied are those of the slot; and if there was something to read when it
\* loaded the version, then the version shows it.
Copying(r) ==
    LET s == ReadSlot(r)
    IN  /\ reader[r].initialVersion <= version[s]
        /\ ReadIsStable(reader[r].initialVersion, version[s]) =>
              \A w \in Words \ reader[r].uncopied : reader[r].copy[w] = content[s][w]
        /\ reader[r].cursor < reader[r].publishedAtLoad =>
              reader[r].prevVersion <= reader[r].initialVersion

Answered(r) ==
    reader[r].answer # Nothing =>
       \E n \in 1..enqueueIndex : reader[r].answer = [w \in Words |-> n]

ReadersInv ==
    \A r \in Readers : Position(r) /\ Answered(r) /\ (reader[r].pc = "copy" => Copying(r))

QInv == Typed /\ SlotsInv /\ ReadersInv

-----------------------------------------------------------------------------
(* What the invariant says of the slots.                                    *)

\* The types of what the proofs calculate with.
LEMMA TypeFacts ==
  ASSUME Typed
  PROVE  /\ Laps \in Nat /\ enqueueIndex \in Nat
         /\ \A s \in Slots : version[s] \in Nat /\ content[s] \in [Words -> Entries]
         /\ \A r \in Readers :
               /\ reader[r].pc \in {"load", "copy"}
               /\ reader[r].readIndex \in Nat /\ reader[r].cursor \in Nat
               /\ reader[r].prevVersion \in Nat /\ reader[r].prevVersion >= 1
               /\ reader[r].initialVersion \in Nat /\ reader[r].publishedAtLoad \in Nat
               /\ reader[r].copy \in [Words -> Entries] /\ reader[r].uncopied \subseteq Words
<1>1. 0 \in Nat
  OBVIOUS
<1>2. Laps \in Nat
  BY <1>1, LapsBound
<1>3. \A r \in Readers : reader[r] \in ReaderStates
  BY DEF Typed
<1>4. \A s \in Slots : version[s] \in 0..(2 * Laps) /\ content[s] \in [Words -> Entries]
  BY DEF Typed
<1>5. enqueueIndex \in Nat
  BY DEF Typed, Entries
<1> QED BY <1>2, <1>3, <1>4, <1>5 DEF ReaderStates, Entries

\* The slots of the producer and of the readers.
LEMMA SlotFacts ==
  ASSUME QInv
  PROVE  /\ EnqueueSlot = SlotOf(enqueueIndex) /\ EnqueueSlot \in Slots
         /\ \A r \in Readers : /\ ReadSlot(r) = SlotOf(reader[r].cursor)
                               /\ ReadSlot(r) \in Slots
<1>1. enqueueIndex \in Nat
  BY DEF QInv, Typed, Entries
<1>2. EnqueueSlot = SlotOf(enqueueIndex) /\ EnqueueSlot \in Slots
  BY <1>1, Division DEF EnqueueSlot, SlotOf
<1>3. ASSUME NEW r \in Readers
      PROVE  ReadSlot(r) = SlotOf(reader[r].cursor) /\ ReadSlot(r) \in Slots
  <2>1. reader[r].cursor \in Nat /\ SlotOf(reader[r].readIndex) = SlotOf(reader[r].cursor)
    BY DEF QInv, Typed, ReaderStates, ReadersInv, Position, Entries
  <2> QED BY <2>1, Division DEF ReadSlot, SlotOf
<1> QED BY <1>2, <1>3

\* A slot with an even version is not being written, and holds what it says.
LEMMA EvenSlot ==
  ASSUME QInv, NEW s \in Slots, version[s] % 2 = 0
  PROVE  /\ ~(inserting /\ s = EnqueueSlot)
         /\ Fresh(s) \/ \E k \in Entries : Holds(s, k)
<1>1. enqueueIndex \in Nat /\ EnqueueSlot = SlotOf(enqueueIndex)
  BY SlotFacts DEF QInv, Typed, Entries
<1>2. Lap(enqueueIndex) \in Nat
  BY <1>1, Division
<1>3. ~(inserting /\ s = EnqueueSlot)
  BY <1>1, <1>2 DEF QInv, SlotsInv
<1> QED BY <1>3 DEF QInv, SlotsInv

\* The version of the slot the producer is about to write.
LEMMA NextVersion ==
  ASSUME QInv, ~inserting
  PROVE  version[EnqueueSlot] = 2 * Lap(enqueueIndex)
<1>1. /\ enqueueIndex \in Nat /\ EnqueueSlot = SlotOf(enqueueIndex) /\ EnqueueSlot \in Slots
  BY SlotFacts DEF QInv, Typed, Entries
<1>2. CASE Fresh(EnqueueSlot)
  <2>1. enqueueIndex < Length
    BY <1>1, <1>2 DEF Fresh, Slots
  <2> QED BY <1>1, <1>2, <2>1, FirstLap DEF Fresh
<1>3. ASSUME NEW k \in Entries, Holds(EnqueueSlot, k)
      PROVE  version[EnqueueSlot] = 2 * Lap(enqueueIndex)
  <2>1. k \in Nat /\ k < enqueueIndex /\ enqueueIndex <= k + Length
        /\ SlotOf(k) = SlotOf(enqueueIndex)
    BY <1>1, <1>3 DEF Holds, Entries
  <2>2. Lap(enqueueIndex) = Lap(k) + 1
    BY <1>1, <2>1, SameSlot
  <2>3. Lap(k) \in Nat
    BY <2>1, Division
  <2> QED BY <1>3, <2>2, <2>3 DEF Holds
<1> QED BY <1>1, <1>2, <1>3 DEF QInv, SlotsInv

\* A reader whose next entry is published finds it, or a later one, in the
\* version of its slot.
LEMMA PublishedShows ==
  ASSUME QInv, NEW r \in Readers, reader[r].cursor < enqueueIndex
  PROVE  reader[r].prevVersion <= version[ReadSlot(r)]
<1> DEFINE c == reader[r].cursor
           s == ReadSlot(r)
<1>1. /\ c \in Nat /\ enqueueIndex \in Nat /\ s \in Slots /\ s = SlotOf(c)
      /\ EnqueueSlot = SlotOf(enqueueIndex)
      /\ version[s] \in Int /\ Lap(c) \in Nat /\ Lap(enqueueIndex) \in Nat
  BY SlotFacts, TypeFacts, Division DEF QInv
<1>2. reader[r].prevVersion <= 2 * Lap(c) + 2 /\ reader[r].prevVersion \in Int
  BY <1>1, TypeFacts DEF QInv, ReadersInv, Position
<1>3. CASE inserting /\ s = EnqueueSlot
  <2>1. version[s] = 2 * Lap(enqueueIndex) + 1
    BY <1>3 DEF QInv, SlotsInv
  <2>2. Lap(c) < Lap(enqueueIndex)
    BY <1>1, <1>3, SameSlot, ZenonT(40)
  <2> QED BY <1>1, <1>2, <2>1, <2>2
<1>4. CASE Fresh(s)
  <2>1. enqueueIndex <= s
    BY <1>4 DEF Fresh
  <2>2. c < Length
    BY <1>1, <2>1 DEF Slots
  <2>3. s = c
    BY <1>1, <2>2, FirstLap
  <2> QED BY <1>1, <2>1, <2>3
<1>5. ASSUME NEW k \in Entries, Holds(s, k) PROVE reader[r].prevVersion <= version[s]
  <2>1. k \in Nat /\ SlotOf(k) = SlotOf(c) /\ c < k + Length /\ Lap(k) \in Nat
        /\ version[s] = 2 * Lap(k) + 2
    BY <1>1, <1>5, Division DEF Holds, Entries
  <2>2. c <= k
    BY <1>1, <2>1, SameSlot
  <2>3. Lap(c) <= Lap(k)
    <3>1. c < k => Lap(c) < Lap(k)
      BY <1>1, <2>1, SameSlot
    <3>2. c = k => Lap(c) = Lap(k)
      OBVIOUS
    <3> HIDE DEF c
    <3> QED BY <1>1, <2>1, <2>2, <3>1, <3>2
  <2> QED BY <1>1, <1>2, <2>1, <2>3
<1> QED BY <1>1, <1>3, <1>4, <1>5 DEF QInv, SlotsInv

\* What read_next_entry returns: one whole entry, the reader's next one or one
\* whole laps later.
LEMMA EntryRead ==
  ASSUME QInv, NEW r \in Readers,
         reader[r].pc = "copy", reader[r].uncopied = {},
         ReadIsStable(reader[r].initialVersion, version[ReadSlot(r)]),
         IsNewEntry(reader[r].initialVersion, reader[r].prevVersion)
  PROVE  \E k \in Entries :
            /\ k < enqueueIndex /\ reader[r].cursor <= k
            /\ SlotOf(k) = SlotOf(reader[r].cursor)
            /\ reader[r].initialVersion = 2 * Lap(k) + 2
            /\ reader[r].copy = [w \in Words |-> k + 1]
<1> DEFINE c == reader[r].cursor
           s == ReadSlot(r)
<1>1. /\ c \in Nat /\ s \in Slots /\ s = SlotOf(c) /\ Lap(c) \in Nat
      /\ version[s] \in Int /\ reader[r].copy \in [Words -> Entries]
      /\ content[s] \in [Words -> Entries]
      /\ reader[r].prevVersion \in Int /\ reader[r].prevVersion >= 1
  BY SlotFacts, TypeFacts, Division DEF QInv
<1>2. /\ version[s] = reader[r].initialVersion /\ version[s] % 2 = 0
      /\ reader[r].prevVersion <= version[s]
  BY DEF ReadIsStable, IsNewEntry
<1>3. ~Fresh(s)
  BY <1>1, <1>2 DEF Fresh
<1>4. PICK k \in Entries : Holds(s, k)
  BY <1>1, <1>2, <1>3, EvenSlot
<1>5. /\ k \in Nat /\ k < enqueueIndex /\ SlotOf(k) = SlotOf(c) /\ Lap(k) \in Nat
      /\ version[s] = 2 * Lap(k) + 2 /\ content[s] = [w \in Words |-> k + 1]
  BY <1>1, <1>4, Division DEF Holds, Entries
<1>6. c <= k
  <2>1. reader[r].prevVersion = 2 * Lap(c) + 2 \/ c = 0
    BY DEF QInv, ReadersInv, Position
  <2>2. CASE reader[r].prevVersion = 2 * Lap(c) + 2
    <3>1. Lap(c) <= Lap(k)
      BY <1>1, <1>2, <1>5, <2>2
    <3> QED BY <1>1, <1>5, <3>1, SameSlot
  <2>3. CASE c = 0
    BY <1>5, <2>3
  <2> QED BY <2>1, <2>2, <2>3
<1>7. reader[r].copy = content[s]
  <2>1. \A w \in Words : reader[r].copy[w] = content[s][w]
    BY DEF QInv, ReadersInv, Copying
  <2> QED BY <1>1, <2>1
<1> QED BY <1>2, <1>4, <1>5, <1>6, <1>7

-----------------------------------------------------------------------------
(* The producer's steps.                                                    *)

LEMMA InitHolds == Init => QInv
<1> SUFFICES ASSUME Init PROVE QInv
  OBVIOUS
<1>1. 0 \in Nat /\ Laps \in Nat /\ 0 \in Entries /\ Lap(0) = 0
  BY LapsBound, FirstLap DEF Entries
<1>2. Typed
  <2>1. NewReader \in ReaderStates
    BY <1>1 DEF NewReader, ReaderStates
  <2>2. reader \in [Readers -> ReaderStates]
    BY <2>1 DEF Init
  <2>3. version \in [Slots -> 0..(2 * Laps)]
    BY <1>1 DEF Init
  <2>4. content \in [Slots -> [Words -> Entries]]
    BY <1>1 DEF Init
  <2> QED BY <1>1, <2>2, <2>3, <2>4 DEF Init, Typed
<1>3. SlotsInv
  BY DEF Init, SlotsInv, Fresh, Slots
<1>4. ReadersInv
  <2> SUFFICES ASSUME NEW r \in Readers
               PROVE  Position(r) /\ Answered(r) /\ reader[r].pc # "copy"
    BY DEF ReadersInv
  <2>1. reader[r] = NewReader
    BY DEF Init
  <2> QED BY <1>1, <2>1 DEF NewReader, Position, Answered, Init
<1> QED BY <1>2, <1>3, <1>4 DEF QInv

\* Readers are not disturbed by a step of the producer that leaves a slot
\* alone or takes its version further, to an odd one unless all is as it was.
LEMMA ReadersStay ==
  ASSUME QInv, UNCHANGED reader,
         enqueueIndex' \in Nat, enqueueIndex <= enqueueIndex',
         \A s \in Slots :
            /\ version'[s] \in Nat /\ version[s] <= version'[s]
            /\ version'[s] = version[s] /\ version[s] % 2 = 0 => content'[s] = content[s]
  PROVE  ReadersInv'
<1> SUFFICES ASSUME NEW r \in Readers
             PROVE  Position(r)' /\ Answered(r)' /\ (reader[r].pc = "copy" => Copying(r)')
  BY DEF ReadersInv
<1> DEFINE s == ReadSlot(r)
<1>1. /\ s' = s /\ s \in Slots /\ enqueueIndex \in Nat /\ version[s] \in Nat
      /\ reader[r].initialVersion \in Nat /\ reader[r].cursor \in Nat
  BY SlotFacts, TypeFacts DEF QInv, ReadSlot
<1>2. Position(r)'
  BY <1>1 DEF QInv, ReadersInv, Position
<1>3. Answered(r)'
  BY <1>1 DEF QInv, ReadersInv, Answered
<1>4. ASSUME reader[r].pc = "copy" PROVE Copying(r)'
  <2>1. Copying(r)
    BY <1>4 DEF QInv, ReadersInv
  <2>2. reader[r].initialVersion <= version[s]
    BY <2>1 DEF Copying
  <2>3. reader[r].initialVersion <= version'[s]
    BY <1>1, <2>2
  <2>4. ReadIsStable(reader[r].initialVersion, version'[s]) =>
           content'[s] = content[s] /\ ReadIsStable(reader[r].initialVersion, version[s])
    BY <1>1, <2>2 DEF ReadIsStable
  <2> HIDE DEF s
  <2> QED BY <1>1, <2>1, <2>3, <2>4 DEF Copying, s
<1> QED BY <1>2, <1>3, <1>4

LEMMA BeginInsertKeeps == QInv /\ BeginInsert => QInv'
<1> SUFFICES ASSUME QInv, BeginInsert PROVE QInv'
  OBVIOUS
<1> DEFINE e == enqueueIndex
<1>1. /\ e \in Nat /\ e < MaxEntries /\ EnqueueSlot \in Slots /\ EnqueueSlot' = EnqueueSlot
      /\ Laps \in Nat /\ Lap(e) \in Nat /\ Lap(e) + 1 <= Laps
      /\ version \in [Slots -> 0..(2 * Laps)]
  BY SlotFacts, TypeFacts, LapsBound, Division DEF QInv, Typed, BeginInsert, EnqueueSlot
<1>2. version' = [version EXCEPT ![EnqueueSlot] = 2 * Lap(e) + 1]
  BY NextVersion DEF BeginInsert
<1>3. Typed'
  <2>1. 2 * Lap(e) + 1 \in 0..(2 * Laps)
    BY <1>1
  <2>2. version' \in [Slots -> 0..(2 * Laps)]
    BY <1>1, <1>2, <2>1
  <2> QED BY <2>2 DEF QInv, Typed, BeginInsert
<1>4. SlotsInv'
  <2>1. version'[EnqueueSlot] = 2 * Lap(e) + 1 /\ \A s \in Slots : s # EnqueueSlot => version'[s] = version[s]
    BY <1>1, <1>2
  <2>2. \A s \in Slots : Fresh(s) \/ \E k \in Entries : Holds(s, k)
    BY DEF QInv, SlotsInv, BeginInsert
  <2>3. ASSUME NEW s \in Slots, s # EnqueueSlot
        PROVE  Fresh(s)' \/ \E k \in Entries : Holds(s, k)'
    BY <2>1, <2>2, <2>3 DEF Fresh, Holds, BeginInsert
  <2> QED BY <1>1, <2>1, <2>3 DEF SlotsInv, BeginInsert
<1>5. ReadersInv'
  <2>1. version[EnqueueSlot] = 2 * Lap(e)
    BY NextVersion DEF BeginInsert
  <2>2. \A s \in Slots : version'[s] \in Nat /\ version[s] <= version'[s]
    BY <1>1, <1>2, <2>1
  <2> QED BY <1>1, <2>2, ReadersStay DEF BeginInsert
<1> QED BY <1>3, <1>4, <1>5 DEF QInv

LEMMA WriteWordKeeps == QInv /\ WriteWord => QInv'
<1> SUFFICES ASSUME QInv, WriteWord PROVE QInv'
  OBVIOUS
<1> DEFINE e == enqueueIndex
<1>1. /\ e \in Nat /\ e < MaxEntries /\ EnqueueSlot \in Slots /\ EnqueueSlot' = EnqueueSlot
      /\ inserting /\ Lap(e) \in Nat /\ version[EnqueueSlot] = 2 * Lap(e) + 1
      /\ content \in [Slots -> [Words -> Entries]]
  BY SlotFacts, TypeFacts, Division DEF QInv, Typed, SlotsInv, WriteWord, EnqueueSlot
<1>2. PICK w \in unwritten : /\ content' = [content EXCEPT ![EnqueueSlot][w] = e + 1]
                             /\ unwritten' = unwritten \ {w}
  BY DEF WriteWord
<1>3. /\ w \in Words /\ e + 1 \in Entries
      /\ UNCHANGED <<version, enqueueIndex, inserting, reader>>
  BY <1>1 DEF QInv, Typed, Entries, WriteWord
<1>4. /\ content' \in [Slots -> [Words -> Entries]]
      /\ content'[EnqueueSlot] = [content[EnqueueSlot] EXCEPT ![w] = e + 1]
      /\ \A s \in Slots : s # EnqueueSlot => content'[s] = content[s]
  BY <1>1, <1>2, <1>3
<1>5. Typed'
  BY <1>2, <1>3, <1>4 DEF QInv, Typed
<1>6. SlotsInv'
  <2>1. \A v \in Words \ unwritten' : content'[EnqueueSlot][v] = e + 1
    BY <1>1, <1>2, <1>3, <1>4 DEF QInv, SlotsInv
  <2>2. ASSUME NEW s \in Slots, s # EnqueueSlot
        PROVE  Fresh(s)' \/ \E k \in Entries : Holds(s, k)'
    <3>1. Fresh(s) \/ \E k \in Entries : Holds(s, k)
      BY <2>2 DEF QInv, SlotsInv
    <3> QED BY <1>3, <1>4, <2>2, <3>1 DEF Fresh, Holds
  <2> QED BY <1>1, <1>3, <2>1, <2>2 DEF SlotsInv
<1>7. ReadersInv'
  <2>1. version[EnqueueSlot] % 2 # 0
    BY <1>1
  <2>2. \A s \in Slots : /\ version'[s] \in Nat /\ version[s] <= version'[s]
                         /\ version[s] % 2 = 0 => content'[s] = content[s]
    BY <1>3, <1>4, <2>1, TypeFacts DEF QInv
  <2> QED BY <1>1, <1>3, <2>2, ReadersStay
<1> QED BY <1>5, <1>6, <1>7 DEF QInv

LEMMA EndInsertKeeps == QInv /\ EndInsert => QInv'
<1> SUFFICES ASSUME QInv, EndInsert PROVE QInv'
  OBVIOUS
<1> DEFINE e == enqueueIndex
           s0 == EnqueueSlot
<1>1. /\ e \in Nat /\ e < MaxEntries /\ s0 \in Slots /\ s0 = SlotOf(e) /\ e \in Entries
      /\ Laps \in Nat /\ Lap(e) \in Nat /\ Lap(e) + 1 <= Laps
      /\ version \in [Slots -> 0..(2 * Laps)] /\ version[s0] = 2 * Lap(e) + 1
      /\ content[s0] \in [Words -> Entries]
      /\ \A w \in Words : content[s0][w] = e + 1
  BY SlotFacts, TypeFacts, LapsBound, Division DEF QInv, Typed, SlotsInv, EndInsert
<1>2. /\ version' = [version EXCEPT ![s0] = 2 * Lap(e) + 2]
      /\ enqueueIndex' = e + 1 /\ inserting' = FALSE
      /\ UNCHANGED <<content, unwritten, reader>>
  <2>1. version[s0] + 1 = 2 * Lap(e) + 2
    BY <1>1
  <2> HIDE DEF s0
  <2>2. version' = [version EXCEPT ![s0] = version[s0] + 1]
    BY DEF EndInsert, s0
  <2>3. version' = [version EXCEPT ![s0] = 2 * Lap(e) + 2]
    BY <2>1, <2>2
  <2> QED BY <2>3 DEF EndInsert
<1>3. Typed'
  <2>1. 2 * Lap(e) + 2 \in 0..(2 * Laps) /\ e + 1 \in Entries
    BY <1>1 DEF Entries
  <2>2. version' \in [Slots -> 0..(2 * Laps)]
    BY <1>1, <1>2, <2>1
  <2> QED BY <1>2, <2>1, <2>2 DEF QInv, Typed
<1>4. ASSUME NEW s \in Slots PROVE Fresh(s)' \/ \E k \in Entries : Holds(s, k)'
  <2>1. CASE s = s0
    <3>1. PICK k \in Entries : k = e
      BY <1>1
    <3>2. content'[s] = [w \in Words |-> k + 1] /\ version'[s] = 2 * Lap(k) + 2
      BY <1>1, <1>2, <2>1, <3>1
    <3>3. k < e + 1 /\ e + 1 <= k + Length /\ SlotOf(k) = s
      BY <1>1, <2>1, <3>1
    <3>4. Holds(s, k)'
      BY <1>2, <3>2, <3>3 DEF Holds
    <3> QED BY <3>4
  <2>2. CASE s # s0
    <3>1. version'[s] = version[s]
      BY <1>1, <1>2, <2>2
    <3>2. CASE Fresh(s)
      <4>1. e <= s /\ s \in Nat /\ s < Length
        BY <1>1, <3>2 DEF Fresh, Slots
      <4>2. e # s
        BY <1>1, <2>2, <4>1, FirstLap
      <4>3. e + 1 <= s
        BY <1>1, <4>1, <4>2
      <4> QED BY <1>2, <3>1, <3>2, <4>3 DEF Fresh
    <3>3. ASSUME NEW k \in Entries, Holds(s, k) PROVE Holds(s, k)'
      <4>1. k \in Nat /\ k < e /\ e <= k + Length /\ SlotOf(k) = s
        BY <3>3 DEF Holds, Entries
      <4>2. e # k + Length
        <5> HIDE DEF e, s0
        <5>1. SlotOf(k + Length) = SlotOf(k)
          BY <4>1, NextLap
        <5> QED BY <1>1, <2>2, <4>1, <5>1
      <4>3. k < e + 1 /\ e + 1 <= k + Length
        BY <1>1, <4>1, <4>2
      <4> QED BY <1>2, <3>1, <3>3, <4>3 DEF Holds
    <3>4. Fresh(s) \/ \E k \in Entries : Holds(s, k)
      BY <2>2 DEF QInv, SlotsInv
    <3> QED BY <3>2, <3>3, <3>4
  <2> QED BY <2>1, <2>2
<1>5. SlotsInv'
  BY <1>2, <1>4 DEF SlotsInv
<1>6. ReadersInv'
  <2>1. \A s \in Slots : version'[s] \in Nat /\ version[s] <= version'[s]
    BY <1>1, <1>2
  <2> QED BY <1>1, <1>2, <2>1, ReadersStay
<1> QED BY <1>3, <1>5, <1>6 DEF QInv

-----------------------------------------------------------------------------
(* The readers' steps.                                                      *)

SlotsStay == UNCHANGED <<version, content, enqueueIndex, unwritten, inserting>>

\* A reader's step is judged by what becomes of that reader.
LEMMA ReaderSteps ==
  ASSUME QInv, SlotsStay, NEW r \in Readers, NEW local \in ReaderStates,
         reader' = [reader EXCEPT ![r] = local],
         Position(r)', Answered(r)', local.pc = "copy" => Copying(r)'
  PROVE  QInv'
<1>1. reader \in [Readers -> ReaderStates]
  BY DEF QInv, Typed
<1>2. reader'[r] = local /\ \A q \in Readers : q # r => reader'[q] = reader[q]
  BY <1>1
<1>3. Typed'
  BY <1>1 DEF QInv, Typed, SlotsStay
<1>4. SlotsInv'
  BY DEF QInv, SlotsInv, SlotsStay, EnqueueSlot, Fresh, Holds
<1>5. ASSUME NEW q \in Readers, q # r
      PROVE  Position(q)' /\ Answered(q)' /\ (reader'[q].pc = "copy" => Copying(q)')
  <2>1. Position(q) /\ Answered(q) /\ (reader[q].pc = "copy" => Copying(q))
    BY DEF QInv, ReadersInv
  <2>2. reader'[q] = reader[q]
    BY <1>2, <1>5
  <2> QED BY <2>1, <2>2 DEF Position, Answered, Copying, ReadSlot, SlotsStay
<1>6. ReadersInv'
  BY <1>2, <1>5 DEF ReadersInv
<1> QED BY <1>3, <1>4, <1>6 DEF QInv

LEMMA LoadVersionKeeps ==
  ASSUME QInv, NEW r \in Readers, LoadVersion(r)
  PROVE  QInv'
<1> DEFINE local == [reader[r] EXCEPT !.pc = "copy", !.uncopied = Words,
                                      !.initialVersion = version[ReadSlot(r)],
                                      !.publishedAtLoad = enqueueIndex]
<1>1. /\ reader[r] \in ReaderStates /\ reader \in [Readers -> ReaderStates]
      /\ ReadSlot(r) \in Slots /\ version[ReadSlot(r)] \in 0..(2 * Laps)
      /\ version[ReadSlot(r)] \in Nat /\ enqueueIndex \in Entries
  BY SlotFacts, TypeFacts DEF QInv, Typed
<1>2. local \in ReaderStates
  BY <1>1 DEF ReaderStates
<1>3. reader' = [reader EXCEPT ![r] = local]
  BY <1>1 DEF LoadVersion
<1>4. /\ local.readIndex = reader[r].readIndex /\ local.cursor = reader[r].cursor
      /\ local.prevVersion = reader[r].prevVersion /\ local.answer = reader[r].answer
      /\ local.initialVersion = version[ReadSlot(r)] /\ local.uncopied = Words
      /\ local.publishedAtLoad = enqueueIndex
  BY <1>1 DEF ReaderStates
<1> HIDE DEF local
<1>5. reader'[r] = local /\ SlotsStay /\ ReadSlot(r)' = ReadSlot(r)
  BY <1>1, <1>3, <1>4 DEF LoadVersion, SlotsStay, ReadSlot
<1>6. Position(r)' /\ Answered(r)'
  BY <1>4, <1>5 DEF QInv, ReadersInv, Position, Answered, SlotsStay
<1>7. Copying(r)'
  BY <1>1, <1>4, <1>5, PublishedShows DEF Copying, SlotsStay
<1> QED BY <1>2, <1>3, <1>5, <1>6, <1>7, ReaderSteps

LEMMA CopyWordKeeps ==
  ASSUME QInv, NEW r \in Readers, CopyWord(r)
  PROVE  QInv'
<1>1. /\ reader[r] \in ReaderStates /\ reader \in [Readers -> ReaderStates]
      /\ ReadSlot(r) \in Slots /\ content[ReadSlot(r)] \in [Words -> Entries]
      /\ reader[r].copy \in [Words -> Entries] /\ reader[r].uncopied \subseteq Words
  BY SlotFacts, TypeFacts DEF QInv, Typed
<1>2. PICK w \in reader[r].uncopied :
         reader' = [reader EXCEPT ![r].copy[w] = content[ReadSlot(r)][w],
                                  ![r].uncopied = @ \ {w}]
  BY DEF CopyWord
<1> DEFINE copy  == [reader[r].copy EXCEPT ![w] = content[ReadSlot(r)][w]]
           local == [reader[r] EXCEPT !.copy = copy, !.uncopied = @ \ {w}]
<1>3. /\ w \in Words /\ copy \in [Words -> Entries] /\ copy[w] = content[ReadSlot(r)][w]
      /\ \A v \in Words : v # w => copy[v] = reader[r].copy[v]
  BY <1>1
<1>4. reader' = [reader EXCEPT ![r] = local]
  BY <1>1, <1>2 DEF ReaderStates
<1> HIDE DEF copy
<1>5. /\ local \in ReaderStates
      /\ local.readIndex = reader[r].readIndex /\ local.cursor = reader[r].cursor
      /\ local.prevVersion = reader[r].prevVersion /\ local.answer = reader[r].answer
      /\ local.initialVersion = reader[r].initialVersion /\ local.copy = copy
      /\ local.publishedAtLoad = reader[r].publishedAtLoad
      /\ local.uncopied = reader[r].uncopied \ {w}
  BY <1>1, <1>3 DEF ReaderStates
<1> HIDE DEF local
<1>6. reader'[r] = local /\ SlotsStay /\ ReadSlot(r)' = ReadSlot(r)
  BY <1>1, <1>4, <1>5 DEF CopyWord, SlotsStay, ReadSlot
<1>7. Position(r)' /\ Answered(r)'
  BY <1>5, <1>6 DEF QInv, ReadersInv, Position, Answered, SlotsStay
<1>8. Copying(r)
  BY DEF QInv, ReadersInv, CopyWord
<1>9. Copying(r)'
  BY <1>3, <1>5, <1>6, <1>8 DEF Copying, SlotsStay
<1> QED BY <1>4, <1>5, <1>6, <1>7, <1>9, ReaderSteps

LEMMA RetryKeeps ==
  ASSUME QInv, NEW r \in Readers, Retry(r)
  PROVE  QInv'
<1> DEFINE local == [reader[r] EXCEPT !.pc = "load"]
<1>1. reader[r] \in ReaderStates /\ reader \in [Readers -> ReaderStates]
  BY DEF QInv, Typed
<1>2. reader' = [reader EXCEPT ![r] = local] /\ SlotsStay
  BY <1>1 DEF Retry, SlotsStay
<1>3. /\ local \in ReaderStates /\ local.pc = "load"
      /\ local.readIndex = reader[r].readIndex /\ local.cursor = reader[r].cursor
      /\ local.prevVersion = reader[r].prevVersion /\ local.answer = reader[r].answer
  BY <1>1 DEF ReaderStates
<1> HIDE DEF local
<1>4. reader'[r] = local
  BY <1>1, <1>2
<1>5. Position(r)' /\ Answered(r)'
  BY <1>2, <1>3, <1>4 DEF QInv, ReadersInv, Position, Answered, SlotsStay
<1> QED BY <1>2, <1>3, <1>5, ReaderSteps

LEMMA ReturnNothingKeeps ==
  ASSUME QInv, NEW r \in Readers, ReturnNothing(r)
  PROVE  QInv'
<1> DEFINE local == [reader[r] EXCEPT !.pc = "load", !.answer = Nothing]
<1>1. reader[r] \in ReaderStates /\ reader \in [Readers -> ReaderStates]
  BY DEF QInv, Typed
<1>2. reader' = [reader EXCEPT ![r] = local] /\ SlotsStay
  BY <1>1 DEF ReturnNothing, SlotsStay
<1>3. /\ local \in ReaderStates /\ local.pc = "load"
      /\ local.readIndex = reader[r].readIndex /\ local.cursor = reader[r].cursor
      /\ local.prevVersion = reader[r].prevVersion /\ local.answer = Nothing
  BY <1>1 DEF ReaderStates
<1> HIDE DEF local
<1>4. reader'[r] = local
  BY <1>1, <1>2
<1>5. Position(r)' /\ Answered(r)'
  BY <1>2, <1>3, <1>4 DEF QInv, ReadersInv, Position, Answered, SlotsStay
<1> QED BY <1>2, <1>3, <1>5, ReaderSteps

\* What becomes of a reader that is handed an entry.
LEMMA EntryReturned ==
  ASSUME QInv, NEW r \in Readers, ReturnEntry(r)
  PROVE  \E k \in Entries :
            /\ k < enqueueIndex /\ reader[r].cursor <= k
            /\ SlotOf(k) = SlotOf(reader[r].cursor)
            /\ SlotsStay
            /\ reader' = [reader EXCEPT ![r] =
                  [reader[r] EXCEPT !.pc = "load", !.answer = [w \in Words |-> k + 1],
                                    !.cursor = k + 1, !.prevVersion = 2 * Lap(k + 1) + 2,
                                    !.readIndex = @ + 1]]
<1>1. PICK k \in Entries :
         /\ k < enqueueIndex /\ reader[r].cursor <= k
         /\ SlotOf(k) = SlotOf(reader[r].cursor)
         /\ reader[r].initialVersion = 2 * Lap(k) + 2
         /\ reader[r].copy = [w \in Words |-> k + 1]
  BY EntryRead DEF ReturnEntry
<1>2. k \in Nat /\ k + 1 \in Entries /\ enqueueIndex \in Nat /\ reader[r].readIndex \in Nat
      /\ reader \in [Readers -> ReaderStates]
  BY <1>1, TypeFacts DEF QInv, Typed, Entries
<1>3. (CHOOSE n \in Entries : \E w \in Words : reader[r].copy[w] = n) = k + 1
  <2>1. \A n : (\E w \in Words : reader[r].copy[w] = n) <=> n = k + 1
    BY <1>1
  <2> QED BY <1>2, <2>1
<1>4. VersionExpected(reader[r].readIndex, reader[r].initialVersion) = 2 * Lap(k + 1) + 2
  <2>1. reader[r].readIndex % Length = SlotOf(k)
    BY <1>1 DEF QInv, ReadersInv, Position, SlotOf
  <2>2. Lap(k) \in Nat
    BY <1>2, Division
  <2> QED BY <1>1, <1>2, <2>1, <2>2, NextSlot DEF VersionExpected
<1>5. reader' = [reader EXCEPT
                    ![r].pc = "load", ![r].answer = [w \in Words |-> k + 1],
                    ![r].cursor = k + 1, ![r].prevVersion = 2 * Lap(k + 1) + 2,
                    ![r].readIndex = @ + 1]
  BY <1>1, <1>3, <1>4 DEF ReturnEntry
<1>6. reader' = [reader EXCEPT ![r] =
                  [reader[r] EXCEPT !.pc = "load", !.answer = [w \in Words |-> k + 1],
                                    !.cursor = k + 1, !.prevVersion = 2 * Lap(k + 1) + 2,
                                    !.readIndex = @ + 1]]
  BY <1>2, <1>5
<1>7. SlotsStay
  BY DEF ReturnEntry, SlotsStay
<1> QED BY <1>1, <1>6, <1>7

LEMMA ReturnEntryKeeps ==
  ASSUME QInv, NEW r \in Readers, ReturnEntry(r)
  PROVE  QInv'
<1>1. PICK k \in Entries :
         /\ k < enqueueIndex /\ reader[r].cursor <= k
         /\ SlotOf(k) = SlotOf(reader[r].cursor)
         /\ SlotsStay
         /\ reader' = [reader EXCEPT ![r] =
               [reader[r] EXCEPT !.pc = "load", !.answer = [w \in Words |-> k + 1],
                                 !.cursor = k + 1, !.prevVersion = 2 * Lap(k + 1) + 2,
                                 !.readIndex = @ + 1]]
  BY EntryReturned
<1> DEFINE entry == [w \in Words |-> k + 1]
           local == [reader[r] EXCEPT !.pc = "load", !.answer = entry, !.cursor = k + 1,
                                      !.prevVersion = 2 * Lap(k + 1) + 2, !.readIndex = @ + 1]
           i     == reader[r].readIndex
           c     == reader[r].cursor
<1>2. /\ reader[r] \in ReaderStates /\ reader \in [Readers -> ReaderStates]
      /\ k \in Nat /\ i \in Nat /\ c \in Nat /\ enqueueIndex \in Nat /\ enqueueIndex <= MaxEntries
      /\ i <= c /\ SlotOf(i) = SlotOf(c)
  BY TypeFacts DEF QInv, Typed, Entries, ReadersInv, Position
<1>3. /\ k + 1 \in Entries /\ i + 1 \in Entries /\ i + 1 <= k + 1 /\ k + 1 <= enqueueIndex
      /\ k + 1 \in Nat /\ k + 1 <= MaxEntries
  BY <1>1, <1>2 DEF Entries
<1>4. 2 * Lap(k + 1) + 2 \in 1..(2 * Laps + 2)
  <2>1. Lap(k + 1) \in Nat /\ Laps \in Nat /\ Lap(k + 1) <= Laps
    BY <1>3, Division, LapsBound
  <2> QED BY <2>1
<1>5. SlotOf(i + 1) = SlotOf(k + 1)
  BY <1>1, <1>2, SameSlot
<1>6. entry \in [Words -> Entries]
  BY <1>3
<1>7. /\ local \in ReaderStates /\ local.pc = "load"
      /\ local.readIndex = i + 1 /\ local.cursor = k + 1
      /\ local.prevVersion = 2 * Lap(k + 1) + 2 /\ local.answer = entry
  <2> HIDE DEF entry
  <2> QED BY <1>2, <1>3, <1>4, <1>6 DEF ReaderStates
<1>8. reader' = [reader EXCEPT ![r] = local]
  BY <1>1
<1> HIDE DEF local, i
<1>9. reader'[r] = local
  BY <1>2, <1>8
<1>10. Position(r)'
  BY <1>1, <1>3, <1>5, <1>7, <1>9 DEF Position, SlotsStay
<1>11. Answered(r)'
  <2>1. k + 1 \in 1..enqueueIndex
    BY <1>2, <1>3
  <2> QED BY <1>1, <1>7, <1>9, <2>1 DEF Answered, SlotsStay
<1> QED BY <1>1, <1>7, <1>8, <1>10, <1>11, ReaderSteps

-----------------------------------------------------------------------------
(* The theorems.                                                            *)

\* Every step keeps the invariant.
LEMMA NextKeeps == QInv /\ [Next]_vars => QInv'
<1> SUFFICES ASSUME QInv, [Next]_vars PROVE QInv'
  OBVIOUS
<1>1. CASE Enqueue
  BY <1>1, BeginInsertKeeps, WriteWordKeeps, EndInsertKeeps DEF Enqueue
<1>2. ASSUME NEW r \in Readers, ReadNextEntry(r) PROVE QInv'
  BY <1>2, LoadVersionKeeps, CopyWordKeeps, RetryKeeps, ReturnEntryKeeps, ReturnNothingKeeps
     DEF ReadNextEntry
<1>3. CASE UNCHANGED vars
  <2>1. Typed' /\ SlotsInv'
    BY <1>3 DEF vars, QInv, Typed, SlotsInv, EnqueueSlot, Fresh, Holds
  <2>2. ReadersInv'
    BY <1>3 DEF vars, QInv, ReadersInv, Position, Answered, Copying, ReadSlot
  <2> QED BY <2>1, <2>2 DEF QInv
<1> QED BY <1>1, <1>2, <1>3 DEF Next

LEMMA Invariance == Spec => []QInv
BY InitHolds, NextKeeps, PTL DEF Spec

\* Versions, contents and readers keep their types; a version goes no further
\* than two steps per lap.
THEOREM QueueTyped == Spec => []TypeOK
<1>1. QInv => TypeOK
  BY DEF QInv, Typed, ReaderStates, TypeOK
<1> QED BY <1>1, Invariance, PTL

\* read_next_entry never returns words of two entries, however many words an
\* entry has and however often the slot is overwritten while it is copied.
THEOREM EntriesAreWhole == Spec => []NoTornReads
<1>1. QInv => NoTornReads
  BY DEF QInv, ReadersInv, Answered, NoTornReads
<1> QED BY <1>1, Invariance, PTL

\* What a step of the queue does to the reader r: another's step and one that
\* hands nothing out leave its place alone.
LEMMA ReaderMoves ==
  ASSUME QInv, Next, NEW r \in Readers
  PROVE  \/ /\ reader'[r].readIndex = reader[r].readIndex
            /\ reader'[r].cursor = reader[r].cursor
         \/ ReturnEntry(r)
<1>0. reader \in [Readers -> ReaderStates]
  BY DEF QInv, Typed
<1>1. CASE Enqueue
  BY <1>1 DEF Enqueue, BeginInsert, WriteWord, EndInsert
<1>2. ASSUME NEW q \in Readers, ReadNextEntry(q), ~ReturnEntry(r)
      PROVE  /\ reader'[r].readIndex = reader[r].readIndex
             /\ reader'[r].cursor = reader[r].cursor
  <2>1. CASE LoadVersion(q)
    BY <1>0, <2>1 DEF LoadVersion, ReaderStates
  <2>2. CASE CopyWord(q)
    BY <1>0, <2>2 DEF CopyWord, ReaderStates
  <2>3. CASE Retry(q)
    BY <1>0, <2>3 DEF Retry, ReaderStates
  <2>4. CASE ReturnNothing(q)
    BY <1>0, <2>4 DEF ReturnNothing, ReaderStates
  <2>5. CASE ReturnEntry(q)
    <3>1. q # r
      BY <1>2, <2>5
    <3> QED BY <1>0, <2>5, <3>1 DEF ReturnEntry
  <2> QED BY <1>2, <2>1, <2>2, <2>3, <2>4, <2>5 DEF ReadNextEntry
<1> QED BY <1>1, <1>2 DEF Next

\* A reader gets the next entry or, if it was overtaken, one that lies whole
\* laps behind the next.
THEOREM LossesAreWholeLaps == Spec => MissesOnlyWholeLaps
<1> DEFINE WholeLaps ==
      \A r \in Readers : Handed(r) =>
         \E laps \in 0..MaxEntries :
            reader'[r].cursor = reader[r].cursor + 1 + laps * Length
<1>1. QInv /\ [Next]_vars => [WholeLaps]_vars
  <2> SUFFICES ASSUME QInv, Next, NEW r \in Readers, Handed(r)
               PROVE  \E laps \in 0..MaxEntries :
                         reader'[r].cursor = reader[r].cursor + 1 + laps * Length
    OBVIOUS
  <2>1. ReturnEntry(r)
    BY ReaderMoves DEF Handed
  <2>2. PICK k \in Entries :
           /\ k < enqueueIndex /\ reader[r].cursor <= k
           /\ SlotOf(k) = SlotOf(reader[r].cursor)
           /\ reader' = [reader EXCEPT ![r] =
                 [reader[r] EXCEPT !.pc = "load", !.answer = [w \in Words |-> k + 1],
                                   !.cursor = k + 1, !.prevVersion = 2 * Lap(k + 1) + 2,
                                   !.readIndex = @ + 1]]
    BY <2>1, EntryReturned
  <2> DEFINE c    == reader[r].cursor
             laps == Lap(k) - Lap(c)
  <2>3. /\ k \in Nat /\ c \in Nat /\ k <= MaxEntries /\ c <= k
        /\ reader \in [Readers -> ReaderStates] /\ Lap(k) \in Nat /\ Lap(c) \in Nat
    BY <2>2, TypeFacts, Division DEF QInv, Typed, Entries
  <2>4. reader'[r].cursor = k + 1
    BY <2>2, <2>3 DEF ReaderStates
  <2>5. k = c + laps * Length /\ laps \in Int
    BY <2>2, <2>3, SameSlot
  <2> HIDE DEF laps, c
  <2>6. laps >= 0
    <3>1. Length * laps > -Length
      BY <2>3, <2>5
    <3> QED BY <2>5, <3>1, Multiples
  <2>7. laps <= MaxEntries
    <3>1. laps <= laps * Length
      BY <2>5, <2>6
    <3>2. laps * Length <= k /\ laps * Length \in Int
      BY <2>3, <2>5
    <3> QED BY <2>3, <2>5, <3>1, <3>2
  <2>8. k + 1 = c + 1 + laps * Length
    BY <2>3, <2>5
  <2> QED BY <2>4, <2>5, <2>6, <2>7, <2>8 DEF c
<1> QED BY <1>1, Invariance, PTL DEF Spec, MissesOnlyWholeLaps

\* A reader that is told there is nothing new has been handed the latest entry
\* that was complete when it loaded the version, also after it was overtaken.
THEOREM NothingIsCurrent == Spec => NothingMeansCurrent
<1> DEFINE Current ==
      \A r \in Readers :
         reader[r].pc = "copy" /\ reader'[r].pc = "load" /\ reader'[r].answer = Nothing
         /\ ReadIsStable(reader[r].initialVersion, version[ReadSlot(r)])
           => reader[r].cursor >= reader[r].publishedAtLoad
<1>1. QInv /\ [Next]_vars => [Current]_vars
  <2> SUFFICES ASSUME QInv, Next, NEW r \in Readers,
                      reader[r].pc = "copy", reader'[r].pc = "load",
                      reader'[r].answer = Nothing,
                      ReadIsStable(reader[r].initialVersion, version[ReadSlot(r)])
               PROVE  reader[r].cursor >= reader[r].publishedAtLoad
    OBVIOUS
  <2>0. reader \in [Readers -> ReaderStates]
    BY DEF QInv, Typed
  <2>1. ~Enqueue
    BY DEF Enqueue, BeginInsert, WriteWord, EndInsert
  <2>2. PICK q \in Readers : ReadNextEntry(q)
    BY <2>1, SMTT(30) DEF Next
  <2>3. q = r
    BY <2>0, <2>2 DEF ReadNextEntry, LoadVersion, CopyWord, Retry, ReturnEntry, ReturnNothing
  <2>4. ~LoadVersion(r) /\ ~CopyWord(r) /\ ~Retry(r)
    BY <2>0, ZenonT(40) DEF LoadVersion, CopyWord, Retry, ReaderStates
  <2>5. ~ReturnEntry(r)
    <3> SUFFICES ASSUME ReturnEntry(r) PROVE FALSE
      OBVIOUS
    <3>1. PICK k \in Entries :
             reader' = [reader EXCEPT ![r] =
                 [reader[r] EXCEPT !.pc = "load", !.answer = [w \in Words |-> k + 1],
                                   !.cursor = k + 1, !.prevVersion = 2 * Lap(k + 1) + 2,
                                   !.readIndex = @ + 1]]
      BY EntryReturned
    <3>2. reader'[r].answer = [w \in Words |-> k + 1]
      BY <2>0, <3>1 DEF ReaderStates
    <3>3. PICK w \in Words : TRUE
      OBVIOUS
    <3>4. k + 1 = -1
      BY <3>2, <3>3 DEF Nothing
    <3> QED BY <3>4 DEF Entries
  <2>6. ReturnNothing(r)
    BY <2>2, <2>3, <2>4, <2>5 DEF ReadNextEntry
  <2>7. /\ reader[r].cursor \in Int /\ reader[r].publishedAtLoad \in Int
        /\ reader[r].initialVersion \in Int /\ reader[r].prevVersion \in Int
    BY TypeFacts DEF QInv
  <2>8. reader[r].initialVersion < reader[r].prevVersion
    BY <2>6, <2>7 DEF ReturnNothing, IsNewEntry
  <2>9. reader[r].cursor < reader[r].publishedAtLoad =>
           reader[r].prevVersion <= reader[r].initialVersion
    BY DEF QInv, ReadersInv, Copying
  <2> QED BY <2>7, <2>8, <2>9
<1> QED BY <1>1, Invariance, PTL DEF Spec, NothingMeansCurrent

\* The queue is a feed: the end of an insert publishes an entry, a read that
\* returns one delivers it, and no other step of either side is visible.
THEOREM QueueIsAFeed == Spec => ImplementsFeed
<1>1. Init => AsFeed!FeedInit
  BY DEF Init, NewReader, AsFeed!FeedInit
<1>2. QInv /\ [Next]_vars => [AsFeed!FeedNext]_(AsFeed!feedVars)
  <2> SUFFICES ASSUME QInv, [Next]_vars
               PROVE  AsFeed!FeedNext \/ UNCHANGED AsFeed!feedVars
    OBVIOUS
  <2>0. reader \in [Readers -> ReaderStates]
    BY DEF QInv, Typed
  <2> DEFINE cursors == [r \in Readers |-> reader[r].cursor]
  <2>1. CASE UNCHANGED vars
    BY <2>1 DEF vars, AsFeed!feedVars
  <2>2. CASE BeginInsert \/ WriteWord
    BY <2>2 DEF BeginInsert, WriteWord, AsFeed!feedVars
  <2>3. CASE EndInsert
    <3>1. enqueueIndex < MaxEntries
      BY <2>3 DEF QInv, SlotsInv, EndInsert
    <3> QED BY <2>3, <3>1 DEF EndInsert, AsFeed!FeedNext, AsFeed!Publish
  <2>4. ASSUME NEW q \in Readers, ReadNextEntry(q), ~ReturnEntry(q)
        PROVE  UNCHANGED AsFeed!feedVars
    <3>1. enqueueIndex' = enqueueIndex
      BY <2>4 DEF ReadNextEntry, LoadVersion, CopyWord, Retry, ReturnNothing
    <3>2. \A r \in Readers : reader'[r].cursor = reader[r].cursor
      <4>1. CASE LoadVersion(q)
        BY <2>0, <4>1 DEF LoadVersion, ReaderStates
      <4>2. CASE CopyWord(q)
        BY <2>0, <4>2 DEF CopyWord, ReaderStates
      <4>3. CASE Retry(q)
        BY <2>0, <4>3 DEF Retry, ReaderStates
      <4>4. CASE ReturnNothing(q)
        BY <2>0, <4>4 DEF ReturnNothing, ReaderStates
      <4> QED BY <2>4, <4>1, <4>2, <4>3, <4>4 DEF ReadNextEntry
    <3> QED BY <3>1, <3>2 DEF AsFeed!feedVars
  <2>5. ASSUME NEW q \in Readers, ReturnEntry(q) PROVE AsFeed!Deliver(q)
    <3>1. PICK k \in Entries :
             /\ k < enqueueIndex /\ reader[q].cursor <= k
             /\ SlotsStay
             /\ reader' = [reader EXCEPT ![q] =
                   [reader[q] EXCEPT !.pc = "load", !.answer = [w \in Words |-> k + 1],
                                     !.cursor = k + 1, !.prevVersion = 2 * Lap(k + 1) + 2,
                                     !.readIndex = @ + 1]]
      BY <2>5, EntryReturned
    <3>2. /\ reader'[q].cursor = k + 1
          /\ \A r \in Readers : r # q => reader'[r] = reader[r]
      BY <2>0, <3>1 DEF ReaderStates
    <3>3. cursors' = [cursors EXCEPT ![q] = k + 1]
      BY <3>2
    <3>4. k + 1 \in (cursors[q] + 1)..enqueueIndex
      <4>1. k \in Nat /\ enqueueIndex \in Nat /\ reader[q].cursor \in Nat
        BY TypeFacts DEF QInv, Entries
      <4> QED BY <3>1, <4>1
    <3> HIDE DEF cursors
    <3> QED BY <3>1, <3>3, <3>4 DEF AsFeed!Deliver, SlotsStay, cursors
  <2> QED BY <2>1, <2>2, <2>3, <2>4, <2>5 DEF Next, Enqueue, AsFeed!FeedNext
<1> QED BY <1>1, <1>2, Invariance, PTL DEF Spec, ImplementsFeed, AsFeed!FeedSpec

=============================================================================
