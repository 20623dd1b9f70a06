---------------------------- MODULE SocketHandler ----------------------------
(***************************************************************************)
(* fixSocketHandler::readNextMessage (FIXSocketHandler.hpp) on the socket it  *)
(* is run on, fixMockSocket (FIXmockSocket.hpp), one call of recv() per step.  *)
(*                                                                         *)
(* The socket holds the bytes of a sequence of pieces (SocketStreams).  Of a  *)
(* byte the model keeps what the handler looks at, its value in a header, and *)
(* where it comes from, which tells an intact message from a splice.          *)
(***************************************************************************)
EXTENDS SocketStreams

CONSTANT Streams  \* the sequences of pieces that the socket may hold

ASSUME StreamsAssumption ==
    \A stream \in Streams :
        /\ stream # <<>> /\ stream \in Seq(Range(stream))
        /\ \A i \in DOMAIN stream : IsPiece(stream[i])

VARIABLES
    pieces,       \* what the socket holds
    memSpan,      \* its bytes: fixMockSocket::memSpan
    readIndex,    \* fixMockSocket::readIndex
    endOfBuffer,  \* the flag that fixMockSocket sets when all has been read
    stage,        \* the recv() that readNextMessage makes next; idle between calls
    bufferSpan,   \* fixSocketHandler::bufferSpan
    bytesRead, msgLength, excessBytes,  \* locals of readNextMessage and discardLongMsg
    answers       \* what the calls have returned

socketVars == <<pieces, memSpan, readIndex, endOfBuffer>>
vars       == <<socketVars, stage, bufferSpan, bytesRead, msgLength, excessBytes, answers>>

-----------------------------------------------------------------------------

Value(byte) == IF byte = Blank THEN 0 ELSE ValueIn(pieces[byte[1]], byte[2])

-----------------------------------------------------------------------------
(* fixMockSocket::recv.                                                      *)

\* Faulty: one byte too few of the window is kept.
BytesToKeepShort == HeaderLength - 2

\* What a search keeps of its window: a header may begin in its last bytes.
BytesToKeep == HeaderLength - 1

\* How many bytes the next recv() is asked for.
Demand ==
    CASE stage = "header"  -> HeaderLength
      [] stage = "scan"    -> ShortestMsgSize - BytesToKeep
      [] stage = "discard" -> Min({BufferSize - HeaderLength, excessBytes})
      [] OTHER             -> msgLength - bytesRead

\* A length below that of the bytes read makes len negative, which is a copy of
\* nearly 2^32 bytes: undefined behaviour, taken for the end of the program.
Available(len) == len >= 0 /\ readIndex + len <= Len(memSpan)

\* The buffer with the next len bytes of the socket at position dest.
Filled(dest, len) ==
    SubSeq(bufferSpan, 1, dest) \o SubSeq(memSpan, readIndex + 1, readIndex + len)
        \o SubSeq(bufferSpan, dest + len + 1, BufferSize)

\* Faulty: the flag is set one byte too late.
ConsumePastEnd(len) ==
    /\ Available(len)
    /\ readIndex' = readIndex + len
    /\ endOfBuffer' = (endOfBuffer \/ readIndex + len > Len(memSpan))
    /\ UNCHANGED <<pieces, memSpan>>

Consume(len) ==
    /\ Available(len)
    /\ readIndex' = readIndex + len
    /\ endOfBuffer' = (endOfBuffer \/ readIndex + len = Len(memSpan))
    /\ UNCHANGED <<pieces, memSpan>>

\* A read past the end of the memory terminates the program.
ReadOutOfBounds ==
    /\ stage \in {"header", "scan", "discard", "rest"}
    /\ ~Available(Demand)
    /\ stage' = "terminated"
    /\ UNCHANGED <<socketVars, bufferSpan, bytesRead, msgLength, excessBytes, answers>>

-----------------------------------------------------------------------------
(* Finding the header.                                                       *)

\* std::shift_left on the part of the buffer that is searched: bytes nothing
\* is moved into stay; a shift by a wrapped negative number moves nothing.
ShiftLeft(buffer, by) ==
    IF by < 0 THEN buffer
    ELSE SubSeq(buffer, by + 1, ShortestMsgSize)
           \o SubSeq(buffer, ShortestMsgSize - by + 1, BufferSize)

\* The byte at offset k.
At(buffer, k) == Value(buffer[k + 1])

DelimiterAt(buffer, d) == <<At(buffer, d), At(buffer, d + 1)>> = DelimiterValue

\* std::ranges::search for the delimiter.
SearchPositions == 0..(ShortestMsgSize - 2)
NoDelimiter(buffer) == \A d \in SearchPositions : ~DelimiterAt(buffer, d)
FirstDelimiterAt(buffer, d) ==
    DelimiterAt(buffer, d) /\ \A e \in 0..(d - 1) : ~DelimiterAt(buffer, e)

\* Four bytes as a little-endian int.
IntAt(buffer, k) ==
    LET top == At(buffer, k + 3)
    IN  At(buffer, k) + 256 * At(buffer, k + 1) + 65536 * At(buffer, k + 2)
          + 16777216 * (IF top > 127 THEN top - 256 ELSE top)

\* Faulty: the excess is counted from the header on.
ExcessOverHeader(length) == length - HeaderLength

Excess(length) == length - BufferSize

\* A header is now at the front of the buffer, and n bytes of its message have
\* been read.  The length is compared as an unsigned number, so that a negative
\* one is too long as well, but leaves nothing to discard.
MeasureMessage(n) ==
    LET length == IntAt(bufferSpan', LengthOffset)
        fits   == length \in 0..BufferSize
        excess == IF fits THEN 0 ELSE Excess(length)
    IN  /\ bytesRead'   = n
        /\ msgLength'   = IF fits THEN length ELSE BufferSize
        /\ excessBytes' = IF excess > 0 THEN excess ELSE 0
        /\ stage'       = IF excess > 0 THEN "discard" ELSE "rest"

\* No header yet: the search goes on after by bytes.
ScanOn(buffer, by) ==
    /\ bufferSpan' = ShiftLeft(buffer, by)
    /\ stage' = "scan"
    /\ UNCHANGED <<bytesRead, msgLength, excessBytes>>

\* A call begins.
BeginRead ==
    /\ stage = "idle"
    /\ stage' = "header"
    /\ UNCHANGED <<socketVars, bufferSpan, bytesRead, msgLength, excessBytes, answers>>

\* The first recv(), which ends in the search for a header if there is none.
ReadHeader ==
    LET buffer == Filled(0, HeaderLength)
    IN  /\ stage = "header"
        /\ Consume(HeaderLength)
        /\ IF DelimiterAt(buffer, DelimiterOffset)
           THEN bufferSpan' = buffer /\ MeasureMessage(HeaderLength)
           ELSE ScanOn(buffer, 1)
        /\ UNCHANGED answers

\* scanForDelimiter.  A delimiter before its place in a header makes
\* positionOfHeader wrap: the bytes stay where they are, and are counted as if
\* they had been moved.
ScanForDelimiter ==
    LET added  == ShortestMsgSize - BytesToKeep
        buffer == Filled(BytesToKeep, added)
    IN  /\ stage = "scan"
        /\ Consume(added)
        /\ \/ NoDelimiter(buffer) /\ ScanOn(buffer, added)
           \/ \E d \in SearchPositions :
                /\ FirstDelimiterAt(buffer, d)
                /\ bufferSpan' = ShiftLeft(buffer, d - DelimiterOffset)
                /\ MeasureMessage(ShortestMsgSize - (d - DelimiterOffset))
        /\ UNCHANGED answers

-----------------------------------------------------------------------------
(* The rest of the message.                                                  *)

\* discardLongMsg: one iteration of its loop.
DiscardLongMsg ==
    /\ stage = "discard"
    /\ Consume(Demand)
    /\ bufferSpan' = Filled(HeaderLength, Demand)
    /\ excessBytes' = excessBytes - Demand
    /\ stage' = IF excessBytes' = 0 THEN "rest" ELSE "discard"
    /\ UNCHANGED <<bytesRead, msgLength, answers>>

\* The buffer begins with one piece of this length, in full.
IsWhole(buffer, length) ==
    LET i == buffer[1][1]
    IN  /\ i # 0 /\ pieces[i].length = length
        /\ SubSeq(buffer, 1, length) = Bytes(i, pieces[i])

Nothing == [type |-> "none", of |-> 0]

\* determineMsgType.
MsgType(length) ==
    IF \E type \in Types : MsgLength(type) = length
    THEN CHOOSE type \in Types : MsgLength(type) = length
    ELSE "none"

\* Faulty: the checksum is not looked at.
AnyChecksum(buffer, length) == {TRUE}

\* validateChecksum: the checksum of a splice matches or not, as its bytes
\* happen to be.
ValidateChecksum(buffer, length) ==
    IF IsWhole(buffer, length) THEN {pieces[buffer[1][1]].sumOk} ELSE BOOLEAN

\* What readNextMessage returns.  of is 0 for a message nobody has sent.
Answer(buffer, length, valid) ==
    IF valid /\ MsgType(length) # "none"
    THEN [type |-> MsgType(length),
          of   |-> IF IsWhole(buffer, length) THEN buffer[1][1] ELSE 0]
    ELSE Nothing

ReadRest ==
    LET buffer == Filled(bytesRead, Demand)
    IN  /\ stage = "rest"
        /\ Consume(Demand)
        /\ bufferSpan' = buffer
        /\ \E valid \in ValidateChecksum(buffer, msgLength) :
              answers' = Append(answers, Answer(buffer, msgLength, valid))
        /\ stage' = "idle" /\ bytesRead' = 0 /\ msgLength' = 0
        /\ UNCHANGED excessBytes

-----------------------------------------------------------------------------

Init ==
    /\ pieces \in Streams
    /\ memSpan = FlattenSeq([i \in DOMAIN pieces |-> Bytes(i, pieces[i])])
    /\ readIndex = 0
    /\ endOfBuffer = FALSE
    /\ stage = "idle"
    /\ bufferSpan = [k \in 1..BufferSize |-> Blank]
    /\ bytesRead = 0 /\ msgLength = 0 /\ excessBytes = 0
    /\ answers = <<>>

\* A call under way goes on.
Proceed == ReadHeader \/ ScanForDelimiter \/ DiscardLongMsg \/ ReadRest \/ ReadOutOfBounds

\* The caller reads messages until the socket has set the flag.
Call == ~endOfBuffer /\ BeginRead

Finished == stage = "terminated" \/ (endOfBuffer /\ stage = "idle")

Next == Call \/ Proceed \/ (Finished /\ UNCHANGED vars)

Spec == Init /\ [][Next]_vars

\* The caller calls on, and recv() returns.
FairSpec == Spec /\ WF_vars(Call \/ Proceed)

-----------------------------------------------------------------------------
(* Properties.                                                              *)

Positions == 0..Len(memSpan)

\* Positions stay inside the socket's memory and the buffer, and
\* buffer and answers hold what the socket has held.
TypeOK ==
    /\ readIndex \in Positions
    /\ endOfBuffer = (readIndex = Len(memSpan) /\ readIndex > 0)
    /\ stage \in {"idle", "header", "scan", "discard", "rest", "terminated"}
    /\ Len(bufferSpan) = BufferSize
    /\ \A k \in DOMAIN bufferSpan : bufferSpan[k][1] \in {0} \cup DOMAIN pieces
    /\ bytesRead \in 0..(BufferSize - 1)
    /\ msgLength \in 0..BufferSize
    /\ excessBytes \in Nat
    /\ \A n \in DOMAIN answers : /\ answers[n].type \in Types \cup {"none"}
                                 /\ answers[n].of \in {0} \cup DOMAIN pieces

\* The pieces before the first one that has lost its front, those of them that
\* have a header, and how many of these there are up to piece i.
InStep  == {i \in DOMAIN pieces : \A j \in 1..i : pieces[j].lost = 0}
Framed  == {i \in InStep : pieces[i].kind # "garbage"}
Rank(i) == Cardinality({j \in Framed : j <= i})

\* What a call that reads piece i should return (readme.md:114-117).
Owed(i) == IF pieces[i].kind \in Types /\ pieces[i].sumOk
           THEN [type |-> pieces[i].kind, of |-> i]
           ELSE Nothing

FitsBuffer(i) == pieces[i].length <= BufferSize

\* The calls go through the messages of the stream one by one, in order: a
\* message that fits the buffer is returned as what it is, or with an empty
\* optional if it is corrupt or of a foreign type (readme.md:114-117), and
\* garbage of any length in front of it is skipped (FIXSocketHandler.hpp:109-113).
\* Of a longer message only this much is claimed, that it takes one call and is
\* not returned as a message of the stream (see ForeignRefused).  Even after a
\* message has lost its front, what is returned as one of the messages sent is
\* that message, in order, and no message is returned twice.
AnswersInOrder ==
    /\ \A i \in Framed : Rank(i) \in DOMAIN answers =>
          IF FitsBuffer(i) THEN answers[Rank(i)] = Owed(i) ELSE answers[Rank(i)].of = 0
    /\ \A n \in DOMAIN answers :
         answers[n].of # 0 =>
            /\ answers[n] = Owed(answers[n].of)
            /\ \A m \in 1..(n - 1) : answers[m].of < answers[n].of

\* A message of a type that the handler is not compiled for is answered with an
\* empty optional, whatever its length (readme.md:116-117).  The code does not
\* keep this: the type is that of the length after truncation, which is a
\* withdrawal's, and the checksum of what is left may match.
ForeignRefused ==
    \A i \in Framed :
       Rank(i) \in DOMAIN answers /\ pieces[i].kind = "foreign" => answers[Rank(i)] = Nothing

EndOf(i) == Cardinality({p \in DOMAIN memSpan : memSpan[p][1] <= i})

\* However far the search for a header has to go, no call takes bytes that
\* belong to the message after the one it returns (FIXSocketHandler.hpp:171-186):
\* between calls the socket stands at the end of a message.
NeverReadsAhead ==
    LET called == Len(answers) + IF stage = "idle" THEN 0 ELSE 1
    IN  \A i \in Framed : Rank(i) = called =>
          /\ readIndex <= EndOf(i)
          /\ stage = "idle" => readIndex = EndOf(i)

WellFramed ==
    /\ InStep = DOMAIN pieces
    /\ pieces[Len(pieces)].kind # "garbage"

\* A stream that ends in a message is read to its last byte, every call
\* returns, and no byte is asked for that is not there (FIXmockSocket.hpp:173-189).
ReadsToTheEnd ==
    WellFramed ~> /\ endOfBuffer /\ stage = "idle"
                  /\ Len(answers) = Cardinality(Framed)

=============================================================================
