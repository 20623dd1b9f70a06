----------------------------- MODULE FIXMsgTypes -----------------------------
(***************************************************************************)
(* The message types of FIXmsgClasses.hpp, as fixSocketHandler sees them:     *)
(* their layout, and what the compile-time functions of FIXmsgTypeChecks.hpp  *)
(* and Auxil::Variant make of it.  The handler is compiled for a variant of   *)
(* message types; its alternatives are numbered.                              *)
(***************************************************************************)
EXTENDS Integers, SequencesExt

\* The static members of a message class.  0xEB50 is little-endian.
MsgClass(msgLength) ==
    [msgLength |-> msgLength, lengthOffset |-> 0, headerLength |-> 6,
     delimiterOffset |-> 4, delimiterValue |-> <<80, 235>>, volumeOffset |-> 6]

Layout == [addLimitOrder      |-> MsgClass(17),
           withdrawLimitOrder |-> MsgClass(18),
           marketOrder        |-> MsgClass(13)]

Types == DOMAIN Layout

\* The alternatives of std::variant.
Variant == <<"addLimitOrder", "withdrawLimitOrder", "marketOrder">>

MsgLength(type) == Layout[type].msgLength

-----------------------------------------------------------------------------

\* validate_variant compares every alternative with every other.
ComparedClasses ==
    UNION {{<<Layout[s], Layout[t]>> : t \in Types \ {s}} : s \in Types}

MsgLenNotEqual   == \A m \in ComparedClasses : m[1].msgLength # m[2].msgLength
HeaderLenEqual   == \A m \in ComparedClasses : m[1].headerLength = m[2].headerLength
DelimOffsetEqual == \A m \in ComparedClasses : m[1].delimiterOffset = m[2].delimiterOffset
VolOffsetEqual   == \A m \in ComparedClasses : m[1].volumeOffset = m[2].volumeOffset
DelimValEqual    == \A m \in ComparedClasses : m[1].delimiterValue = m[2].delimiterValue

\* The code compares the first class with itself.
LenOffsetEqual == \A m \in ComparedClasses : m[1].lengthOffset = m[1].lengthOffset

ConsistencyChecksAcrossMsgTypes ==
    /\ MsgLenNotEqual
    /\ LenOffsetEqual
    /\ HeaderLenEqual
    /\ DelimOffsetEqual
    /\ VolOffsetEqual
    /\ DelimValEqual

UInt32Limit == 2147483647   \* stands for the largest std::uint32_t

UInt32Max(i, j) == IF i >= j THEN i ELSE j
UInt32Min(i, j) == IF i <= j THEN i ELSE j

\* aggregate_over_variant, from the last alternative on.
DetermineMaxMsgLen ==
    FoldRight(LAMBDA type, rest : UInt32Max(MsgLength(type), rest), Variant, 0)
DetermineMinMsgLen ==
    FoldRight(LAMBDA type, rest : UInt32Min(MsgLength(type), rest), Variant, UInt32Limit)

-----------------------------------------------------------------------------
(* The static members of fixSocketHandler, taken from alternative 0.          *)

HeaderLength    == Layout[Variant[1]].headerLength
LengthOffset    == Layout[Variant[1]].lengthOffset
DelimiterOffset == Layout[Variant[1]].delimiterOffset
DelimiterValue  == Layout[Variant[1]].delimiterValue
BufferSize      == DetermineMaxMsgLen
ShortestMsgSize == DetermineMinMsgLen

\* The program compiles: its classes pass the checks, and every message is
\* longer than its header.
ASSUME ChecksPass      == ConsistencyChecksAcrossMsgTypes
ASSUME HeaderIsShorter == ShortestMsgSize > HeaderLength

\* The checks do not compare the offsets of the length; they are equal.
ASSUME LengthOffsetsEqual == \A type \in Types : Layout[type].lengthOffset = LengthOffset

=============================================================================
