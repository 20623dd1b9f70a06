---------------------------- MODULE SocketStreams ----------------------------
(***************************************************************************)
(* What a socket may hold: a sequence of pieces, which are messages of known  *)
(* and of foreign types, with their checksum in order or not, messages that   *)
(* have lost bytes at their front, and garbage.                              *)
(***************************************************************************)
EXTENDS FIXMsgTypes

Message(kind, length, sumOk) ==
    [kind |-> kind, length |-> length, sumOk |-> sumOk, lost |-> 0]

Known(type)     == Message(type, MsgLength(type), TRUE)
Corrupt(type)   == Message(type, MsgLength(type), FALSE)
Foreign(length) == Message("foreign", length, TRUE)
Garbage(length) == Message("garbage", length, FALSE)

\* A message without its first bytes, of which only the delimiter is left whole.
Headless(type, lost) == [Known(type) EXCEPT !.lost = lost]

\* The largest int.  A length is read into one, and is negative beyond.
IntLimit == 2147483647

\* A piece that a stream may consist of.  A foreign message has a length of its
\* own; a search may take as many bytes as the shortest known message has, so
\* that this is the least that a message may have.
IsPiece(piece) ==
    \/ \E type \in Types : piece \in {Known(type), Corrupt(type)}
    \/ \E type \in Types, lost \in 1..(DelimiterOffset - 1) : piece = Headless(type, lost)
    \/ /\ piece = Foreign(piece.length)
       /\ piece.length \in Nat /\ piece.length >= ShortestMsgSize
       /\ piece.length <= IntLimit
       /\ \A type \in Types : piece.length # MsgLength(type)
    \/ /\ piece = Garbage(piece.length)
       /\ piece.length \in Nat \ {0}

\* A byte is a pair: the piece it is of, and its position there.
Bytes(i, piece) ==
    [n \in 1..(piece.length - piece.lost) |-> <<i, piece.lost + n - 1>>]

\* What the buffer holds before anything has been received.
Blank == <<0, 0>>

\* A byte that the handler takes for no part of a delimiter.
Noise == 7

ValueIn(piece, at) ==
    CASE piece.kind = "garbage" \/ at >= HeaderLength -> Noise
      [] piece.kind # "garbage" /\ at = 0 -> piece.length
      [] piece.kind # "garbage" /\ at \in 1..(DelimiterOffset - 1) -> 0
      [] OTHER -> DelimiterValue[at - DelimiterOffset + 1]

=============================================================================
