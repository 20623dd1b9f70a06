-------------------------- MODULE MCSocketHandler --------------------------
(* Small streams for TLC. *)
EXTENDS SocketHandler

\* Messages of all types, foreign ones shorter than the buffer and longer by
\* less than, exactly, and more than one iteration of the loop that discards.
MCMessages == {Known(type) : type \in Types}
              \cup {Corrupt("marketOrder"), Corrupt("withdrawLimitOrder")}
              \cup {Foreign(length) : length \in {14, 19, 30, 40}}

\* A foreign message longer than the buffer, and one of a known type, as in the
\* last two reads of Unittests_FIXsocketHandler.cpp.
MCLongForeign == {<<Foreign(40), Known("marketOrder")>>}

\* Garbage that brings a message to every position of the window searched.
MCGarbage == {Garbage(length) : length \in (1..9) \cup {20}}

MCHeadless == {Headless("addLimitOrder", lost) : lost \in 1..3}

\* Up to two pieces and a message.
MCStreams ==
    {Append(front, message) :
        front \in SeqOf(MCMessages \cup MCGarbage \cup MCHeadless, 2),
        message \in MCMessages}

=============================================================================
