----------------------------- MODULE MCPipeline -----------------------------
(* Short streams for TLC, some longer than a queue of two.                 *)
EXTENDS Pipeline

CONSTANT main

MCWords == 1..2

Pieces == INSTANCE SocketStreams

MCMessages == {Pieces!Known("addLimitOrder"), Pieces!Known("marketOrder")}
MCOthers   == {Pieces!Corrupt("withdrawLimitOrder"), Pieces!Foreign(40), Pieces!Garbage(9)}

\* Up to three messages of either length, and four; two messages and an
\* unusable piece in any place.
MCStreams ==
    UNION {[1..n -> MCMessages] : n \in 1..3}
    \cup [1..4 -> {Pieces!Known("marketOrder")}]
    \cup {InsertAt(front, i, other) :
              front \in {<<Pieces!Known("addLimitOrder"), Pieces!Known("marketOrder")>>},
              i \in 1..3, other \in MCOthers}

\* Three messages are enough to lose some.
MCShortStreams == [1..3 -> {Pieces!Known("marketOrder")}]

=============================================================================
