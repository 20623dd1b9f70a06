------------------------- MODULE ConcurrentOrderBook -------------------------
(***************************************************************************)
(* The order book shared by threads: processOrder and shiftBook under        *)
(* modifyLock, and the lock-free queries bestBidAsk and volumeAtPrice, at the  *)
(* grain of their accesses to the object's data members.  What a writer makes *)
(* of the book is computed by the operators of OrderBook (Core); here it is   *)
(* stored member by member.  The members are plain memory with only signal    *)
(* fences around the stores, so their order is left open; a member (a volume,  *)
(* a price, an optional price) is written and read in one access.              *)
(***************************************************************************)
EXTENDS Integers

CONSTANTS
    BookLength, IntMax, EntryMax, BasePrices, StrayVolumes,
    Prices, Volumes, Shifts,  \* as in OrderBook
    Writers,     \* threads that call processOrder
    Shifters,    \* those of them that call shiftBook, too
    Readers,     \* threads that query the book
    Queries,     \* the queries they make
    MaxCalls     \* bound on the calls of each writer

ASSUME ShiftersAssumption == Shifters \subseteq Writers
ASSUME QueriesAssumption  == Queries \subseteq {"bestBidAsk", "volumeAtPrice"}
ASSUME MaxCallsAssumption == MaxCalls \in Nat

VARIABLES
    memory,          \* the data members of the orderBook object
    versionCounter,  \* orderBook::versionCounter
    modifyLock,      \* orderBook::modifyLock
    writer,          \* the call each writer is in and its local variables
    reader,          \* the query each reader is in and its local variables
    lastCall         \* the last completed call, in the order of the lock

vars == <<memory, versionCounter, modifyLock, writer, reader, lastCall>>

-----------------------------------------------------------------------------
(* The book between calls.                                                  *)

Stores(w) == writer[w].pc = "store"

\* The book before the call that is storing its result, if there is one.
Settled == IF \E w \in Writers : Stores(w)
           THEN writer[CHOOSE w \in Writers : Stores(w)].before
           ELSE memory

SettledVersion ==
    IF \E w \in Writers : Stores(w) /\ writer[w].request.op # "shift"
    THEN (versionCounter - 1) % 2 ELSE versionCounter % 2

Core == INSTANCE OrderBook WITH book <- Settled,
                                versionCounter <- SettledVersion,
                                call <- lastCall

-----------------------------------------------------------------------------
(* What the queries may answer.                                             *)

QuoteOf(b)         == <<b.bestBid, b.bestOffer>>
VolumeOf(b, price) == IF Core!PriceInRange(b, price) THEN Core!VolumeAt(b, price) ELSE 0

\* The book before and, while one is storing its result, after a call.
Books == {Settled} \cup {writer[w].after : w \in {v \in Writers : Stores(v)}}

AnswerOf(query, b) ==
    IF query.op = "bestBidAsk" THEN QuoteOf(b) ELSE VolumeOf(b, query.price)

\* possible is not in the code: it collects the answers that a query may give
\* if the calls it overlaps with take effect at any one moment.
BecomesPossible(b) ==
    reader' = [r \in Readers |->
                 IF reader[r].pc = "idle" THEN reader[r]
                 ELSE [reader[r] EXCEPT !.possible = @ \cup {AnswerOf(reader[r], b)}]]

-----------------------------------------------------------------------------
(* processOrder and shiftBook.                                              *)

Requests(w) ==
    [op : {"limit", "withdraw"}, volume : Volumes, price : Prices]
    \cup [op : {"market"}, volume : Volumes, price : {0}]
    \cup IF w \in Shifters THEN [op : {"shift"}, shiftBy : Shifts] ELSE {}

Waiting(calls) == [pc |-> "idle", calls |-> calls]

\* A call begins; shiftBook looks at the base price before it takes the lock.
BeginCall(w) ==
    /\ writer[w].pc = "idle" /\ writer[w].calls < MaxCalls
    /\ \E request \in Requests(w) :
          writer' = [writer EXCEPT ![w] =
             [pc |-> "lock", calls |-> writer[w].calls, request |-> request,
              posBasePrice |-> request.op = "shift"
                                 /\ Core!PosBasePrice(memory, request.shiftBy)]]
    /\ UNCHANGED <<memory, versionCounter, modifyLock, reader, lastCall>>

\* Faulty: the flag is not looked at.
LockAlways(w) ==
    /\ writer[w].pc = "lock"
    /\ modifyLock' = TRUE
    /\ writer' = [writer EXCEPT ![w].pc = "open"]
    /\ UNCHANGED <<memory, versionCounter, reader, lastCall>>

\* AtomicFlagGuard::lock finds the flag clear.
Lock(w) ==
    /\ writer[w].pc = "lock" /\ ~modifyLock
    /\ modifyLock' = TRUE
    /\ writer' = [writer EXCEPT ![w].pc = "open"]
    /\ UNCHANGED <<memory, versionCounter, reader, lastCall>>

\* The answer of processOrder to a request, and the book it leaves.
Process(b, request) ==
    LET order     == Core!Order(request.volume, request.price)
        if(op)    == IF request.op = op THEN order ELSE Core!BlankOrder
    IN  Core!ProcessOrder(b, if("limit"), if("withdraw"), if("market"))

\* Like ShiftedBook, with a posBasePrice that may be out of date.
Shifted(b, shiftBy, posBasePrice) ==
    LET shiftPossible == Core!RoomToShift(b, shiftBy) /\ posBasePrice
    IN  [b EXCEPT
           !.basePrice = IF shiftPossible THEN Core!UInt32(@ + shiftBy) ELSE @,
           !.memSpan   = IF shiftPossible /\ ~Core!NoVolume(b)
                         THEN Core!ShiftCells(@, shiftBy) ELSE @]

\* The writer, which holds the lock, works out what its call makes of the
\* book; processOrder has marked the version as odd.
OpenOrder(w) ==
    /\ writer[w].pc = "open" /\ writer[w].request.op # "shift"
    /\ LET result == Process(memory, writer[w].request)
       IN  /\ writer' = [writer EXCEPT ![w] =
              [pc |-> "store", calls |-> writer[w].calls, request |-> writer[w].request,
               before |-> memory, after |-> result.book, answer |-> result.response]]
           /\ BecomesPossible(result.book)
    /\ versionCounter' = versionCounter + 1
    /\ UNCHANGED <<memory, modifyLock, lastCall>>

OpenShift(w) ==
    /\ writer[w].pc = "open" /\ writer[w].request.op = "shift"
    /\ LET request == writer[w].request
           after   == Shifted(memory, request.shiftBy, writer[w].posBasePrice)
       IN  /\ writer' = [writer EXCEPT ![w] =
              [pc |-> "store", calls |-> writer[w].calls, request |-> request,
               before |-> memory, after |-> after,
               answer |-> Core!RoomToShift(memory, request.shiftBy)
                             /\ writer[w].posBasePrice]]
           /\ BecomesPossible(after)
    /\ UNCHANGED <<memory, versionCounter, modifyLock, lastCall>>

\* A limit order that trades at its own price and rests there takes the
\* bucket's volume first and adds its own volume then.
NextVolume(volume, after) == IF volume * after < 0 THEN 0 ELSE after

\* The base price (of a shift) or a stat, whose value and flag count as one.
StorePrice(w) ==
    /\ Stores(w)
    /\ \E member \in DOMAIN memory \ {"memSpan"} :
         /\ memory[member] # writer[w].after[member]
         /\ memory' = [memory EXCEPT ![member] = writer[w].after[member]]
    /\ UNCHANGED <<versionCounter, modifyLock, writer, reader, lastCall>>

StoreVolume(w) ==
    /\ Stores(w)
    /\ \E i \in Core!Cells :
         LET after == writer[w].after.memSpan[i]
         IN  /\ memory.memSpan[i] # after
             /\ memory' = [memory EXCEPT !.memSpan[i] =
                              IF writer[w].request.op = "shift" THEN after
                                                                ELSE NextVolume(@, after)]
    /\ UNCHANGED <<versionCounter, modifyLock, writer, reader, lastCall>>

Completed(w) ==
    LET request == writer[w].request
    IN  IF request.op = "shift"
        THEN [op |-> "shift", shiftBy |-> request.shiftBy, done |-> writer[w].answer]
        ELSE [op |-> request.op, volume |-> request.volume, price |-> request.price,
              response |-> writer[w].answer]

\* Faulty: the version is incremented before the result is stored in full.
CloseEarly(w) ==
    /\ Stores(w)
    /\ versionCounter' = versionCounter + 1
    /\ lastCall' = Completed(w)
    /\ writer' = [writer EXCEPT ![w] = [pc |-> "unlock", calls |-> writer[w].calls]]
    /\ UNCHANGED <<memory, modifyLock, reader>>

\* The increment at the end of both operations.
Close(w) ==
    /\ Stores(w) /\ memory = writer[w].after
    /\ versionCounter' = versionCounter + 1
    /\ lastCall' = Completed(w)
    /\ writer' = [writer EXCEPT ![w] = [pc |-> "unlock", calls |-> writer[w].calls]]
    /\ UNCHANGED <<memory, modifyLock, reader>>

\* Faulty: the call returns with the lock.
ReturnLocked(w) ==
    /\ writer[w].pc = "unlock"
    /\ writer' = [writer EXCEPT ![w] = Waiting(writer[w].calls + 1)]
    /\ UNCHANGED <<memory, versionCounter, modifyLock, reader, lastCall>>

\* The guard is unlocked, by processOrder or by the end of shiftBook's scope.
Unlock(w) ==
    /\ writer[w].pc = "unlock"
    /\ modifyLock' = FALSE
    /\ writer' = [writer EXCEPT ![w] = Waiting(writer[w].calls + 1)]
    /\ UNCHANGED <<memory, versionCounter, reader, lastCall>>

Write(w) == \/ Lock(w) \/ OpenOrder(w) \/ OpenShift(w)
            \/ StorePrice(w) \/ StoreVolume(w) \/ Close(w) \/ Unlock(w)

-----------------------------------------------------------------------------
(* The queries.  Every step of a reader changes the reader alone.            *)

Becomes(r, local) ==
    /\ reader' = [reader EXCEPT ![r] = local]
    /\ UNCHANGED <<memory, versionCounter, modifyLock, writer, lastCall>>

Idle == [pc |-> "idle"]

\* bestBidAsk loads the version once, before its loop.
BeginQuote(r) ==
    /\ reader[r].pc = "idle" /\ "bestBidAsk" \in Queries
    /\ Becomes(r, [pc |-> "bestBid", op |-> "bestBidAsk", initVersion |-> versionCounter,
                   bestBid |-> Core!None, bestOffer |-> Core!None,
                   possible |-> {QuoteOf(b) : b \in Books}])

ReadBestBid(r) ==
    /\ reader[r].pc = "bestBid"
    /\ Becomes(r, [reader[r] EXCEPT !.pc = "bestOffer", !.bestBid = memory.bestBid])

ReadBestOffer(r) ==
    /\ reader[r].pc = "bestOffer"
    /\ Becomes(r, [reader[r] EXCEPT !.pc = "checkQuote", !.bestOffer = memory.bestOffer])

\* Faulty: the version is not loaded again after the quote was read.
EvenVersion(initVersion, finVersion) == initVersion % 2 = 0

QuoteIsStable(initVersion, finVersion) ==
    initVersion % 2 = 0 /\ initVersion = finVersion

RetryQuote(r) ==
    /\ reader[r].pc = "checkQuote"
    /\ ~QuoteIsStable(reader[r].initVersion, versionCounter)
    /\ Becomes(r, [reader[r] EXCEPT !.pc = "bestBid"])

ReturnQuote(r) ==
    /\ reader[r].pc = "checkQuote"
    /\ QuoteIsStable(reader[r].initVersion, versionCounter)
    /\ Becomes(r, Idle)

BeginVolume(r, price) ==
    /\ reader[r].pc = "idle" /\ "volumeAtPrice" \in Queries
    /\ Becomes(r, [pc |-> "version", op |-> "volumeAtPrice", price |-> price,
                   initVersion |-> 0, inRange |-> FALSE, accessAtIndex |-> 0, volume |-> 0,
                   possible |-> {VolumeOf(b, price) : b \in Books}])

\* volumeAtPrice loads it in every iteration of its loop.
ReadVersion(r) ==
    /\ reader[r].pc = "version"
    /\ Becomes(r, [reader[r] EXCEPT !.pc = "basePrice", !.initVersion = versionCounter])

ReadBasePrice(r) ==
    /\ reader[r].pc = "basePrice"
    /\ Becomes(r, [reader[r] EXCEPT !.pc = "index",
                                    !.inRange = Core!PriceInRange(memory, reader[r].price)])

\* The base price is loaded again and may be another one; std::min keeps the
\* index inside the memory.
ReadIndex(r) ==
    LET index == IF reader[r].inRange THEN Core!UInt32(reader[r].price - memory.basePrice)
                                      ELSE reader[r].price
    IN  /\ reader[r].pc = "index"
        /\ Becomes(r, [reader[r] EXCEPT
             !.pc = "volume",
             !.accessAtIndex = IF index < BookLength THEN index ELSE BookLength])

\* The bucket may have moved since its index was worked out.
ReadVolume(r) ==
    /\ reader[r].pc = "volume"
    /\ Becomes(r, [reader[r] EXCEPT
         !.pc = "checkVolume",
         !.volume = IF reader[r].inRange THEN memory.memSpan[reader[r].accessAtIndex] ELSE 0])

\* (!initVersion) % 2 asks whether the version is 0, not whether it is even.
VolumeIsStable(initVersion, finVersion) == initVersion # 0 /\ initVersion = finVersion

\* Faulty: the version is loaded before the loop.
RetryVolumeOnly(r) ==
    /\ reader[r].pc = "checkVolume"
    /\ ~VolumeIsStable(reader[r].initVersion, versionCounter)
    /\ Becomes(r, [reader[r] EXCEPT !.pc = "basePrice"])

RetryVolume(r) ==
    /\ reader[r].pc = "checkVolume"
    /\ ~VolumeIsStable(reader[r].initVersion, versionCounter)
    /\ Becomes(r, [reader[r] EXCEPT !.pc = "version"])

ReturnVolume(r) ==
    /\ reader[r].pc = "checkVolume"
    /\ VolumeIsStable(reader[r].initVersion, versionCounter)
    /\ Becomes(r, Idle)

Query(r) == \/ ReadBestBid(r) \/ ReadBestOffer(r) \/ RetryQuote(r) \/ ReturnQuote(r)
            \/ ReadVersion(r) \/ ReadBasePrice(r) \/ ReadIndex(r) \/ ReadVolume(r)
            \/ RetryVolume(r) \/ ReturnVolume(r)

-----------------------------------------------------------------------------

Init ==
    /\ \E basePrice \in BasePrices, strayVolume \in StrayVolumes :
          memory = Core!EmptyBook(basePrice, strayVolume)
    /\ versionCounter = 0
    /\ modifyLock = FALSE
    /\ writer = [w \in Writers |-> Waiting(0)]
    /\ reader = [r \in Readers |-> Idle]
    /\ lastCall = [op |-> "construct"]

\* All writers have made their calls: nothing is left to do without readers.
Finished == (\A w \in Writers : writer[w] = Waiting(MaxCalls)) /\ UNCHANGED vars

Next ==
    \/ \E w \in Writers : BeginCall(w) \/ Write(w)
    \/ \E r \in Readers : \/ BeginQuote(r) \/ Query(r)
                          \/ \E price \in Prices : BeginVolume(r, price)
    \/ Finished

Spec == Init /\ [][Next]_vars

\* Threads go on with the calls they have begun, and need not begin any.  The
\* step of a writer at "open" is always possible, so that fairness to it says
\* just that the writer does not stay there.
FairSpec ==
    /\ Spec
    /\ \A w \in Writers :
          /\ WF_vars(Lock(w) \/ StorePrice(w) \/ StoreVolume(w) \/ Close(w) \/ Unlock(w))
          /\ []<>(writer[w].pc # "open")
    /\ \A r \in Readers : WF_vars(Query(r))

=============================================================================
