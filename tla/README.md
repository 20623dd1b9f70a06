# A verification project for CppOrderBook

TLA+ modules that model the order book, its concurrent use, its lock guards,
its message queue, the reader of FIX messages and the two-thread pipeline of
them; TLC configurations that check them on small instances; and TLAPS proofs
about each of them for all sizes and, of the reader of messages, for all
streams.
Paths below are relative to the repository, line numbers refer to this commit;
`OrderBook.hpp` and the like stand for `src/src/production/OrderBook.hpp`.

## The system

A message is read from a socket, decoded, possibly handed to another thread
through a queue, and applied to an order book.

| Component | State it keeps | Operations | What makes it correct |
| --- | --- | --- | --- |
| `orderBookBucket` | signed volume of one price (demand < 0 < supply) | `consumeLiquidity`, `addLiquidity`, `getVolume` | takes only volume of the asked sign, never more than there is |
| `orderBook` | base price, four optional stats (best/lowest bid, best/highest offer), the span of buckets, `versionCounter`, `modifyLock` | `processOrder` (limit order, withdrawal, market order), `shiftBook`, `bestBidAsk`, `volumeAtPrice`, `__invariantsCheck` | stats are the extremes of the volume; never crossed; volume and money are conserved; price priority; refusals have their documented cause; writers exclude each other; queries return, and return what the book once held |
| `AtomicFlagGuard` | pointer to a flag, whether this guard set it | `lock`, `unlock`, `rebind`, moves, destructor | a set flag has exactly one guard that will clear it |
| `SeqLockQueue` / `SeqLockElement` / `QueueReader` | per slot: version and content; the producer's index; per reader: index and expected version | `enqueue`, `read_next_entry` | entries whole, in order, none twice; "nothing" means nothing new; a reader never gets stuck |
| `fixSocketHandler` | a buffer, the socket | `readNextMessage`: find the header, receive, truncate, decode | in step with the stream after garbage and over-long messages |
| `fixMockSocket` | file content, position, end flag | `recv` | delivers the bytes once, in order |
| pipeline (`Profiling_multithreaded.cpp`) | end flag shared by two threads | read-and-enqueue, dequeue-and-process | every message is processed |
| `FIXmsgClasses`, `FIXmsgTypeChecks`, `Auxil` | none | records and compile-time checks | - |

The components interact by plain calls (handler to socket, book to buckets,
book to guard), and by memory shared between threads: the members of the book
(writers under `modifyLock`, readers without), the slots of the queue (one
producer, any number of readers, no lock), and the end-of-buffer flag.

Hard to get right and hard to test:

* four stats that duplicate what the buckets hold, patched by every handler;
* fixed-width prices: `uint32_t` prices travel as `int32_t` with negative
  values meaning "none", sums wrap;
* boundaries of the price window, for orders and for shifts;
* two writers, and readers that detect them by a version counter's parity;
* a producer that never waits and may overtake a reader anywhere;
* resynchronising on a byte stream, and the end of the stream seen by another
  thread.

`PROJECT.json` lists these as hazards, each at its line and with the
properties that would catch it.

## Modules

| Module | Models |
| --- | --- |
| `OrderBookBucket` | the bucket's arithmetic, as operators |
| `OrderBook` | `processOrder` and `shiftBook` with all their handlers, one call per step |
| `OrderBookProperties` | what the book promises; `__invariantsCheck` |
| `MarketBook` | the abstract book: a volume per price and the three kinds of orders, without memory, window or stats |
| `IntegerLemmas`, `OrderBookProofs`, `OrderBookStepProofs` | proofs of the invariants, and of what single steps do, for every book length and every set of orders and safe shifts |
| `ConcurrentOrderBook`, `ConcurrentOrderBookProperties` | writers and lock-free readers at the grain of accesses to data members; composes `OrderBook` |
| `ConcurrentOrderBookProofs` | proofs for any number of threads |
| `AtomicFlagGuard`, `AtomicFlagGuardProofs` | guards and flags; proofs for any number of them |
| `Feed`, `SeqLockQueue` | what a queue reader is promised; the queue at the grain of atomic accesses |
| `SeqLockQueueProofs` | proofs for any number of slots, words, readers and entries |
| `FIXMsgTypes` | the layout of the message classes and the compile-time checks and lengths made of it |
| `SocketStreams`, `SocketHandler` | what a socket may hold; `readNextMessage` on `fixMockSocket`, one `recv()` per step |
| `SocketHandlerProofs` | proofs for every set of streams |
| `Pipeline` | the two threads of Profiling_multithreaded.cpp; composes `SocketHandler` and `SeqLockQueue` |
| `PipelineProofs` | proofs for every set of streams and every queue |
| `MC...` | the small instances |

Definitions whose comment begins with "Faulty:" are variants of the definition
below them, with a plausible mistake in it; no specification uses them. They
show of each property that it tells the code from that mistake.

### The order book, call by call (`OrderBook`)

`book` is the record of the data members. A private handler of the class is an
operator from a book and an order to the book it leaves and the answer it
gives, under the name it has in the code; `ProcessOrder` composes the three of
them as `processOrder` does, on blank orders for the two kinds the message is
not of. Both writing operations hold `modifyLock` from their first write to
their last, so that one call is one step here; `ConcurrentOrderBook` removes
that assumption. `call` remembers the last call and its answer, for properties
that relate the two. Of `versionCounter` the parity is kept, which is what
readers test.

The loop of `runThroughBook` is the recursive function of its states, so that
it can be reasoned about. `std::shift_left` and `std::shift_right` do what the
standard says of trivially movable elements: cells nothing is moved into stay
as they are. Widths are those of the code with `IntMax` for 2^31 - 1: `Int32`
and `UInt32` wrap. Overflow of `entryType_` is excluded by `EntryMax`, in the
guard of `AddLimitOrder`. Cell `BookLength` of `memSpan` is the memory one past
the span, whose content at the start is arbitrary (`StrayVolumes`).

`AnyClientSpec` lets clients call anything. `Spec` is restricted to the clients
that the code serves correctly, by three conditions:

* no order names the price `basePrice + bookLength` (`PastTheBook`), which
  `priceInRange` lets in although it has no bucket (run `any_client`);
* all prices of the book fit an `int32_t` (`SignedPrices`): a best price above
  turns negative in `endPrice` (OrderBook.hpp:306), an order that crosses the
  book then takes nothing, rests, and the book stays crossed;
* a shift is asked for only if it will be refused, or if the outermost
  `|shiftBy|` buckets at *both* ends hold nothing (`SafeShift`): other shifts
  drop volume or leave a copy of it behind (run `any_client`).

Each is needed: with any of them dropped, `StatsExact`, `Uncrossed` or
`WritesInsideSpan` is violated.

`ImplementsMarket` maps a book to the volume it holds at each price (`Depth`),
and the last call to the order it placed (`PlacedOrder`), and says that every
call is then a step of `MarketBook` with that very order: a market
order takes the best prices first and is lost where nothing is left, a limit
order that crosses the book does the same whatever its limit (as the code does)
and rests with what is left, a withdrawal takes what is there of its sign.
Refused and blank orders and shifts place no order and change no volume.

### The order book, access by access (`ConcurrentOrderBook`)

A writer goes through `lock` (spinning on the flag), `open` (the version is
made odd and the call's result is worked out by `OrderBook`'s operators),
`store`, and `unlock`. While it stores, its result reaches memory one member
at a time, in any order: the members are plain and only signal fences surround
them. A bucket that an order both takes from and rests in passes through 0
(`NextVolume`). `shiftBook` looks at the base price *before* it locks
(`posBasePrice`) and increments the version once.

A reader is at one of the loads of `bestBidAsk` or `volumeAtPrice`; loads are
taken in source order, which is what the x86-64 builds the readme names give.
`volumeAtPrice` loads the base price twice, once to see whether the price is in
range and once for the index, and then the bucket. An
optional price is one 8-byte access. The set `possible` is not in the code: it
collects the answers that a query may give if the calls it overlaps with take
effect one at a time.

`Settled` is the book without the call that is being stored. It, the parity of
the version without that call, and the last completed call are the refinement
mapping under which `Linearizable` says that the threads implement
`OrderBook`.

### The guards (`AtomicFlagGuard`)

Guards live in memory that is constructed and destroyed; threads are implicit:
a guard is used by one thread at a time, which is stuck while the guard spins.
A call touches shared memory once, so that every call but `lock` is one step.
`AnyClientNext` lets clients lock a guard that already holds its flag. It then
waits for itself, though readme.md:144 has `lock()` return false; the code
(AtomicGuards.hpp:35-47) does not look at `flag_locked`. `Next` leaves such
clients out; the safety theorems hold with them.

### The queue (`SeqLockQueue` and `Feed`)

The producer makes a slot's version odd, writes the words of its content in
any order, makes the version even and advances; a reader loads the version,
copies the words in any order, looks at the version again and decides. This is
the word-wise copy the queue uses by default (`accept_UB = false`). Version
accesses are ordered with the copies they enclose, as on x86. The n-th entry
is the number n in each of its words, so that a torn copy is visible.
`Feed` is the abstract specification: entries are published, and each reader is
handed published entries in order, none twice, possibly with gaps.

### Reading messages (`FIXMsgTypes`, `SocketStreams`, `SocketHandler`)

`FIXMsgTypes` holds the static members of the three message classes. The
compile-time checks of FIXmsgTypeChecks.hpp and the longest and shortest message
length are computed from them as the templates do; that they pass is an ASSUME,
which TLC evaluates. The size of the buffer and the window of the search follow.

The socket holds the bytes of a sequence of pieces: messages of a known type,
with their checksum in order or not; messages of a foreign type; garbage; and
messages that have lost their first one to three bytes, so that only the
delimiter of the header is left. A byte is its piece and its position in it;
`ValueIn` gives the value of those the handler looks at. Payload and garbage
are taken to hold no delimiter: garbage that does is a headless message.

`stage` is the `recv()` that comes next: `header`, `scan` (the search, as often
as it takes), `discard` (the middle of an over-long message), `rest`. What
follows a `recv()` up to the next one is part of its step. `positionOfHeader`
is unsigned: when the delimiter is found before its offset, it wraps,
`std::shift_left` by it moves nothing, and the bytes are counted as if they had
been moved. The length is compared unsigned but kept in an `int`. The checksum
of bytes that are not one whole message matches or not, as it happens. An
answer is the type constructed and the piece it is of, 0 if it is of none.
`AnswersInOrder` says what a call returns that reads a message which fits the
buffer. One that does not is of a foreign type; `ForeignRefused`, which the
readme promises of those too, is violated by the run `foreign`.

`IsPiece` says what a piece may be, and `StreamsAssumption` that streams are
made of pieces. Left out are messages of a foreign type shorter than the
shortest known one, which readme.md:119-121 lists as a limitation, and those
longer than the largest `int` (`IntLimit`), whose length would be negative.

### The pipeline (`Pipeline`)

`enqThread` and `mainThread` are the program counters of `enqueueLogic` and of
`main`; each step makes one access to the flags or the queue, or one `recv()`,
which sets the end flag. The n-th entry of the queue is the n-th answer of the
handler. `value()` of an empty optional throws in a `noexcept` function: the
program ends, and the main thread with it. `processed` collects what goes
through `processOrder`; the book, which only the main thread touches, is the
subject of `OrderBook`.

## Runs

| Run | Question | Instance and why it is enough |
| --- | --- | --- |
| `book` | Is the book coherent, are volume and money conserved, are the best prices taken first, after any sequence of orders and safe shifts? Is what is refused refused for its documented cause? Does each order do what it does in a market that is just a volume per price? | three prices, volumes 1 and 3 in buckets to 2: an order can clear one bucket, several, the whole side, or part of one, and rest; sides of three buckets have a best, a middle and a worst one. Base prices 0 to 2 below `IntMax` 5: shifts by part of the book and by all of it, up, down, to 0 and below; orders below the book, past it and above; blank ones |
| `any_client` | Do the stats stay exact for any client, as readme.md:194 says? | violation, see below: unit orders on a book of 3, also one past it, and shifts by one |
| `writers` | Do two writers have the effect of one at a time? | two threads with two calls each, one of which also shifts |
| `readers` | Are quotes whole, do queries and writers return? | two writers, one call each, and one reader: a query starts before, between and during the calls; a purchase of 2 trades at a price and rests there |
| `quote_spins` | Do queries return? | violation: one order, one query |
| `torn` | Do queries return what the book held? | violation: one writer with three orders, one `volumeAtPrice`, no shift |
| `guards` | Is a flag ever leaked, cleared while held, or held twice? | three guards, two flags: one guard holds, one waits, one is moved onto either. Whether a *thread* is stuck is not asked: threads are implicit, and one may lock two guards of one flag |
| `queue` | Does a reader that is overtaken still get whole entries in order, and the last one? | two slots, two words, seven entries: the reader can be lapped three times, at both slots |
| `messages` | Does the handler return what was sent, in order, and stay in step? | every sequence of up to two pieces before a last message: all types, two garbled ones, foreign lengths that are within the buffer, over it by one byte, and by more than one portion, garbage of every length that matters to the window of 13 bytes and longer, headless messages |
| `foreign` | Is a foreign message answered with an empty optional, whatever its length? | violation: a message of 40 bytes, as in the unit test of the handler, and one of a known type |
| `pipeline` | Do both threads start, end, and hand messages over in order? | up to four messages in a queue of two slots with two words: with three messages the main thread can be overtaken, with four at both slots; two messages with a garbled, over-long or garbage piece in each place |
| `lost_last` | Are all messages processed? | violation: three messages |

In the instances of `ConcurrentOrderBook` the book has two prices and
`MaxCalls` bounds the calls of a writer; the state of the book between calls is
explored by `book`, these runs are about overlaps. In `writers`
only one thread shifts. With two, a shift in between makes the other one's
look at the base price stale and the base price wraps around below 0
(OrderBook.hpp:230): the model does this too, and `Linearizable` fails. In
`queue`, one reader is enough because readers write nothing that others read.

### Fairness

`ConcurrentOrderBook!FairSpec`: threads go on with calls they have begun; none
has to begin one. `[]<>(pc # "open")` is the weak fairness of the step from
`open`, which is always enabled there, put in a form that does not make TLC
evaluate ENABLED of it. Lock acquisition is only weakly fair, as a spinning
`test_and_set` is; it is enough because calls are bounded.
`SeqLockQueue!FairSpec`: the producer enqueues what there is and readers poll
for ever, like the loops of Profiling_multithreaded.cpp:80-88 and 146-155.
`SocketHandler!FairSpec`: `recv()` returns, which the mock's always does, and
the caller reads until the end flag is set. `Pipeline!FairSpec`: both threads
are scheduled; each waits by spinning, and what it waits for stays.

### Where code and documents disagree

Each is shown by a run that TLC finds violated and is listed as a finding.

* `any_client` has three causes. TLC stops at the first, an order at the price
  past the book, which writes past the span (OrderBook.hpp:270). With
  `Prices = {2, 3, 4}` in the cfg it is `freeBucketsTop` (237), which counts one
  bucket too many, so that a shift down drops the highest offer; with
  `Shifts = {1}` as well it is the moved volume that a shift up leaves behind,
  above the highest offer (258).
* `quote_spins` (189): `bestBidAsk` loads its initial version once, before the
  loop; after one overlap with an order it never returns.
* `torn` has two causes. In the run nobody shifts, and it is `!initVersion % 2`
  (222), which is `(!initVersion) % 2`, so that `volumeAtPrice` accepts an odd
  version: while an order of -2 at a price that offers 1 is processed it returns
  0, which the bucket holds between fill and rest but neither before the order
  (1) nor after it (-1). With `Shifters <- MCOneWriter`, `Shifts <- MCShifts`
  and `Queries <- MCQuotes` in the cfg it is the single increment of a shift
  (264): the version is then odd between calls and even inside them, and
  `bestBidAsk` returns a best bid and a best offer from two states of the book.
* `foreign` (FIXSocketHandler.hpp:118): of a message longer than the buffer the
  middle is dropped, and the type is that of the length which is left, a
  withdrawal's, whatever type the message was of. If the checksum matches what
  is left, as it does for a message of 40 bytes with a correct checksum whose 22
  dropped bytes add up to 0 modulo 256, a withdrawal is returned that nobody
  sent, where readme.md:116-117 promises an empty optional. The mock's long
  message is not of that kind, but the byte that it sets "to make sure checksum
  will invalidate message" (FIXmockSocket.hpp:114-116) is among those dropped.
* `lost_last` (Profiling_multithreaded.cpp:154): the end flag is set inside the
  last `recv`, before that message is enqueued, and the main thread tests it
  after its look at the queue. It can lose the last message, or more of them if
  the producer gets ahead between the look and the test; `LosesOnlyTheUnseen`
  says what it cannot lose.

Seen while modelling, without a run of their own: the same expression makes
`volumeAtPrice` of a book that was never written to spin for ever; the stale
`posBasePrice`, the prices above 2^31 - 1 and the relocked guard described
above; a limit order that crosses the book runs on to the highest offer or the
lowest bid, past its own limit price (OrderBook.hpp:370-373; no document
promises otherwise); readme.md:163 gives the buckets' signs the other way round
than readme.md:189 and the code; a reader of the queue that was overtaken loses
whole laps, and so up to `length - 1` entries that are still in the queue;
after a message has lost
one to three bytes, the handler may never get back in step: of limit orders one
byte off it reads 17 bytes per call for ever, and never finds a header in its
place; `lenOffsetEqual` (FIXmsgTypeChecks.hpp:87) compares a class with itself;
one empty answer of `readNextMessage` ends the multi-threaded program.

## Proofs

`OrderBookProofs` proves of `OrderBook!Spec`, for every book length, integer
width, set of prices, volumes and shifts that the assumptions allow:

* `TypeCorrect`, `StatsAreExact`, `NeverCrossed`, `SelfCheckPasses`: the
  corresponding properties hold in every reachable state;
* `SpanOnly`: no step writes past the span.

None of the properties is inductive by itself: what a handler does with the
stats is right only if all four were, and no bucket on the wrong side holds
volume. The inductive invariant is `IInv`: the book is *coherent* (typed, its
prices signed, its stats exact), `versionCounter` is 0 or 1 and `call` is a
call. That the book is uncrossed, passes its self-check and keeps inside the
span follows from coherence. The argument follows the code:

1. `FindUpwards`, `FindDownwards`, `FindHere`: what `findLiquidBucket`
   returns. They rest on `IntegerLemmas` (a non-empty bounded set of integers
   has a minimum and a maximum).
2. `SweepKeeps` (induction over the iterations of the loop, with an invariant
   for the buckets already visited) gives `SweepOffers` and `SweepBids`: a run
   empties the buckets it has passed if it goes on, and touches no others.
3. `RunBuy` and `RunSell`: after the run, the refreshed stats are exact again,
   and if volume is left over then the side is empty.
4. `RestBid`, `RestOffer`, `WithdrawnBids`, `WithdrawnOffers`: one bucket
   changes and the stats are patched.
5. The blank orders of the other two kinds change nothing and add nothing to
   the answer (`BlankLimitOrder`, `BlankWithdrawal`, `BlankMarketOrder`), so
   that `ProcessOrder` keeps a book coherent; `ShiftKeeps` does the same for
   shifts, and `NextKeeps` puts the actions together.

Assumed are the named ASSUMEs of `OrderBook`: the book has a bucket and is not
longer than `IntMax`, and clients pass integers of the right signs.

`OrderBookStepProofs` proves of the same specification what a step does, from
`IInv` in the state before it:

* `RefusalsAreExact`: in every reachable book and for every price an order may
  name, the one past the book included, an order is refused exactly if its price
  is not in `basePrice..(basePrice + bookLength)`, and a refusal changes nothing.
  That the last of these prices has no bucket is the finding of `any_client`;
  that an order there is not refused, although the book is then no longer
  coherent, needs only the answers (`LimitOrderAccepted`, `WithdrawalAccepted`);
* `ShiftsRefusedForCause`: which shifts are refused, and that this changes
  nothing;
* `ShiftsKeepVolumes`: a safe shift leaves the volume of every price;
* `OpenOrdersFaceNothing`: what is left of an order after the run through the
  book faces an empty side;
* `AddingIsUndone`: withdrawing what an order has just added restores the book.
  The volumes are easy; that the stats are restored too follows because the
  book is coherent before and after, and coherent books with the same volumes
  have the same extremes;
* `BetterPricesGoFirst`: no order trades at a price while a better one of the
  opposing side is left with volume. The loop visits the buckets in order and
  goes on only past an empty one (`SweepOffers`, `SweepBids`);
  `RunLeaves` and `SidesApart` carry that over to the volume that rests
  afterwards, `RestingIsNoTrade`;
* `VolumeIsConserved`, `RevenueIsWorth`: the signed volume in the book, and its
  worth at the prices traded, move by exactly what the answer says. `Balanced`
  is the invariant of the loop: what has been taken from the buckets is what is
  in the answer. `TotalsFollow` says what changing one bucket does to the two
  sums over the window; it rests on the lemmas about sums over finite sets in
  `IntegerLemmas`;
* `BookIsAMarket`: the book implements `MarketBook`, each accepted order as
  itself. The market says of each
  price how much an order takes there, from the sum of what all better prices
  offer; the code says it by walking through the buckets. `BestFirst` links the
  two: if no share is taken while a better one has more to give, the shares add
  up to no more than what was asked for, and to less only if all is taken, then
  every share is the one the market computes. Its hypotheses are the facts above
  (price priority, conservation of volume, nothing left to trade with), which
  `FilledAsInMarket` puts together; `CrossingIsWithinLimit` says that looking
  at one best price is enough to decide whether a limit order trades at all.
  The inductive invariant adds to `IInv` that volume rests only at prices that
  clients name (`InPrices`).

`AtomicFlagGuardProofs` proves `GuardsTyped` and `OneGuardHolds` of
`AnyClientSpec`, for any number of guards and flags. The invariant is the
conjunction of the two: a guard's claim to a flag means something only if the
guard is alive and bound.

`SeqLockQueueProofs` proves the queue's safety properties, for every positive
length, non-empty set of words, set of readers and number of entries:
`QueueTyped`, `EntriesAreWhole`, `LossesAreWholeLaps`, `NothingIsCurrent` and
`QueueIsAFeed`. The code counts versions per slot, the properties speak of
entries; what links them is that entry k+1 goes to slot `k % length` in lap
`k \div length` and leaves the version `2 * lap + 2` there. A few lemmas of
division (`DivisionIsUnique`, `SameSlot`) make the two readings
interchangeable. The invariant `QInv` adds to the types
(a) `SlotsInv`: a slot that is not being written holds the latest entry for
it, with that entry's version; the one being written has an odd version;
(b) `Position`: a reader's index and the last entry it was handed fall on the
same slot, and the version it waits for is the one its next entry gets, which
is where the + 2 at the end of the queue matters; and
(c) `Copying`: as long as the slot's version is even and the one loaded, the
words copied are those still in the slot. `EntryRead` concludes from these
what a stable read returns; a torn or repeated entry would have to come from a
slot whose version says otherwise, which (a) and (b) exclude.

`ConcurrentOrderBookProofs` proves, for any number of threads and calls:

* `WritersExclude`: one writer at a time;
* `CallsAreAtomic`: if only one thread shifts, the concurrent book implements
  `OrderBook!AnyClientSpec`. It assumes `NoOverflow`, the bound on volumes that
  `OrderBook` has as a guard. The invariant `CInv` says that what a writer
  stores is what the atomic operation makes of the book the writer found, that
  orders leave the base price alone (`OrderKeepsBase`), and hence that a look
  at `posBasePrice` before the lock stays true; with a second shifting thread
  just that fails;
* `QuotesAreWhole`: while no thread shifts, a quote is never torn. `RInv` adds
  that the version is odd exactly while a writer stores, and that at an even
  version that is still the one a query has loaded, what the query has read is
  what memory holds.

`SocketHandlerProofs` proves of `SocketHandler!Spec`, for every set of
non-empty streams of pieces (`StreamsAssumption`, the only assumption besides
the compile-time checks of `FIXMsgTypes`): `HandlerTyped`, `AnswersComeInOrder`
and `NothingIsReadAhead`. Streams may be as long as they like, garbage and
foreign messages too.

1. `LongestMessage` and `ShortestMessage` evaluate the folds over the variant
   (18 and 13 bytes). `StreamIsLaidOut` says where in the memory the bytes of
   each piece are, by induction over the pieces (`FlattenSeqUnrolls`).
2. `HeaderStep`, `ScanStep`, `DiscardStep` and `RestStep` say what each
   `recv()` does to the buffer, byte by byte; `Typed` follows.
3. `DelimiterIsInMessage` and `MessageHasDelimiter`: a delimiter in the memory
   is that of a message with a header, and every message has one. `Kept` says
   that the window of a search is what was read last, so that this holds of the
   window too.
4. `GenuineAnswer` is about any stream, garbled ones included: a buffer that
   begins with a whole message of its own length has been filled by one stretch
   of the memory, so the message has just been read and lies behind all those
   returned before. `Gathered` carries what this needs through the call.
5. As long as no message has lost its front, `InSync` has the n-th call at the
   n-th message, also when it is longer than the buffer: between calls at its end, during the search not past its
   beginning and with nothing but garbage in front of it (`Ahead`), and then
   with its header at the front of the buffer and as many bytes to go as are
   left of it (`Measured`). `DelimiterOfNext` is why the search finds this
   message and no other, `AheadFurther` why it does not skip it, and
   `StaysInBounds` why `recv()` does not end the program meanwhile.

`HandlerInv` is the conjunction of these; the properties follow at once.

`PipelineProofs` first proves `PipelineRunsItsComponents`: every behaviour of
the pipeline is one of `SeqLockQueue!Spec` with one reader and of
`SocketHandler!Spec`. So what is proved of the queue holds in the pipeline, and
`QInv` can be used in it. `PipelineTyped`, `HandedOverInOrder` and
`OnlyUnseenAreLost` follow for every length of the queue and every set of
streams. `PInv` relates the two ends of the queue: what is processed are
answers at increasing positions, and the last of them is the one that the
reader's cursor stands at, less the one about to be processed. In a queue that
is not overtaken nothing is between them, because what a reader misses is whole
laps.

Induction over data (the pieces of a stream, the iterations of a loop, the
elements of a sequence) is done by showing that the set of numbers for which a
claim holds is `Nat` (`NatSetInduction`), or that a family of subsets which has
each subset it has all smaller ones of is all of them (`SubsetInduction`).
The folds of the community modules are
functions chosen to satisfy an equation; a lemma exhibits one that does.

Only model-checked are liveness (out of the prover's reach: `ThreadsFinish`,
`ReadsToTheEnd`, `EveryReaderCatchesUp`, `VolumeReturnsOnceWritten`,
`WritersReturn`); every safety property that a passing run checks is proved.

## Not modelled

* The single-threaded driver: the loop that `SocketHandler!Call` stands for,
  with `processOrder` after it.
* The constructors of `FIXmsgClasses`, which copy volume and price out of the
  buffer; the concepts of `FIXmsgTypeChecks` and `Auxil`, and `Auxil`'s string
  conversions and rounding functions.
* Sockets whose `recv` returns less than it was asked for: its result is ignored
  (FIXSocketHandler.hpp:124), and readme.md:69-70 has it copy all bytes.
* Reorderings that a weaker memory model, or a compiler that hoists the plain
  load of `finVersion` (OrderBook.hpp:197), would allow.
* `SeqLockElement::operator=` (Element.hpp:61-69, never called by the queue)
  and the byte copy of `accept_UB = true`, which is a data race by intent.
* Tests, `FileToTuples`, the data generator under `misc`.

## Plan

1. *Done:* `OrderBookBucket`, `OrderBook` and its properties; then
   `ConcurrentOrderBook` on top of it, `AtomicFlagGuard`, `SeqLockQueue` with
   `Feed`; the invariants of the book and of the guards proved.
2. *Done:* `SocketHandler` on `fixMockSocket`, and `Pipeline`, which composes it
   with `SeqLockQueue`.
3. *Done:* `MarketBook`, the abstract specification that `OrderBook`
   implements.
4. *Done:* proofs about single steps of the book, about the queue and about the
   concurrent book.
5. *Done:* proofs about `SocketHandler` and `Pipeline`; price priority and the
   conservation of volume and money for every book length.
6. *Done:* `ImplementsMarket` for every book length.
7. Reordered loads, and threads in `AtomicFlagGuard`, to say which of them can
   be stuck.
