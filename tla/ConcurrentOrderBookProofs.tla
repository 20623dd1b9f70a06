---------------------- MODULE ConcurrentOrderBookProofs ----------------------
(***************************************************************************)
(* Proofs about the shared order book, for every number of writers, readers  *)
(* and calls, every book length and all orders: writers exclude each other,   *)
(* and what they do together is what the atomic order book does one call at a  *)
(* time, if only one of them shifts.                                         *)
(*                                                                         *)
(* A call takes effect where it is closed.  Until then the book that counts  *)
(* is the one its writer found, which is what a step of the atomic book       *)
(* starts from, and what the writer has worked out is what that step gives.   *)
(***************************************************************************)
EXTENDS ConcurrentOrderBookProperties, TLAPS

USE ShiftersAssumption

-----------------------------------------------------------------------------
(* The inductive invariant.                                                 *)

IsShift(w) == writer[w].request.op = "shift"

\* With two shifting threads posBasePrice may be out of date.
OneShifter == \A v, w \in Shifters : v = w

\* What the proofs need of the type of a book.
IsBook(b) == "basePrice" \in DOMAIN b

WaitsForLock(w) ==
    writer[w] = [pc |-> "lock", calls |-> writer[w].calls, request |-> writer[w].request,
                 posBasePrice |-> writer[w].posBasePrice]

\* The base price a shift has looked at is still that of the book.
LookIsFresh(w) ==
    writer[w].posBasePrice = Core!PosBasePrice(memory, writer[w].request.shiftBy)

\* What a writer stores is what the atomic operation makes of the book the
\* writer found.
OrderOutcome(w) ==
    LET result == Process(writer[w].before, writer[w].request)
    IN  /\ writer[w].after = result.book /\ writer[w].answer = result.response
        /\ writer[w].after.basePrice = writer[w].before.basePrice
        /\ memory.basePrice = writer[w].before.basePrice

ShiftOutcome(w) ==
    /\ writer[w].after = Core!ShiftedBook(writer[w].before, writer[w].request.shiftBy)
    /\ writer[w].answer = Core!ShiftPossible(writer[w].before, writer[w].request.shiftBy)

WriterInv(w) ==
    /\ writer[w].pc \in {"idle", "lock", "open", "store", "unlock"}
    /\ writer[w].pc \in {"lock", "open", "store"} => writer[w].request \in Requests(w)
    /\ writer[w].pc = "lock" => WaitsForLock(w)
    /\ OneShifter /\ writer[w].pc \in {"lock", "open"} /\ IsShift(w) => LookIsFresh(w)
    /\ Stores(w) => IsBook(writer[w].after)
    /\ Stores(w) /\ ~IsShift(w) => OrderOutcome(w)
    /\ OneShifter /\ Stores(w) /\ IsShift(w) => ShiftOutcome(w)

CInv ==
    /\ writer = [w \in Writers |-> writer[w]]
    /\ versionCounter \in Nat
    /\ IsBook(memory)
    /\ OneWriter
    /\ \A w \in Writers : WriterInv(w)

-----------------------------------------------------------------------------
(* Orders leave the base price alone.                                       *)

\* b has become c by writes to other members than the base price.
Rewritten(b, c) == IsBook(c) /\ c.basePrice = b.basePrice

LEMMA RunKeepsBase ==
  ASSUME NEW b, IsBook(b), NEW volume, NEW endPrice
  PROVE  Rewritten(b, Core!RunThroughBook(b, volume, endPrice).book)
<1> DEFINE run == Core!SweepBook(b, volume, endPrice)
           mid == [b EXCEPT !.memSpan = run.memSpan]
<1>1. Rewritten(b, mid)
  <2> HIDE DEF run
  <2> QED BY DEF Rewritten, IsBook
<1> HIDE DEF mid
<1>2. ASSUME NEW last PROVE Rewritten(mid, Core!RefreshBest(mid, volume < 0, last))
  BY <1>1, SMTT(30) DEF Rewritten, IsBook, Core!RefreshBest
<1> QED BY <1>1, <1>2 DEF Core!RunThroughBook, mid, Rewritten

LEMMA RestKeepsBase ==
  ASSUME NEW b, IsBook(b), NEW volume, NEW price
  PROVE  Rewritten(b, Core!RestLiquidity(b, volume, price))
<1> DEFINE added == Core!AddToBucket(b, price, volume)
<1>1. Rewritten(b, added)
  BY DEF Core!AddToBucket, Rewritten, IsBook
<1> HIDE DEF added
<1>2. \A x, y : /\ Rewritten(added, [added EXCEPT !.lowestBid = x, !.bestBid = y])
                /\ Rewritten(added, [added EXCEPT !.highestOffer = x, !.bestOffer = y])
  BY <1>1 DEF Rewritten, IsBook
<1> QED BY <1>1, <1>2 DEF Core!RestLiquidity, added, Rewritten

LEMMA LimitOrderKeepsBase ==
  ASSUME NEW b, IsBook(b), NEW order
  PROVE  Rewritten(b, Core!HandleNewLimitOrder(b, order).book)
BY RunKeepsBase, RestKeepsBase DEF Core!HandleNewLimitOrder, Rewritten

LEMMA WithdrawalKeepsBase ==
  ASSUME NEW b, IsBook(b), NEW order
  PROVE  Rewritten(b, Core!HandleWithdrawLimitOrder(b, order).book)
<1>1. ASSUME NEW price, NEW amount
      PROVE  Rewritten(b, Core!TakeFromBucket(b, price, amount))
  BY DEF Core!TakeFromBucket, Rewritten, IsBook
<1>2. ASSUME NEW c, IsBook(c), NEW price, NEW exhausted
      PROVE  Rewritten(c, Core!RefreshStats(c, price, exhausted))
  BY <1>2 DEF Core!RefreshStats, Rewritten, IsBook
<1> QED BY <1>1, <1>2 DEF Core!HandleWithdrawLimitOrder, Rewritten

LEMMA OrderKeepsBase ==
  ASSUME NEW b, IsBook(b), NEW request
  PROVE  Rewritten(b, Process(b, request).book)
<1>1. ASSUME NEW limit, NEW withdrawal, NEW market
      PROVE  Rewritten(b, Core!ProcessOrder(b, limit, withdrawal, market).book)
  <2> DEFINE first  == Core!HandleNewLimitOrder(b, limit).book
             second == Core!HandleWithdrawLimitOrder(first, withdrawal).book
             third  == Core!HandleMarketOrder(second, market).book
  <2>1. Rewritten(b, first)
    BY LimitOrderKeepsBase
  <2> HIDE DEF first
  <2>2. Rewritten(first, second)
    BY <2>1, WithdrawalKeepsBase DEF Rewritten
  <2> HIDE DEF second
  <2>3. Rewritten(second, third)
    BY <2>2, RunKeepsBase DEF Rewritten, Core!HandleMarketOrder
  <2>4. Core!ProcessOrder(b, limit, withdrawal, market).book = third
    BY DEF Core!ProcessOrder, first, second
  <2> QED BY <2>1, <2>2, <2>3, <2>4 DEF Rewritten
<1> QED BY <1>1 DEF Process

-----------------------------------------------------------------------------
(* The book that counts.                                                    *)

\* While a writer stores its result, the book that counts is the one it found,
\* with the parity that the version had for its call.
LEMMA SettledWhileStoring ==
  ASSUME OneWriter, NEW w \in Writers, Stores(w)
  PROVE  /\ Settled = writer[w].before
         /\ SettledVersion = IF IsShift(w) THEN versionCounter % 2
                                           ELSE (versionCounter - 1) % 2
<1>1. \A v \in Writers : Stores(v) <=> v = w
  BY DEF OneWriter, InsideLock, Stores
<1>2. (CHOOSE v \in Writers : Stores(v)) = w
  BY <1>1
<1> QED BY <1>1, <1>2 DEF Settled, SettledVersion, IsShift

LEMMA SettledBetweenStores ==
  ASSUME \A w \in Writers : ~Stores(w)
  PROVE  Settled = memory /\ SettledVersion = versionCounter % 2
BY DEF Settled, SettledVersion

\* The same two facts of the state after a step.
LEMMA SettledWhileStoringNext ==
  ASSUME OneWriter', NEW w \in Writers, Stores(w)'
  PROVE  /\ Settled' = writer'[w].before
         /\ SettledVersion' = IF IsShift(w)' THEN versionCounter' % 2
                                             ELSE (versionCounter' - 1) % 2
<1>1. \A v \in Writers : Stores(v)' <=> v = w
  BY DEF OneWriter, InsideLock, Stores
<1>2. (CHOOSE v \in Writers : Stores(v)') = w
  BY <1>1
<1> QED BY <1>1, <1>2 DEF Settled, SettledVersion, IsShift

LEMMA SettledBetweenStoresNext ==
  ASSUME \A w \in Writers : ~Stores(w)'
  PROVE  Settled' = memory' /\ SettledVersion' = versionCounter' % 2
BY DEF Settled, SettledVersion

-----------------------------------------------------------------------------
(* Every step keeps the invariant.                                          *)

\* A writer's step is judged by what becomes of that writer, if it changes no
\* member of the book that another one relies on.
LEMMA WriterSteps ==
  ASSUME CInv, NEW w \in Writers, NEW local,
         writer' = [writer EXCEPT ![w] = local],
         memory' = memory, versionCounter' \in Nat, OneWriter', WriterInv(w)'
  PROVE  CInv'
<1>1. /\ writer' = [v \in Writers |-> writer'[v]]
      /\ \A v \in Writers : v # w => writer'[v] = writer[v]
  BY DEF CInv
<1>2. ASSUME NEW v \in Writers, v # w PROVE WriterInv(v)'
  <2>1. WriterInv(v) /\ writer'[v] = writer[v]
    BY <1>1, <1>2 DEF CInv
  <2> QED BY <2>1 DEF WriterInv, Stores, IsShift, WaitsForLock, LookIsFresh, OrderOutcome,
                      ShiftOutcome
<1> QED BY <1>1, <1>2 DEF CInv, IsBook

LEMMA BeginCallKeeps ==
  ASSUME CInv, NEW w \in Writers, BeginCall(w)
  PROVE  CInv' /\ \A v \in Writers : Stores(v)' = Stores(v) /\ (Stores(v) => writer'[v] = writer[v])
<1>1. PICK request \in Requests(w) :
          writer' = [writer EXCEPT ![w] =
             [pc |-> "lock", calls |-> writer[w].calls, request |-> request,
              posBasePrice |-> request.op = "shift"
                                 /\ Core!PosBasePrice(memory, request.shiftBy)]]
  BY DEF BeginCall
<1> DEFINE local == [pc |-> "lock", calls |-> writer[w].calls, request |-> request,
                     posBasePrice |-> request.op = "shift"
                                        /\ Core!PosBasePrice(memory, request.shiftBy)]
<1>2. /\ local.pc = "lock" /\ local.request = request
      /\ local = [pc |-> "lock", calls |-> local.calls, request |-> local.request,
                  posBasePrice |-> local.posBasePrice]
      /\ request.op = "shift" =>
            local.posBasePrice = Core!PosBasePrice(memory, request.shiftBy)
  <2>1. Core!PosBasePrice(memory, request.shiftBy) \in BOOLEAN
    BY DEF Core!PosBasePrice
  <2> QED BY <2>1
<1>3. writer' = [writer EXCEPT ![w] = local]
  BY <1>1
<1> HIDE DEF local
<1>4. /\ writer'[w] = local /\ \A v \in Writers : v # w => writer'[v] = writer[v]
      /\ UNCHANGED <<memory, versionCounter, modifyLock>> /\ writer[w].pc = "idle"
  BY <1>3 DEF CInv, BeginCall
<1>5. OneWriter'
  BY <1>2, <1>4 DEF CInv, OneWriter, InsideLock
<1>6. WriterInv(w)'
  BY <1>2, <1>4 DEF WriterInv, Stores, IsShift, WaitsForLock, LookIsFresh
<1>7. CInv'
  BY <1>3, <1>4, <1>5, <1>6, WriterSteps DEF CInv
<1> QED BY <1>2, <1>4, <1>7 DEF Stores

LEMMA LockKeeps ==
  ASSUME CInv, NEW w \in Writers, Lock(w)
  PROVE  CInv' /\ \A v \in Writers : Stores(v)' = Stores(v) /\ (Stores(v) => writer'[v] = writer[v])
<1> DEFINE local == [writer[w] EXCEPT !.pc = "open"]
<1>1. writer' = [writer EXCEPT ![w] = local]
  BY DEF Lock, CInv
<1>2. WriterInv(w) /\ WaitsForLock(w) /\ writer[w].pc = "lock"
  BY DEF CInv, WriterInv, Lock
<1>3. /\ local.pc = "open" /\ local.request = writer[w].request
      /\ local.posBasePrice = writer[w].posBasePrice
  BY <1>2 DEF WaitsForLock
<1> HIDE DEF local
<1>4. /\ writer'[w] = local /\ \A v \in Writers : v # w => writer'[v] = writer[v]
      /\ UNCHANGED <<memory, versionCounter>> /\ modifyLock' /\ ~modifyLock
  BY <1>1 DEF CInv, Lock
<1>5. OneWriter'
  BY <1>3, <1>4 DEF CInv, OneWriter, InsideLock
<1>6. WriterInv(w)'
  BY <1>2, <1>3, <1>4 DEF WriterInv, Stores, IsShift, LookIsFresh
<1>7. CInv'
  BY <1>1, <1>4, <1>5, <1>6, WriterSteps DEF CInv
<1> QED BY <1>2, <1>3, <1>4, <1>7 DEF Stores

LEMMA UnlockKeeps ==
  ASSUME CInv, NEW w \in Writers, Unlock(w)
  PROVE  CInv' /\ \A v \in Writers : Stores(v)' = Stores(v) /\ (Stores(v) => writer'[v] = writer[v])
<1>1. /\ writer' = [writer EXCEPT ![w] = Waiting(writer[w].calls + 1)]
      /\ writer'[w].pc = "idle" /\ writer[w].pc = "unlock"
      /\ \A v \in Writers : v # w => writer'[v] = writer[v]
      /\ UNCHANGED <<memory, versionCounter>> /\ modifyLock' = FALSE
  BY DEF CInv, Unlock, Waiting
<1>2. OneWriter'
  BY <1>1 DEF CInv, OneWriter, InsideLock
<1>3. WriterInv(w)'
  BY <1>1 DEF WriterInv, Stores
<1>4. CInv'
  BY <1>1, <1>2, <1>3, WriterSteps DEF CInv
<1> QED BY <1>1, <1>4 DEF Stores

LEMMA ShiftRequests ==
  ASSUME NEW w \in Writers, NEW request \in Requests(w)
  PROVE  IF request.op = "shift"
         THEN w \in Shifters /\ request.shiftBy \in Shifts
         ELSE /\ request.op \in {"limit", "withdraw", "market"} /\ request.volume \in Volumes
              /\ IF request.op = "market" THEN request.price = 0 ELSE request.price \in Prices
BY DEF Requests

\* The writer that is inside the lock finds the book that counts.
LEMMA OpenFindsSettled ==
  ASSUME CInv, NEW w \in Writers, writer[w].pc = "open"
  PROVE  /\ \A v \in Writers : ~Stores(v)
         /\ Settled = memory /\ SettledVersion = versionCounter % 2
<1>1. \A v \in Writers : ~Stores(v)
  BY DEF CInv, OneWriter, InsideLock, Stores
<1> QED BY <1>1, SettledBetweenStores

LEMMA OpenOrderKeeps ==
  ASSUME CInv, NEW w \in Writers, OpenOrder(w)
  PROVE  CInv' /\ UNCHANGED <<Settled, SettledVersion, lastCall>>
<1> DEFINE request == writer[w].request
           result  == Process(memory, request)
           local   == [pc |-> "store", calls |-> writer[w].calls, request |-> request,
                       before |-> memory, after |-> result.book, answer |-> result.response]
<1>1. /\ writer' = [writer EXCEPT ![w] = local]
      /\ UNCHANGED <<memory, modifyLock, lastCall>>
      /\ versionCounter' = versionCounter + 1 /\ writer[w].pc = "open" /\ ~IsShift(w)
  BY DEF OpenOrder, IsShift
<1>2. request \in Requests(w) /\ IsBook(memory) /\ versionCounter \in Nat
  BY <1>1 DEF CInv, WriterInv
<1> HIDE DEF request
<1>3. Rewritten(memory, result.book)
  BY <1>2, OrderKeepsBase
<1> HIDE DEF result
<1>4. /\ local.pc = "store" /\ local.request = request /\ local.before = memory
      /\ local.after = result.book /\ local.answer = result.response
  OBVIOUS
<1> HIDE DEF local
<1>5. writer'[w] = local /\ \A v \in Writers : v # w => writer'[v] = writer[v]
  BY <1>1 DEF CInv
<1>6. OneWriter'
  BY <1>1, <1>4, <1>5 DEF CInv, OneWriter, InsideLock
<1>7. IsShift(w)' = IsShift(w) /\ Stores(w)'
  BY <1>4, <1>5 DEF IsShift, Stores, request
<1>8. OrderOutcome(w)'
  BY <1>1, <1>3, <1>4, <1>5 DEF OrderOutcome, result, Rewritten
<1>9. WriterInv(w)'
  BY <1>1, <1>2, <1>3, <1>4, <1>5, <1>7, <1>8 DEF WriterInv, Rewritten, IsBook
<1>10. CInv'
  <2>1. versionCounter' \in Nat /\ memory' = memory
    BY <1>1, <1>2
  <2> QED BY <1>1, <1>6, <1>9, <2>1, WriterSteps
<1>11. Settled = memory /\ SettledVersion = versionCounter % 2
  BY <1>1, OpenFindsSettled
<1>12. Settled' = memory /\ SettledVersion' = (versionCounter' - 1) % 2
  BY <1>1, <1>4, <1>5, <1>6, <1>7, SettledWhileStoringNext
<1>13. versionCounter' - 1 = versionCounter
  BY <1>1, <1>2
<1> QED BY <1>1, <1>10, <1>11, <1>12, <1>13

LEMMA OpenShiftKeeps ==
  ASSUME CInv, NEW w \in Writers, OpenShift(w)
  PROVE  CInv' /\ UNCHANGED <<Settled, SettledVersion, lastCall>>
<1> DEFINE request == writer[w].request
           pos     == writer[w].posBasePrice
           after   == Shifted(memory, request.shiftBy, pos)
           answer  == Core!RoomToShift(memory, request.shiftBy) /\ pos
           local   == [pc |-> "store", calls |-> writer[w].calls, request |-> request,
                       before |-> memory, after |-> after, answer |-> answer]
<1>1. /\ writer' = [writer EXCEPT ![w] = local]
      /\ UNCHANGED <<memory, modifyLock, lastCall, versionCounter>>
      /\ writer[w].pc = "open" /\ IsShift(w)
  BY DEF OpenShift, IsShift
<1>2. request \in Requests(w) /\ IsBook(memory) /\ versionCounter \in Nat
  BY <1>1 DEF CInv, WriterInv
<1>3. IsBook(after)
  BY <1>2 DEF Shifted, IsBook
<1>4. OneShifter => /\ after = Core!ShiftedBook(memory, request.shiftBy)
                    /\ answer = Core!ShiftPossible(memory, request.shiftBy)
  <2> SUFFICES ASSUME OneShifter
               PROVE  /\ after = Core!ShiftedBook(memory, request.shiftBy)
                      /\ answer = Core!ShiftPossible(memory, request.shiftBy)
    OBVIOUS
  <2>1. pos = Core!PosBasePrice(memory, request.shiftBy)
    BY <1>1 DEF CInv, WriterInv, LookIsFresh
  <2> HIDE DEF request, pos
  <2> QED BY <2>1 DEF Shifted, Core!ShiftedBook, Core!ShiftPossible
<1> HIDE DEF request, pos, after, answer
<1>5. /\ local.pc = "store" /\ local.request = request /\ local.before = memory
      /\ local.after = after /\ local.answer = answer
  OBVIOUS
<1> HIDE DEF local
<1>6. writer'[w] = local /\ \A v \in Writers : v # w => writer'[v] = writer[v]
  BY <1>1 DEF CInv
<1>7. OneWriter'
  BY <1>1, <1>5, <1>6 DEF CInv, OneWriter, InsideLock
<1>8. IsShift(w)' /\ Stores(w)'
  BY <1>1, <1>5, <1>6 DEF IsShift, Stores, request
<1>9. OneShifter => ShiftOutcome(w)'
  BY <1>4, <1>5, <1>6 DEF ShiftOutcome
<1>10. WriterInv(w)'
  BY <1>2, <1>3, <1>5, <1>6, <1>8, <1>9 DEF WriterInv, IsBook
<1>11. CInv'
  BY <1>1, <1>2, <1>7, <1>10, WriterSteps
<1>12. Settled = memory /\ SettledVersion = versionCounter % 2
  BY <1>1, OpenFindsSettled
<1>13. Settled' = memory /\ SettledVersion' = versionCounter' % 2
  BY <1>1, <1>5, <1>6, <1>7, <1>8, SettledWhileStoringNext
<1> QED BY <1>1, <1>11, <1>12, <1>13

\* Writes to memory while a writer stores: the book that counts stays, and an
\* order leaves the base price alone, so that a look at it stays true.
LEMMA MemorySteps ==
  ASSUME CInv, NEW w \in Writers, Stores(w),
         UNCHANGED <<versionCounter, modifyLock, writer>>,
         IsBook(memory'), IsShift(w) \/ memory'.basePrice = memory.basePrice
  PROVE  CInv' /\ UNCHANGED <<Settled, SettledVersion>>
<1>1. OneWriter /\ OneWriter' /\ \A v \in Writers : Stores(v) => v = w
  BY DEF CInv, OneWriter, InsideLock, Stores
<1>2. ASSUME NEW v \in Writers PROVE WriterInv(v)'
  <2>1. WriterInv(v) /\ WriterInv(w)
    BY DEF CInv
  <2>2. ASSUME OneShifter, writer[v].pc \in {"lock", "open"}, IsShift(v)
        PROVE  LookIsFresh(v)'
    <3>1. v \in Shifters /\ LookIsFresh(v)
      BY <2>1, <2>2, ShiftRequests DEF WriterInv, IsShift
    <3>2. ~IsShift(w)
      <4>1. IsShift(w) => w \in Shifters
        BY <2>1, ShiftRequests DEF WriterInv, IsShift, Stores
      <4>2. v # w
        BY <2>2 DEF Stores
      <4> QED BY <2>2, <3>1, <4>1, <4>2 DEF OneShifter
    <3> QED BY <3>1, <3>2 DEF LookIsFresh, Core!PosBasePrice
  <2>3. ASSUME Stores(v), ~IsShift(v) PROVE OrderOutcome(v)'
    BY <1>1, <2>1, <2>3 DEF WriterInv, OrderOutcome
  <2> QED BY <2>1, <2>2, <2>3 DEF WriterInv, Stores, IsShift, WaitsForLock, ShiftOutcome, IsBook
<1>3. CInv'
  BY <1>1, <1>2 DEF CInv, IsBook
<1>4. Stores(w)' /\ IsShift(w)' = IsShift(w)
  BY DEF Stores, IsShift
<1>5. UNCHANGED <<Settled, SettledVersion>>
  BY <1>1, <1>4, SettledWhileStoring, SettledWhileStoringNext
<1> QED BY <1>3, <1>5

LEMMA StoreKeeps ==
  ASSUME CInv, NEW w \in Writers, StorePrice(w) \/ StoreVolume(w)
  PROVE  CInv' /\ UNCHANGED <<Settled, SettledVersion, lastCall>>
<1>1. /\ Stores(w) /\ UNCHANGED <<versionCounter, modifyLock, writer, lastCall>>
      /\ IsBook(memory)
  BY DEF StorePrice, StoreVolume, CInv
<1>2. CASE StorePrice(w)
  <2>1. PICK member \in DOMAIN memory :
           /\ memory[member] # writer[w].after[member]
           /\ memory' = [memory EXCEPT ![member] = writer[w].after[member]]
    BY <1>2 DEF StorePrice
  <2>2. IsBook(memory')
    BY <1>1, <2>1 DEF IsBook
  <2>3. ~IsShift(w) => writer[w].after.basePrice = memory.basePrice
    BY <1>1 DEF CInv, WriterInv, OrderOutcome
  <2>4. ~IsShift(w) => member # "basePrice"
    BY <2>1, <2>3
  <2>5. IsShift(w) \/ memory'.basePrice = memory.basePrice
    BY <1>1, <2>1, <2>4 DEF IsBook
  <2> QED BY <1>1, <2>2, <2>5, MemorySteps
<1>3. CASE StoreVolume(w)
  <2>1. PICK cells : memory' = [memory EXCEPT !.memSpan = cells]
    BY <1>3 DEF StoreVolume
  <2>2. IsBook(memory') /\ memory'.basePrice = memory.basePrice
    BY <1>1, <2>1 DEF IsBook
  <2> QED BY <1>1, <2>2, MemorySteps
<1> QED BY <1>2, <1>3

\* The end of a call: the book its writer has worked out is the one that
\* counts from now on.
LEMMA CloseKeeps ==
  ASSUME CInv, NEW w \in Writers, Close(w)
  PROVE  /\ CInv'
         /\ Stores(w) /\ Settled = writer[w].before /\ Settled' = writer[w].after
         /\ SettledVersion' = IF IsShift(w) THEN (SettledVersion + 1) % 2 ELSE SettledVersion
<1>1. /\ writer' = [writer EXCEPT ![w] = [pc |-> "unlock", calls |-> writer[w].calls]]
      /\ Stores(w) /\ memory = writer[w].after /\ versionCounter' = versionCounter + 1
      /\ UNCHANGED <<memory, modifyLock>> /\ versionCounter \in Nat
  BY DEF Close, CInv
<1>2. /\ writer'[w].pc = "unlock"
      /\ \A v \in Writers : v # w => writer'[v] = writer[v]
  BY <1>1 DEF CInv
<1>3. OneWriter'
  BY <1>1, <1>2 DEF CInv, OneWriter, InsideLock, Stores
<1>4. WriterInv(w)'
  BY <1>2 DEF WriterInv, Stores
<1>5. CInv'
  <2>1. versionCounter' \in Nat
    BY <1>1
  <2> QED BY <1>1, <1>3, <1>4, <2>1, WriterSteps
<1>6. \A v \in Writers : ~Stores(v)'
  BY <1>1, <1>2 DEF CInv, OneWriter, InsideLock, Stores
<1>7. /\ Settled = writer[w].before
      /\ SettledVersion = IF IsShift(w) THEN versionCounter % 2 ELSE (versionCounter - 1) % 2
  BY <1>1, SettledWhileStoring DEF CInv
<1>8. Settled' = memory' /\ SettledVersion' = versionCounter' % 2
  BY <1>6, SettledBetweenStoresNext
<1>9. /\ (versionCounter + 1) % 2 = (versionCounter - 1) % 2
      /\ (versionCounter + 1) % 2 = ((versionCounter % 2) + 1) % 2
  BY <1>1
<1> QED BY <1>1, <1>5, <1>7, <1>8, <1>9

\* Steps that change neither the book nor whose result is being stored.
LEMMA NothingSettles ==
  ASSUME CInv, CInv', UNCHANGED <<memory, versionCounter>>,
         \A v \in Writers : Stores(v)' = Stores(v) /\ (Stores(v) => writer'[v] = writer[v])
  PROVE  UNCHANGED <<Settled, SettledVersion>>
<1>1. CASE \A v \in Writers : ~Stores(v)
  <2>1. \A v \in Writers : ~Stores(v)'
    BY <1>1
  <2> QED BY <1>1, <2>1, SettledBetweenStores, SettledBetweenStoresNext
<1>2. ASSUME NEW v \in Writers, Stores(v) PROVE UNCHANGED <<Settled, SettledVersion>>
  <2>1. Stores(v)' /\ writer'[v] = writer[v] /\ OneWriter /\ OneWriter'
    BY <1>2 DEF CInv
  <2> QED BY <1>2, <2>1, SettledWhileStoring, SettledWhileStoringNext DEF IsShift
<1> QED BY <1>1, <1>2

LEMMA ReadersKeep ==
  ASSUME CInv, UNCHANGED <<memory, versionCounter, modifyLock, writer>>
  PROVE  CInv' /\ UNCHANGED <<Settled, SettledVersion>>
<1>1. ASSUME NEW v \in Writers PROVE WriterInv(v)'
  <2>1. WriterInv(v)
    BY DEF CInv
  <2> QED BY <2>1 DEF WriterInv, Stores, IsShift, WaitsForLock, LookIsFresh, OrderOutcome,
                      ShiftOutcome, IsBook
<1>2. CInv'
  BY <1>1 DEF CInv, IsBook, OneWriter, InsideLock
<1> QED BY <1>2, NothingSettles DEF Stores

LEMMA InitHolds == Init => CInv
<1> SUFFICES ASSUME Init PROVE CInv
  OBVIOUS
<1>1. PICK basePrice, strayVolume : memory = Core!EmptyBook(basePrice, strayVolume)
  BY DEF Init
<1>2. IsBook(memory)
  BY <1>1 DEF Core!EmptyBook, IsBook
<1>3. \A w \in Writers : writer[w].pc = "idle"
  BY DEF Init, Waiting
<1>4. OneWriter /\ \A w \in Writers : WriterInv(w)
  BY <1>3 DEF Init, OneWriter, InsideLock, WriterInv, Stores
<1> QED BY <1>2, <1>4 DEF Init, CInv

\* What a step does to the book that counts: nothing, unless it closes a call.
LEMMA StepOrClose ==
  ASSUME CInv, [Next]_vars
  PROVE  /\ CInv'
         /\ \/ UNCHANGED <<Settled, SettledVersion, lastCall>>
            \/ \E w \in Writers : Close(w)
<1>1. ASSUME NEW w \in Writers, BeginCall(w) \/ Lock(w) \/ Unlock(w)
      PROVE  CInv' /\ UNCHANGED <<Settled, SettledVersion, lastCall>>
  <2>1. UNCHANGED <<memory, versionCounter, lastCall>>
    BY <1>1 DEF BeginCall, Lock, Unlock
  <2> QED BY <1>1, <2>1, BeginCallKeeps, LockKeeps, UnlockKeeps, NothingSettles
<1>2. ASSUME NEW w \in Writers, Write(w) \/ BeginCall(w), ~Close(w)
      PROVE  CInv' /\ UNCHANGED <<Settled, SettledVersion, lastCall>>
  BY <1>1, <1>2, OpenOrderKeeps, OpenShiftKeeps, StoreKeeps DEF Write
<1>3. ASSUME NEW w \in Writers, Close(w) PROVE CInv'
  BY <1>3, CloseKeeps
<1>4. CASE UNCHANGED <<memory, versionCounter, modifyLock, writer, lastCall>>
  BY <1>4, ReadersKeep
<1>5. ASSUME NEW r \in Readers, BeginQuote(r) \/ Query(r) \/ \E price \in Prices : BeginVolume(r, price)
      PROVE  UNCHANGED <<memory, versionCounter, modifyLock, writer, lastCall>>
  BY <1>5 DEF Query, BeginQuote, BeginVolume, ReadBestBid, ReadBestOffer, RetryQuote, ReturnQuote,
              ReadVersion, ReadBasePrice, ReadIndex, ReadVolume, RetryVolume, ReturnVolume, Becomes
<1>6. CASE UNCHANGED vars
  BY <1>4, <1>6 DEF vars
<1> QED BY <1>2, <1>3, <1>4, <1>5, <1>6 DEF Next, Finished

LEMMA Invariance == Spec => []CInv
BY InitHolds, StepOrClose, PTL DEF Spec

-----------------------------------------------------------------------------
(* The theorems.                                                            *)

\* modifyLock lets one thread at a time into processOrder and shiftBook, and
\* is set exactly while one is inside, for any number of threads.
THEOREM WritersExclude == Spec => []OneWriter
<1>1. CInv => OneWriter
  BY DEF CInv
<1> QED BY <1>1, Invariance, PTL

\* The volumes that limit orders leave fit entryType_, as OrderBook assumes.
NoOverflow ==
    \A w \in Writers : Stores(w) /\ writer[w].request.op = "limit" =>
                          Core!FitsEntryType(writer[w].after)

\* Calls of any number of threads have the effects and the answers of the
\* atomic order book's operations, one after the other, whatever order their
\* single stores take, as long as only one thread shifts.
THEOREM CallsAreAtomic ==
  ASSUME OneShifter
  PROVE  Spec /\ []NoOverflow => Linearizable
<1>1. Init => Core!Init
  <2> SUFFICES ASSUME Init PROVE Core!Init
    OBVIOUS
  <2>1. \A w \in Writers : ~Stores(w)
    BY DEF Init, Waiting, Stores
  <2>2. Settled = memory /\ SettledVersion = versionCounter % 2
    BY <2>1, SettledBetweenStores
  <2>3. versionCounter % 2 = 0
    BY DEF Init
  <2> QED BY <2>2, <2>3 DEF Init, Core!Init
<1>2. CInv /\ NoOverflow /\ [Next]_vars => [Core!AnyClientNext]_(Core!vars)
  <2> SUFFICES ASSUME CInv, NoOverflow, NEW w \in Writers, Close(w)
               PROVE  Core!AnyClientNext
    BY StepOrClose DEF Core!vars
  <2> DEFINE request == writer[w].request
             result  == Process(writer[w].before, request)
  <2>1. /\ Stores(w) /\ Settled = writer[w].before /\ Settled' = writer[w].after
        /\ SettledVersion' = IF IsShift(w) THEN (SettledVersion + 1) % 2 ELSE SettledVersion
    BY CloseKeeps
  <2>2. WriterInv(w) /\ request \in Requests(w) /\ lastCall' = Completed(w)
    BY <2>1 DEF CInv, WriterInv, Close, Stores
  <2>3. CASE IsShift(w)
    <3>1. request.op = "shift" /\ request.shiftBy \in Shifts
      BY <2>2, <2>3, ShiftRequests DEF IsShift
    <3>2. ShiftOutcome(w)
      BY <2>1, <2>2, <2>3 DEF WriterInv
    <3>3. lastCall' = [op |-> "shift", shiftBy |-> request.shiftBy, done |-> writer[w].answer]
      BY <2>2, <3>1 DEF Completed
    <3>4. Core!ShiftBook(request.shiftBy)
      BY <2>1, <2>3, <3>2, <3>3 DEF Core!ShiftBook, ShiftOutcome
    <3> QED BY <3>1, <3>4 DEF Core!AnyClientNext
  <2>4. CASE ~IsShift(w)
    <3>1. /\ request.op \in {"limit", "withdraw", "market"} /\ request.volume \in Volumes
          /\ IF request.op = "market" THEN request.price = 0 ELSE request.price \in Prices
      BY <2>2, <2>4, ShiftRequests DEF IsShift
    <3>2. Settled' = result.book /\ writer[w].answer = result.response
      BY <2>1, <2>2, <2>4 DEF WriterInv, OrderOutcome
    <3>3. lastCall' = [op |-> request.op, volume |-> request.volume, price |-> request.price,
                       response |-> result.response]
      BY <2>2, <2>4, <3>2 DEF Completed, IsShift
    <3>4. SettledVersion' = SettledVersion
      BY <2>1, <2>4
    <3>5. CASE request.op = "limit"
      <4>1. result = Core!ProcessOrder(Settled, Core!Order(request.volume, request.price),
                                       Core!BlankOrder, Core!BlankOrder)
        BY <2>1, <3>5 DEF Process
      <4>2. Core!FitsEntryType(result.book)
        BY <2>1, <3>2, <3>5 DEF NoOverflow
      <4>3. Core!AddLimitOrder(request.volume, request.price)
        BY <3>2, <3>3, <3>4, <3>5, <4>1, <4>2 DEF Core!AddLimitOrder, Core!Processed
      <4> QED BY <3>1, <3>5, <4>3 DEF Core!AnyClientNext
    <3>6. CASE request.op = "withdraw"
      <4>1. result = Core!ProcessOrder(Settled, Core!BlankOrder,
                                       Core!Order(request.volume, request.price),
                                       Core!BlankOrder)
        BY <2>1, <3>6 DEF Process
      <4>2. Core!WithdrawLimitOrder(request.volume, request.price)
        BY <3>2, <3>3, <3>4, <3>6, <4>1 DEF Core!WithdrawLimitOrder, Core!Processed
      <4> QED BY <3>1, <3>6, <4>2 DEF Core!AnyClientNext
    <3>7. CASE request.op = "market"
      <4>1. result = Core!ProcessOrder(Settled, Core!BlankOrder, Core!BlankOrder,
                                       Core!Order(request.volume, 0))
        BY <2>1, <3>1, <3>7 DEF Process
      <4>2. Core!MarketOrder(request.volume)
        BY <3>1, <3>2, <3>3, <3>4, <3>7, <4>1 DEF Core!MarketOrder, Core!Processed
      <4> QED BY <3>1, <3>7, <4>2 DEF Core!AnyClientNext
    <3> QED BY <3>1, <3>5, <3>6, <3>7
  <2> QED BY <2>3, <2>4
<1> QED BY <1>1, <1>2, Invariance, PTL DEF Spec, Linearizable, Core!AnyClientSpec

-----------------------------------------------------------------------------
(* Quotes, while nobody shifts.                                             *)
(*                                                                         *)
(* The version is then odd exactly while a writer stores, so that a version  *)
(* that is even and still the one a query has loaded vouches for what the     *)
(* query has read since.                                                     *)

ParityInv == versionCounter % 2 = 0 <=> \A w \in Writers : ~Stores(w)

ReadsQuote(r) == reader[r].pc \in {"bestBid", "bestOffer", "checkQuote"}

QuoteInv(r) ==
    /\ "pc" \in DOMAIN reader[r]
    /\ ReadsQuote(r) =>
          /\ {"initVersion", "bestBid", "bestOffer", "possible"} \subseteq DOMAIN reader[r]
          /\ reader[r].initVersion \in Nat /\ reader[r].initVersion <= versionCounter
          /\ QuoteIsStable(reader[r].initVersion, versionCounter) =>
                /\ QuoteOf(memory) \in reader[r].possible
                /\ reader[r].pc # "bestBid" => reader[r].bestBid = memory.bestBid
                /\ reader[r].pc = "checkQuote" => reader[r].bestOffer = memory.bestOffer

RInv ==
    /\ CInv
    /\ ParityInv
    /\ reader = [r \in Readers |-> reader[r]]
    /\ \A r \in Readers : QuoteInv(r)

\* Readers and version as they were: writes to memory happen at odd versions.
LEMMA StoresUnseen ==
  ASSUME RInv, CInv', UNCHANGED <<reader, versionCounter>>,
         \A w \in Writers : Stores(w)' = Stores(w),
         memory' = memory \/ \E w \in Writers : Stores(w)
  PROVE  RInv'
<1>1. ParityInv'
  BY DEF RInv, ParityInv
<1>2. ASSUME NEW r \in Readers PROVE QuoteInv(r)'
  <2>1. QuoteInv(r)
    BY DEF RInv
  <2>2. CASE memory' = memory
    BY <2>1, <2>2 DEF QuoteInv, ReadsQuote, QuoteOf
  <2>3. CASE \E w \in Writers : Stores(w)
    <3>1. versionCounter % 2 # 0
      BY <2>3 DEF RInv, ParityInv
    <3>2. ~QuoteIsStable(reader[r].initVersion, versionCounter)
      BY <3>1 DEF QuoteIsStable
    <3> QED BY <2>1, <3>2 DEF QuoteInv, ReadsQuote
  <2> QED BY <2>2, <2>3
<1> QED BY <1>1, <1>2 DEF RInv

\* The version moves on: no query under way can accept what it has read.
LEMMA VersionMoves ==
  ASSUME RInv, CInv', ParityInv', versionCounter' = versionCounter + 1,
         \A r \in Readers : \/ reader'[r] = reader[r]
                            \/ \E answers : reader'[r] = [reader[r] EXCEPT !.possible = answers],
         reader' = [r \in Readers |-> reader'[r]]
  PROVE  RInv'
<1>1. ASSUME NEW r \in Readers PROVE QuoteInv(r)'
  <2>1. QuoteInv(r) /\ versionCounter \in Nat
    BY DEF RInv, CInv
  <2>2. /\ "pc" \in DOMAIN reader'[r] /\ reader'[r].pc = reader[r].pc
        /\ DOMAIN reader'[r] = DOMAIN reader[r]
        /\ ReadsQuote(r) => reader'[r].initVersion = reader[r].initVersion
    BY <2>1 DEF QuoteInv
  <2>3. ReadsQuote(r) => ~QuoteIsStable(reader[r].initVersion, versionCounter')
    BY <2>1 DEF QuoteInv, QuoteIsStable
  <2>4. ReadsQuote(r)' = ReadsQuote(r)
    BY <2>2 DEF ReadsQuote
  <2>5. ReadsQuote(r) => /\ reader[r].initVersion \in Nat
                         /\ reader[r].initVersion <= versionCounter'
    BY <2>1 DEF QuoteInv
  <2> QED BY <2>1, <2>2, <2>3, <2>4, <2>5 DEF QuoteInv
<1> QED BY <1>1 DEF RInv

LEMMA OpenSeen ==
  ASSUME RInv, CInv', NEW w \in Writers, OpenOrder(w)
  PROVE  RInv'
<1>1. /\ writer'[w].pc = "store" /\ versionCounter' = versionCounter + 1
      /\ versionCounter \in Nat /\ writer[w].pc = "open"
  BY DEF RInv, CInv, OpenOrder
<1>2. versionCounter % 2 = 0
  BY <1>1, OpenFindsSettled DEF RInv, ParityInv
<1>3. ParityInv'
  <2>1. versionCounter' % 2 # 0
    BY <1>1, <1>2
  <2> QED BY <1>1, <2>1 DEF ParityInv, Stores
<1>4. PICK b : BecomesPossible(b)
  BY DEF OpenOrder
<1>5. \A r \in Readers : \/ reader'[r] = reader[r]
                         \/ \E answers : reader'[r] = [reader[r] EXCEPT !.possible = answers]
  <2> SUFFICES ASSUME NEW r \in Readers, reader'[r] # reader[r]
               PROVE  \E answers : reader'[r] = [reader[r] EXCEPT !.possible = answers]
    OBVIOUS
  <2> DEFINE answers == reader[r].possible \cup {AnswerOf(reader[r], b)}
  <2>1. reader'[r] = [reader[r] EXCEPT !.possible = answers]
    BY <1>4 DEF BecomesPossible
  <2> QED BY <2>1
<1>6. reader' = [r \in Readers |-> reader'[r]]
  BY <1>4 DEF BecomesPossible
<1> QED BY <1>1, <1>3, <1>5, <1>6, VersionMoves

LEMMA CloseSeen ==
  ASSUME RInv, CInv', NEW w \in Writers, Close(w)
  PROVE  RInv'
<1>1. /\ Stores(w) /\ versionCounter' = versionCounter + 1 /\ versionCounter \in Nat
      /\ writer'[w].pc = "unlock" /\ UNCHANGED reader
      /\ \A v \in Writers : v # w => writer'[v] = writer[v]
  BY DEF RInv, CInv, Close
<1>2. \A v \in Writers : ~Stores(v)'
  BY <1>1 DEF RInv, CInv, OneWriter, InsideLock, Stores
<1>3. versionCounter' % 2 = 0
  <2>1. versionCounter % 2 # 0
    BY <1>1 DEF RInv, ParityInv
  <2> QED BY <1>1, <2>1
<1>4. ParityInv'
  BY <1>2, <1>3 DEF ParityInv
<1>5. reader' = [r \in Readers |-> reader'[r]]
  BY <1>1 DEF RInv
<1> QED BY <1>1, <1>4, <1>5, VersionMoves

\* A query begins: at an even version nobody stores, so that what memory holds
\* counts.
LEMMA BeginQuoteSeen ==
  ASSUME RInv, NEW r \in Readers, BeginQuote(r), CInv'
  PROVE  RInv'
<1> DEFINE answers == {QuoteOf(b) : b \in Books}
           local   == [pc |-> "bestBid", op |-> "bestBidAsk", initVersion |-> versionCounter,
                       bestBid |-> Core!None, bestOffer |-> Core!None, possible |-> answers]
<1>1. /\ reader' = [reader EXCEPT ![r] = local]
      /\ UNCHANGED <<memory, versionCounter, writer>>
  BY DEF BeginQuote, Becomes
<1>2. versionCounter % 2 = 0 => QuoteOf(memory) \in answers
  <2> SUFFICES ASSUME versionCounter % 2 = 0 PROVE QuoteOf(memory) \in answers
    OBVIOUS
  <2>1. Settled = memory
    BY SettledBetweenStores DEF RInv, ParityInv
  <2> QED BY <2>1 DEF Books
<1> HIDE DEF answers
<1>3. /\ reader'[r] = local /\ \A q \in Readers : q # r => reader'[q] = reader[q]
      /\ reader' = [q \in Readers |-> reader'[q]] /\ versionCounter \in Nat
  BY <1>1 DEF RInv, CInv
<1>4. QuoteInv(r)'
  BY <1>1, <1>2, <1>3 DEF QuoteInv, ReadsQuote, QuoteIsStable, QuoteOf
<1>5. ASSUME NEW q \in Readers, q # r PROVE QuoteInv(q)'
  BY <1>1, <1>3, <1>5 DEF RInv, QuoteInv, ReadsQuote, QuoteOf
<1>6. ParityInv'
  BY <1>1 DEF RInv, ParityInv, Stores
<1> QED BY <1>3, <1>4, <1>5, <1>6 DEF RInv

LEMMA QuerySeen ==
  ASSUME RInv, NEW r \in Readers, CInv',
         Query(r) \/ \E price \in Prices : BeginVolume(r, price)
  PROVE  RInv'
<1>1. /\ UNCHANGED <<memory, versionCounter, writer>>
      /\ \A q \in Readers : q # r => reader'[q] = reader[q]
      /\ reader' = [q \in Readers |-> reader'[q]]
  BY DEF RInv, Query, BeginVolume, ReadBestBid, ReadBestOffer, RetryQuote, ReturnQuote,
         ReadVersion, ReadBasePrice, ReadIndex, ReadVolume, RetryVolume, ReturnVolume, Becomes
<1>2. QuoteInv(r) /\ reader = [q \in Readers |-> reader[q]]
  BY DEF RInv
<1>3. ASSUME ReadBestBid(r) PROVE QuoteInv(r)'
  <2>1. reader'[r] = [reader[r] EXCEPT !.pc = "bestOffer", !.bestBid = memory.bestBid]
        /\ reader[r].pc = "bestBid"
    BY <1>2, <1>3 DEF ReadBestBid, Becomes
  <2> QED BY <1>1, <1>2, <2>1 DEF QuoteInv, ReadsQuote, QuoteOf
<1>4. ASSUME ReadBestOffer(r) PROVE QuoteInv(r)'
  <2>1. reader'[r] = [reader[r] EXCEPT !.pc = "checkQuote", !.bestOffer = memory.bestOffer]
        /\ reader[r].pc = "bestOffer"
    BY <1>2, <1>4 DEF ReadBestOffer, Becomes
  <2> QED BY <1>1, <1>2, <2>1 DEF QuoteInv, ReadsQuote, QuoteOf
<1>5. ASSUME RetryQuote(r) PROVE QuoteInv(r)'
  <2>1. reader'[r] = [reader[r] EXCEPT !.pc = "bestBid"] /\ reader[r].pc = "checkQuote"
    BY <1>2, <1>5 DEF RetryQuote, Becomes
  <2> QED BY <1>1, <1>2, <2>1 DEF QuoteInv, ReadsQuote, QuoteOf
<1>6. ASSUME ~ReadBestBid(r), ~ReadBestOffer(r), ~RetryQuote(r)
      PROVE  "pc" \in DOMAIN reader'[r] /\ ~ReadsQuote(r)'
  <2>1. "pc" \in DOMAIN reader[r]
    BY <1>2 DEF QuoteInv
  <2>2. CASE ReturnQuote(r) \/ ReturnVolume(r)
    BY <1>2, <2>2 DEF ReturnQuote, ReturnVolume, Becomes, Idle, ReadsQuote
  <2>3. CASE ReadVersion(r) \/ ReadBasePrice(r) \/ ReadIndex(r)
    BY <1>2, <2>1, <2>3 DEF ReadVersion, ReadBasePrice, ReadIndex, Becomes, ReadsQuote
  <2>4. CASE ReadVolume(r) \/ RetryVolume(r)
    BY <1>2, <2>1, <2>4, ZenonT(40) DEF ReadVolume, RetryVolume, Becomes, ReadsQuote
  <2>5. CASE \E price \in Prices : BeginVolume(r, price)
    BY <1>2, <2>5 DEF BeginVolume, Becomes, ReadsQuote
  <2> QED BY <1>6, <2>2, <2>3, <2>4, <2>5 DEF Query
<1>7. QuoteInv(r)'
  BY <1>3, <1>4, <1>5, <1>6 DEF QuoteInv
<1>8. ASSUME NEW q \in Readers, q # r PROVE QuoteInv(q)'
  BY <1>1, <1>8 DEF RInv, QuoteInv, ReadsQuote, QuoteOf
<1>9. ParityInv'
  BY <1>1 DEF RInv, ParityInv, Stores
<1> QED BY <1>1, <1>7, <1>8, <1>9 DEF RInv

LEMMA ReadersInitHold == Init => RInv
<1> SUFFICES ASSUME Init PROVE RInv
  OBVIOUS
<1>1. \A r \in Readers : QuoteInv(r)
  BY DEF Init, Idle, QuoteInv, ReadsQuote
<1>2. ParityInv
  BY DEF Init, ParityInv, Stores, Waiting
<1> QED BY <1>1, <1>2, InitHolds DEF Init, RInv

LEMMA ReadersNextKeeps ==
  ASSUME Shifters = {}, RInv, [Next]_vars
  PROVE  RInv'
<1>1. CInv /\ CInv'
  BY StepOrClose DEF RInv
<1>2. ASSUME NEW w \in Writers, BeginCall(w) \/ Lock(w) \/ Unlock(w) PROVE RInv'
  <2>1. UNCHANGED <<memory, versionCounter, reader>>
    BY <1>2 DEF BeginCall, Lock, Unlock
  <2>2. \A v \in Writers : Stores(v)' = Stores(v)
    BY <1>1, <1>2, BeginCallKeeps, LockKeeps, UnlockKeeps
  <2> QED BY <1>1, <2>1, <2>2, StoresUnseen
<1>3. ASSUME NEW w \in Writers, StorePrice(w) \/ StoreVolume(w) PROVE RInv'
  <2>1. Stores(w) /\ UNCHANGED <<versionCounter, writer, reader>>
    BY <1>3 DEF StorePrice, StoreVolume
  <2>2. \A v \in Writers : Stores(v)' = Stores(v)
    BY <2>1 DEF Stores
  <2> QED BY <1>1, <2>1, <2>2, StoresUnseen
<1>4. ASSUME NEW w \in Writers PROVE ~OpenShift(w)
  <2> SUFFICES ASSUME OpenShift(w) PROVE FALSE
    OBVIOUS
  <2>1. writer[w].request \in Requests(w) /\ writer[w].request.op = "shift"
    BY <1>1 DEF CInv, WriterInv, OpenShift
  <2> QED BY <2>1, ShiftRequests
<1>5. ASSUME NEW w \in Writers, BeginCall(w) \/ Write(w) PROVE RInv'
  BY <1>1, <1>2, <1>3, <1>4, <1>5, OpenSeen, CloseSeen DEF Write
<1>6. ASSUME NEW r \in Readers,
             BeginQuote(r) \/ Query(r) \/ \E price \in Prices : BeginVolume(r, price)
      PROVE  RInv'
  BY <1>1, <1>6, BeginQuoteSeen, QuerySeen
<1>7. CASE UNCHANGED vars
  <2>1. UNCHANGED <<memory, versionCounter, reader, writer>>
    BY <1>7 DEF vars
  <2>2. \A v \in Writers : Stores(v)' = Stores(v)
    BY <2>1 DEF Stores
  <2> QED BY <1>1, <2>1, <2>2, StoresUnseen
<1> QED BY <1>5, <1>6, <1>7 DEF Next, Finished

\* While nobody shifts, bestBidAsk returns a best bid and a best offer that the
\* book had together, however many threads process orders meanwhile.
THEOREM QuotesAreWhole ==
  ASSUME Shifters = {}
  PROVE  Spec => QuoteNotTorn
<1> DEFINE Whole ==
      \A r \in Readers : Returns(r, "checkQuote") =>
          <<reader[r].bestBid, reader[r].bestOffer>> \in reader[r].possible
<1>1. RInv /\ [Next]_vars => [Whole]_vars
  <2> SUFFICES ASSUME RInv, Next, NEW r \in Readers, Returns(r, "checkQuote")
               PROVE  <<reader[r].bestBid, reader[r].bestOffer>> \in reader[r].possible
    OBVIOUS
  <2>1. reader[r].pc = "checkQuote" /\ reader'[r].pc = "idle" /\ QuoteInv(r)
        /\ reader = [q \in Readers |-> reader[q]]
    BY DEF Returns, RInv
  <2>2. ReturnQuote(r)
    <3>1. ASSUME NEW w \in Writers, BeginCall(w) \/ Write(w) PROVE FALSE
      <4>1. reader' # reader
        BY <2>1
      <4>2. PICK b : BecomesPossible(b)
        BY <3>1, <4>1 DEF BeginCall, Write, Lock, OpenOrder, OpenShift, StorePrice, StoreVolume,
                          Close, Unlock
      <4>3. reader'[r].pc = reader[r].pc
        BY <2>1, <4>2 DEF BecomesPossible, QuoteInv
      <4> QED BY <2>1, <4>3
    <3>2. PICK q \in Readers :
             BeginQuote(q) \/ Query(q) \/ \E price \in Prices : BeginVolume(q, price)
      BY <2>1, <3>1 DEF Next, Finished, vars
    <3>3. q = r
      BY <2>1, <3>2 DEF Query, BeginQuote, BeginVolume, ReadBestBid, ReadBestOffer, RetryQuote,
            ReturnQuote, ReadVersion, ReadBasePrice, ReadIndex, ReadVolume, RetryVolume, ReturnVolume, Becomes
    <3>4. ReturnQuote(r) \/ RetryQuote(r)
      BY <2>1, <3>2, <3>3 DEF Query, BeginQuote, BeginVolume, ReadBestBid, ReadBestOffer,
            ReadVersion, ReadBasePrice, ReadIndex, ReadVolume, RetryVolume, ReturnVolume
    <3>5. ~RetryQuote(r)
      BY <2>1 DEF RetryQuote, Becomes, QuoteInv
    <3> QED BY <3>4, <3>5
  <2>3. QuoteIsStable(reader[r].initVersion, versionCounter)
    BY <2>2 DEF ReturnQuote
  <2>4. /\ QuoteOf(memory) \in reader[r].possible
        /\ reader[r].bestBid = memory.bestBid /\ reader[r].bestOffer = memory.bestOffer
    BY <2>1, <2>3 DEF QuoteInv, ReadsQuote
  <2> QED BY <2>4 DEF QuoteOf
<1>2. RInv /\ [Next]_vars => RInv'
  BY ReadersNextKeeps
<1> QED BY <1>1, <1>2, ReadersInitHold, PTL DEF Spec, QuoteNotTorn

=============================================================================
