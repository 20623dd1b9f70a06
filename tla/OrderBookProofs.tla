-------------------------- MODULE OrderBookProofs --------------------------
(***************************************************************************)
(* Proofs about the order book, for every book length, price width, bound on *)
(* volume, and set of prices, volumes and shifts that clients may name.      *)
(*                                                                         *)
(* The invariant is Coherent: the data members are typed, every price of the *)
(* window fits a std::int32_t, the stats are exact and the book is not        *)
(* crossed.  The conjuncts need each other: the sweep of runThroughBook      *)
(* fills an order only if every bucket it passes faces it, which follows     *)
(* from the stats being exact and the book not being crossed, and looking a   *)
(* stat up again is right only if no volume of the other side lies in        *)
(* between.  The proof goes from findLiquidBucket over the loop of           *)
(* runThroughBook and the three handlers to processOrder and shiftBook.      *)
(***************************************************************************)
EXTENDS OrderBookProperties, IntegerLemmas

USE BookLengthAssumption, IntMaxAssumption DEF None, UIntMax

-----------------------------------------------------------------------------
(* findLiquidBucket.                                                        *)

\* A price fits both 32-bit types, so converting it does nothing.
LEMMA WindowIsSigned ==
  ASSUME NEW b \in Books, SignedPrices(b.basePrice), NEW p \in Window(b)
  PROVE  /\ p \in 0..IntMax
         /\ Int32(p) = p
         /\ p - b.basePrice \in Span
         /\ VolumeAt(b, p) \in Int
BY DEF Books, SignedPrices, Window, Int32, Span, Cells, VolumeAt

\* Upwards, findLiquidBucket returns the lowest price with volume.
LEMMA FindUpwards ==
  ASSUME NEW b \in Books, SignedPrices(b.basePrice),
         NEW s \in Window(b), NEW e \in Window(b), s <= e
  PROVE  LET r == FindLiquidBucket(b, s, e)
         IN  \/ r = None /\ \A p \in s..e : VolumeAt(b, p) = 0
             \/ /\ r \in s..e /\ r # None /\ VolumeAt(b, r) # 0
                /\ \A p \in s..e : VolumeAt(b, p) # 0 => r <= p
<1> DEFINE liquid == {p \in (s..e) \cup (e..s) : VolumeAt(b, p) # 0}
<1>1. Int32(e) = e /\ e >= 0 /\ s >= 0 /\ s \in Int /\ e \in Int
  BY WindowIsSigned
<1>2. FindLiquidBucket(b, s, e) = CASE liquid = {} -> None
          [] liquid # {} /\ s <= e -> Min(liquid)
          [] OTHER -> Max(liquid)
  BY <1>1 DEF FindLiquidBucket
<1>3. CASE liquid = {}
  BY <1>2, <1>3
<1>4. CASE liquid # {}
  <2>1. FindLiquidBucket(b, s, e) = Min(liquid)
    BY <1>2, <1>4
  <2>2. liquid \in SUBSET Int /\ \A x \in liquid : s <= x
    BY <1>1
  <2>3. Min(liquid) \in liquid /\ \A y \in liquid : Min(liquid) <= y
    BY <1>1, <1>4, <2>2, MinOfBounded
  <2> QED BY <1>1, <2>1, <2>3
<1> QED BY <1>3, <1>4

\* Downwards, the highest.
LEMMA FindDownwards ==
  ASSUME NEW b \in Books, SignedPrices(b.basePrice),
         NEW s \in Window(b), NEW e \in Window(b), e <= s
  PROVE  LET r == FindLiquidBucket(b, s, e)
         IN  \/ r = None /\ \A p \in e..s : VolumeAt(b, p) = 0
             \/ /\ r \in e..s /\ r # None /\ VolumeAt(b, r) # 0
                /\ \A p \in e..s : VolumeAt(b, p) # 0 => p <= r
<1> DEFINE liquid == {p \in (s..e) \cup (e..s) : VolumeAt(b, p) # 0}
<1>1. Int32(e) = e /\ e >= 0 /\ s >= 0 /\ s \in Int /\ e \in Int
  BY WindowIsSigned
<1>2. FindLiquidBucket(b, s, e) = CASE liquid = {} -> None
          [] liquid # {} /\ s <= e -> Min(liquid)
          [] OTHER -> Max(liquid)
  BY <1>1 DEF FindLiquidBucket
<1>3. CASE liquid = {}
  BY <1>2, <1>3
<1>4. CASE liquid # {}
  <2>1. liquid \in SUBSET Int /\ \A x \in liquid : x <= s /\ e <= x
    BY <1>1
  <2>2. Max(liquid) \in liquid /\ \A y \in liquid : y <= Max(liquid)
    BY <1>1, <1>4, <2>1, MaxOfBounded
  <2>3. CASE e < s
    <3>1. FindLiquidBucket(b, s, e) = Max(liquid)
      BY <1>1, <1>2, <1>4, <2>3
    <3> QED BY <1>1, <2>2, <3>1
  <2>4. CASE e = s
    <3> DEFINE r == FindLiquidBucket(b, s, e)
    <3>1. \/ r = None /\ \A p \in s..e : VolumeAt(b, p) = 0
          \/ r \in s..e /\ r # None /\ VolumeAt(b, r) # 0
      BY <1>1, <2>4, FindUpwards
    <3>2. e..s = s..e /\ \A p \in e..s : p = s
      BY <1>1, <2>4
    <3>3. r \in s..e => \A p \in e..s : p <= r
      BY <1>1, <3>2
    <3> QED BY <3>1, <3>2, <3>3
  <2> QED BY <1>1, <2>3, <2>4
<1> QED BY <1>3, <1>4

\* Without an end price only the start is looked at.
LEMMA FindHere ==
  ASSUME NEW b \in Books, SignedPrices(b.basePrice), NEW s \in Window(b)
  PROVE  FindLiquidBucket(b, s, None) = IF VolumeAt(b, s) # 0 THEN s ELSE None
<1>1. FindLiquidBucket(b, s, None) = FindLiquidBucket(b, s, s)
  <2>1. Int32(s) >= 0 /\ ~(Int32(None) >= 0)
    BY WindowIsSigned DEF Int32
  <2> QED BY <2>1 DEF FindLiquidBucket
<1>2. s \in 0..IntMax
  BY WindowIsSigned
<1> QED BY <1>1, <1>2, FindUpwards

-----------------------------------------------------------------------------
(* The loop of runThroughBook.                                              *)

\* The recursive function is defined: it satisfies its own equation.
LEMMA SweepDefined ==
  ASSUME NEW mem, NEW base, NEW open, NEW start, NEW inc, NEW n \in Nat
  PROVE  LET run == Sweep(mem, base, open, start, inc, n)
         IN  run = [k \in 0..n |->
                      IF k = 0 THEN SweepStart(mem, open)
                      ELSE SweepStep(run[k - 1], start + inc * (k - 1), base)]
<1> DEFINE Def(g, k) == IF k = 0 THEN SweepStart(mem, open)
                        ELSE SweepStep(g[k - 1], start + inc * (k - 1), base)
           Prefixes == {m \in Nat : \E g : g = [k \in 0..m |-> Def(g, k)]}
<1>1. 0 \in Prefixes
  <2> DEFINE g == [k \in 0..0 |-> SweepStart(mem, open)]
  <2>1. g = [k \in 0..0 |-> Def(g, k)]
    OBVIOUS
  <2> QED BY <2>1
<1>2. ASSUME NEW m \in Prefixes PROVE m + 1 \in Prefixes
  <2>1. PICK g : g = [k \in 0..m |-> Def(g, k)]
    OBVIOUS
  <2> DEFINE h == [k \in 0..(m + 1) |->
                     IF k = m + 1
                     THEN SweepStep(g[m], start + inc * m, base) ELSE g[k]]
  <2>2. ASSUME NEW k \in 0..(m + 1) PROVE h[k] = Def(h, k)
    <3>1. CASE k = m + 1
      BY <3>1
    <3>2. CASE k \in 0..m
      BY <2>1, <3>2
    <3> QED BY <3>1, <3>2
  <2>3. h = [k \in 0..(m + 1) |-> Def(h, k)]
    BY <2>2
  <2>4. \E g2 : g2 = [k \in 0..(m + 1) |-> Def(g2, k)]
    <3> HIDE DEF h
    <3> QED BY <2>3
  <2> QED BY <2>4
<1>3. Prefixes = Nat
  <2> HIDE DEF Prefixes
  <2>1. Prefixes \in SUBSET Nat
    BY DEF Prefixes
  <2> QED BY <1>1, <1>2, <2>1, NatSetInduction
<1>4. \E g : g = [k \in 0..n |-> Def(g, k)]
  BY <1>3
<1> QED BY <1>4 DEF Sweep

\* x is y or has shrunk from y towards 0.
Toward(x, y) == (0 <= x /\ x <= y) \/ (y <= x /\ x <= 0)

\* Volume c can only be what an order with open volume o trades against.
Faces(o, c) == (o < 0 /\ c >= 0) \/ (o > 0 /\ c <= 0)

\* A bucket facing an order: both shrink by what is filled, and the order
\* stays open only if the bucket is empty.
LEMMA ConsumeFacing ==
  ASSUME NEW o \in Int, NEW c \in Int, Faces(o, c)
  PROVE  LET f == ConsumeLiquidity(c, -o)
         IN  /\ f \in Int
             /\ Toward(c - f, c) /\ Toward(o + f, o)
             /\ o + f # 0 => c - f = 0
BY DEF Faces, Toward, ConsumeLiquidity, LiquidityMatch, SufficientLiquidity, IsNegative

\* The run after the buckets idx[0..k-1]: untouched buckets are as they were,
\* an order still open has emptied every bucket behind it, a bucket that lost
\* volume has only empty ones behind it, and transactionIndex is the last of
\* those that lost volume.
Swept(run, mem, open, idx, k) ==
    /\ run.memSpan \in [Cells -> Int]
    /\ run.openVol \in Int /\ Toward(run.openVol, open)
    /\ run.orderRevenue \in Int
    /\ run.transactionIndex \in Span
    /\ \A i \in Cells : Toward(run.memSpan[i], mem[i])
    /\ \A i \in Cells : (\A j \in 0..(k - 1) : idx[j] # i) => run.memSpan[i] = mem[i]
    /\ run.openVol # 0 => \A j \in 0..(k - 1) : run.memSpan[idx[j]] = 0
    /\ \A j1, j2 \in 0..(k - 1) :
          j1 < j2 /\ run.memSpan[idx[j2]] # mem[idx[j2]] => run.memSpan[idx[j1]] = 0
    /\ \A j \in 0..(k - 1) : run.memSpan[idx[j]] # mem[idx[j]] =>
          \E t \in j..(k - 1) : /\ run.transactionIndex = idx[t]
                                /\ run.memSpan[idx[t]] # mem[idx[t]]

LEMMA SweepStepKeeps ==
  ASSUME NEW mem \in [Cells -> Int], NEW open \in Int, NEW base \in Int,
         NEW n \in Nat, NEW idx \in [0..(n - 1) -> Span],
         \A j1, j2 \in 0..(n - 1) : j1 # j2 => idx[j1] # idx[j2],
         \A j \in 0..(n - 1) : Faces(open, mem[idx[j]]),
         NEW k \in 0..(n - 1), NEW run, Swept(run, mem, open, idx, k)
  PROVE  Swept(SweepStep(run, idx[k], base), mem, open, idx, k + 1)
<1> DEFINE i   == idx[k]
           f   == ConsumeLiquidity(run.memSpan[i], -run.openVol)
           new == SweepStep(run, i, base)
<1>1. i \in Span /\ i \in Cells /\ i \in Int /\ i >= 0
  BY DEF Span, Cells
<1>2. run.memSpan[i] = mem[i] /\ mem[i] \in Int
  <2>1. \A j \in 0..(k - 1) : idx[j] # i
    OBVIOUS
  <2> QED BY <1>1, <2>1 DEF Swept
<1>3. CASE run.openVol = 0
  <2>1. new = run
    BY <1>3 DEF SweepStep
  <2>2. \A j \in 0..k : j \in 0..(k - 1) \/ j = k
    OBVIOUS
  <2>3. \A j1, j2 \in 0..k :
          j1 < j2 /\ run.memSpan[idx[j2]] # mem[idx[j2]] => run.memSpan[idx[j1]] = 0
    BY <1>2, <2>2 DEF Swept
  <2>4. \A j \in 0..k : run.memSpan[idx[j]] # mem[idx[j]] =>
          \E t \in j..k : /\ run.transactionIndex = idx[t]
                          /\ run.memSpan[idx[t]] # mem[idx[t]]
    <3> SUFFICES ASSUME NEW j \in 0..k, run.memSpan[idx[j]] # mem[idx[j]]
                 PROVE  \E t \in j..k : /\ run.transactionIndex = idx[t]
                                        /\ run.memSpan[idx[t]] # mem[idx[t]]
      OBVIOUS
    <3>1. j \in 0..(k - 1)
      BY <1>2, <2>2
    <3>2. PICK t \in j..(k - 1) : /\ run.transactionIndex = idx[t]
                                  /\ run.memSpan[idx[t]] # mem[idx[t]]
      BY <3>1 DEF Swept
    <3>3. t \in j..k
      BY <3>1
    <3> QED BY <3>2, <3>3
  <2>5. (k + 1) - 1 = k
    OBVIOUS
  <2>6. Swept(run, mem, open, idx, k + 1)
    BY <1>3, <2>2, <2>3, <2>4, <2>5 DEF Swept
  <2> QED BY <2>1, <2>6
<1>4. CASE run.openVol # 0
  <2>1. Faces(run.openVol, run.memSpan[i]) /\ run.openVol \in Int
    BY <1>2, <1>4 DEF Swept, Toward, Faces
  <2>2. /\ f \in Int
        /\ Toward(run.memSpan[i] - f, run.memSpan[i])
        /\ Toward(run.openVol + f, run.openVol)
        /\ run.openVol + f # 0 => run.memSpan[i] - f = 0
    BY <1>2, <2>1, ConsumeFacing
  <2>3. new = [memSpan |-> [run.memSpan EXCEPT ![i] = @ - f],
               openVol |-> run.openVol + f,
               orderRevenue |-> run.orderRevenue - f * (i + base),
               transactionIndex |-> IF f # 0 THEN i ELSE run.transactionIndex]
    BY <1>1, <1>4 DEF SweepStep, FillFromBucket
  <2> HIDE DEF f, new
  <2>4. /\ new.memSpan \in [Cells -> Int]
        /\ new.openVol \in Int /\ Toward(new.openVol, open)
        /\ new.orderRevenue \in Int
        /\ new.transactionIndex \in Span
    <3>1. f * (i + base) \in Int
      BY <1>1, <2>2
    <3>2. new.memSpan \in [Cells -> Int]
      BY <1>1, <2>2, <2>3 DEF Swept
    <3>3. new.openVol \in Int /\ Toward(new.openVol, open)
      BY <2>1, <2>2, <2>3 DEF Swept, Toward
    <3>4. new.orderRevenue \in Int
      BY <2>3, <3>1 DEF Swept
    <3>5. new.transactionIndex \in Span
      BY <1>1, <2>3 DEF Swept
    <3> QED BY <3>2, <3>3, <3>4, <3>5
  <2>5. /\ new.memSpan[i] = mem[i] - f
        /\ \A c \in Cells : c # i => new.memSpan[c] = run.memSpan[c]
    BY <1>1, <1>2, <2>3 DEF Swept
  <2>6. \A c \in Cells : Toward(new.memSpan[c], mem[c])
    <3>1. Toward(new.memSpan[i], mem[i])
      BY <1>2, <2>2, <2>5
    <3>2. \A c \in Cells : Toward(run.memSpan[c], mem[c])
      BY DEF Swept
    <3> QED BY <2>5, <3>1, <3>2
  <2>7. \A c \in Cells : (\A j \in 0..k : idx[j] # c) => new.memSpan[c] = mem[c]
    <3> SUFFICES ASSUME NEW c \in Cells, \A j \in 0..k : idx[j] # c
                 PROVE  new.memSpan[c] = mem[c]
      OBVIOUS
    <3>1. c # i /\ \A j \in 0..(k - 1) : idx[j] # c
      OBVIOUS
    <3> QED BY <2>5, <3>1 DEF Swept
  <2>8. \A j \in 0..(k - 1) : idx[j] # i /\ idx[j] \in Cells /\ new.memSpan[idx[j]] = 0
    <3>1. \A j \in 0..(k - 1) : idx[j] # i /\ idx[j] \in Cells
      BY DEF Span, Cells
    <3> QED BY <1>4, <2>5, <3>1 DEF Swept
  <2>9. new.openVol # 0 => \A j \in 0..k : new.memSpan[idx[j]] = 0
    <3>1. new.openVol # 0 => new.memSpan[i] = 0
      BY <1>2, <2>2, <2>3, <2>5
    <3>2. \A j \in 0..k : j \in 0..(k - 1) \/ j = k
      OBVIOUS
    <3> QED BY <2>8, <3>1, <3>2
  <2>10. \A j1, j2 \in 0..k :
           j1 < j2 /\ new.memSpan[idx[j2]] # mem[idx[j2]] => new.memSpan[idx[j1]] = 0
    <3>1. \A j1, j2 \in 0..k : j1 < j2 => j1 \in 0..(k - 1)
      OBVIOUS
    <3> QED BY <2>8, <3>1
  <2>11. \A j \in 0..k : new.memSpan[idx[j]] # mem[idx[j]] =>
           \E t \in j..k : /\ new.transactionIndex = idx[t]
                           /\ new.memSpan[idx[t]] # mem[idx[t]]
    <3> SUFFICES ASSUME NEW j \in 0..k, new.memSpan[idx[j]] # mem[idx[j]]
                 PROVE  \E t \in j..k : /\ new.transactionIndex = idx[t]
                                        /\ new.memSpan[idx[t]] # mem[idx[t]]
      OBVIOUS
    <3>1. CASE f # 0
      <4>1. new.transactionIndex = idx[k] /\ new.memSpan[idx[k]] # mem[idx[k]]
        BY <1>2, <2>2, <2>3, <2>5, <3>1
      <4>2. k \in j..k
        OBVIOUS
      <4> HIDE DEF i
      <4> QED BY <4>1, <4>2
    <3>2. CASE f = 0
      <4>1. new.transactionIndex = run.transactionIndex /\ new.memSpan[i] = mem[i]
        BY <1>2, <2>3, <2>5, <3>2
      <4>2. j \in 0..(k - 1)
        <5>1. j # k
          BY <4>1
        <5> QED BY <5>1
      <4>3. \A t \in 0..(k - 1) : new.memSpan[idx[t]] = run.memSpan[idx[t]]
        BY <2>5, <2>8
      <4>4. PICK t \in j..(k - 1) : /\ run.transactionIndex = idx[t]
                                    /\ run.memSpan[idx[t]] # mem[idx[t]]
        BY <4>2, <4>3 DEF Swept
      <4>5. t \in j..k /\ t \in 0..(k - 1)
        BY <4>2
      <4> QED BY <4>1, <4>3, <4>4, <4>5
    <3> QED BY <3>1, <3>2
  <2>12. (k + 1) - 1 = k
    OBVIOUS
  <2>13. Swept(new, mem, open, idx, k + 1)
    BY <2>4, <2>6, <2>7, <2>9, <2>10, <2>11, <2>12 DEF Swept
  <2> QED BY <2>13 DEF new
<1> QED BY <1>3, <1>4

\* The whole loop, over buckets that all face the order.
LEMMA SweepKeeps ==
  ASSUME NEW mem \in [Cells -> Int], NEW open \in Int, NEW base \in Int,
         NEW start \in Int, NEW inc \in Int, NEW n \in Nat,
         NEW idx \in [0..(n - 1) -> Span],
         \A j \in 0..(n - 1) : idx[j] = start + inc * j,
         \A j1, j2 \in 0..(n - 1) : j1 # j2 => idx[j1] # idx[j2],
         \A j \in 0..(n - 1) : Faces(open, mem[idx[j]])
  PROVE  Swept(Sweep(mem, base, open, start, inc, n)[n], mem, open, idx, n)
<1> DEFINE run  == Sweep(mem, base, open, start, inc, n)
           Done == {k \in Nat : k <= n => Swept(run[k], mem, open, idx, k)}
<1>1. /\ run[0] = SweepStart(mem, open)
      /\ \A k \in 0..(n - 1) : run[k + 1] = SweepStep(run[k], idx[k], base)
  <2>1. run = [k \in 0..n |-> IF k = 0 THEN SweepStart(mem, open)
                 ELSE SweepStep(run[k - 1], start + inc * (k - 1), base)]
    BY SweepDefined
  <2> HIDE DEF run
  <2>2. \A k \in 0..(n - 1) : k + 1 \in 0..n /\ (k + 1) - 1 = k /\ k + 1 # 0
    OBVIOUS
  <2> QED BY <2>1, <2>2
<1> HIDE DEF run
<1>2. 0 \in Done
  <2>1. \A i \in Cells : mem[i] \in Int /\ Toward(mem[i], mem[i])
    BY DEF Toward
  <2>2. Toward(open, open) /\ 0 \in Span
    BY DEF Toward, Span
  <2>3. Swept(SweepStart(mem, open), mem, open, idx, 0)
    BY <2>1, <2>2 DEF Swept, SweepStart
  <2> QED BY <1>1, <2>3
<1>3. ASSUME NEW k \in Done PROVE k + 1 \in Done
  <2>1. CASE k + 1 <= n
    <3>1. k \in 0..(n - 1) /\ Swept(run[k], mem, open, idx, k)
      BY <2>1
    <3>2. Swept(SweepStep(run[k], idx[k], base), mem, open, idx, k + 1)
      BY <3>1, SweepStepKeeps
    <3> QED BY <1>1, <3>1, <3>2
  <2>2. CASE ~(k + 1 <= n)
    BY <2>2
  <2> QED BY <2>1, <2>2
<1>4. Done = Nat
  <2>1. Done \in SUBSET Nat
    OBVIOUS
  <2> HIDE DEF Done
  <2> QED BY <1>2, <1>3, <2>1, NatSetInduction
<1>5. n \in Done
  BY <1>4
<1> QED BY <1>5 DEF run

-----------------------------------------------------------------------------
(* runThroughBook on a coherent book.                                       *)

\* What every call is given and has to leave: the inductive invariant, on one
\* book.
Coherent(b) ==
    /\ b \in Books
    /\ SignedPrices(b.basePrice)
    /\ ExactStats(b)
    /\ NotCrossed(b)

\* The stats of a coherent book, price by price.
LEMMA CoherentBids ==
  ASSUME NEW b, Coherent(b)
  PROVE  /\ b.bestBid = None <=> b.lowestBid = None
         /\ b.bestBid # None =>
              /\ b.bestBid \in Window(b) /\ b.lowestBid \in Window(b)
              /\ VolumeAt(b, b.bestBid) < 0 /\ VolumeAt(b, b.lowestBid) < 0
              /\ b.lowestBid <= b.bestBid
              /\ \A p \in Window(b) : VolumeAt(b, p) < 0 =>
                                       b.lowestBid <= p /\ p <= b.bestBid
         /\ b.bestBid = None => \A p \in Window(b) : VolumeAt(b, p) >= 0
<1>1. \A p \in Window(b) : VolumeAt(b, p) \in Int
  BY WindowIsSigned DEF Coherent
<1>2. AreExtremes(b.lowestBid, b.bestBid, Bids(b))
  BY DEF Coherent, ExactStats
<1> QED BY <1>1, <1>2 DEF AreExtremes, Bids

LEMMA CoherentOffers ==
  ASSUME NEW b, Coherent(b)
  PROVE  /\ b.bestOffer = None <=> b.highestOffer = None
         /\ b.bestOffer # None =>
              /\ b.bestOffer \in Window(b) /\ b.highestOffer \in Window(b)
              /\ VolumeAt(b, b.bestOffer) > 0 /\ VolumeAt(b, b.highestOffer) > 0
              /\ b.bestOffer <= b.highestOffer
              /\ \A p \in Window(b) : VolumeAt(b, p) > 0 =>
                                       b.bestOffer <= p /\ p <= b.highestOffer
         /\ b.bestOffer = None => \A p \in Window(b) : VolumeAt(b, p) <= 0
<1>1. \A p \in Window(b) : VolumeAt(b, p) \in Int
  BY WindowIsSigned DEF Coherent
<1>2. AreExtremes(b.bestOffer, b.highestOffer, Offers(b))
  BY DEF Coherent, ExactStats
<1> QED BY <1>1, <1>2 DEF AreExtremes, Offers

NoResponse == [marginalPrice |-> 0, filledVolume |-> 0, revenue |-> 0, error |-> 0]

\* A run without an end price changes nothing and answers nothing: the stats
\* it looks up again are already those of the book.
LEMMA DummyRunIsNoOp ==
  ASSUME NEW b, Coherent(b), NEW volume \in Int
  PROVE  RunThroughBook(b, volume, None) = [book |-> b, response |-> NoResponse]
<1>1. DummyRun(None)
  BY DEF Int32, DummyRun
<1>2. SweepBook(b, volume, None) = SweepStart(b.memSpan, 0)
  BY <1>1 DEF SweepBook
<1>3. /\ b.bestOffer # None => FindLiquidBucket(b, b.bestOffer, None) = b.bestOffer
      /\ b.bestBid # None => FindLiquidBucket(b, b.bestBid, None) = b.bestBid
      /\ b.bestOffer = None => b.highestOffer = None
      /\ b.bestBid = None => b.lowestBid = None
  BY CoherentBids, CoherentOffers, FindHere DEF Coherent
<1>4. RefreshBest(b, volume < 0, None) = b
  BY <1>3 DEF RefreshBest, Coherent, Books
<1>5. [b EXCEPT !.memSpan = SweepStart(b.memSpan, 0).memSpan] = b
  BY DEF SweepStart, Coherent, Books
<1> QED BY <1>1, <1>2, <1>4, <1>5 DEF RunThroughBook, SweepStart, NoResponse

\* What the loop does to the prices low..high it visits, and to no other.
SweptPrices(run, b, volume, low, high) ==
    /\ run.memSpan \in [Cells -> Int]
    /\ run.openVol \in Int /\ Toward(run.openVol, volume)
    /\ run.orderRevenue \in Int
    /\ run.transactionIndex \in Span
    /\ \A i \in Cells : Toward(run.memSpan[i], b.memSpan[i])
    /\ \A i \in Cells : (\A p \in low..high : p - b.basePrice # i)
                          => run.memSpan[i] = b.memSpan[i]
    /\ run.openVol # 0 => \A p \in low..high : run.memSpan[p - b.basePrice] = 0
    /\ \A p1, p2 \in low..high :
          /\ IF volume < 0 THEN p1 < p2 ELSE p2 < p1
          /\ run.memSpan[p2 - b.basePrice] # b.memSpan[p2 - b.basePrice]
          => run.memSpan[p1 - b.basePrice] = 0
    /\ \A p \in low..high : run.memSpan[p - b.basePrice] # b.memSpan[p - b.basePrice] =>
          \E q \in low..high :
             /\ IF volume < 0 THEN p <= q ELSE q <= p
             /\ run.transactionIndex = q - b.basePrice
             /\ run.memSpan[q - b.basePrice] # b.memSpan[q - b.basePrice]

\* A buy order visits the offers, all of which face it, from the best up.
LEMMA SweepOffers ==
  ASSUME NEW b, Coherent(b), NEW volume \in Int, volume < 0, b.highestOffer # None
  PROVE  SweptPrices(SweepBook(b, volume, b.highestOffer), b, volume,
                     b.bestOffer, b.highestOffer)
<1> DEFINE n   == b.highestOffer - b.bestOffer + 1
           idx == [j \in 0..(n - 1) |-> b.bestOffer - b.basePrice + (1) * j]
           run == SweepBook(b, volume, b.highestOffer)
<1>1. /\ b \in Books /\ b.basePrice \in Nat /\ b.memSpan \in [Cells -> Int]
      /\ b.bestOffer \in Window(b) /\ b.highestOffer \in Window(b)
      /\ b.bestOffer <= b.highestOffer
      /\ b.bestOffer \in 0..IntMax /\ b.highestOffer \in 0..IntMax
      /\ Int32(b.highestOffer) = b.highestOffer
  <2>1. b \in Books /\ SignedPrices(b.basePrice)
    BY DEF Coherent
  <2>2. b.basePrice \in Nat /\ b.memSpan \in [Cells -> Int]
    BY <2>1 DEF Books
  <2>3. b.bestOffer \in Window(b) /\ b.highestOffer \in Window(b) /\ b.bestOffer <= b.highestOffer
    BY CoherentOffers
  <2> QED BY <2>1, <2>2, <2>3, WindowIsSigned
<1>2. n \in Nat /\ n - 1 = b.highestOffer - b.bestOffer
  BY <1>1
<1>3. run = Sweep(b.memSpan, b.basePrice, volume, b.bestOffer - b.basePrice, 1, n)[n]
  BY <1>1, <1>2 DEF SweepBook, Iterations, DummyRun
<1>4. \A p \in Window(b) : p - b.basePrice \in Span /\ p \in Int /\ p - b.basePrice \in Cells
  BY <1>1 DEF Window, Span, Cells
<1>5. /\ \A j \in 0..(n - 1) : b.bestOffer + (1) * j \in b.bestOffer..b.highestOffer
      /\ b.bestOffer..b.highestOffer \subseteq Window(b)
  BY <1>1, <1>2 DEF Window
<1>6. idx \in [0..(n - 1) -> Span]
  BY <1>1, <1>2, <1>4, <1>5
<1>7. \A j \in 0..(n - 1) : Faces(volume, b.memSpan[idx[j]])
  <2>1. \A p \in b.bestOffer..b.highestOffer : VolumeAt(b, p) \in Int /\ Faces(volume, VolumeAt(b, p))
    <3>1. \A p \in b.bestOffer..b.highestOffer : VolumeAt(b, p) \in Int
      BY <1>5, WindowIsSigned DEF Coherent
    <3>2. \A p \in b.bestOffer..b.highestOffer : VolumeAt(b, p) >= 0
      <4> SUFFICES ASSUME NEW p \in b.bestOffer..b.highestOffer, ~(VolumeAt(b, p) >= 0)
                   PROVE  FALSE
        OBVIOUS
      <4>1. p \in Bids(b)
        BY <1>5, <3>1 DEF Bids
      <4>2. b.bestOffer \in Offers(b)
        BY CoherentOffers DEF Offers
      <4>3. p < b.bestOffer
        BY <4>1, <4>2 DEF Coherent, NotCrossed
      <4> QED BY <1>1, <4>3
    <3> QED BY <3>1, <3>2 DEF Faces
  <2>2. \A j \in 0..(n - 1) : b.memSpan[idx[j]] = VolumeAt(b, b.bestOffer + (1) * j)
    BY <1>1, <1>2 DEF VolumeAt
  <2> QED BY <1>5, <2>1, <2>2
<1>8. Swept(run, b.memSpan, volume, idx, n)
  <2> DEFINE from == b.bestOffer - b.basePrice
             step == 1
  <2>1. from \in Int /\ step \in Int /\ b.basePrice \in Int
    BY <1>1
  <2>2. \A j \in 0..(n - 1) : idx[j] = from + step * j
    OBVIOUS
  <2>3. \A j1, j2 \in 0..(n - 1) : j1 # j2 => idx[j1] # idx[j2]
    BY <1>1, <1>2
  <2>4. run = Sweep(b.memSpan, b.basePrice, volume, from, step, n)[n]
    BY <1>3
  <2>5. b.memSpan \in [Cells -> Int] /\ n \in Nat
    BY <1>1, <1>2
  <2> HIDE DEF run, n, idx, from, step
  <2>6. Swept(Sweep(b.memSpan, b.basePrice, volume, from, step, n)[n],
              b.memSpan, volume, idx, n)
    BY <1>6, <1>7, <2>1, <2>2, <2>3, <2>5, SweepKeeps
  <2> QED BY <2>4, <2>6
<1>9. ASSUME NEW p \in b.bestOffer..b.highestOffer
      PROVE  LET j == p - b.bestOffer IN j \in 0..(n - 1) /\ idx[j] = p - b.basePrice
  BY <1>1, <1>2, SMTT(30)
<1>10. \A i \in Cells : (\A p \in b.bestOffer..b.highestOffer : p - b.basePrice # i)
                          => run.memSpan[i] = b.memSpan[i]
  <2> SUFFICES ASSUME NEW i \in Cells, \A p \in b.bestOffer..b.highestOffer : p - b.basePrice # i
               PROVE  \A j \in 0..(n - 1) : idx[j] # i
    BY <1>8 DEF Swept
  <2> QED BY <1>1, <1>2, <1>5
<1>11. run.openVol # 0 => \A p \in b.bestOffer..b.highestOffer : run.memSpan[p - b.basePrice] = 0
  <2> HIDE DEF run, n, idx
  <2> QED BY <1>8, <1>9 DEF Swept
<1>12. \A p1, p2 \in b.bestOffer..b.highestOffer :
         p1 < p2 /\ run.memSpan[p2 - b.basePrice] # b.memSpan[p2 - b.basePrice]
           => run.memSpan[p1 - b.basePrice] = 0
  <2> SUFFICES ASSUME NEW p1 \in b.bestOffer..b.highestOffer, NEW p2 \in b.bestOffer..b.highestOffer, p1 < p2,
                      run.memSpan[p2 - b.basePrice] # b.memSpan[p2 - b.basePrice]
               PROVE  run.memSpan[p1 - b.basePrice] = 0
    OBVIOUS
  <2> DEFINE j1 == p1 - b.bestOffer
             j2 == p2 - b.bestOffer
  <2>1. j1 \in 0..(n - 1) /\ idx[j1] = p1 - b.basePrice
    BY <1>9
  <2>2. j2 \in 0..(n - 1) /\ idx[j2] = p2 - b.basePrice
    BY <1>9
  <2>3. j1 < j2
    BY <1>1
  <2> HIDE DEF run, n, idx, j1, j2
  <2> QED BY <1>8, <2>1, <2>2, <2>3 DEF Swept
<1>13. ASSUME NEW p \in b.bestOffer..b.highestOffer,
              run.memSpan[p - b.basePrice] # b.memSpan[p - b.basePrice]
       PROVE  \E q \in b.bestOffer..b.highestOffer :
                /\ p <= q
                /\ run.transactionIndex = q - b.basePrice
                /\ run.memSpan[q - b.basePrice] # b.memSpan[q - b.basePrice]
  <2> DEFINE j == p - b.bestOffer
  <2>1. j \in 0..(n - 1) /\ idx[j] = p - b.basePrice
    BY <1>9
  <2>2. PICK t \in j..(n - 1) : /\ run.transactionIndex = idx[t]
                                /\ run.memSpan[idx[t]] # b.memSpan[idx[t]]
    <3> HIDE DEF run, n, idx, j
    <3> QED BY <1>8, <1>13, <2>1 DEF Swept
  <2> DEFINE q == b.bestOffer + t
  <2>3. q \in b.bestOffer..b.highestOffer /\ p <= q /\ t = q - b.bestOffer
    <3> DEFINE lo == b.bestOffer
               hi == b.highestOffer
    <3>1. lo \in Int /\ hi \in Int /\ p \in lo..hi /\ t \in (p - lo)..(hi - lo)
      BY <1>1, <1>2
    <3> HIDE DEF lo, hi
    <3>2. lo + t \in lo..hi /\ p <= lo + t /\ t = (lo + t) - lo
      BY <3>1
    <3> QED BY <3>2 DEF lo, hi
  <2>4. idx[t] = q - b.basePrice
    <3> HIDE DEF n, idx, q
    <3> QED BY <1>9, <2>3
  <2>5. /\ run.transactionIndex = q - b.basePrice
        /\ run.memSpan[q - b.basePrice] # b.memSpan[q - b.basePrice]
    <3> HIDE DEF run, n, idx, q
    <3> QED BY <2>2, <2>4
  <2> HIDE DEF run, n, idx, q, j
  <2> QED BY <2>3, <2>5
<1> HIDE DEF run, n, idx
<1>14. SweptPrices(run, b, volume, b.bestOffer, b.highestOffer)
  BY <1>8, <1>10, <1>11, <1>12, <1>13 DEF Swept, SweptPrices
<1> QED BY <1>14 DEF run

\* A sell order visits the bids from the best down.
LEMMA SweepBids ==
  ASSUME NEW b, Coherent(b), NEW volume \in Int, volume > 0, b.lowestBid # None
  PROVE  SweptPrices(SweepBook(b, volume, b.lowestBid), b, volume,
                     b.lowestBid, b.bestBid)
<1> DEFINE n   == b.bestBid - b.lowestBid + 1
           idx == [j \in 0..(n - 1) |-> b.bestBid - b.basePrice + (-1) * j]
           run == SweepBook(b, volume, b.lowestBid)
<1>1. /\ b \in Books /\ b.basePrice \in Nat /\ b.memSpan \in [Cells -> Int]
      /\ b.lowestBid \in Window(b) /\ b.bestBid \in Window(b)
      /\ b.lowestBid <= b.bestBid
      /\ b.lowestBid \in 0..IntMax /\ b.bestBid \in 0..IntMax
      /\ Int32(b.lowestBid) = b.lowestBid
  <2>1. b \in Books /\ SignedPrices(b.basePrice)
    BY DEF Coherent
  <2>2. b.basePrice \in Nat /\ b.memSpan \in [Cells -> Int]
    BY <2>1 DEF Books
  <2>3. b.lowestBid \in Window(b) /\ b.bestBid \in Window(b) /\ b.lowestBid <= b.bestBid
    BY CoherentBids
  <2> QED BY <2>1, <2>2, <2>3, WindowIsSigned
<1>2. n \in Nat /\ n - 1 = b.bestBid - b.lowestBid
  BY <1>1
<1>3. run = Sweep(b.memSpan, b.basePrice, volume, b.bestBid - b.basePrice, -1, n)[n]
  BY <1>1, <1>2 DEF SweepBook, Iterations, DummyRun
<1>4. \A p \in Window(b) : p - b.basePrice \in Span /\ p \in Int /\ p - b.basePrice \in Cells
  BY <1>1, SMTT(30) DEF Window, Span, Cells
<1>5. /\ \A j \in 0..(n - 1) : b.bestBid + (-1) * j \in b.lowestBid..b.bestBid
      /\ b.lowestBid..b.bestBid \subseteq Window(b)
  BY <1>1, <1>2 DEF Window
<1>6. idx \in [0..(n - 1) -> Span]
  BY <1>1, <1>2, <1>4, <1>5
<1>7. \A j \in 0..(n - 1) : Faces(volume, b.memSpan[idx[j]])
  <2>1. \A p \in b.lowestBid..b.bestBid : VolumeAt(b, p) \in Int /\ Faces(volume, VolumeAt(b, p))
    <3>1. \A p \in b.lowestBid..b.bestBid : VolumeAt(b, p) \in Int
      BY <1>5, WindowIsSigned DEF Coherent
    <3>2. \A p \in b.lowestBid..b.bestBid : VolumeAt(b, p) <= 0
      <4> SUFFICES ASSUME NEW p \in b.lowestBid..b.bestBid, ~(VolumeAt(b, p) <= 0)
                   PROVE  FALSE
        OBVIOUS
      <4>1. p \in Offers(b)
        BY <1>5, <3>1 DEF Offers
      <4>2. b.bestBid \in Bids(b)
        BY CoherentBids DEF Bids
      <4>3. b.bestBid < p
        BY <4>1, <4>2 DEF Coherent, NotCrossed
      <4> QED BY <1>1, <4>3
    <3> QED BY <3>1, <3>2 DEF Faces
  <2>2. \A j \in 0..(n - 1) : b.memSpan[idx[j]] = VolumeAt(b, b.bestBid + (-1) * j)
    BY <1>1, <1>2 DEF VolumeAt
  <2> QED BY <1>5, <2>1, <2>2
<1>8. Swept(run, b.memSpan, volume, idx, n)
  <2> DEFINE from == b.bestBid - b.basePrice
             step == -1
  <2>1. from \in Int /\ step \in Int /\ b.basePrice \in Int
    BY <1>1
  <2>2. \A j \in 0..(n - 1) : idx[j] = from + step * j
    OBVIOUS
  <2>3. \A j1, j2 \in 0..(n - 1) : j1 # j2 => idx[j1] # idx[j2]
    BY <1>1, <1>2
  <2>4. run = Sweep(b.memSpan, b.basePrice, volume, from, step, n)[n]
    BY <1>3
  <2>5. b.memSpan \in [Cells -> Int] /\ n \in Nat
    BY <1>1, <1>2
  <2> HIDE DEF run, n, idx, from, step
  <2>6. Swept(Sweep(b.memSpan, b.basePrice, volume, from, step, n)[n],
              b.memSpan, volume, idx, n)
    BY <1>6, <1>7, <2>1, <2>2, <2>3, <2>5, SweepKeeps
  <2> QED BY <2>4, <2>6
<1>9. ASSUME NEW p \in b.lowestBid..b.bestBid
      PROVE  LET j == b.bestBid - p IN j \in 0..(n - 1) /\ idx[j] = p - b.basePrice
  <2> DEFINE j == b.bestBid - p
  <2>1. j \in 0..(n - 1) /\ p \in Int
    BY <1>1, <1>2
  <2>2. idx[j] = b.bestBid - b.basePrice + (-1) * j
    BY <2>1
  <2>3. b.bestBid - b.basePrice + (-1) * j = p - b.basePrice
    BY <1>1, <2>1
  <2> QED BY <2>1, <2>2, <2>3
<1>10. \A i \in Cells : (\A p \in b.lowestBid..b.bestBid : p - b.basePrice # i)
                          => run.memSpan[i] = b.memSpan[i]
  <2> SUFFICES ASSUME NEW i \in Cells, \A p \in b.lowestBid..b.bestBid : p - b.basePrice # i
               PROVE  \A j \in 0..(n - 1) : idx[j] # i
    BY <1>8 DEF Swept
  <2> QED BY <1>1, <1>2, <1>5
<1>11. run.openVol # 0 => \A p \in b.lowestBid..b.bestBid : run.memSpan[p - b.basePrice] = 0
  <2> HIDE DEF run, n, idx
  <2> QED BY <1>8, <1>9 DEF Swept
<1>12. \A p1, p2 \in b.lowestBid..b.bestBid :
         p2 < p1 /\ run.memSpan[p2 - b.basePrice] # b.memSpan[p2 - b.basePrice]
           => run.memSpan[p1 - b.basePrice] = 0
  <2> SUFFICES ASSUME NEW p1 \in b.lowestBid..b.bestBid, NEW p2 \in b.lowestBid..b.bestBid, p2 < p1,
                      run.memSpan[p2 - b.basePrice] # b.memSpan[p2 - b.basePrice]
               PROVE  run.memSpan[p1 - b.basePrice] = 0
    OBVIOUS
  <2> DEFINE j1 == b.bestBid - p1
             j2 == b.bestBid - p2
  <2>1. j1 \in 0..(n - 1) /\ idx[j1] = p1 - b.basePrice
    BY <1>9
  <2>2. j2 \in 0..(n - 1) /\ idx[j2] = p2 - b.basePrice
    BY <1>9
  <2>3. j1 < j2
    BY <1>1
  <2> HIDE DEF run, n, idx, j1, j2
  <2> QED BY <1>8, <2>1, <2>2, <2>3 DEF Swept
<1>13. ASSUME NEW p \in b.lowestBid..b.bestBid,
              run.memSpan[p - b.basePrice] # b.memSpan[p - b.basePrice]
       PROVE  \E q \in b.lowestBid..b.bestBid :
                /\ q <= p
                /\ run.transactionIndex = q - b.basePrice
                /\ run.memSpan[q - b.basePrice] # b.memSpan[q - b.basePrice]
  <2> DEFINE j == b.bestBid - p
  <2>1. j \in 0..(n - 1) /\ idx[j] = p - b.basePrice
    BY <1>9
  <2>2. PICK t \in j..(n - 1) : /\ run.transactionIndex = idx[t]
                                /\ run.memSpan[idx[t]] # b.memSpan[idx[t]]
    <3> HIDE DEF run, n, idx, j
    <3> QED BY <1>8, <1>13, <2>1 DEF Swept
  <2> DEFINE q == b.bestBid - t
  <2>3. q \in b.lowestBid..b.bestBid /\ q <= p /\ t = b.bestBid - q
    <3> DEFINE lo == b.lowestBid
               hi == b.bestBid
    <3>1. lo \in Int /\ hi \in Int /\ p \in lo..hi /\ t \in (hi - p)..(hi - lo)
      BY <1>1, <1>2
    <3> HIDE DEF lo, hi
    <3>2. hi - t \in lo..hi /\ hi - t <= p /\ t = hi - (hi - t)
      BY <3>1
    <3> QED BY <3>2 DEF lo, hi
  <2>4. idx[t] = q - b.basePrice
    <3> HIDE DEF n, idx, q
    <3> QED BY <1>9, <2>3
  <2>5. /\ run.transactionIndex = q - b.basePrice
        /\ run.memSpan[q - b.basePrice] # b.memSpan[q - b.basePrice]
    <3> HIDE DEF run, n, idx, q
    <3> QED BY <2>2, <2>4
  <2> HIDE DEF run, n, idx, q, j
  <2> QED BY <2>3, <2>5
<1> HIDE DEF run, n, idx
<1>14. SweptPrices(run, b, volume, b.lowestBid, b.bestBid)
  BY <1>8, <1>10, <1>11, <1>12, <1>13 DEF Swept, SweptPrices
<1> QED BY <1>14 DEF run

\* A buy order against the offers: the book stays coherent, and an order left
\* open has taken every offer.
LEMMA RunBuy ==
  ASSUME NEW b, Coherent(b), NEW volume \in Int, volume < 0, b.highestOffer # None
  PROVE  LET result == RunThroughBook(b, volume, b.highestOffer)
             open   == volume - result.response.filledVolume
         IN  /\ Coherent(result.book)
             /\ result.book.basePrice = b.basePrice
             /\ result.book.memSpan[BookLength] = b.memSpan[BookLength]
             /\ result.response \in Responses /\ result.response.error = 0
             /\ open \in Int /\ Toward(open, volume)
             /\ open # 0 => result.book.bestOffer = None
<1> DEFINE run == SweepBook(b, volume, b.highestOffer)
           m   == [b EXCEPT !.memSpan = run.memSpan]
           f   == FindLiquidBucket(m, b.bestOffer, b.highestOffer)
           c   == RunThroughBook(b, volume, b.highestOffer).book
           r   == RunThroughBook(b, volume, b.highestOffer).response
<1>1. /\ b \in Books /\ b.basePrice \in Nat /\ b.memSpan \in [Cells -> Int]
      /\ b.basePrice + BookLength <= IntMax
      /\ b.bestOffer \in Window(b) /\ b.highestOffer \in Window(b) /\ b.bestOffer <= b.highestOffer
      /\ b.bestOffer \in 0..IntMax /\ b.highestOffer \in 0..IntMax /\ b.bestOffer # None
      /\ ~DummyRun(b.highestOffer)
  <2>1. b \in Books /\ SignedPrices(b.basePrice)
    BY DEF Coherent
  <2>2. b.basePrice \in Nat /\ b.memSpan \in [Cells -> Int]
    BY <2>1 DEF Books
  <2>3. b.bestOffer \in Window(b) /\ b.highestOffer \in Window(b) /\ b.bestOffer <= b.highestOffer /\ b.bestOffer # None
    BY CoherentOffers
  <2> QED BY <2>1, <2>2, <2>3, WindowIsSigned DEF DummyRun, SignedPrices
<1>2. SweptPrices(run, b, volume, b.bestOffer, b.highestOffer)
  BY SweepOffers
<1> HIDE DEF run
<1>3. /\ m \in Books /\ SignedPrices(m.basePrice) /\ Window(m) = Window(b)
      /\ m.basePrice = b.basePrice /\ m.memSpan = run.memSpan
      /\ m.bestOffer = b.bestOffer /\ m.highestOffer = b.highestOffer
      /\ m.bestBid = b.bestBid /\ m.lowestBid = b.lowestBid
  BY <1>1, <1>2 DEF SweptPrices, Books, Coherent, Window
<1>4. \/ f = None /\ \A p \in b.bestOffer..b.highestOffer : VolumeAt(m, p) = 0
      \/ f # None /\ f \in b.bestOffer..b.highestOffer /\ VolumeAt(m, f) # 0
         /\ \A p \in b.bestOffer..b.highestOffer : VolumeAt(m, p) # 0 => f <= p
  BY <1>1, <1>3, FindUpwards
<1>5. /\ c = [m EXCEPT !.bestOffer = f, !.highestOffer = IF f # None THEN b.highestOffer ELSE None]
      /\ r = [marginalPrice |-> b.basePrice + run.transactionIndex,
              filledVolume |-> volume - run.openVol,
              revenue |-> run.orderRevenue, error |-> 0]
  <2>1. /\ c = RefreshBest(m, volume < 0, b.highestOffer)
        /\ r = [marginalPrice |-> b.basePrice + run.transactionIndex,
                filledVolume |-> volume - run.openVol,
                revenue |-> run.orderRevenue, error |-> 0]
    BY <1>1 DEF RunThroughBook, run
  <2>2. b.bestBid = None => b.lowestBid = None
    BY CoherentBids
  <2> HIDE DEF m, c, r
  <2>3. (volume < 0) = TRUE
    OBVIOUS
  <2>4. RefreshBest(m, TRUE, b.highestOffer)
          = [m EXCEPT !.bestOffer = f, !.highestOffer = IF f # None THEN b.highestOffer ELSE None]
    BY <1>1, <1>3, <2>2 DEF RefreshBest, Books
  <2> QED BY <2>1, <2>3, <2>4
<1> HIDE DEF m, f, c, r
<1>6. /\ c.basePrice = b.basePrice /\ c.memSpan = run.memSpan
      /\ c.bestBid = b.bestBid /\ c.lowestBid = b.lowestBid
      /\ c.bestOffer = f /\ c.highestOffer = IF f # None THEN b.highestOffer ELSE None
      /\ c \in Books
  <2>1. f \in Stats /\ b.highestOffer \in Stats /\ None \in Stats
    BY <1>1, <1>4 DEF Stats
  <2> QED BY <1>1, <1>3, <1>5, <2>1 DEF Books
<1>7. Window(c) = Window(b) /\ SignedPrices(c.basePrice)
      /\ \A p \in Window(b) : VolumeAt(c, p) = VolumeAt(m, p) /\ VolumeAt(c, p) \in Int
                             /\ VolumeAt(b, p) \in Int
  BY <1>1, <1>3, <1>6, WindowIsSigned DEF Window, VolumeAt, SignedPrices
<1>8. \A p \in Window(b) : Toward(VolumeAt(c, p), VolumeAt(b, p))
  <2>1. \A p \in Window(b) : p - b.basePrice \in Cells
    BY <1>1, SMTT(30) DEF Window, Cells
  <2> QED BY <1>2, <1>6, <2>1 DEF SweptPrices, VolumeAt
<1>9. \A p \in Window(b) : p \notin b.bestOffer..b.highestOffer => VolumeAt(c, p) = VolumeAt(b, p)
  <2> SUFFICES ASSUME NEW p \in Window(b), p \notin b.bestOffer..b.highestOffer
               PROVE  run.memSpan[p - b.basePrice] = b.memSpan[p - b.basePrice]
    BY <1>6 DEF VolumeAt
  <2>1. p - b.basePrice \in Cells
        /\ \A q \in b.bestOffer..b.highestOffer : q - b.basePrice # p - b.basePrice
    BY <1>1, SMTT(30) DEF Window, Cells
  <2> QED BY <1>2, <2>1 DEF SweptPrices
<1>10. \A p \in b.bestOffer..b.highestOffer : p \in Window(b) /\ VolumeAt(b, p) >= 0
  <2>1. \A p \in b.bestOffer..b.highestOffer : p \in Window(b)
    BY <1>1 DEF Window
  <2> SUFFICES ASSUME NEW p \in b.bestOffer..b.highestOffer, VolumeAt(b, p) < 0 PROVE FALSE
    BY <1>7, <2>1
  <2>2. p \in Bids(b) /\ b.bestOffer \in Offers(b)
    BY <1>1, <2>1, CoherentOffers DEF Bids, Offers
  <2>3. p < b.bestOffer
    BY <2>2 DEF Coherent, NotCrossed
  <2> QED BY <1>1, <2>3
<1>11. Bids(c) = Bids(b)
  <2>1. \A p \in Window(b) : VolumeAt(c, p) < 0 <=> VolumeAt(b, p) < 0
    BY <1>7, <1>8, <1>9, <1>10 DEF Toward
  <2> QED BY <1>7, <2>1 DEF Bids
<1>12. \A p \in Offers(c) : p \in Offers(b) /\ p \in b.bestOffer..b.highestOffer
                           /\ VolumeAt(m, p) # 0
  <2>1. \A p \in Window(b) : VolumeAt(c, p) > 0 => VolumeAt(b, p) > 0
    BY <1>7, <1>8 DEF Toward
  <2>2. \A p \in Window(b) : VolumeAt(b, p) > 0 => p \in b.bestOffer..b.highestOffer
    BY <1>1, CoherentOffers DEF Window
  <2> QED BY <1>7, <2>1, <2>2 DEF Offers
<1>13. \A p \in b.bestOffer..b.highestOffer : VolumeAt(m, p) # 0 => p \in Offers(c)
  BY <1>7, <1>8, <1>10 DEF Toward, Offers
<1>14. AreExtremes(c.bestOffer, c.highestOffer, Offers(c))
  <2>1. CASE f = None
    BY <1>4, <1>6, <1>12, <2>1 DEF AreExtremes
  <2>2. CASE f # None
    <3>1. VolumeAt(m, b.highestOffer) # 0
      <4> SUFFICES ASSUME VolumeAt(m, b.highestOffer) = 0 PROVE FALSE
        OBVIOUS
      <4>1. VolumeAt(b, b.highestOffer) # 0 /\ b.highestOffer \in b.bestOffer..b.highestOffer
        BY <1>1, CoherentOffers
      <4>2. run.memSpan[b.highestOffer - b.basePrice] # b.memSpan[b.highestOffer - b.basePrice]
        BY <1>3, <4>1 DEF VolumeAt
      <4>3. \A p \in b.bestOffer..b.highestOffer : p < b.highestOffer => VolumeAt(m, p) = 0
        BY <1>2, <1>3, <4>1, <4>2 DEF SweptPrices, VolumeAt
      <4>4. \A p \in b.bestOffer..b.highestOffer : p < b.highestOffer \/ p = b.highestOffer
        BY <1>1
      <4> QED BY <1>4, <2>2, <4>3, <4>4
    <3>2. f \in Offers(c) /\ b.highestOffer \in Offers(c)
      BY <1>1, <1>4, <1>13, <2>2, <3>1
    <3>3. \A p \in Offers(c) : f <= p /\ p <= b.highestOffer
      BY <1>1, <1>4, <1>12, <2>2
    <3> QED BY <1>6, <2>2, <3>2, <3>3 DEF AreExtremes
  <2> QED BY <2>1, <2>2
<1>15. AreExtremes(c.lowestBid, c.bestBid, Bids(c))
  BY <1>6, <1>11 DEF Coherent, ExactStats
<1>16. NotCrossed(c)
  BY <1>11, <1>12 DEF Coherent, NotCrossed
<1>17. Coherent(c)
  BY <1>6, <1>7, <1>14, <1>15, <1>16 DEF Coherent, ExactStats
<1>18. c.memSpan[BookLength] = b.memSpan[BookLength]
  <2>1. BookLength \in Cells /\ \A p \in b.bestOffer..b.highestOffer : p - b.basePrice # BookLength
    BY <1>1, SMTT(30) DEF Window, Cells
  <2> QED BY <1>2, <1>6, <2>1 DEF SweptPrices
<1>19. r \in Responses /\ r.error = 0 /\ r.filledVolume = volume - run.openVol
  BY <1>1, <1>2, <1>5 DEF SweptPrices, Responses, Span
<1>20. run.openVol \in Int /\ Toward(run.openVol, volume)
       /\ volume - (volume - run.openVol) = run.openVol
  BY <1>2 DEF SweptPrices
<1>21. run.openVol # 0 => c.bestOffer = None
  <2> SUFFICES ASSUME run.openVol # 0 PROVE f = None
    BY <1>6
  <2>1. \A p \in b.bestOffer..b.highestOffer : VolumeAt(m, p) = 0
    BY <1>2, <1>3 DEF SweptPrices, VolumeAt
  <2> QED BY <1>4, <2>1
<1> QED BY <1>6, <1>17, <1>18, <1>19, <1>20, <1>21 DEF c, r

\* A sell order against the bids.
LEMMA RunSell ==
  ASSUME NEW b, Coherent(b), NEW volume \in Int, volume > 0, b.lowestBid # None
  PROVE  LET result == RunThroughBook(b, volume, b.lowestBid)
             open   == volume - result.response.filledVolume
         IN  /\ Coherent(result.book)
             /\ result.book.basePrice = b.basePrice
             /\ result.book.memSpan[BookLength] = b.memSpan[BookLength]
             /\ result.response \in Responses /\ result.response.error = 0
             /\ open \in Int /\ Toward(open, volume)
             /\ open # 0 => result.book.bestBid = None
<1> DEFINE run == SweepBook(b, volume, b.lowestBid)
           m   == [b EXCEPT !.memSpan = run.memSpan]
           f   == FindLiquidBucket(m, b.bestBid, b.lowestBid)
           c   == RunThroughBook(b, volume, b.lowestBid).book
           r   == RunThroughBook(b, volume, b.lowestBid).response
<1>1. /\ b \in Books /\ b.basePrice \in Nat /\ b.memSpan \in [Cells -> Int]
      /\ b.basePrice + BookLength <= IntMax
      /\ b.lowestBid \in Window(b) /\ b.bestBid \in Window(b) /\ b.lowestBid <= b.bestBid
      /\ b.lowestBid \in 0..IntMax /\ b.bestBid \in 0..IntMax /\ b.bestBid # None
      /\ ~DummyRun(b.lowestBid)
  <2>1. b \in Books /\ SignedPrices(b.basePrice)
    BY DEF Coherent
  <2>2. b.basePrice \in Nat /\ b.memSpan \in [Cells -> Int]
    BY <2>1 DEF Books
  <2>3. b.lowestBid \in Window(b) /\ b.bestBid \in Window(b) /\ b.lowestBid <= b.bestBid /\ b.bestBid # None
    BY CoherentBids
  <2> QED BY <2>1, <2>2, <2>3, WindowIsSigned DEF DummyRun, SignedPrices
<1>2. SweptPrices(run, b, volume, b.lowestBid, b.bestBid)
  BY SweepBids
<1> HIDE DEF run
<1>3. /\ m \in Books /\ SignedPrices(m.basePrice) /\ Window(m) = Window(b)
      /\ m.basePrice = b.basePrice /\ m.memSpan = run.memSpan
      /\ m.bestOffer = b.bestOffer /\ m.highestOffer = b.highestOffer
      /\ m.bestBid = b.bestBid /\ m.lowestBid = b.lowestBid
  BY <1>1, <1>2 DEF SweptPrices, Books, Coherent, Window
<1>4. \/ f = None /\ \A p \in b.lowestBid..b.bestBid : VolumeAt(m, p) = 0
      \/ f # None /\ f \in b.lowestBid..b.bestBid /\ VolumeAt(m, f) # 0
         /\ \A p \in b.lowestBid..b.bestBid : VolumeAt(m, p) # 0 => p <= f
  BY <1>1, <1>3, FindDownwards
<1>5. /\ c = [m EXCEPT !.bestBid = f, !.lowestBid = IF f # None THEN b.lowestBid ELSE None]
      /\ r = [marginalPrice |-> b.basePrice + run.transactionIndex,
              filledVolume |-> volume - run.openVol,
              revenue |-> run.orderRevenue, error |-> 0]
  <2>1. /\ c = RefreshBest(m, volume < 0, b.lowestBid)
        /\ r = [marginalPrice |-> b.basePrice + run.transactionIndex,
                filledVolume |-> volume - run.openVol,
                revenue |-> run.orderRevenue, error |-> 0]
    BY <1>1 DEF RunThroughBook, run
  <2>2. b.bestOffer = None => b.highestOffer = None
    BY CoherentOffers
  <2> HIDE DEF m, c, r
  <2>3. (volume < 0) = FALSE
    OBVIOUS
  <2>4. RefreshBest(m, FALSE, b.lowestBid)
          = [m EXCEPT !.bestBid = f, !.lowestBid = IF f # None THEN b.lowestBid ELSE None]
    BY <1>1, <1>3, <2>2 DEF RefreshBest, Books
  <2> QED BY <2>1, <2>3, <2>4
<1> HIDE DEF m, f, c, r
<1>6. /\ c.basePrice = b.basePrice /\ c.memSpan = run.memSpan
      /\ c.bestOffer = b.bestOffer /\ c.highestOffer = b.highestOffer
      /\ c.bestBid = f /\ c.lowestBid = IF f # None THEN b.lowestBid ELSE None
      /\ c \in Books
  <2>1. f \in Stats /\ b.lowestBid \in Stats /\ None \in Stats
    BY <1>1, <1>4 DEF Stats
  <2> QED BY <1>1, <1>3, <1>5, <2>1 DEF Books
<1>7. Window(c) = Window(b) /\ SignedPrices(c.basePrice)
      /\ \A p \in Window(b) : VolumeAt(c, p) = VolumeAt(m, p) /\ VolumeAt(c, p) \in Int
                             /\ VolumeAt(b, p) \in Int
  BY <1>1, <1>3, <1>6, WindowIsSigned DEF Window, VolumeAt, SignedPrices
<1>8. \A p \in Window(b) : Toward(VolumeAt(c, p), VolumeAt(b, p))
  <2>1. \A p \in Window(b) : p - b.basePrice \in Cells
    BY <1>1, SMTT(30) DEF Window, Cells
  <2> QED BY <1>2, <1>6, <2>1 DEF SweptPrices, VolumeAt
<1>9. \A p \in Window(b) : p \notin b.lowestBid..b.bestBid => VolumeAt(c, p) = VolumeAt(b, p)
  <2> SUFFICES ASSUME NEW p \in Window(b), p \notin b.lowestBid..b.bestBid
               PROVE  run.memSpan[p - b.basePrice] = b.memSpan[p - b.basePrice]
    BY <1>6 DEF VolumeAt
  <2>1. p \in Int /\ b.basePrice \in Int /\ p - b.basePrice \in Cells
    BY <1>1, SMTT(30) DEF Window, Cells
  <2>2. \A q \in b.lowestBid..b.bestBid : q \in Int /\ q # p
    BY <1>1
  <2>3. \A q \in b.lowestBid..b.bestBid : q - b.basePrice # p - b.basePrice
    BY <2>1, <2>2
  <2> QED BY <1>2, <2>1, <2>3 DEF SweptPrices
<1>10. \A p \in b.lowestBid..b.bestBid : p \in Window(b) /\ VolumeAt(b, p) <= 0
  <2>1. \A p \in b.lowestBid..b.bestBid : p \in Window(b)
    BY <1>1 DEF Window
  <2> SUFFICES ASSUME NEW p \in b.lowestBid..b.bestBid, VolumeAt(b, p) > 0 PROVE FALSE
    BY <1>7, <2>1
  <2>2. p \in Offers(b) /\ b.bestBid \in Bids(b)
    BY <1>1, <2>1, CoherentBids DEF Bids, Offers
  <2>3. b.bestBid < p
    BY <2>2 DEF Coherent, NotCrossed
  <2> QED BY <1>1, <2>3
<1>11. Offers(c) = Offers(b)
  <2>1. \A p \in Window(b) : VolumeAt(c, p) > 0 <=> VolumeAt(b, p) > 0
    BY <1>7, <1>8, <1>9, <1>10 DEF Toward
  <2> QED BY <1>7, <2>1 DEF Offers
<1>12. \A p \in Bids(c) : p \in Bids(b) /\ p \in b.lowestBid..b.bestBid
                           /\ VolumeAt(m, p) # 0
  <2>1. \A p \in Window(b) : VolumeAt(c, p) < 0 => VolumeAt(b, p) < 0
    BY <1>7, <1>8 DEF Toward
  <2>2. \A p \in Window(b) : VolumeAt(b, p) < 0 => p \in b.lowestBid..b.bestBid
    BY <1>1, CoherentBids DEF Window
  <2> QED BY <1>7, <2>1, <2>2 DEF Bids
<1>13. \A p \in b.lowestBid..b.bestBid : VolumeAt(m, p) # 0 => p \in Bids(c)
  BY <1>7, <1>8, <1>10 DEF Toward, Bids
<1>14. AreExtremes(c.lowestBid, c.bestBid, Bids(c))
  <2>1. CASE f = None
    BY <1>4, <1>6, <1>12, <2>1 DEF AreExtremes
  <2>2. CASE f # None
    <3>1. VolumeAt(m, b.lowestBid) # 0
      <4> SUFFICES ASSUME VolumeAt(m, b.lowestBid) = 0 PROVE FALSE
        OBVIOUS
      <4>1. VolumeAt(b, b.lowestBid) # 0 /\ b.lowestBid \in b.lowestBid..b.bestBid
        BY <1>1, CoherentBids
      <4>2. run.memSpan[b.lowestBid - b.basePrice] # b.memSpan[b.lowestBid - b.basePrice]
        BY <1>3, <4>1 DEF VolumeAt
      <4>3. \A p \in b.lowestBid..b.bestBid : b.lowestBid < p => VolumeAt(m, p) = 0
        BY <1>2, <1>3, <4>1, <4>2 DEF SweptPrices, VolumeAt
      <4>4. \A p \in b.lowestBid..b.bestBid : b.lowestBid < p \/ p = b.lowestBid
        BY <1>1
      <4> QED BY <1>4, <2>2, <4>3, <4>4
    <3>2. f \in Bids(c) /\ b.lowestBid \in Bids(c)
      BY <1>1, <1>4, <1>13, <2>2, <3>1
    <3>3. \A p \in Bids(c) : b.lowestBid <= p /\ p <= f
      BY <1>1, <1>4, <1>12, <2>2
    <3> QED BY <1>6, <2>2, <3>2, <3>3 DEF AreExtremes
  <2> QED BY <2>1, <2>2
<1>15. AreExtremes(c.bestOffer, c.highestOffer, Offers(c))
  BY <1>6, <1>11 DEF Coherent, ExactStats
<1>16. NotCrossed(c)
  BY <1>11, <1>12 DEF Coherent, NotCrossed
<1>17. Coherent(c)
  BY <1>6, <1>7, <1>14, <1>15, <1>16 DEF Coherent, ExactStats
<1>18. c.memSpan[BookLength] = b.memSpan[BookLength]
  <2>1. BookLength \in Cells /\ \A p \in b.lowestBid..b.bestBid : p - b.basePrice # BookLength
    BY <1>1, SMTT(30) DEF Window, Cells
  <2> QED BY <1>2, <1>6, <2>1 DEF SweptPrices
<1>19. r \in Responses /\ r.error = 0 /\ r.filledVolume = volume - run.openVol
  BY <1>1, <1>2, <1>5 DEF SweptPrices, Responses, Span
<1>20. run.openVol \in Int /\ Toward(run.openVol, volume)
       /\ volume - (volume - run.openVol) = run.openVol
  BY <1>2 DEF SweptPrices
<1>21. run.openVol # 0 => c.bestBid = None
  <2> SUFFICES ASSUME run.openVol # 0 PROVE f = None
    BY <1>6
  <2>1. \A p \in b.lowestBid..b.bestBid : VolumeAt(m, p) = 0
    BY <1>2, <1>3 DEF SweptPrices, VolumeAt
  <2> QED BY <1>4, <2>1
<1> QED BY <1>6, <1>17, <1>18, <1>19, <1>20, <1>21 DEF c, r

-----------------------------------------------------------------------------
(* The handlers on a coherent book.                                         *)

\* What a handler has to leave.
Kept(b, result) ==
    /\ Coherent(result.book)
    /\ result.book.basePrice = b.basePrice
    /\ result.book.memSpan[BookLength] = b.memSpan[BookLength]
    /\ result.response \in Responses

LEMMA MarketOrderKeeps ==
  ASSUME NEW b, Coherent(b), NEW volume \in Int
  PROVE  LET result == HandleMarketOrder(b, Order(volume, 0))
         IN  Kept(b, result) /\ result.response.error = 0
<1> DEFINE result == HandleMarketOrder(b, Order(volume, 0))
           end    == CASE volume = 0 -> None
                       [] volume < 0 -> b.highestOffer
                       [] OTHER      -> b.lowestBid
<1>1. result = RunThroughBook(b, volume, end)
  BY DEF HandleMarketOrder, Order
<1>2. CASE end = None
  <2>1. result = [book |-> b, response |-> NoResponse]
    BY <1>1, <1>2, DummyRunIsNoOp
  <2>2. NoResponse \in Responses /\ NoResponse.error = 0
    BY DEF NoResponse, Responses
  <2> QED BY <2>1, <2>2 DEF Kept
<1>3. CASE end # None /\ volume < 0
  <2>1. end = b.highestOffer
    BY <1>3
  <2> HIDE DEF end, result
  <2> QED BY <1>1, <1>3, <2>1, RunBuy DEF Kept, result
<1>4. CASE end # None /\ volume > 0
  <2>1. end = b.lowestBid
    BY <1>4
  <2> HIDE DEF end, result
  <2> QED BY <1>1, <1>4, <2>1, RunSell DEF Kept, result
<1>5. volume = 0 => end = None
  OBVIOUS
<1> QED BY <1>2, <1>3, <1>4, <1>5

LEMMA BlankMarketOrder ==
  ASSUME NEW b, Coherent(b)
  PROVE  HandleMarketOrder(b, BlankOrder) = [book |-> b, response |-> NoResponse]
BY DummyRunIsNoOp DEF HandleMarketOrder, BlankOrder, Order

\* Withdrawing from any bucket shrinks it towards 0.
LEMMA ConsumeShrinks ==
  ASSUME NEW c \in Int, NEW v \in Int
  PROVE  LET f == ConsumeLiquidity(c, v)
         IN  f \in Int /\ Toward(c - f, c) /\ (v = 0 => f = 0)
BY DEF Toward, ConsumeLiquidity, LiquidityMatch, SufficientLiquidity, IsNegative

\* A book that differs in one bucket.
LEMMA OneBucket ==
  ASSUME NEW b \in Books, SignedPrices(b.basePrice), NEW p \in Window(b), NEW x \in Int
  PROVE  LET t == [b EXCEPT !.memSpan[p - b.basePrice] = x]
         IN  /\ t \in Books /\ t.basePrice = b.basePrice /\ Window(t) = Window(b)
             /\ t.bestBid = b.bestBid /\ t.lowestBid = b.lowestBid
             /\ t.bestOffer = b.bestOffer /\ t.highestOffer = b.highestOffer
             /\ VolumeAt(t, p) = x
             /\ \A q \in Window(b) : q # p => VolumeAt(t, q) = VolumeAt(b, q)
             /\ \A q \in Window(b) : VolumeAt(b, q) \in Int /\ VolumeAt(t, q) \in Int
             /\ t.memSpan[BookLength] = b.memSpan[BookLength]
<1> DEFINE t == [b EXCEPT !.memSpan[p - b.basePrice] = x]
<1>1. b.basePrice \in Nat /\ b.memSpan \in [Cells -> Int]
      /\ \A q \in Window(b) : q \in Int /\ q - b.basePrice \in Cells
                             /\ q - b.basePrice # BookLength
  BY DEF Books, Window, Cells
<1>2. t.memSpan = [b.memSpan EXCEPT ![p - b.basePrice] = x] /\ t.basePrice = b.basePrice
  BY DEF Books
<1>3. t.memSpan \in [Cells -> Int]
  BY <1>1, <1>2
<1>4. /\ t \in Books /\ Window(t) = Window(b)
      /\ t.bestBid = b.bestBid /\ t.lowestBid = b.lowestBid
      /\ t.bestOffer = b.bestOffer /\ t.highestOffer = b.highestOffer
  BY <1>1, <1>2, <1>3 DEF Books, Window
<1>5. /\ VolumeAt(t, p) = x
      /\ \A q \in Window(b) : q # p => VolumeAt(t, q) = VolumeAt(b, q)
      /\ \A q \in Window(b) : VolumeAt(b, q) \in Int /\ VolumeAt(t, q) \in Int
  <2> HIDE DEF t
  <2> QED BY <1>1, <1>2, <1>3 DEF VolumeAt
<1>6. t.memSpan[BookLength] = b.memSpan[BookLength]
  BY <1>1, <1>2
<1> QED BY <1>2, <1>4, <1>5, <1>6

\* After a bucket has shrunk, the refreshed bid stats are the extremes of what
\* is left of the bids.
LEMMA WithdrawnBids ==
  ASSUME NEW b, Coherent(b), NEW p \in Window(b), NEW x \in Int,
         Toward(x, VolumeAt(b, p))
  PROVE  LET t    == [b EXCEPT !.memSpan[p - b.basePrice] = x]
             best == Successor(t, b.bestBid, p, x = 0, b.lowestBid)
             far  == Successor(t, b.lowestBid, p, x = 0, best)
         IN  /\ best \in Stats /\ far \in Stats
             /\ AreExtremes(far, best, Bids(t))
<1> DEFINE t    == [b EXCEPT !.memSpan[p - b.basePrice] = x]
           best == Successor(t, b.bestBid, p, x = 0, b.lowestBid)
           far  == Successor(t, b.lowestBid, p, x = 0, best)
           low  == b.lowestBid
           high == b.bestBid
<1> SUFFICES /\ best \in Stats /\ far \in Stats
             /\ AreExtremes(far, best, Bids(t))
  OBVIOUS
<1>1. b \in Books /\ SignedPrices(b.basePrice)
      /\ \A q \in Window(b) : q \in 0..IntMax /\ q # None
  BY WindowIsSigned DEF Coherent
<1>2. /\ t \in Books /\ SignedPrices(t.basePrice) /\ Window(t) = Window(b)
      /\ VolumeAt(t, p) = x
      /\ \A q \in Window(b) : q # p => VolumeAt(t, q) = VolumeAt(b, q)
      /\ \A q \in Window(b) : VolumeAt(b, q) \in Int /\ VolumeAt(t, q) \in Int
  <2>1. /\ t \in Books /\ t.basePrice = b.basePrice /\ Window(t) = Window(b)
        /\ VolumeAt(t, p) = x
        /\ \A q \in Window(b) : q # p => VolumeAt(t, q) = VolumeAt(b, q)
        /\ \A q \in Window(b) : VolumeAt(b, q) \in Int /\ VolumeAt(t, q) \in Int
    BY <1>1, OneBucket, SMTT(30)
  <2> HIDE DEF t
  <2> QED BY <1>1, <2>1
<1> HIDE DEF t
<1>3. \A q \in Window(b) : VolumeAt(t, q) < 0 => VolumeAt(b, q) < 0
  BY <1>2 DEF Toward
<1>4. CASE b.bestBid = None
  <2>1. b.lowestBid = None /\ Bids(t) = {}
    BY <1>2, <1>3, <1>4, CoherentBids DEF Bids
  <2> QED BY <1>4, <2>1 DEF Successor, AreExtremes, Stats
<1>5. CASE b.bestBid # None
  <2>1. /\ low \in Window(b) /\ high \in Window(b) /\ low <= high
        /\ VolumeAt(b, low) < 0 /\ VolumeAt(b, high) < 0
        /\ \A q \in Window(b) : VolumeAt(b, q) < 0 => low <= q /\ q <= high
    BY <1>5, CoherentBids
  <2>2. \A q \in low..high : q \in Window(b) /\ (VolumeAt(t, q) # 0 <=> VolumeAt(t, q) < 0)
    <3>1. low..high \subseteq Window(b)
      BY <1>1, <2>1 DEF Window, Books
    <3> SUFFICES ASSUME NEW q \in low..high, VolumeAt(t, q) > 0 PROVE FALSE
      BY <1>2, <3>1
    <3>2. VolumeAt(b, q) > 0
      BY <1>2, <3>1 DEF Toward
    <3>3. q \in Offers(b) /\ low \in Bids(b) /\ high \in Bids(b)
      BY <2>1, <3>1, <3>2 DEF Bids, Offers
    <3>4. high < q
      BY <3>3 DEF Coherent, NotCrossed
    <3> QED BY <1>1, <2>1, <3>4
  <2>3. \A q \in Bids(t) : q \in low..high /\ VolumeAt(t, q) # 0
    BY <1>1, <1>2, <1>3, <2>1 DEF Bids
  <2>4. \A q \in low..high : VolumeAt(t, q) # 0 => q \in Bids(t)
    BY <1>2, <2>2 DEF Bids
  <2>5. \A q \in Window(b) : q # p \/ x # 0 => (VolumeAt(b, q) < 0 => q \in Bids(t))
    BY <1>2 DEF Toward, Bids
  <2>6. \/ best = None /\ Bids(t) = {}
        \/ best # None /\ best \in Bids(t) /\ \A q \in Bids(t) : q <= best
    <3>1. CASE p = b.bestBid /\ x = 0
      <4>1. best = FindLiquidBucket(t, p, b.lowestBid)
        BY <1>5, <3>1 DEF Successor
      <4>2. \/ best = None /\ \A q \in low..high : VolumeAt(t, q) = 0
            \/ /\ best \in low..high /\ best # None /\ VolumeAt(t, best) # 0
               /\ \A q \in low..high : VolumeAt(t, q) # 0 => q <= best
        BY <1>2, <2>1, <3>1, <4>1, FindDownwards
      <4> HIDE DEF best
      <4> QED BY <2>3, <2>4, <4>2
    <3>2. CASE ~(p = b.bestBid /\ x = 0)
      <4>1. best = b.bestBid
        BY <3>2 DEF Successor
      <4> HIDE DEF best
      <4>2. best \in Bids(t) /\ best # None
        BY <1>5, <2>1, <2>5, <3>2, <4>1
      <4>3. \A q \in Bids(t) : q <= best
        BY <2>1, <2>3, <4>1
      <4> QED BY <4>2, <4>3
    <3> QED BY <3>1, <3>2
  <2> HIDE DEF best
  <2>7. CASE best = None
    <3>1. Bids(t) = {}
      BY <2>6, <2>7
    <3>2. p = b.lowestBid /\ x = 0
      BY <2>1, <2>5, <3>1
    <3>3. far = FindLiquidBucket(t, p, None)
      BY <1>1, <2>1, <2>7, <3>2 DEF Successor
    <3>4. far = None
      BY <1>2, <3>2, <3>3, FindHere
    <3> HIDE DEF far
    <3> QED BY <2>7, <3>1, <3>4 DEF AreExtremes, Stats
  <2>8. CASE best # None
    <3>1. best \in Bids(t) /\ best \in low..high /\ best \in Window(t)
          /\ \A q \in Bids(t) : q <= best
      BY <1>2, <2>2, <2>3, <2>6, <2>8
    <3>2. far \in Bids(t) /\ far # None /\ \A q \in Bids(t) : far <= q
      <4>1. CASE p = b.lowestBid /\ x = 0
        <5>1. far = FindLiquidBucket(t, p, best)
          BY <1>1, <2>1, <4>1 DEF Successor
        <5>2. \/ far = None /\ \A q \in low..best : VolumeAt(t, q) = 0
              \/ /\ far \in low..best /\ far # None /\ VolumeAt(t, far) # 0
                 /\ \A q \in low..best : VolumeAt(t, q) # 0 => far <= q
          BY <1>1, <1>2, <2>1, <3>1, <4>1, <5>1, FindUpwards
        <5>3. \A q \in Bids(t) : q \in low..best /\ VolumeAt(t, q) # 0
          BY <1>1, <2>1, <2>3, <3>1
        <5>4. \A q \in low..best : q \in low..high
          <6>1. low \in Int /\ high \in Int
            BY <1>1, <2>1
          <6> HIDE DEF low, high
          <6>2. best \in low..high
            BY <3>1
          <6> QED BY <6>1, <6>2
        <5> HIDE DEF far
        <5> QED BY <2>4, <3>1, <5>2, <5>3, <5>4
      <4>2. CASE ~(p = b.lowestBid /\ x = 0)
        <5>1. far = b.lowestBid
          BY <4>2 DEF Successor
        <5> HIDE DEF far
        <5>2. far \in Bids(t) /\ far # None
          BY <1>1, <2>1, <2>5, <4>2, <5>1
        <5>3. \A q \in Bids(t) : far <= q
          BY <1>1, <2>1, <2>3, <5>1
        <5> QED BY <5>2, <5>3
      <4> QED BY <4>1, <4>2
    <3> HIDE DEF far
    <3>3. best \in Stats /\ far \in Stats
      BY <1>1, <1>2, <3>1, <3>2 DEF Stats, Bids
    <3> QED BY <2>8, <3>1, <3>2, <3>3 DEF AreExtremes
  <2> QED BY <2>7, <2>8
<1> QED BY <1>4, <1>5

\* The same for the offers.
LEMMA WithdrawnOffers ==
  ASSUME NEW b, Coherent(b), NEW p \in Window(b), NEW x \in Int,
         Toward(x, VolumeAt(b, p))
  PROVE  LET t    == [b EXCEPT !.memSpan[p - b.basePrice] = x]
             best == Successor(t, b.bestOffer, p, x = 0, b.highestOffer)
             far  == Successor(t, b.highestOffer, p, x = 0, best)
         IN  /\ best \in Stats /\ far \in Stats
             /\ AreExtremes(best, far, Offers(t))
<1> DEFINE t    == [b EXCEPT !.memSpan[p - b.basePrice] = x]
           best == Successor(t, b.bestOffer, p, x = 0, b.highestOffer)
           far  == Successor(t, b.highestOffer, p, x = 0, best)
           low  == b.bestOffer
           high == b.highestOffer
<1> SUFFICES /\ best \in Stats /\ far \in Stats
             /\ AreExtremes(best, far, Offers(t))
  OBVIOUS
<1>1. b \in Books /\ SignedPrices(b.basePrice)
      /\ \A q \in Window(b) : q \in 0..IntMax /\ q # None
  BY WindowIsSigned DEF Coherent
<1>2. /\ t \in Books /\ SignedPrices(t.basePrice) /\ Window(t) = Window(b)
      /\ VolumeAt(t, p) = x
      /\ \A q \in Window(b) : q # p => VolumeAt(t, q) = VolumeAt(b, q)
      /\ \A q \in Window(b) : VolumeAt(b, q) \in Int /\ VolumeAt(t, q) \in Int
  <2>1. /\ t \in Books /\ t.basePrice = b.basePrice /\ Window(t) = Window(b)
        /\ VolumeAt(t, p) = x
        /\ \A q \in Window(b) : q # p => VolumeAt(t, q) = VolumeAt(b, q)
        /\ \A q \in Window(b) : VolumeAt(b, q) \in Int /\ VolumeAt(t, q) \in Int
    BY <1>1, OneBucket, SMTT(30)
  <2> HIDE DEF t
  <2> QED BY <1>1, <2>1
<1> HIDE DEF t
<1>3. \A q \in Window(b) : VolumeAt(t, q) > 0 => VolumeAt(b, q) > 0
  BY <1>2 DEF Toward
<1>4. CASE b.bestOffer = None
  <2>1. b.highestOffer = None /\ Offers(t) = {}
    BY <1>2, <1>3, <1>4, CoherentOffers DEF Offers
  <2> QED BY <1>4, <2>1 DEF Successor, AreExtremes, Stats
<1>5. CASE b.bestOffer # None
  <2>1. /\ low \in Window(b) /\ high \in Window(b) /\ low <= high
        /\ VolumeAt(b, low) > 0 /\ VolumeAt(b, high) > 0
        /\ \A q \in Window(b) : VolumeAt(b, q) > 0 => low <= q /\ q <= high
    BY <1>5, CoherentOffers
  <2>2. \A q \in low..high : q \in Window(b) /\ (VolumeAt(t, q) # 0 <=> VolumeAt(t, q) > 0)
    <3>1. low..high \subseteq Window(b)
      BY <1>1, <2>1 DEF Window, Books
    <3> SUFFICES ASSUME NEW q \in low..high, VolumeAt(t, q) < 0 PROVE FALSE
      BY <1>2, <3>1
    <3>2. VolumeAt(b, q) < 0
      BY <1>2, <3>1 DEF Toward
    <3>3. q \in Bids(b) /\ low \in Offers(b) /\ high \in Offers(b)
      BY <2>1, <3>1, <3>2 DEF Bids, Offers
    <3>4. q < low
      BY <3>3 DEF Coherent, NotCrossed
    <3> QED BY <1>1, <2>1, <3>4
  <2>3. \A q \in Offers(t) : q \in low..high /\ VolumeAt(t, q) # 0
    BY <1>1, <1>2, <1>3, <2>1 DEF Offers
  <2>4. \A q \in low..high : VolumeAt(t, q) # 0 => q \in Offers(t)
    BY <1>2, <2>2 DEF Offers
  <2>5. \A q \in Window(b) : q # p \/ x # 0 => (VolumeAt(b, q) > 0 => q \in Offers(t))
    BY <1>2 DEF Toward, Offers
  <2>6. \/ best = None /\ Offers(t) = {}
        \/ best # None /\ best \in Offers(t) /\ \A q \in Offers(t) : best <= q
    <3>1. CASE p = b.bestOffer /\ x = 0
      <4>1. best = FindLiquidBucket(t, p, b.highestOffer)
        BY <1>5, <3>1 DEF Successor
      <4>2. \/ best = None /\ \A q \in low..high : VolumeAt(t, q) = 0
            \/ /\ best \in low..high /\ best # None /\ VolumeAt(t, best) # 0
               /\ \A q \in low..high : VolumeAt(t, q) # 0 => best <= q
        BY <1>2, <2>1, <3>1, <4>1, FindUpwards
      <4> HIDE DEF best
      <4> QED BY <2>3, <2>4, <4>2
    <3>2. CASE ~(p = b.bestOffer /\ x = 0)
      <4>1. best = b.bestOffer
        BY <3>2 DEF Successor
      <4> HIDE DEF best
      <4>2. best \in Offers(t) /\ best # None
        BY <1>5, <2>1, <2>5, <3>2, <4>1
      <4>3. \A q \in Offers(t) : best <= q
        BY <2>1, <2>3, <4>1
      <4> QED BY <4>2, <4>3
    <3> QED BY <3>1, <3>2
  <2> HIDE DEF best
  <2>7. CASE best = None
    <3>1. Offers(t) = {}
      BY <2>6, <2>7
    <3>2. p = b.highestOffer /\ x = 0
      BY <2>1, <2>5, <3>1
    <3>3. far = FindLiquidBucket(t, p, None)
      BY <1>1, <2>1, <2>7, <3>2 DEF Successor
    <3>4. far = None
      BY <1>2, <3>2, <3>3, FindHere
    <3> HIDE DEF far
    <3> QED BY <2>7, <3>1, <3>4 DEF AreExtremes, Stats
  <2>8. CASE best # None
    <3>1. best \in Offers(t) /\ best \in low..high /\ best \in Window(t)
          /\ \A q \in Offers(t) : best <= q
      BY <1>2, <2>2, <2>3, <2>6, <2>8
    <3>2. far \in Offers(t) /\ far # None /\ \A q \in Offers(t) : q <= far
      <4>1. CASE p = b.highestOffer /\ x = 0
        <5>1. far = FindLiquidBucket(t, p, best)
          BY <1>1, <2>1, <4>1 DEF Successor
        <5>2. \/ far = None /\ \A q \in best..high : VolumeAt(t, q) = 0
              \/ /\ far \in best..high /\ far # None /\ VolumeAt(t, far) # 0
                 /\ \A q \in best..high : VolumeAt(t, q) # 0 => q <= far
          BY <1>1, <1>2, <2>1, <3>1, <4>1, <5>1, FindDownwards
        <5>3. \A q \in Offers(t) : q \in best..high /\ VolumeAt(t, q) # 0
          BY <1>1, <2>1, <2>3, <3>1
        <5>4. \A q \in best..high : q \in low..high
          <6>1. low \in Int /\ high \in Int
            BY <1>1, <2>1
          <6> HIDE DEF low, high
          <6>2. best \in low..high
            BY <3>1
          <6> QED BY <6>1, <6>2
        <5> HIDE DEF far
        <5> QED BY <2>4, <3>1, <5>2, <5>3, <5>4
      <4>2. CASE ~(p = b.highestOffer /\ x = 0)
        <5>1. far = b.highestOffer
          BY <4>2 DEF Successor
        <5> HIDE DEF far
        <5>2. far \in Offers(t) /\ far # None
          BY <1>1, <2>1, <2>5, <4>2, <5>1
        <5>3. \A q \in Offers(t) : q <= far
          BY <1>1, <2>1, <2>3, <5>1
        <5> QED BY <5>2, <5>3
      <4> QED BY <4>1, <4>2
    <3> HIDE DEF far
    <3>3. best \in Stats /\ far \in Stats
      BY <1>1, <1>2, <3>1, <3>2 DEF Stats, Offers
    <3> QED BY <2>8, <3>1, <3>2, <3>3 DEF AreExtremes
  <2> QED BY <2>7, <2>8
<1> QED BY <1>4, <1>5

\* On a coherent book, looking up a stat whose bucket is not empty returns it.
LEMMA StatsStand ==
  ASSUME NEW b, Coherent(b), NEW p \in Int, NEW dry \in BOOLEAN,
         dry => \A stat \in {b.bestBid, b.lowestBid, b.bestOffer, b.highestOffer} :
                  p = stat /\ stat # None => VolumeAt(b, p) # 0
  PROVE  RefreshStats(b, p, dry) = b
<1>1. b \in Books /\ SignedPrices(b.basePrice)
      /\ \A q \in Window(b) : q \in 0..IntMax
  BY WindowIsSigned DEF Coherent
<1>2. ASSUME b.bestBid # None
      PROVE  /\ b.bestBid \in Window(b) /\ b.lowestBid \in Window(b)
             /\ b.lowestBid <= b.bestBid
             /\ VolumeAt(b, b.bestBid) # 0 /\ VolumeAt(b, b.lowestBid) # 0
             /\ FindLiquidBucket(b, b.bestBid, b.lowestBid) = b.bestBid
             /\ FindLiquidBucket(b, b.lowestBid, b.bestBid) = b.lowestBid
  <2>1. /\ b.bestBid \in Window(b) /\ b.lowestBid \in Window(b)
        /\ b.lowestBid <= b.bestBid
        /\ VolumeAt(b, b.bestBid) # 0 /\ VolumeAt(b, b.lowestBid) # 0
    BY <1>2, CoherentBids, WindowIsSigned DEF Coherent
  <2>2. b.lowestBid \in b.lowestBid..b.bestBid /\ b.bestBid \in b.lowestBid..b.bestBid
    BY <1>1, <2>1
  <2>3. FindLiquidBucket(b, b.bestBid, b.lowestBid) = b.bestBid
    <3> DEFINE r == FindLiquidBucket(b, b.bestBid, b.lowestBid)
    <3>1. r \in b.lowestBid..b.bestBid /\ b.bestBid <= r
      BY <1>1, <2>1, <2>2, FindDownwards
    <3> HIDE DEF r
    <3>2. r = b.bestBid
      BY <1>1, <2>1, <3>1
    <3> QED BY <3>2 DEF r
  <2>4. FindLiquidBucket(b, b.lowestBid, b.bestBid) = b.lowestBid
    <3> DEFINE r == FindLiquidBucket(b, b.lowestBid, b.bestBid)
    <3>1. r \in b.lowestBid..b.bestBid /\ r <= b.lowestBid
      BY <1>1, <2>1, <2>2, FindUpwards
    <3> HIDE DEF r
    <3>2. r = b.lowestBid
      BY <1>1, <2>1, <3>1
    <3> QED BY <3>2 DEF r
  <2> QED BY <2>1, <2>3, <2>4
<1>3. ASSUME b.bestOffer # None
      PROVE  /\ FindLiquidBucket(b, b.bestOffer, b.highestOffer) = b.bestOffer
             /\ FindLiquidBucket(b, b.highestOffer, b.bestOffer) = b.highestOffer
  <2>1. /\ b.bestOffer \in Window(b) /\ b.highestOffer \in Window(b)
        /\ b.bestOffer <= b.highestOffer
        /\ VolumeAt(b, b.bestOffer) # 0 /\ VolumeAt(b, b.highestOffer) # 0
    BY <1>3, CoherentOffers, WindowIsSigned DEF Coherent
  <2>2. /\ b.bestOffer \in b.bestOffer..b.highestOffer
        /\ b.highestOffer \in b.bestOffer..b.highestOffer
    BY <1>1, <2>1
  <2>3. FindLiquidBucket(b, b.bestOffer, b.highestOffer) = b.bestOffer
    <3> DEFINE r == FindLiquidBucket(b, b.bestOffer, b.highestOffer)
    <3>1. r \in b.bestOffer..b.highestOffer /\ r <= b.bestOffer
      BY <1>1, <2>1, <2>2, FindUpwards
    <3> HIDE DEF r
    <3>2. r = b.bestOffer
      BY <1>1, <2>1, <3>1
    <3> QED BY <3>2 DEF r
  <2>4. FindLiquidBucket(b, b.highestOffer, b.bestOffer) = b.highestOffer
    <3> DEFINE r == FindLiquidBucket(b, b.highestOffer, b.bestOffer)
    <3>1. r \in b.bestOffer..b.highestOffer /\ b.highestOffer <= r
      BY <1>1, <2>1, <2>2, FindDownwards
    <3> HIDE DEF r
    <3>2. r = b.highestOffer
      BY <1>1, <2>1, <3>1
    <3> QED BY <3>2 DEF r
  <2> QED BY <2>3, <2>4
<1>4. /\ b.bestBid = None <=> b.lowestBid = None
      /\ b.bestOffer = None <=> b.highestOffer = None
  BY CoherentBids, CoherentOffers
<1>5. /\ Successor(b, b.bestBid, p, dry, b.lowestBid) = b.bestBid
      /\ Successor(b, b.lowestBid, p, dry, b.bestBid) = b.lowestBid
      /\ Successor(b, b.bestOffer, p, dry, b.highestOffer) = b.bestOffer
      /\ Successor(b, b.highestOffer, p, dry, b.bestOffer) = b.highestOffer
  BY <1>2, <1>3, <1>4 DEF Successor
<1>6. [b EXCEPT !.bestBid = b.bestBid, !.lowestBid = b.lowestBid,
                !.bestOffer = b.bestOffer, !.highestOffer = b.highestOffer] = b
  BY <1>1 DEF Books
<1> QED BY <1>5, <1>6 DEF RefreshStats

\* A withdrawal of nothing changes nothing.
LEMMA BlankWithdrawal ==
  ASSUME NEW b, Coherent(b), NEW p \in 0..UIntMax
  PROVE  HandleWithdrawLimitOrder(b, Order(0, p)) = [book |-> b, response |-> NoResponse]
<1>1. \A stat \in {b.bestBid, b.lowestBid, b.bestOffer, b.highestOffer} :
         p = stat /\ stat # None => VolumeAt(b, p) # 0
  BY CoherentBids, CoherentOffers, WindowIsSigned DEF Coherent
<1>2. RefreshStats(b, p, TRUE) = b
  <2>1. p \in Int /\ TRUE \in BOOLEAN
    OBVIOUS
  <2> DEFINE dry == TRUE
  <2>2. dry \in BOOLEAN
    OBVIOUS
  <2> HIDE DEF dry
  <2>3. RefreshStats(b, p, dry) = b
    BY <1>1, <2>1, <2>2, StatsStand
  <2> QED BY <2>3 DEF dry
<1> QED BY <1>2 DEF HandleWithdrawLimitOrder, Order, NoResponse

\* Arithmetic on prices that fit does not wrap.
LEMMA NoWrap ==
  ASSUME NEW n \in 0..UIntMax
  PROVE  UInt32(n) = n
<1> DEFINE size == UIntMax + 1
<1>1. size \in Nat \ {0} /\ n \in Nat /\ n < size
  BY IntMaxAssumption DEF UIntMax
<1> HIDE DEF size
<1>2. n % size = n
  BY <1>1
<1> QED BY <1>2 DEF UInt32, size

\* The prices an order may name and still be in range: those of the window.
LEMMA InRangeIsWindow ==
  ASSUME NEW b, Coherent(b), NEW p \in 0..UIntMax, p # b.basePrice + BookLength
  PROVE  PriceInRange(b, p) <=> p \in Window(b)
<1>1. /\ b.basePrice \in Int /\ b.basePrice + BookLength \in 0..UIntMax
  BY IntMaxAssumption, BookLengthAssumption DEF Coherent, Books, SignedPrices, UIntMax
<1>2. UInt32(b.basePrice + BookLength) = b.basePrice + BookLength
  BY <1>1, NoWrap
<1> QED BY <1>1, <1>2, BookLengthAssumption DEF PriceInRange, Window

\* A withdrawal with no bucket for its price is refused and changes nothing:
\* the handler goes on with a blank order for the first bucket.
LEMMA RefusedWithdrawal ==
  ASSUME NEW b, Coherent(b), NEW volume \in Int, volume # 0,
         NEW p \in 0..UIntMax, ~PriceInRange(b, p)
  PROVE  HandleWithdrawLimitOrder(b, Order(volume, p)) =
           [book |-> b, response |-> [NoResponse EXCEPT !.error = 1]]
<1> DEFINE base == b.basePrice
           dry  == VolumeAt(b, base) = 0
<1>1. /\ b \in Books /\ SignedPrices(b.basePrice) /\ b.basePrice \in Window(b)
      /\ b.basePrice \in Nat /\ b.memSpan \in [Cells -> Int]
  BY DEF Coherent, Books, Window
<1>2. ConsumeLiquidity(VolumeAt(b, base), 0) = 0 /\ VolumeAt(b, base) \in Int
  BY <1>1, ConsumeShrinks, WindowIsSigned
<1>3. TakeFromBucket(b, base, 0) = b
  <2>1. base - b.basePrice = 0 /\ 0 \in Cells
    BY <1>1 DEF Cells
  <2>2. [b.memSpan EXCEPT ![0] = @ - 0] = b.memSpan
    BY <1>1, <2>1
  <2> QED BY <1>1, <2>1, <2>2 DEF Books, TakeFromBucket
<1>4. dry => \A stat \in {b.bestBid, b.lowestBid, b.bestOffer, b.highestOffer} :
               base = stat /\ stat # None => VolumeAt(b, base) # 0
  BY <1>1, CoherentBids, CoherentOffers, WindowIsSigned DEF Coherent
<1>5. RefreshStats(b, base, dry) = b
  <2>1. base \in Int /\ dry \in BOOLEAN
    BY <1>1
  <2> HIDE DEF base, dry
  <2> QED BY <1>4, <2>1, StatsStand
<1> HIDE DEF base
<1>6. base = b.basePrice
  BY DEF base
<1> QED BY <1>2, <1>3, <1>5, <1>6 DEF HandleWithdrawLimitOrder, Order, NoResponse

LEMMA WithdrawKeeps ==
  ASSUME NEW b, Coherent(b), NEW volume \in Int, NEW p \in 0..UIntMax,
         p # b.basePrice + BookLength
  PROVE  Kept(b, HandleWithdrawLimitOrder(b, Order(volume, p)))
<1>0. /\ b \in Books /\ SignedPrices(b.basePrice) /\ b.basePrice \in Window(b)
      /\ b.basePrice \in Nat /\ b.memSpan \in [Cells -> Int]
  BY DEF Coherent, Books, Window
<1>1. CASE volume = 0
  <2>1. NoResponse \in Responses
    BY DEF NoResponse, Responses
  <2>2. HandleWithdrawLimitOrder(b, Order(volume, p)) = [book |-> b, response |-> NoResponse]
    BY <1>1, BlankWithdrawal
  <2> QED BY <2>1, <2>2 DEF Kept
<1>2. CASE volume # 0 /\ p \notin Window(b)
  <2>1. HandleWithdrawLimitOrder(b, Order(volume, p)) =
          [book |-> b, response |-> [NoResponse EXCEPT !.error = 1]]
    BY <1>2, InRangeIsWindow, RefusedWithdrawal
  <2>2. [NoResponse EXCEPT !.error = 1] \in Responses
    BY DEF NoResponse, Responses
  <2> QED BY <2>1, <2>2 DEF Kept
<1>3. CASE volume # 0 /\ p \in Window(b)
  <2> DEFINE w    == ConsumeLiquidity(VolumeAt(b, p), volume)
             x    == VolumeAt(b, p) - w
             t    == [b EXCEPT !.memSpan[p - b.basePrice] = x]
             bb   == Successor(t, b.bestBid, p, x = 0, b.lowestBid)
             lb   == Successor(t, b.lowestBid, p, x = 0, bb)
             bo   == Successor(t, b.bestOffer, p, x = 0, b.highestOffer)
             ho   == Successor(t, b.highestOffer, p, x = 0, bo)
             c    == RefreshStats(t, p, x = 0)
             r    == [marginalPrice |-> 0, filledVolume |-> w, revenue |-> 0, error |-> 0]
  <2>1. VolumeAt(b, p) \in Int /\ w \in Int /\ x \in Int /\ Toward(x, VolumeAt(b, p))
    BY <1>0, <1>3, ConsumeShrinks, WindowIsSigned
  <2>2. /\ bb \in Stats /\ lb \in Stats /\ AreExtremes(lb, bb, Bids(t))
        /\ bo \in Stats /\ ho \in Stats /\ AreExtremes(bo, ho, Offers(t))
    BY <1>3, <2>1, WithdrawnBids, WithdrawnOffers
  <2>3. /\ t \in Books /\ t.basePrice = b.basePrice /\ Window(t) = Window(b)
        /\ t.bestBid = b.bestBid /\ t.lowestBid = b.lowestBid
        /\ t.bestOffer = b.bestOffer /\ t.highestOffer = b.highestOffer
        /\ VolumeAt(t, p) = x
        /\ \A q \in Window(b) : q # p => VolumeAt(t, q) = VolumeAt(b, q)
        /\ \A q \in Window(b) : VolumeAt(b, q) \in Int /\ VolumeAt(t, q) \in Int
        /\ t.memSpan[BookLength] = b.memSpan[BookLength]
    <3>1. b \in Books /\ SignedPrices(b.basePrice) /\ p \in Window(b) /\ x \in Int
      BY <1>0, <1>3, <2>1
    <3> HIDE DEF x
    <3> QED BY <3>1, OneBucket, ZenonT(30)
  <2>4. HandleWithdrawLimitOrder(b, Order(volume, p)) = [book |-> c, response |-> r]
    <3>1. PriceInRange(b, p)
      BY <1>3, InRangeIsWindow
    <3>2. TakeFromBucket(b, p, w) = t
      BY <1>0, <1>3 DEF VolumeAt, Window, Cells, Books, TakeFromBucket
    <3>3. VolumeAt(t, p) = x
      BY <2>3
    <3> HIDE DEF x, t
    <3> QED BY <1>3, <3>1, <3>2, <3>3 DEF HandleWithdrawLimitOrder, Order
  <2>11. c = [t EXCEPT !.bestBid = bb, !.lowestBid = lb,
                       !.bestOffer = bo, !.highestOffer = ho]
    BY <2>3 DEF RefreshStats
  <2> HIDE DEF w, x, t, bb, lb, bo, ho, c
  <2>5. /\ c \in Books /\ c.basePrice = b.basePrice /\ c.memSpan = t.memSpan
        /\ c.bestBid = bb /\ c.lowestBid = lb
        /\ c.bestOffer = bo /\ c.highestOffer = ho
    BY <2>2, <2>3, <2>11 DEF Books
  <2>6. Window(c) = Window(b) /\ \A q \in Window(b) : VolumeAt(c, q) = VolumeAt(t, q)
    BY <2>3, <2>5 DEF Window, VolumeAt
  <2>7. Bids(c) = Bids(t) /\ Offers(c) = Offers(t)
    BY <2>3, <2>6 DEF Bids, Offers
  <2>8. Bids(t) \subseteq Bids(b) /\ Offers(t) \subseteq Offers(b)
    <3>1. \A q \in Window(b) : /\ VolumeAt(t, q) < 0 => VolumeAt(b, q) < 0
                               /\ VolumeAt(t, q) > 0 => VolumeAt(b, q) > 0
      BY <2>1, <2>3 DEF Toward
    <3> QED BY <2>3, <3>1 DEF Bids, Offers
  <2>9. Coherent(c)
    BY <1>0, <2>2, <2>5, <2>7, <2>8 DEF Coherent, ExactStats, NotCrossed
  <2>10. r \in Responses
    BY <2>1 DEF Responses
  <2> QED BY <2>3, <2>4, <2>5, <2>9, <2>10 DEF Kept
<1> QED BY <1>1, <1>2, <1>3

-----------------------------------------------------------------------------
(* A new limit order on a coherent book.                                    *)

\* Resting demand below every offer.
LEMMA RestBid ==
  ASSUME NEW b, Coherent(b), NEW u \in Int, u < 0, NEW p \in Window(b),
         b.bestOffer = None \/ p < b.bestOffer
  PROVE  LET c == RestLiquidity(b, u, p)
         IN  /\ Coherent(c)
             /\ c.basePrice = b.basePrice
             /\ c.memSpan[BookLength] = b.memSpan[BookLength]
<1> DEFINE x == VolumeAt(b, p) + u
           t == [b EXCEPT !.memSpan[p - b.basePrice] = x]
           low  == Lower(b.lowestBid, p)
           high == Higher(b.bestBid, p)
           c == RestLiquidity(b, u, p)
<1>1. /\ b \in Books /\ SignedPrices(b.basePrice)
      /\ \A q \in Window(b) : q \in 0..IntMax /\ q # None
      /\ VolumeAt(b, p) \in Int /\ x \in Int
      /\ p - b.basePrice \in Cells
  BY WindowIsSigned DEF Coherent, Span, Cells
<1>2. VolumeAt(b, p) <= 0 /\ x < 0
  <2>1. b.bestOffer = None => VolumeAt(b, p) <= 0
    BY CoherentOffers
  <2>2. b.bestOffer # None => VolumeAt(b, p) <= 0
    <3> SUFFICES ASSUME b.bestOffer # None, ~(VolumeAt(b, p) <= 0) PROVE FALSE
      OBVIOUS
    <3>1. b.bestOffer <= p
      BY <1>1, CoherentOffers
    <3> QED BY <1>1, <3>1, CoherentOffers
  <2> QED BY <1>1, <2>1, <2>2
<1>3. /\ t \in Books /\ t.basePrice = b.basePrice /\ Window(t) = Window(b)
      /\ t.bestBid = b.bestBid /\ t.lowestBid = b.lowestBid
      /\ t.bestOffer = b.bestOffer /\ t.highestOffer = b.highestOffer
      /\ VolumeAt(t, p) = x
      /\ \A q \in Window(b) : q # p => VolumeAt(t, q) = VolumeAt(b, q)
      /\ \A q \in Window(b) : VolumeAt(b, q) \in Int /\ VolumeAt(t, q) \in Int
      /\ t.memSpan[BookLength] = b.memSpan[BookLength]
  BY <1>1, OneBucket
<1>4. c = [t EXCEPT !.lowestBid = low, !.bestBid = high]
  <2>1. AddToBucket(b, p, u) = t
    BY <1>1 DEF AddToBucket, AddLiquidity, VolumeAt, Books
  <2> HIDE DEF t
  <2>2. RestLiquidity(b, u, p) = [t EXCEPT !.lowestBid = Lower(@, p), !.bestBid = Higher(@, p)]
    BY <2>1 DEF RestLiquidity
  <2> QED BY <1>3, <2>2 DEF Books
<1> HIDE DEF x, t, c
<1>5. Bids(t) = Bids(b) \cup {p} /\ Offers(t) = Offers(b)
  BY <1>2, <1>3 DEF Bids, Offers
<1>6. low \in Stats /\ high \in Stats /\ AreExtremes(low, high, Bids(t))
  <2>1. CASE b.lowestBid = None
    <3>1. b.bestBid = None /\ Bids(b) = {}
      BY <1>1, <1>3, <2>1, CoherentBids DEF Bids
    <3>2. low = p /\ high = p /\ p \in Stats
      BY <1>1, <2>1, <3>1 DEF Lower, Higher, Stats
    <3> HIDE DEF low, high
    <3> QED BY <1>1, <1>5, <3>1, <3>2 DEF AreExtremes
  <2>2. CASE b.lowestBid # None
    <3>1. /\ b.lowestBid \in Window(b) /\ b.bestBid \in Window(b) /\ b.bestBid # None
          /\ b.lowestBid \in Bids(b) /\ b.bestBid \in Bids(b)
          /\ \A q \in Bids(b) : b.lowestBid <= q /\ q <= b.bestBid
      BY <1>1, <2>2, CoherentBids DEF Bids
    <3>2. /\ low = IF b.lowestBid > p THEN p ELSE b.lowestBid
          /\ high = IF b.bestBid < p THEN p ELSE b.bestBid
      BY <2>2, <3>1 DEF Lower, Higher
    <3> HIDE DEF low, high
    <3>3. /\ low \in Window(b) /\ high \in Window(b)
          /\ low \in Bids(t) /\ high \in Bids(t)
          /\ low <= p /\ low <= b.lowestBid /\ p <= high /\ b.bestBid <= high
      BY <1>1, <1>5, <3>1, <3>2
    <3>4. \A q \in Bids(t) : low <= q /\ q <= high
      <4> SUFFICES ASSUME NEW q \in Bids(t) PROVE low <= q /\ q <= high
        OBVIOUS
      <4>1. q = p \/ (b.lowestBid <= q /\ q <= b.bestBid)
        BY <1>5, <3>1
      <4>2. q \in Window(b)
        BY <1>3 DEF Bids
      <4> QED BY <1>1, <3>1, <3>3, <4>1, <4>2
    <3>5. low # None /\ high # None /\ low \in Stats /\ high \in Stats
      BY <1>1, <3>3 DEF Stats
    <3> QED BY <3>3, <3>4, <3>5 DEF AreExtremes
  <2> QED BY <2>1, <2>2
<1> HIDE DEF low, high
<1>7. /\ c \in Books /\ c.basePrice = b.basePrice /\ c.memSpan = t.memSpan
      /\ c.lowestBid = low /\ c.bestBid = high
      /\ c.bestOffer = b.bestOffer /\ c.highestOffer = b.highestOffer
  BY <1>3, <1>4, <1>6 DEF Books
<1>8. Bids(c) = Bids(t) /\ Offers(c) = Offers(t)
  BY <1>3, <1>7 DEF Bids, Offers, Window, VolumeAt
<1>9. ExactStats(c)
  BY <1>1, <1>5, <1>6, <1>7, <1>8 DEF Coherent, ExactStats
<1>10. \A q \in Offers(b) : p < q
  <2> SUFFICES ASSUME NEW q \in Offers(b) PROVE p < q
    OBVIOUS
  <2>1. q \in Window(b) /\ VolumeAt(b, q) > 0 /\ q \in Int /\ VolumeAt(b, q) \in Int
    BY <1>1, <1>3 DEF Offers
  <2>2. b.bestOffer # None
    BY <2>1, CoherentOffers
  <2>3. b.bestOffer \in Window(b) /\ b.bestOffer <= q
    BY <2>1, <2>2, CoherentOffers
  <2>4. b.bestOffer \in Int /\ p \in Int
    BY <1>1, <2>3
  <2> QED BY <2>1, <2>2, <2>3, <2>4
<1>11. NotCrossed(c)
  BY <1>5, <1>8, <1>10 DEF Coherent, NotCrossed
<1> QED BY <1>1, <1>3, <1>7, <1>9, <1>11 DEF Coherent, c

\* Resting supply above every bid.
LEMMA RestOffer ==
  ASSUME NEW b, Coherent(b), NEW u \in Int, u > 0, NEW p \in Window(b),
         b.bestBid = None \/ b.bestBid < p
  PROVE  LET c == RestLiquidity(b, u, p)
         IN  /\ Coherent(c)
             /\ c.basePrice = b.basePrice
             /\ c.memSpan[BookLength] = b.memSpan[BookLength]
<1> DEFINE x == VolumeAt(b, p) + u
           t == [b EXCEPT !.memSpan[p - b.basePrice] = x]
           low  == Lower(b.bestOffer, p)
           high == Higher(b.highestOffer, p)
           c == RestLiquidity(b, u, p)
<1>1. /\ b \in Books /\ SignedPrices(b.basePrice)
      /\ \A q \in Window(b) : q \in 0..IntMax /\ q # None
      /\ VolumeAt(b, p) \in Int /\ x \in Int
      /\ p - b.basePrice \in Cells
  BY WindowIsSigned DEF Coherent, Span, Cells
<1>2. VolumeAt(b, p) >= 0 /\ x > 0
  <2>1. b.bestBid = None => VolumeAt(b, p) >= 0
    BY CoherentBids
  <2>2. b.bestBid # None => VolumeAt(b, p) >= 0
    <3> SUFFICES ASSUME b.bestBid # None, ~(VolumeAt(b, p) >= 0) PROVE FALSE
      OBVIOUS
    <3>1. p <= b.bestBid
      BY <1>1, CoherentBids
    <3> QED BY <1>1, <3>1, CoherentBids
  <2> QED BY <1>1, <2>1, <2>2
<1>3. /\ t \in Books /\ t.basePrice = b.basePrice /\ Window(t) = Window(b)
      /\ t.bestBid = b.bestBid /\ t.lowestBid = b.lowestBid
      /\ t.bestOffer = b.bestOffer /\ t.highestOffer = b.highestOffer
      /\ VolumeAt(t, p) = x
      /\ \A q \in Window(b) : q # p => VolumeAt(t, q) = VolumeAt(b, q)
      /\ \A q \in Window(b) : VolumeAt(b, q) \in Int /\ VolumeAt(t, q) \in Int
      /\ t.memSpan[BookLength] = b.memSpan[BookLength]
  BY <1>1, OneBucket
<1>4. c = [t EXCEPT !.bestOffer = low, !.highestOffer = high]
  <2>1. AddToBucket(b, p, u) = t
    BY <1>1 DEF AddToBucket, AddLiquidity, VolumeAt, Books
  <2> HIDE DEF t
  <2>2. RestLiquidity(b, u, p) = [t EXCEPT !.highestOffer = Higher(@, p), !.bestOffer = Lower(@, p)]
    BY <2>1 DEF RestLiquidity
  <2> QED BY <1>3, <2>2 DEF Books
<1> HIDE DEF x, t, c
<1>5. Offers(t) = Offers(b) \cup {p} /\ Bids(t) = Bids(b)
  BY <1>2, <1>3 DEF Offers, Bids
<1>6. low \in Stats /\ high \in Stats /\ AreExtremes(low, high, Offers(t))
  <2>1. CASE b.bestOffer = None
    <3>1. b.highestOffer = None /\ Offers(b) = {}
      BY <1>1, <1>3, <2>1, CoherentOffers DEF Offers
    <3>2. low = p /\ high = p /\ p \in Stats
      BY <1>1, <2>1, <3>1 DEF Lower, Higher, Stats
    <3> HIDE DEF low, high
    <3> QED BY <1>1, <1>5, <3>1, <3>2 DEF AreExtremes
  <2>2. CASE b.bestOffer # None
    <3>1. /\ b.bestOffer \in Window(b) /\ b.highestOffer \in Window(b) /\ b.highestOffer # None
          /\ b.bestOffer \in Offers(b) /\ b.highestOffer \in Offers(b)
          /\ \A q \in Offers(b) : b.bestOffer <= q /\ q <= b.highestOffer
      BY <1>1, <2>2, CoherentOffers DEF Offers
    <3>2. /\ low = IF b.bestOffer > p THEN p ELSE b.bestOffer
          /\ high = IF b.highestOffer < p THEN p ELSE b.highestOffer
      BY <2>2, <3>1 DEF Lower, Higher
    <3> HIDE DEF low, high
    <3>3. /\ low \in Window(b) /\ high \in Window(b)
          /\ low \in Offers(t) /\ high \in Offers(t)
          /\ low <= p /\ low <= b.bestOffer /\ p <= high /\ b.highestOffer <= high
      BY <1>1, <1>5, <3>1, <3>2
    <3>4. \A q \in Offers(t) : low <= q /\ q <= high
      <4> SUFFICES ASSUME NEW q \in Offers(t) PROVE low <= q /\ q <= high
        OBVIOUS
      <4>1. q = p \/ (b.bestOffer <= q /\ q <= b.highestOffer)
        BY <1>5, <3>1
      <4>2. q \in Window(b)
        BY <1>3 DEF Offers
      <4> QED BY <1>1, <3>1, <3>3, <4>1, <4>2
    <3>5. low # None /\ high # None /\ low \in Stats /\ high \in Stats
      BY <1>1, <3>3 DEF Stats
    <3> QED BY <3>3, <3>4, <3>5 DEF AreExtremes
  <2> QED BY <2>1, <2>2
<1> HIDE DEF low, high
<1>7. /\ c \in Books /\ c.basePrice = b.basePrice /\ c.memSpan = t.memSpan
      /\ c.bestOffer = low /\ c.highestOffer = high
      /\ c.bestBid = b.bestBid /\ c.lowestBid = b.lowestBid
  BY <1>3, <1>4, <1>6 DEF Books
<1>8. Bids(c) = Bids(t) /\ Offers(c) = Offers(t)
  BY <1>3, <1>7 DEF Bids, Offers, Window, VolumeAt
<1>9. ExactStats(c)
  BY <1>1, <1>5, <1>6, <1>7, <1>8 DEF Coherent, ExactStats
<1>10. \A q \in Bids(b) : q < p
  <2> SUFFICES ASSUME NEW q \in Bids(b) PROVE q < p
    OBVIOUS
  <2>1. q \in Window(b) /\ VolumeAt(b, q) < 0 /\ q \in Int /\ VolumeAt(b, q) \in Int
    BY <1>1, <1>3 DEF Bids
  <2>2. b.bestBid # None
    BY <2>1, CoherentBids
  <2>3. b.bestBid \in Window(b) /\ q <= b.bestBid
    BY <2>1, <2>2, CoherentBids
  <2>4. b.bestBid \in Int /\ p \in Int
    BY <1>1, <2>3
  <2> QED BY <2>1, <2>2, <2>3, <2>4
<1>11. NotCrossed(c)
  BY <1>5, <1>8, <1>10 DEF Coherent, NotCrossed
<1> QED BY <1>1, <1>3, <1>7, <1>9, <1>11 DEF Coherent, c

LEMMA RestNothing ==
  ASSUME NEW b \in Books, NEW p \in Window(b)
  PROVE  RestLiquidity(b, 0, p) = b
<1>1. b.basePrice \in Nat /\ b.memSpan \in [Cells -> Int] /\ p - b.basePrice \in Cells
  BY DEF Books, Window, Cells
<1>2. AddToBucket(b, p, 0) = b
  <2>1. [b.memSpan EXCEPT ![p - b.basePrice] = @ + 0] = b.memSpan
    BY <1>1
  <2> QED BY <2>1 DEF AddToBucket, AddLiquidity, Books
<1> QED BY <1>2 DEF RestLiquidity

\* A limit order without volume changes and answers nothing.
LEMMA BlankLimitOrder ==
  ASSUME NEW b, Coherent(b)
  PROVE  HandleNewLimitOrder(b, BlankOrder) = [book |-> b, response |-> NoResponse]
<1>1. RunThroughBook(b, 0, None) = [book |-> b, response |-> NoResponse]
  BY DummyRunIsNoOp
<1>2. ~CrossesBook(b, 0, 0)
  BY DEF CrossesBook
<1>3. [NoResponse EXCEPT !.error = 0] = NoResponse
  BY DEF NoResponse
<1> QED BY <1>1, <1>2, <1>3 DEF HandleNewLimitOrder, BlankOrder, Order

\* A limit order with no bucket for its price is refused and changes nothing.
LEMMA RefusedLimitOrder ==
  ASSUME NEW b, Coherent(b), NEW volume \in Int, volume # 0,
         NEW p \in 0..UIntMax, ~PriceInRange(b, p)
  PROVE  HandleNewLimitOrder(b, Order(volume, p)) =
           [book |-> b, response |-> [NoResponse EXCEPT !.error = 1]]
<1>1. RunThroughBook(b, 0, None) = [book |-> b, response |-> NoResponse]
  BY DummyRunIsNoOp
<1>2. ~CrossesBook(b, 0, b.basePrice)
  BY DEF CrossesBook
<1> QED BY <1>1, <1>2 DEF HandleNewLimitOrder, Order

LEMMA LimitOrderKeeps ==
  ASSUME NEW b, Coherent(b), NEW volume \in Int, NEW p \in 0..UIntMax,
         p # b.basePrice + BookLength
  PROVE  Kept(b, HandleNewLimitOrder(b, Order(volume, p)))
<1> DEFINE result == HandleNewLimitOrder(b, Order(volume, p))
<1> SUFFICES Kept(b, result)
  OBVIOUS
<1>0. /\ b \in Books
      /\ NoResponse \in Responses /\ [NoResponse EXCEPT !.error = 1] \in Responses
      /\ NoResponse.filledVolume = 0
  BY DEF Coherent, NoResponse, Responses
<1>1. CASE volume = 0
  <2>1. RunThroughBook(b, 0, None) = [book |-> b, response |-> NoResponse]
    BY DummyRunIsNoOp
  <2>2. ~CrossesBook(b, 0, p)
    BY DEF CrossesBook
  <2>3. [NoResponse EXCEPT !.error = 0] = NoResponse
    BY DEF NoResponse
  <2>4. result = [book |-> b, response |-> NoResponse]
    BY <1>1, <2>1, <2>2, <2>3 DEF HandleNewLimitOrder, Order
  <2> QED BY <1>0, <2>4 DEF Kept
<1>2. CASE volume # 0 /\ p \notin Window(b)
  <2>1. result = [book |-> b, response |-> [NoResponse EXCEPT !.error = 1]]
    BY <1>2, InRangeIsWindow, RefusedLimitOrder
  <2> QED BY <1>0, <2>1 DEF Kept
<1>3. CASE volume # 0 /\ p \in Window(b)
  <2> DEFINE end  == CASE ~CrossesBook(b, volume, p)               -> None
                       [] CrossesBook(b, volume, p) /\ volume < 0  -> b.highestOffer
                       [] OTHER                                    -> b.lowestBid
             run  == RunThroughBook(b, volume, end)
             open == volume - run.response.filledVolume
  <2>1. /\ result.book = RestLiquidity(run.book, open, p)
        /\ result.response = [run.response EXCEPT !.error = 0]
    <3>1. PriceInRange(b, p)
      BY <1>3, InRangeIsWindow
    <3> QED BY <1>3, <3>1 DEF HandleNewLimitOrder, Order
  <2>2. CASE ~CrossesBook(b, volume, p)
    <3>1. run = [book |-> b, response |-> NoResponse]
      BY <2>2, DummyRunIsNoOp
    <3> HIDE DEF run
    <3>2. open = volume /\ run.book = b /\ run.response = NoResponse
      BY <1>0, <3>1
    <3> HIDE DEF open, result
    <3>3. p \in Int /\ \A q \in Window(b) : q \in Int
      BY WindowIsSigned DEF Coherent
    <3>4. CASE volume < 0
      <4>1. b.bestOffer = None \/ p < b.bestOffer
        BY <2>2, <3>3, <3>4, CoherentOffers DEF CrossesBook
      <4>2. Coherent(result.book) /\ result.book.basePrice = b.basePrice
            /\ result.book.memSpan[BookLength] = b.memSpan[BookLength]
        BY <1>3, <2>1, <3>2, <3>4, <4>1, RestBid
      <4> QED BY <2>1, <3>2, <4>2 DEF Kept, NoResponse, Responses
    <3>5. CASE volume > 0
      <4>1. b.bestBid = None \/ b.bestBid < p
        BY <2>2, <3>3, <3>5, CoherentBids DEF CrossesBook
      <4>2. Coherent(result.book) /\ result.book.basePrice = b.basePrice
            /\ result.book.memSpan[BookLength] = b.memSpan[BookLength]
        BY <1>3, <2>1, <3>2, <3>5, <4>1, RestOffer
      <4> QED BY <2>1, <3>2, <4>2 DEF Kept, NoResponse, Responses
    <3> QED BY <1>3, <3>4, <3>5
  <2>3. CASE CrossesBook(b, volume, p)
    <3>1. /\ Coherent(run.book) /\ run.book.basePrice = b.basePrice
          /\ run.book.memSpan[BookLength] = b.memSpan[BookLength]
          /\ run.response \in Responses
          /\ open \in Int /\ Toward(open, volume)
          /\ open < 0 => run.book.bestOffer = None
          /\ open > 0 => run.book.bestBid = None
      <4>1. CASE volume < 0
        <5>1. end = b.highestOffer /\ b.highestOffer # None
          BY <2>3, <4>1, CoherentOffers DEF CrossesBook
        <5> HIDE DEF end
        <5>2. /\ Coherent(run.book) /\ run.book.basePrice = b.basePrice
              /\ run.book.memSpan[BookLength] = b.memSpan[BookLength]
              /\ run.response \in Responses
              /\ open \in Int /\ Toward(open, volume)
              /\ open # 0 => run.book.bestOffer = None
          BY <4>1, <5>1, RunBuy
        <5> QED BY <4>1, <5>2 DEF Toward
      <4>2. CASE volume > 0
        <5>1. end = b.lowestBid /\ b.lowestBid # None
          BY <2>3, <4>2, CoherentBids DEF CrossesBook
        <5> HIDE DEF end
        <5>2. /\ Coherent(run.book) /\ run.book.basePrice = b.basePrice
              /\ run.book.memSpan[BookLength] = b.memSpan[BookLength]
              /\ run.response \in Responses
              /\ open \in Int /\ Toward(open, volume)
              /\ open # 0 => run.book.bestBid = None
          BY <4>2, <5>1, RunSell
        <5> QED BY <4>2, <5>2 DEF Toward
      <4> QED BY <1>3, <4>1, <4>2
    <3> HIDE DEF run, open, result
    <3>2. p \in Window(run.book) /\ run.book \in Books
      BY <1>3, <3>1 DEF Window, Coherent
    <3>3. Coherent(result.book) /\ result.book.basePrice = run.book.basePrice
          /\ result.book.memSpan[BookLength] = run.book.memSpan[BookLength]
      <4>1. CASE open = 0
        BY <2>1, <3>1, <3>2, <4>1, RestNothing
      <4>2. CASE open < 0
        BY <2>1, <3>1, <3>2, <4>2, RestBid
      <4>3. CASE open > 0
        BY <2>1, <3>1, <3>2, <4>3, RestOffer
      <4> QED BY <3>1, <4>1, <4>2, <4>3
    <3> QED BY <2>1, <3>1, <3>3 DEF Kept, Responses
  <2> QED BY <2>2, <2>3
<1> QED BY <1>1, <1>2, <1>3

-----------------------------------------------------------------------------
(* processOrder and shiftBook on a coherent book.                           *)

\* Adding the answer of a handler that did nothing leaves the other answer.
LEMMA AddNoResponse ==
  ASSUME NEW r \in Responses
  PROVE  AddResponses(r, NoResponse) = r /\ AddResponses(NoResponse, r) = r
<1>1. DOMAIN r = {"marginalPrice", "filledVolume", "revenue", "error"}
      /\ DOMAIN NoResponse = DOMAIN r
  BY DEF Responses, NoResponse
<1>2. \A field \in DOMAIN r : r[field] + NoResponse[field] = r[field]
                           /\ NoResponse[field] + r[field] = r[field]
  BY <1>1 DEF Responses, NoResponse
<1>3. r = [field \in DOMAIN r |-> r[field]]
  BY DEF Responses
<1>4. [field \in DOMAIN r |-> r[field] + NoResponse[field]] = [field \in DOMAIN r |-> r[field]]
  BY <1>2
<1>5. [field \in DOMAIN NoResponse |-> NoResponse[field] + r[field]]
        = [field \in DOMAIN r |-> r[field]]
  BY <1>1, <1>2
<1> QED BY <1>3, <1>4, <1>5 DEF AddResponses

LEMMA NoResponseTyped == NoResponse \in Responses /\ AddResponses(NoResponse, NoResponse) = NoResponse
<1>1. NoResponse \in Responses
  BY DEF NoResponse, Responses
<1> QED BY <1>1, AddNoResponse

\* Each kind of message comes down to its own handler.
LEMMA ProcessLimitOrder ==
  ASSUME NEW b, Coherent(b), NEW volume \in Int, NEW p \in 0..UIntMax,
         p # b.basePrice + BookLength
  PROVE  LET result  == ProcessOrder(b, Order(volume, p), BlankOrder, BlankOrder)
             handled == HandleNewLimitOrder(b, Order(volume, p))
         IN  /\ Kept(b, result)
             /\ result.book = handled.book /\ result.response = handled.response
<1> DEFINE limit == HandleNewLimitOrder(b, Order(volume, p))
<1>1. Kept(b, limit)
  BY LimitOrderKeeps
<1>2. Coherent(limit.book) /\ limit.response \in Responses
  BY <1>1 DEF Kept
<1> HIDE DEF limit
<1>3. HandleWithdrawLimitOrder(limit.book, BlankOrder) =
        [book |-> limit.book, response |-> NoResponse]
  BY <1>2, BlankWithdrawal DEF BlankOrder
<1>4. HandleMarketOrder(limit.book, BlankOrder) =
        [book |-> limit.book, response |-> NoResponse]
  BY <1>2, BlankMarketOrder
<1>5. ProcessOrder(b, Order(volume, p), BlankOrder, BlankOrder) =
        [book |-> limit.book, response |-> limit.response]
  BY <1>2, <1>3, <1>4, AddNoResponse DEF ProcessOrder, limit
<1> QED BY <1>1, <1>5 DEF Kept, limit

LEMMA ProcessWithdrawal ==
  ASSUME NEW b, Coherent(b), NEW volume \in Int, NEW p \in 0..UIntMax,
         p # b.basePrice + BookLength
  PROVE  LET result  == ProcessOrder(b, BlankOrder, Order(volume, p), BlankOrder)
             handled == HandleWithdrawLimitOrder(b, Order(volume, p))
         IN  /\ Kept(b, result)
             /\ result.book = handled.book /\ result.response = handled.response
<1> DEFINE withdraw == HandleWithdrawLimitOrder(b, Order(volume, p))
<1>1. HandleNewLimitOrder(b, BlankOrder) = [book |-> b, response |-> NoResponse]
  BY BlankLimitOrder
<1>2. Kept(b, withdraw)
  BY WithdrawKeeps
<1>3. Coherent(withdraw.book) /\ withdraw.response \in Responses
  BY <1>2 DEF Kept
<1> HIDE DEF withdraw
<1>4. HandleMarketOrder(withdraw.book, BlankOrder) =
        [book |-> withdraw.book, response |-> NoResponse]
  BY <1>3, BlankMarketOrder
<1>5. ProcessOrder(b, BlankOrder, Order(volume, p), BlankOrder) =
        [book |-> withdraw.book, response |-> withdraw.response]
  BY <1>1, <1>3, <1>4, AddNoResponse DEF ProcessOrder, withdraw
<1> QED BY <1>2, <1>5 DEF Kept, withdraw

LEMMA ProcessMarketOrder ==
  ASSUME NEW b, Coherent(b), NEW volume \in Int
  PROVE  LET result  == ProcessOrder(b, BlankOrder, BlankOrder, Order(volume, 0))
             handled == HandleMarketOrder(b, Order(volume, 0))
         IN  /\ Kept(b, result)
             /\ result.book = handled.book /\ result.response = handled.response
<1> DEFINE market == HandleMarketOrder(b, Order(volume, 0))
<1>1. HandleNewLimitOrder(b, BlankOrder) = [book |-> b, response |-> NoResponse]
  BY BlankLimitOrder
<1>2. HandleWithdrawLimitOrder(b, BlankOrder) = [book |-> b, response |-> NoResponse]
  BY BlankWithdrawal DEF BlankOrder
<1>3. Kept(b, market)
  BY MarketOrderKeeps
<1>4. market.response \in Responses
  BY <1>3 DEF Kept
<1> HIDE DEF market
<1>5. ProcessOrder(b, BlankOrder, BlankOrder, Order(volume, 0)) =
        [book |-> market.book, response |-> market.response]
  BY <1>1, <1>2, <1>4, AddNoResponse, NoResponseTyped DEF ProcessOrder, market
<1> QED BY <1>3, <1>5 DEF Kept, market

\* Two books that differ in their windows only.
SameDepth(b, c) ==
    /\ \A p \in Window(b) \cup Window(c) : Depth(c, p) = Depth(b, p)
    /\ \A stat \in {"bestBid", "lowestBid", "bestOffer", "highestOffer"} : c[stat] = b[stat]

\* A shift that is refused, or that only moves empty buckets out and copies of
\* empty buckets in, leaves the book coherent.
LEMMA ShiftKeeps ==
  ASSUME NEW b, Coherent(b), NEW n \in Int, SignedPrices(b.basePrice + n),
         ShiftPossible(b, n) => OuterBucketsEmpty(b, IF n >= 0 THEN n ELSE -n)
  PROVE  /\ Coherent(ShiftedBook(b, n))
         /\ ShiftedBook(b, n).memSpan[BookLength] = b.memSpan[BookLength]
         /\ SameDepth(b, ShiftedBook(b, n))
<1> DEFINE c == ShiftedBook(b, n)
<1> SUFFICES Coherent(c) /\ c.memSpan[BookLength] = b.memSpan[BookLength] /\ SameDepth(b, c)
  OBVIOUS
<1>1. /\ b \in Books /\ SignedPrices(b.basePrice)
      /\ b.basePrice \in 0..IntMax /\ b.memSpan \in [Cells -> Int]
      /\ Int32(b.basePrice) = b.basePrice
      /\ \A q \in Window(b) : q \in Int /\ q - b.basePrice \in Span /\ VolumeAt(b, q) \in Int
  BY WindowIsSigned DEF Coherent, Books, SignedPrices, Int32
<1>2. CASE ~ShiftPossible(b, n)
  <2>1. c = b
    BY <1>1, <1>2 DEF ShiftedBook, Books
  <2> QED BY <2>1 DEF SameDepth
<1>3. CASE ShiftPossible(b, n)
  <2>1. /\ b.basePrice + n \in 0..UIntMax /\ b.basePrice + n + BookLength <= IntMax
        /\ OuterBucketsEmpty(b, IF n >= 0 THEN n ELSE -n)
    BY <1>1, <1>3 DEF ShiftPossible, RoomToShift, PosBasePrice, SignedPrices
  <2> DEFINE cells == IF NoVolume(b) THEN b.memSpan ELSE ShiftCells(b.memSpan, n)
  <2>2. cells \in [Cells -> Int] /\ cells[BookLength] = b.memSpan[BookLength]
    BY <1>1, SMTT(30) DEF ShiftCells, Cells, Span
  <2>3. c = [b EXCEPT !.basePrice = b.basePrice + n, !.memSpan = cells]
    <3>1. UInt32(b.basePrice + n) = b.basePrice + n
      BY <2>1, NoWrap
    <3> QED BY <1>1, <1>3, <3>1 DEF ShiftedBook, Books
  <2> HIDE DEF cells, c
  <2>4. /\ c \in Books /\ c.basePrice = b.basePrice + n /\ c.memSpan = cells
        /\ c.bestBid = b.bestBid /\ c.lowestBid = b.lowestBid
        /\ c.bestOffer = b.bestOffer /\ c.highestOffer = b.highestOffer
    BY <1>1, <2>1, <2>2, <2>3 DEF Books
  <2>5. \A q \in Window(c) : q \in Int /\ q - c.basePrice \in Span /\ VolumeAt(c, q) \in Int
    BY <1>1, <2>2, <2>4, SMTT(30) DEF Window, Span, Cells, VolumeAt
  <2>6. \A q \in Window(b) \cup Window(c) : Depth(c, q) = Depth(b, q)
    <3>1. CASE NoVolume(b)
      <4>1. Bids(b) = {} /\ Offers(b) = {}
        BY <3>1 DEF NoVolume, Coherent, ExactStats, AreExtremes
      <4>2. \A i \in Span : b.memSpan[i] = 0
        <5> SUFFICES ASSUME NEW i \in Span PROVE b.memSpan[i] = 0
          OBVIOUS
        <5>1. i + b.basePrice \in Window(b) /\ (i + b.basePrice) - b.basePrice = i
          BY <1>1 DEF Window, Span
        <5>2. VolumeAt(b, i + b.basePrice) = b.memSpan[i]
          BY <5>1 DEF VolumeAt
        <5> QED BY <1>1, <4>1, <5>1, <5>2 DEF Bids, Offers
      <4>3. \A q \in Window(c) : VolumeAt(c, q) = 0
        BY <2>4, <2>5, <3>1, <4>2 DEF VolumeAt, cells
      <4>4. \A q \in Window(b) : VolumeAt(b, q) = 0
        BY <1>1, <4>2 DEF VolumeAt
      <4> QED BY <4>3, <4>4 DEF Depth
    <3>2. CASE ~NoVolume(b)
      <4>1. n \in -BookLength..BookLength
        <5> SUFFICES ASSUME n \notin -BookLength..BookLength PROVE FALSE
          OBVIOUS
        <5>1. \A i \in Span : b.memSpan[i] = 0
          BY <2>1 DEF OuterBucketsEmpty, Span
        <5>2. \A q \in Window(b) : VolumeAt(b, q) = 0
          BY <1>1, <5>1 DEF VolumeAt
        <5> QED BY <3>2, <5>2, CoherentBids, CoherentOffers DEF NoVolume
      <4>2. \A i \in Span : cells[i] = IF i + n \in Span THEN b.memSpan[i + n] ELSE b.memSpan[i]
        BY <3>2, <4>1 DEF cells, ShiftCells, Span, Cells
      <4>3. ASSUME NEW q \in Window(c), q \in Window(b) PROVE VolumeAt(c, q) = VolumeAt(b, q)
        <5>1. q - c.basePrice \in Span /\ (q - c.basePrice) + n = q - b.basePrice
              /\ q - b.basePrice \in Span
          BY <1>1, <2>4, <2>5, <4>3
        <5> QED BY <2>4, <4>2, <5>1 DEF VolumeAt
      <4>4. ASSUME NEW q \in Window(c), q \notin Window(b) PROVE VolumeAt(c, q) = 0
        <5> DEFINE i == q - c.basePrice
        <5>1. i \in Span /\ i + n \notin Span
          BY <1>1, <2>4, <2>5, <4>4 DEF Window, Span
        <5>2. b.memSpan[i] = 0
          <6> HIDE DEF i
          <6> QED BY <2>1, <5>1 DEF OuterBucketsEmpty, Span
        <5>3. VolumeAt(c, q) = b.memSpan[i]
          BY <2>4, <4>2, <5>1 DEF VolumeAt
        <5> QED BY <5>2, <5>3
      <4>5. ASSUME NEW q \in Window(b), q \notin Window(c) PROVE VolumeAt(b, q) = 0
        <5> DEFINE j == q - b.basePrice
        <5>1. j \in Span /\ j - n \notin Span
          BY <1>1, <2>4, <4>5 DEF Window, Span
        <5>2. b.memSpan[j] = 0
          <6> HIDE DEF j
          <6> QED BY <2>1, <5>1 DEF OuterBucketsEmpty, Span
        <5> QED BY <5>2 DEF VolumeAt
      <4> QED BY <4>3, <4>4, <4>5 DEF Depth
    <3> QED BY <3>1, <3>2
  <2>7. Bids(c) = Bids(b) /\ Offers(c) = Offers(b)
    <3>1. \A q \in Window(b) : VolumeAt(b, q) # 0 =>
             q \in Window(c) /\ VolumeAt(c, q) = VolumeAt(b, q)
      BY <2>6 DEF Depth
    <3>2. \A q \in Window(c) : VolumeAt(c, q) # 0 =>
             q \in Window(b) /\ VolumeAt(c, q) = VolumeAt(b, q)
      BY <2>6 DEF Depth
    <3>3. Bids(c) = Bids(b)
      BY <1>1, <2>5, <3>1, <3>2 DEF Bids
    <3>4. Offers(c) = Offers(b)
      BY <1>1, <2>5, <3>1, <3>2 DEF Offers
    <3> QED BY <3>3, <3>4
  <2>8. SignedPrices(c.basePrice)
    BY <1>1, <2>1, <2>4 DEF SignedPrices
  <2> QED BY <2>2, <2>4, <2>6, <2>8, <2>7 DEF Coherent, ExactStats, NotCrossed, SameDepth
<1> QED BY <1>2, <1>3

-----------------------------------------------------------------------------
(* The inductive invariant.                                                 *)

IInv ==
    /\ Coherent(book)
    /\ versionCounter \in {0, 1}
    /\ call \in Calls

LEMMA InitCoherent == SignedInit => IInv
<1> SUFFICES ASSUME Init, SignedPrices(book.basePrice) PROVE IInv
  BY DEF SignedInit
<1>1. PICK basePrice \in BasePrices, stray \in StrayVolumes : book = EmptyBook(basePrice, stray)
  BY DEF Init
<1>2. basePrice \in 0..UIntMax /\ stray \in Int
  BY BasePricesAssumption, StrayAssumption, EntryMaxAssumption
<1>3. /\ book \in Books /\ book.basePrice = basePrice
      /\ book.bestBid = None /\ book.lowestBid = None
      /\ book.bestOffer = None /\ book.highestOffer = None
      /\ \A i \in Span : book.memSpan[i] = 0
  BY <1>1, <1>2 DEF EmptyBook, Books, Stats, Cells, Span
<1>4. \A q \in Window(book) : VolumeAt(book, q) = 0
  BY <1>2, <1>3 DEF Window, VolumeAt, Span
<1>5. Bids(book) = {} /\ Offers(book) = {}
  BY <1>4 DEF Bids, Offers
<1>6. Coherent(book)
  BY <1>3, <1>5 DEF Coherent, ExactStats, NotCrossed, AreExtremes
<1> QED BY <1>6 DEF IInv, Init, Calls

\* Every step of a disciplined client keeps the invariant and the memory past
\* the span.
LEMMA NextKeeps ==
  IInv /\ [Next]_vars => IInv' /\ book'.memSpan[BookLength] = book.memSpan[BookLength]
<1> SUFFICES ASSUME IInv, [Next]_vars
             PROVE  IInv' /\ book'.memSpan[BookLength] = book.memSpan[BookLength]
  OBVIOUS
<1>0. Coherent(book) /\ book.basePrice \in Nat
  BY DEF IInv, Coherent, Books
<1>1. ASSUME NEW op \in {"limit", "withdraw", "market"}, NEW volume \in Volumes,
             NEW price \in Prices \cup {0}, NEW result,
             Kept(book, result), Processed(op, volume, price, result)
      PROVE  IInv' /\ book'.memSpan[BookLength] = book.memSpan[BookLength]
  <2>1. book' = result.book /\ versionCounter' = versionCounter
        /\ call' = [op |-> op, volume |-> volume, price |-> price, response |-> result.response]
    BY <1>1 DEF Processed
  <2>2. Coherent(result.book) /\ result.response \in Responses
        /\ result.book.memSpan[BookLength] = book.memSpan[BookLength]
    BY <1>1 DEF Kept
  <2>3. call' \in Calls
    BY <2>1, <2>2 DEF Calls
  <2> QED BY <2>1, <2>2, <2>3 DEF IInv, Calls, Responses
<1>2. ASSUME NEW volume \in Volumes, NEW price \in Prices, ~PastTheBook(price),
             AddLimitOrder(volume, price)
      PROVE  IInv' /\ book'.memSpan[BookLength] = book.memSpan[BookLength]
  <2>1. volume \in Int /\ price \in 0..UIntMax /\ price # book.basePrice + BookLength
    BY <1>2, ClientAssumption DEF PastTheBook
  <2>2. Kept(book, ProcessOrder(book, Order(volume, price), BlankOrder, BlankOrder))
    BY <1>0, <2>1, ProcessLimitOrder
  <2> QED BY <1>1, <1>2, <2>2 DEF AddLimitOrder
<1>3. ASSUME NEW volume \in Volumes, NEW price \in Prices, ~PastTheBook(price),
             WithdrawLimitOrder(volume, price)
      PROVE  IInv' /\ book'.memSpan[BookLength] = book.memSpan[BookLength]
  <2>1. volume \in Int /\ price \in 0..UIntMax /\ price # book.basePrice + BookLength
    BY <1>3, ClientAssumption DEF PastTheBook
  <2>2. Kept(book, ProcessOrder(book, BlankOrder, Order(volume, price), BlankOrder))
    BY <1>0, <2>1, ProcessWithdrawal
  <2> QED BY <1>1, <1>3, <2>2 DEF WithdrawLimitOrder
<1>4. ASSUME NEW volume \in Volumes, MarketOrder(volume)
      PROVE  IInv' /\ book'.memSpan[BookLength] = book.memSpan[BookLength]
  <2>1. volume \in Int
    BY ClientAssumption
  <2>2. Kept(book, ProcessOrder(book, BlankOrder, BlankOrder, Order(volume, 0)))
    BY <1>0, <2>1, ProcessMarketOrder
  <2> QED BY <1>1, <1>4, <2>2 DEF MarketOrder
<1>5. ASSUME NEW shiftBy \in Shifts, SafeShift(shiftBy), ShiftBook(shiftBy)
      PROVE  IInv' /\ book'.memSpan[BookLength] = book.memSpan[BookLength]
  <2>1. shiftBy \in Int
    BY ClientAssumption
  <2>2. /\ Coherent(ShiftedBook(book, shiftBy))
        /\ ShiftedBook(book, shiftBy).memSpan[BookLength] = book.memSpan[BookLength]
    BY <1>0, <1>5, <2>1, ShiftKeeps DEF SafeShift
  <2>3. versionCounter' \in {0, 1}
    BY <1>5 DEF ShiftBook, IInv
  <2>4. ShiftPossible(book, shiftBy) \in BOOLEAN
    BY DEF ShiftPossible, RoomToShift, PosBasePrice
  <2>5. call' \in Calls
    BY <1>5, <2>4 DEF ShiftBook, Calls
  <2> QED BY <1>5, <2>2, <2>3, <2>5 DEF ShiftBook, IInv, Calls, Responses
<1>6. CASE UNCHANGED vars
  BY <1>6 DEF vars, IInv, Calls, Responses
<1> QED BY <1>2, <1>3, <1>4, <1>5, <1>6 DEF Next

LEMMA Invariance == Spec => []IInv
<1>1. SignedInit => IInv
  BY InitCoherent
<1>2. IInv /\ [Next]_vars => IInv'
  BY NextKeeps
<1> QED BY <1>1, <1>2, PTL DEF Spec

\* On a coherent book the class's own check finds nothing to complain about.
LEMMA CoherentPassesCheck ==
  ASSUME NEW b, Coherent(b)
  PROVE  InvariantsCheck(b)
<1>1. /\ b \in Books /\ b.basePrice \in Nat
      /\ \A p \in Window(b) : p \in 0..IntMax /\ p # None /\ VolumeAt(b, p) \in Int
      /\ \A i \in Span : /\ i \in Int /\ i + b.basePrice \in Window(b)
                         /\ VolumeAt(b, i + b.basePrice) = b.memSpan[i]
                         /\ b.memSpan[i] \in Int
  <2>1. b \in Books /\ b.basePrice \in Nat
        /\ \A p \in Window(b) : p \in 0..IntMax /\ p # None /\ VolumeAt(b, p) \in Int
    BY WindowIsSigned DEF Coherent, Books
  <2>2. \A i \in Span : /\ i \in Int /\ i + b.basePrice \in Window(b)
                        /\ (i + b.basePrice) - b.basePrice = i
    BY <2>1 DEF Window, Span
  <2> QED BY <2>1, <2>2 DEF VolumeAt
<1> DEFINE bids   == b.bestBid # None /\ b.lowestBid # None
           offers == b.bestOffer # None /\ b.highestOffer # None
           index(p) == p - b.basePrice
<1>2. ASSUME bids
      PROVE  /\ index(b.bestBid) \in Span /\ index(b.lowestBid) \in Span
             /\ b.lowestBid <= b.bestBid
             /\ VolumeAt(b, b.bestBid) # 0 /\ VolumeAt(b, b.lowestBid) # 0
             /\ \A i \in Span : b.memSpan[i] < 0 => /\ index(b.lowestBid) <= i
                                                    /\ i <= index(b.bestBid)
  <2>1. /\ b.bestBid \in Window(b) /\ b.lowestBid \in Window(b) /\ b.lowestBid <= b.bestBid
        /\ VolumeAt(b, b.bestBid) < 0 /\ VolumeAt(b, b.lowestBid) < 0
        /\ \A p \in Window(b) : VolumeAt(b, p) < 0 => b.lowestBid <= p /\ p <= b.bestBid
    BY <1>2, CoherentBids
  <2>2. index(b.bestBid) \in Span /\ index(b.lowestBid) \in Span
    BY <2>1, WindowIsSigned DEF Coherent
  <2>3. \A i \in Span : b.memSpan[i] < 0 => /\ b.lowestBid <= i + b.basePrice
                                            /\ i + b.basePrice <= b.bestBid
    BY <1>1, <2>1
  <2>4. b.bestBid \in Int /\ b.lowestBid \in Int
    BY <1>1, <2>1
  <2>5. \A i \in Span : b.memSpan[i] < 0 => index(b.lowestBid) <= i /\ i <= index(b.bestBid)
    BY <1>1, <2>3, <2>4
  <2> QED BY <1>1, <2>1, <2>2, <2>5
<1>3. ASSUME offers
      PROVE  /\ index(b.bestOffer) \in Span /\ index(b.highestOffer) \in Span
             /\ b.bestOffer <= b.highestOffer
             /\ VolumeAt(b, b.bestOffer) # 0 /\ VolumeAt(b, b.highestOffer) # 0
             /\ \A i \in Span : b.memSpan[i] > 0 => /\ index(b.bestOffer) <= i
                                                    /\ i <= index(b.highestOffer)
  <2>1. /\ b.bestOffer \in Window(b) /\ b.highestOffer \in Window(b) /\ b.bestOffer <= b.highestOffer
        /\ VolumeAt(b, b.bestOffer) > 0 /\ VolumeAt(b, b.highestOffer) > 0
        /\ \A p \in Window(b) : VolumeAt(b, p) > 0 => b.bestOffer <= p /\ p <= b.highestOffer
    BY <1>3, CoherentOffers
  <2>2. index(b.bestOffer) \in Span /\ index(b.highestOffer) \in Span
    BY <2>1, WindowIsSigned DEF Coherent
  <2>3. \A i \in Span : b.memSpan[i] > 0 => /\ b.bestOffer <= i + b.basePrice
                                            /\ i + b.basePrice <= b.highestOffer
    BY <1>1, <2>1
  <2>4. b.bestOffer \in Int /\ b.highestOffer \in Int
    BY <1>1, <2>1
  <2>5. \A i \in Span : b.memSpan[i] > 0 => index(b.bestOffer) <= i /\ i <= index(b.highestOffer)
    BY <1>1, <2>3, <2>4
  <2> QED BY <1>1, <2>1, <2>2, <2>5
<1>4. bids => \A i \in (index(b.bestBid) + 1)..(BookLength - 1) : b.memSpan[i] >= 0
  BY <1>1, <1>2 DEF Span
<1>5. offers => \A i \in 0..(index(b.bestOffer) - 1) : b.memSpan[i] <= 0
  BY <1>1, <1>3 DEF Span
<1>6. b.bestBid # None /\ b.bestOffer # None => b.bestBid < b.bestOffer
  <2> SUFFICES ASSUME b.bestBid # None, b.bestOffer # None
               PROVE  b.bestBid < b.bestOffer
    OBVIOUS
  <2>1. b.bestBid \in Bids(b) /\ b.bestOffer \in Offers(b)
    BY CoherentBids, CoherentOffers DEF Bids, Offers
  <2>2. b.bestBid < b.bestOffer /\ b.bestBid \in Int /\ b.bestOffer \in Int
    BY <1>1, <2>1 DEF Coherent, NotCrossed, Bids, Offers
  <2> QED BY <2>2
<1>7. bids => HasNoVolume(b, 0, index(b.lowestBid) - 1)
  <2> SUFFICES ASSUME bids, NEW i \in 0..(index(b.lowestBid) - 1), b.memSpan[i] # 0
               PROVE  FALSE
    BY DEF HasNoVolume
  <2>0. index(b.bestBid) \in 0..(BookLength - 1) /\ index(b.lowestBid) \in 0..(BookLength - 1)
        /\ b.bestBid \in Int /\ b.lowestBid \in Int /\ b.lowestBid <= b.bestBid
    BY <1>1, <1>2, CoherentBids DEF Span
  <2>1. i \in Span /\ i < index(b.lowestBid) /\ i < index(b.bestBid)
    BY <1>1, <2>0 DEF Span
  <2>2. b.memSpan[i] > 0
    BY <1>1, <1>2, <2>0, <2>1
  <2>3. i + b.basePrice \in Offers(b)
    BY <1>1, <2>1, <2>2 DEF Offers
  <2>4. b.bestBid \in Bids(b) /\ b.bestBid \in Int
    BY <1>1, CoherentBids DEF Bids
  <2>5. b.bestBid < i + b.basePrice
    BY <2>3, <2>4 DEF Coherent, NotCrossed
  <2> QED BY <1>1, <2>1, <2>4, <2>5
<1>8. offers => HasNoVolume(b, index(b.highestOffer) + 1, BookLength - 1)
  <2> SUFFICES ASSUME offers, NEW i \in (index(b.highestOffer) + 1)..(BookLength - 1),
                      b.memSpan[i] # 0
               PROVE  FALSE
    BY DEF HasNoVolume
  <2>0. index(b.bestOffer) \in 0..(BookLength - 1) /\ index(b.highestOffer) \in 0..(BookLength - 1)
        /\ b.bestOffer \in Int /\ b.highestOffer \in Int /\ b.bestOffer <= b.highestOffer
    BY <1>1, <1>3, CoherentOffers DEF Span
  <2>1. i \in Span /\ i > index(b.highestOffer) /\ i > index(b.bestOffer)
    BY <1>1, <2>0 DEF Span
  <2>2. b.memSpan[i] < 0
    BY <1>1, <1>3, <2>0, <2>1
  <2>3. i + b.basePrice \in Bids(b)
    BY <1>1, <2>1, <2>2 DEF Bids
  <2>4. b.bestOffer \in Offers(b) /\ b.bestOffer \in Int
    BY <1>1, CoherentOffers DEF Offers
  <2>5. i + b.basePrice < b.bestOffer
    BY <2>3, <2>4 DEF Coherent, NotCrossed
  <2> QED BY <1>1, <2>1, <2>4, <2>5
<1>9. /\ b.bestBid = None <=> b.lowestBid = None
      /\ b.bestOffer = None <=> b.highestOffer = None
  BY CoherentBids, CoherentOffers
<1>10. /\ ValueOrZero(b.bestBid) >= ValueOrZero(b.lowestBid)
       /\ ValueOrZero(b.bestOffer) <= ValueOrZero(b.highestOffer)
  <2>1. CASE ~bids
    <3>1. b.bestBid = None /\ b.lowestBid = None
      BY <1>9, <2>1
    <3>2. ValueOrZero(b.bestBid) >= ValueOrZero(b.lowestBid)
      BY <3>1 DEF ValueOrZero
    <3>3. CASE ~offers
      BY <1>9, <3>2, <3>3 DEF ValueOrZero
    <3>4. CASE offers
      <4>1. b.bestOffer \in Int /\ b.highestOffer \in Int /\ b.bestOffer <= b.highestOffer
        BY <1>1, <3>4, CoherentOffers
      <4> QED BY <3>2, <3>4, <4>1 DEF ValueOrZero
    <3> QED BY <3>3, <3>4
  <2>2. CASE bids
    <3>1. b.bestBid \in Int /\ b.lowestBid \in Int /\ b.lowestBid <= b.bestBid
      BY <1>1, <2>2, CoherentBids
    <3>2. ValueOrZero(b.bestBid) >= ValueOrZero(b.lowestBid)
      BY <2>2, <3>1 DEF ValueOrZero
    <3>3. CASE ~offers
      BY <1>9, <3>2, <3>3 DEF ValueOrZero
    <3>4. CASE offers
      <4>1. b.bestOffer \in Int /\ b.highestOffer \in Int /\ b.bestOffer <= b.highestOffer
        BY <1>1, <3>4, CoherentOffers
      <4> QED BY <3>2, <3>4, <4>1 DEF ValueOrZero
    <3> QED BY <3>3, <3>4
  <2> QED BY <2>1, <2>2
<1>11. /\ ~InvalidStat(b, b.lowestBid) /\ ~InvalidStat(b, b.bestBid)
       /\ ~InvalidStat(b, b.bestOffer) /\ ~InvalidStat(b, b.highestOffer)
  BY <1>2, <1>3, <1>9 DEF InvalidStat
<1> HIDE DEF bids, offers, index
<1> USE <1>4, <1>5, <1>6, <1>7, <1>8, <1>9, <1>10, <1>11
<1> QED BY DEF InvariantsCheck, bids, offers, index

-----------------------------------------------------------------------------
(* The theorems.                                                            *)

\* Whatever orders and shifts disciplined clients send, for every length of
\* the book and every set of prices and volumes, the data members keep their
\* types and every answer is well formed.
THEOREM TypeCorrect == Spec => []TypeOK
<1>1. IInv => TypeOK
  BY DEF IInv, TypeOK, Coherent
<1> QED BY <1>1, Invariance, PTL

\* The four stats that bestBidAsk serves are always exactly the extreme prices
\* with demand and supply (readme.md:194).
THEOREM StatsAreExact == Spec => []StatsExact
<1>1. IInv => StatsExact
  BY DEF IInv, StatsExact, Coherent
<1> QED BY <1>1, Invariance, PTL

\* The book is never left crossed (readme.md:198-202).
THEOREM NeverCrossed == Spec => []Uncrossed
<1>1. IInv => Uncrossed
  BY DEF IInv, Uncrossed, Coherent
<1> QED BY <1>1, Invariance, PTL

\* __invariantsCheck never has anything to report (OrderBook.hpp:468-559).
THEOREM SelfCheckPasses == Spec => []InvariantsCheckPasses
<1>1. IInv => InvariantsCheckPasses
  BY CoherentPassesCheck DEF IInv, InvariantsCheckPasses
<1> QED BY <1>1, Invariance, PTL

\* No call of a disciplined client writes the memory past the span.
THEOREM SpanOnly == Spec => WritesInsideSpan
<1>1. IInv /\ [Next]_vars => [book'.memSpan[BookLength] = book.memSpan[BookLength]]_vars
  BY NextKeeps
<1> QED BY <1>1, Invariance, PTL DEF Spec, WritesInsideSpan

=============================================================================
