------------------------- MODULE SocketHandlerProofs -------------------------
(***************************************************************************)
(* Proofs about SocketHandler, for every set of streams.                     *)
(***************************************************************************)
EXTENDS SocketHandler, IntegerLemmas, SequenceTheorems, FiniteSetTheorems

-----------------------------------------------------------------------------
(* The message types.                                                        *)

\* The fields of a header.
LEMMA HeaderLayout ==
  /\ HeaderLength = 6 /\ LengthOffset = 0
  /\ DelimiterOffset = 4 /\ DelimiterValue = <<80, 235>>
BY DEF HeaderLength, LengthOffset, DelimiterOffset, DelimiterValue, Variant, Layout, MsgClass

\* The lengths of the messages.
LEMMA MessageLengths ==
  /\ Types = {"addLimitOrder", "withdrawLimitOrder", "marketOrder"}
  /\ MsgLength("addLimitOrder") = 17
  /\ MsgLength("withdrawLimitOrder") = 18
  /\ MsgLength("marketOrder") = 13
BY DEF Types, MsgLength, Layout, MsgClass

\* The alternatives of the variant.
LEMMA Alternatives ==
  /\ DOMAIN Variant = {1, 2, 3}
  /\ MsgLength(Variant[1]) = 17 /\ MsgLength(Variant[2]) = 18 /\ MsgLength(Variant[3]) = 13
BY DEF Variant, MsgLength, Layout, MsgClass

\* Taking the alternatives from the first on.
LEMMA FirstAlternative ==
  /\ Min({1, 2, 3}) = 1 /\ Min({2, 3}) = 2 /\ Min({3}) = 3
  /\ \A s \in SUBSET {1, 2, 3} : s # {} =>
       /\ Min(s) \in s
       /\ Min(s) = IF 1 \in s THEN 1 ELSE IF 2 \in s THEN 2 ELSE 3
<1>1. ASSUME NEW s \in SUBSET {1, 2, 3}, s # {}
      PROVE  Min(s) \in s /\ \A n \in s : Min(s) <= n
  <2>1. s \in SUBSET Int /\ \A n \in s : 1 <= n
    OBVIOUS
  <2> QED BY <2>1, <1>1, MinOfBounded, 1 \in Int
<1>2. ASSUME NEW s \in SUBSET {1, 2, 3}, s # {}
      PROVE  Min(s) = IF 1 \in s THEN 1 ELSE IF 2 \in s THEN 2 ELSE 3
  <2> DEFINE m == Min(s)
  <2>1. m \in s /\ \A n \in s : m <= n
    BY <1>1, <1>2
  <2>2. m \in {1, 2, 3}
    BY <2>1
  <2> HIDE DEF m
  <2>3. m = IF 1 \in s THEN 1 ELSE IF 2 \in s THEN 2 ELSE 3
    BY <2>1, <2>2
  <2> QED BY <2>3 DEF m
<1>3. {1, 2, 3} \in SUBSET {1, 2, 3} /\ {2, 3} \in SUBSET {1, 2, 3} /\ {3} \in SUBSET {1, 2, 3}
  OBVIOUS
<1>4. Min({1, 2, 3}) = 1
  BY <1>2, <1>3
<1>5. Min({2, 3}) = 2
  BY <1>2, <1>3
<1>6. Min({3}) = 3
  BY <1>2, <1>3
<1> QED BY <1>1, <1>2, <1>4, <1>5, <1>6

\* The buffer has the size of the longest message.
LEMMA LongestMessage == BufferSize = 18
<1> DEFINE D == DOMAIN Variant
           Body(f) == [s \in SUBSET D |->
                         IF s = {} THEN 0
                         ELSE UInt32Max(MsgLength(Variant[Min(s)]), f[s \ {Min(s)}])]
           F == CHOOSE f : f = Body(f)
           W == [s \in SUBSET D |-> IF s = {} THEN 0
                                    ELSE IF 2 \in s THEN 18
                                    ELSE IF 1 \in s THEN 17 ELSE 13]
<1>1. BufferSize = F[D]
  BY DEF BufferSize, DetermineMaxMsgLen, FoldRight, MapThenFoldSet
<1>2. D = {1, 2, 3}
  BY Alternatives
<1>3. ASSUME NEW s \in SUBSET D
      PROVE  W[s] = IF s = {} THEN 0
                    ELSE UInt32Max(MsgLength(Variant[Min(s)]), W[s \ {Min(s)}])
  <2>1. CASE s = {}
    BY <2>1
  <2>2. CASE s # {}
    <3>1. Min(s) = IF 1 \in s THEN 1 ELSE IF 2 \in s THEN 2 ELSE 3
      BY <1>2, <2>2, FirstAlternative
    <3>2. s \ {Min(s)} \in SUBSET D
      OBVIOUS
    <3>3. CASE 1 \in s
      BY <3>1, <3>2, <3>3, <1>2, Alternatives DEF UInt32Max
    <3>4. CASE 1 \notin s /\ 2 \in s
      BY <3>1, <3>2, <3>4, <1>2, Alternatives DEF UInt32Max
    <3>5. CASE 1 \notin s /\ 2 \notin s
      BY <3>1, <3>2, <3>5, <1>2, <2>2, Alternatives DEF UInt32Max
    <3> QED BY <3>3, <3>4, <3>5
  <2> QED BY <2>1, <2>2
<1>4. W = Body(W)
  BY <1>3
<1>5. F = Body(F)
  <2> HIDE DEF W, Body
  <2> QED BY <1>4
<1>6. /\ {} \in SUBSET D /\ {3} \in SUBSET D /\ {2, 3} \in SUBSET D /\ {1, 2, 3} \in SUBSET D
      /\ {3} \ {3} = {} /\ {2, 3} \ {2} = {3} /\ {1, 2, 3} \ {1} = {2, 3}
  BY <1>2
<1>7. \A s \in SUBSET D : F[s] = IF s = {} THEN 0
                              ELSE UInt32Max(MsgLength(Variant[Min(s)]), F[s \ {Min(s)}])
  <2> HIDE DEF F
  <2> QED BY <1>5
<1> HIDE DEF F, D
<1>8. F[{}] = 0
  BY <1>6, <1>7
<1>9. F[{3}] = 13
  BY <1>6, <1>7, <1>8, FirstAlternative, Alternatives DEF UInt32Max
<1>10. F[{2, 3}] = 18
  BY <1>6, <1>7, <1>9, FirstAlternative, Alternatives DEF UInt32Max
<1>11. F[{1, 2, 3}] = 18
  BY <1>6, <1>7, <1>10, FirstAlternative, Alternatives DEF UInt32Max
<1> QED BY <1>1, <1>2, <1>11

\* A search takes the bytes of the shortest message.
LEMMA ShortestMessage == ShortestMsgSize = 13
<1> DEFINE D == DOMAIN Variant
           Body(f) == [s \in SUBSET D |->
                         IF s = {} THEN UInt32Limit
                         ELSE UInt32Min(MsgLength(Variant[Min(s)]), f[s \ {Min(s)}])]
           F == CHOOSE f : f = Body(f)
           W == [s \in SUBSET D |-> IF s = {} THEN UInt32Limit
                                    ELSE IF 3 \in s THEN 13
                                    ELSE IF 1 \in s THEN 17 ELSE 18]
<1>1. ShortestMsgSize = F[D]
  BY DEF ShortestMsgSize, DetermineMinMsgLen, FoldRight, MapThenFoldSet
<1>2. D = {1, 2, 3}
  BY Alternatives
<1>3. ASSUME NEW s \in SUBSET D
      PROVE  W[s] = IF s = {} THEN UInt32Limit
                    ELSE UInt32Min(MsgLength(Variant[Min(s)]), W[s \ {Min(s)}])
  <2>1. CASE s = {}
    BY <2>1
  <2>2. CASE s # {}
    <3>1. Min(s) = IF 1 \in s THEN 1 ELSE IF 2 \in s THEN 2 ELSE 3
      BY <1>2, <2>2, FirstAlternative
    <3>2. s \ {Min(s)} \in SUBSET D
      OBVIOUS
    <3>3. CASE 1 \in s
      BY <3>1, <3>2, <3>3, <1>2, Alternatives DEF UInt32Min, UInt32Limit
    <3>4. CASE 1 \notin s /\ 2 \in s
      BY <3>1, <3>2, <3>4, <1>2, Alternatives DEF UInt32Min, UInt32Limit
    <3>5. CASE 1 \notin s /\ 2 \notin s
      BY <3>1, <3>2, <3>5, <1>2, <2>2, Alternatives DEF UInt32Min, UInt32Limit
    <3> QED BY <3>3, <3>4, <3>5
  <2> QED BY <2>1, <2>2
<1>4. W = Body(W)
  BY <1>3
<1>5. F = Body(F)
  <2> HIDE DEF W, Body
  <2> QED BY <1>4
<1>6. /\ {} \in SUBSET D /\ {3} \in SUBSET D /\ {2, 3} \in SUBSET D /\ {1, 2, 3} \in SUBSET D
      /\ {3} \ {3} = {} /\ {2, 3} \ {2} = {3} /\ {1, 2, 3} \ {1} = {2, 3}
  BY <1>2
<1>7. \A s \in SUBSET D : F[s] = IF s = {} THEN UInt32Limit
                              ELSE UInt32Min(MsgLength(Variant[Min(s)]), F[s \ {Min(s)}])
  <2> HIDE DEF F
  <2> QED BY <1>5
<1> HIDE DEF F, D
<1>8. F[{}] = UInt32Limit
  BY <1>6, <1>7
<1>9. F[{3}] = 13
  BY <1>6, <1>7, <1>8, FirstAlternative, Alternatives DEF UInt32Min, UInt32Limit
<1>10. F[{2, 3}] = 13
  BY <1>6, <1>7, <1>9, FirstAlternative, Alternatives DEF UInt32Min
<1>11. F[{1, 2, 3}] = 13
  BY <1>6, <1>7, <1>10, FirstAlternative, Alternatives DEF UInt32Min
<1> QED BY <1>1, <1>2, <1>11

-----------------------------------------------------------------------------
(* The pieces of a stream and their bytes.                                   *)

\* A piece has a byte left, a message the length of its type and at least the
\* bytes of a search; only messages of known types lose bytes, and garbage never
\* has a checksum that matches.
LEMMA PieceIs ==
  ASSUME NEW piece, IsPiece(piece)
  PROVE  /\ piece.kind \in Types \cup {"foreign", "garbage"}
         /\ piece.length \in Nat /\ piece.lost \in 0..3 /\ piece.lost < piece.length
         /\ piece.sumOk \in BOOLEAN
         /\ piece.kind # "garbage" => piece.length >= 13
         /\ piece.kind = "garbage" => ~piece.sumOk
         /\ piece.kind \in Types => piece.length = MsgLength(piece.kind)
         /\ piece.kind \notin Types =>
              piece.lost = 0 /\ (piece.sumOk => \A type \in Types : piece.length # MsgLength(type))
<1>1. \A type \in Types : /\ MsgLength(type) \in Nat /\ MsgLength(type) >= 13
                          /\ type \notin {"foreign", "garbage"}
  BY MessageLengths
<1>2. CASE \E type \in Types : piece \in {Known(type), Corrupt(type)}
  <2>1. PICK type \in Types : piece \in {Known(type), Corrupt(type)}
    BY <1>2
  <2>2. /\ piece.kind = type /\ piece.length = MsgLength(type)
        /\ piece.lost = 0 /\ piece.sumOk \in BOOLEAN
    <3>1. CASE piece = Known(type)
      BY <3>1 DEF Known, Message
    <3>2. CASE piece = Corrupt(type)
      BY <3>2 DEF Corrupt, Message
    <3> QED BY <2>1, <3>1, <3>2
  <2> QED BY <1>1, <2>2
<1>3. CASE \E type \in Types, lost \in 1..(DelimiterOffset - 1) : piece = Headless(type, lost)
  <2>1. PICK type \in Types, lost \in 1..(DelimiterOffset - 1) : piece = Headless(type, lost)
    BY <1>3
  <2>2. /\ piece.kind = type /\ piece.length = MsgLength(type)
        /\ piece.lost = lost /\ piece.sumOk \in BOOLEAN
    BY <2>1 DEF Headless, Known, Message
  <2>3. lost \in 1..3
    BY <2>1, HeaderLayout
  <2> QED BY <1>1, <2>2, <2>3
<1>4. CASE /\ piece = Foreign(piece.length)
           /\ piece.length \in Nat /\ piece.length >= ShortestMsgSize
           /\ \A type \in Types : piece.length # MsgLength(type)
  <2>1. piece.kind = "foreign" /\ piece.lost = 0 /\ piece.sumOk = TRUE
    BY <1>4 DEF Foreign, Message
  <2>2. piece.sumOk \in BOOLEAN
    BY <2>1
  <2>3. piece.length >= 13 /\ piece.kind \notin Types
    BY <1>1, <1>4, <2>1, ShortestMessage
  <2> QED BY <1>4, <2>1, <2>2, <2>3
<1>5. CASE piece = Garbage(piece.length) /\ piece.length \in Nat \ {0}
  <2>1. piece.kind = "garbage" /\ piece.lost = 0 /\ piece.sumOk = FALSE
    BY <1>5 DEF Garbage, Message
  <2>2. piece.sumOk \in BOOLEAN /\ ~piece.sumOk
    BY <2>1
  <2>3. piece.kind \notin Types
    BY <1>1, <2>1
  <2> QED BY <1>5, <2>1, <2>2, <2>3
<1> QED BY <1>2, <1>3, <1>4, <1>5 DEF IsPiece

\* What the bytes of a piece are in a header.
LEMMA ValuesIn ==
  ASSUME NEW piece, IsPiece(piece), NEW at \in Nat
  PROVE  /\ ValueIn(piece, at) \in Int
         /\ ValueIn(piece, at) = 80 => piece.kind # "garbage" /\ at \in {0, 4}
         /\ piece.kind # "garbage" => /\ at = 0 => ValueIn(piece, at) = piece.length
                                      /\ at \in 1..3 => ValueIn(piece, at) = 0
                                      /\ at = 4 => ValueIn(piece, at) = 80
                                      /\ at = 5 => ValueIn(piece, at) = 235
<1>1. piece.length \in Nat
  BY PieceIs
<1>2. CASE piece.kind = "garbage" \/ at >= 6
  BY <1>2, HeaderLayout DEF ValueIn, Noise
<1>3. CASE piece.kind # "garbage" /\ at = 0
  BY <1>1, <1>3, HeaderLayout DEF ValueIn
<1>4. CASE piece.kind # "garbage" /\ at \in 1..3
  BY <1>4, HeaderLayout DEF ValueIn
<1>5. CASE piece.kind # "garbage" /\ at = 4
  <2>1. DelimiterValue[at - DelimiterOffset + 1] = 80
    BY <1>5, HeaderLayout
  <2> QED BY <1>5, <2>1, HeaderLayout DEF ValueIn
<1>6. CASE piece.kind # "garbage" /\ at = 5
  <2>1. DelimiterValue[at - DelimiterOffset + 1] = 235
    BY <1>6, HeaderLayout
  <2> QED BY <1>6, <2>1, HeaderLayout DEF ValueIn
<1> QED BY <1>2, <1>3, <1>4, <1>5, <1>6

\* The bytes of a piece are a sequence of what it has not lost.
LEMMA BytesOf ==
  ASSUME NEW piece, IsPiece(piece), NEW i \in Nat
  PROVE  /\ Bytes(i, piece) \in Seq(Nat \X Nat)
         /\ Len(Bytes(i, piece)) = piece.length - piece.lost
         /\ \A n \in 1..(piece.length - piece.lost) :
              Bytes(i, piece)[n] = <<i, piece.lost + n - 1>>
<1>1. piece.length \in Nat /\ piece.lost \in Nat /\ piece.length - piece.lost \in Nat
  BY PieceIs
<1>2. \A n \in 1..(piece.length - piece.lost) : <<i, piece.lost + n - 1>> \in Nat \X Nat
  BY <1>1
<1>3. Bytes(i, piece) \in [1..(piece.length - piece.lost) -> Nat \X Nat]
  BY <1>2 DEF Bytes
<1> HIDE DEF Bytes
<1>4. Bytes(i, piece) \in Seq(Nat \X Nat) /\ Len(Bytes(i, piece)) = piece.length - piece.lost
  BY <1>1, <1>3
<1> QED BY <1>4 DEF Bytes

\* FlattenSeq appends one sequence after another.
LEMMA FlattenSeqUnrolls ==
  ASSUME NEW T, NEW seqs \in Seq(Seq(T)), seqs # <<>>
  PROVE  \E f \in [1..Len(seqs) -> Seq(T)] :
           /\ FlattenSeq(seqs) = f[Len(seqs)]
           /\ f[1] = seqs[1]
           /\ \A i \in 2..Len(seqs) : f[i] = f[i - 1] \o seqs[i]
<1> DEFINE n == Len(seqs)
           Step(f, i) == IF i = 1 THEN seqs[i] ELSE f[i - 1] \o seqs[i]
           Upto(m) == \E f \in [1..m -> Seq(T)] : \A i \in 1..m : f[i] = Step(f, i)
           S == {m \in Nat : m <= n => Upto(m)}
           F == CHOOSE f : f = [i \in 1..n |-> Step(f, i)]
<1>1. n \in Nat \ {0} /\ \A i \in 1..n : seqs[i] \in Seq(T)
  OBVIOUS
<1>2. 0 \in S
  <2>1. [i \in 1..0 |-> <<>>] \in [1..0 -> Seq(T)]
    OBVIOUS
  <2>2. \A i \in 1..0 : FALSE
    OBVIOUS
  <2>3. Upto(0)
    BY <2>1, <2>2
  <2> HIDE DEF Upto
  <2> QED BY <2>3
<1>3. ASSUME NEW m \in S, m + 1 <= n
      PROVE  Upto(m + 1)
  <2>1. m \in Nat /\ Upto(m)
    <3> HIDE DEF Upto
    <3> QED BY <1>1, <1>3
  <2>2. PICK f \in [1..m -> Seq(T)] : \A i \in 1..m : f[i] = Step(f, i)
    BY <2>1
  <2> DEFINE g == [i \in 1..(m + 1) |-> IF i = m + 1 THEN Step(f, i) ELSE f[i]]
  <2>3. Step(f, m + 1) \in Seq(T)
    <3>1. CASE m = 0
      BY <1>1, <1>3, <3>1
    <3>2. CASE m # 0
      <4>1. f[m] \in Seq(T) /\ seqs[m + 1] \in Seq(T)
        BY <1>1, <1>3, <2>1, <3>2
      <4>2. Step(f, m + 1) = f[m] \o seqs[m + 1]
        <5>1. (m + 1) - 1 = m /\ m + 1 # 1
          BY <2>1, <3>2
        <5> QED BY <5>1
      <4> QED BY <4>1, <4>2
    <3> QED BY <3>1, <3>2
  <2>4. g \in [1..(m + 1) -> Seq(T)]
    BY <2>1, <2>3
  <2>5. ASSUME NEW i \in 1..(m + 1)
        PROVE  g[i] = Step(g, i)
    <3>1. i > 1 => g[i - 1] = f[i - 1]
      BY <2>1
    <3>2. CASE i = m + 1
      BY <2>1, <3>1, <3>2
    <3>3. CASE i # m + 1
      <4>1. g[i] = f[i] /\ i \in 1..m
        BY <2>1, <3>3
      <4>2. f[i] = Step(f, i)
        BY <2>2, <4>1
      <4>3. Step(f, i) = Step(g, i)
        <5>1. CASE i = 1
          BY <5>1
        <5>2. CASE i # 1
          <6>1. g[i - 1] = f[i - 1]
            BY <3>1, <5>2
          <6> HIDE DEF g
          <6> QED BY <5>2, <6>1
        <5> QED BY <5>1, <5>2
      <4> HIDE DEF g, Step
      <4> QED BY <4>1, <4>2, <4>3
    <3> QED BY <3>2, <3>3
  <2> HIDE DEF g
  <2> QED BY <2>4, <2>5
<1>4. S = Nat
  <2>1. \A m \in S : m + 1 \in S
    <3> HIDE DEF Upto
    <3> QED BY <1>3
  <2>2. S \in SUBSET Nat
    OBVIOUS
  <2> HIDE DEF S
  <2> QED BY <1>2, <2>1, <2>2, NatSetInduction
<1>5. Upto(n)
  <2> HIDE DEF Upto
  <2> QED BY <1>1, <1>4, SMTT(30)
<1>6. PICK f \in [1..n -> Seq(T)] : \A i \in 1..n : f[i] = Step(f, i)
  BY <1>5
<1>7. f = [i \in 1..n |-> Step(f, i)]
  <2> HIDE DEF Step
  <2> QED BY <1>6
<1>8. F = [i \in 1..n |-> Step(F, i)]
  <2> DEFINE Fixed(h) == h = [i \in 1..n |-> Step(h, i)]
  <2>1. Fixed(f)
    BY <1>7
  <2> HIDE DEF Fixed
  <2>2. Fixed(CHOOSE h : Fixed(h))
    BY <2>1
  <2> QED BY <2>2 DEF Fixed
<1>9. FlattenSeq(seqs) = F[n]
  BY <1>1 DEF FlattenSeq
<1>10. \A i \in 1..n : F[i] = Step(F, i)
  <2> HIDE DEF F, Step
  <2> QED BY <1>8
<1>11. F[1] = seqs[1] /\ \A i \in 2..n : F[i] = F[i - 1] \o seqs[i]
  <2> HIDE DEF F
  <2>1. F[1] = seqs[1]
    BY <1>1, <1>10
  <2>2. ASSUME NEW i \in 2..n PROVE F[i] = F[i - 1] \o seqs[i]
    <3>1. i \in 1..n /\ i # 1
      BY <1>1
    <3> QED BY <1>10, <3>1
  <2> QED BY <2>1, <2>2
<1>12. \A i \in 1..n : F[i] \in Seq(T)
  <2> DEFINE R == {m \in Nat : m + 1 <= n => F[m + 1] \in Seq(T)}
  <2> HIDE DEF F
  <2>1. 0 \in R
    BY <1>1, <1>11
  <2>2. ASSUME NEW m \in R, (m + 1) + 1 <= n
        PROVE  F[(m + 1) + 1] \in Seq(T)
    <3>1. F[m + 1] \in Seq(T) /\ seqs[(m + 1) + 1] \in Seq(T)
      BY <1>1, <2>2
    <3>2. F[(m + 1) + 1] = F[m + 1] \o seqs[(m + 1) + 1]
      <4>1. (m + 1) + 1 \in 2..n /\ ((m + 1) + 1) - 1 = m + 1
        BY <1>1, <2>2
      <4> QED BY <1>11, <4>1
    <3> QED BY <3>1, <3>2
  <2>3. \A m \in R : m + 1 \in R
    BY <2>2
  <2>4. R \in SUBSET Nat
    OBVIOUS
  <2>5. R = Nat
    <3> HIDE DEF R
    <3> QED BY <2>1, <2>3, <2>4, NatSetInduction
  <2>6. ASSUME NEW i \in 1..n PROVE F[i] \in Seq(T)
    <3>1. i - 1 \in Nat /\ (i - 1) + 1 = i /\ i <= n
      BY <1>1
    <3>2. i - 1 \in R
      BY <2>5, <3>1
    <3> QED BY <3>1, <3>2
  <2> QED BY <2>6
<1>13. F \in [1..n -> Seq(T)]
  <2> HIDE DEF F, Step
  <2>1. F = [i \in 1..n |-> F[i]]
    BY <1>8
  <2> QED BY <2>1, <1>12
<1> HIDE DEF F
<1> QED BY <1>9, <1>11, <1>13

-----------------------------------------------------------------------------
(* Where the pieces are in the memory.                                       *)

\* ends[i] is where piece i ends; the memory has the bytes of every piece after
\* those of the one before it, and no others.
Offsets(stream, mem, ends) ==
    /\ ends \in [0..Len(stream) -> Nat]
    /\ ends[0] = 0 /\ ends[Len(stream)] = Len(mem)
    /\ \A i \in 1..Len(stream) : ends[i] = ends[i - 1] + (stream[i].length - stream[i].lost)
    /\ \A i, j \in 0..Len(stream) : i < j => ends[i] < ends[j]
    /\ \A i \in 1..Len(stream) : \A p \in (ends[i - 1] + 1)..ends[i] :
         mem[p] = <<i, stream[i].lost + (p - ends[i - 1] - 1)>>
    /\ \A p \in 1..Len(mem) : \E i \in 1..Len(stream) : ends[i - 1] < p /\ p <= ends[i]

\* A function that grows with every step grows over many.
LEMMA GrowsOverMany ==
  ASSUME NEW n \in Nat, NEW e \in [0..n -> Nat],
         \A i \in 1..n : e[i - 1] < e[i]
  PROVE  \A i, j \in 0..n : i < j => e[i] < e[j]
<1> DEFINE S == {m \in Nat : m <= n => \A i \in 0..n : i < m => e[i] < e[m]}
<1>1. 0 \in S
  OBVIOUS
<1>2. ASSUME NEW m \in S, m + 1 <= n, NEW i \in 0..n, i < m + 1
      PROVE  e[i] < e[m + 1]
  <2>1. m \in Nat /\ m \in 0..n /\ m + 1 \in 1..n /\ (m + 1) - 1 = m
    BY <1>2
  <2>2. e[m] < e[m + 1] /\ e[m] \in Nat /\ e[m + 1] \in Nat /\ e[i] \in Nat
    BY <2>1
  <2>3. i < m => e[i] < e[m]
    BY <1>2, <2>1
  <2>4. i < m \/ i = m
    BY <1>2, <2>1
  <2> QED BY <2>2, <2>3, <2>4
<1>3. ASSUME NEW m \in S
      PROVE  m + 1 \in S
  <2>1. m + 1 \in Nat
    OBVIOUS
  <2> QED BY <1>2, <2>1
<1>4. S = Nat
  <2>1. S \in SUBSET Nat
    OBVIOUS
  <2> HIDE DEF S
  <2> QED BY <1>1, <1>3, <2>1, NatSetInduction
<1>5. ASSUME NEW i \in 0..n, NEW j \in 0..n, i < j
      PROVE  e[i] < e[j]
  <2>1. j \in S
    <3> HIDE DEF S
    <3> QED BY <1>4
  <2> QED BY <1>5, <2>1
<1> QED BY <1>5

\* A position up to a bound lies in one of the intervals that the bounds make.
LEMMA LiesInAnInterval ==
  ASSUME NEW n \in Nat, NEW e \in [0..n -> Nat], e[0] = 0,
         NEW p \in Nat, 0 < p, p <= e[n]
  PROVE  \E i \in 1..n : e[i - 1] < p /\ p <= e[i]
<1> DEFINE S == {i \in 0..n : p <= e[i]}
<1>1. S \in SUBSET Nat /\ S # {}
  <2>1. n \in S
    OBVIOUS
  <2> QED BY <2>1
<1>2. PICK i \in S : \A j \in S : i <= j
  <2> HIDE DEF S
  <2> QED BY <1>1, NatSetHasLeast
<1>3. i \in 0..n /\ p <= e[i]
  OBVIOUS
<1>4. i # 0
  BY <1>3
<1>5. i \in 1..n /\ i - 1 \in 0..n /\ i - 1 < i
  BY <1>3, <1>4
<1>6. i - 1 \notin S
  BY <1>2, <1>5
<1>7. e[i - 1] < p
  <2>1. e[i - 1] \in Nat /\ ~(p <= e[i - 1])
    BY <1>5, <1>6
  <2> QED BY <2>1
<1> QED BY <1>3, <1>5, <1>7

\* The memory that a socket is made with has the pieces of its stream.
LEMMA StreamIsLaidOut ==
  ASSUME NEW stream, stream # <<>>, stream \in Seq(Range(stream)),
         \A i \in DOMAIN stream : IsPiece(stream[i]),
         NEW mem, mem = FlattenSeq([i \in DOMAIN stream |-> Bytes(i, stream[i])])
  PROVE  /\ mem \in Seq(Nat \X Nat)
         /\ \E ends : Offsets(stream, mem, ends)
<1> DEFINE n == Len(stream)
           B == Nat \X Nat
           seqs == [i \in DOMAIN stream |-> Bytes(i, stream[i])]
           size(i) == stream[i].length - stream[i].lost
<1>1. n \in Nat \ {0} /\ DOMAIN stream = 1..n
  BY LenProperties, EmptySeq
<1>2. \A i \in 1..n : /\ Bytes(i, stream[i]) \in Seq(B)
                      /\ Len(Bytes(i, stream[i])) = size(i)
                      /\ \A k \in 1..size(i) :
                           Bytes(i, stream[i])[k] = <<i, stream[i].lost + k - 1>>
                      /\ stream[i].lost \in Nat /\ size(i) \in Nat \ {0}
  <2>1. ASSUME NEW i \in 1..n
        PROVE  /\ Bytes(i, stream[i]) \in Seq(B)
               /\ Len(Bytes(i, stream[i])) = size(i)
               /\ \A k \in 1..size(i) : Bytes(i, stream[i])[k] = <<i, stream[i].lost + k - 1>>
               /\ stream[i].lost \in Nat /\ size(i) \in Nat \ {0}
    <3>1. IsPiece(stream[i]) /\ i \in Nat
      BY <1>1
    <3>2. stream[i].length \in Nat /\ stream[i].lost \in 0..3 /\ stream[i].lost < stream[i].length
      BY <3>1, PieceIs
    <3>3. /\ Bytes(i, stream[i]) \in Seq(B)
          /\ Len(Bytes(i, stream[i])) = size(i)
          /\ \A k \in 1..size(i) : Bytes(i, stream[i])[k] = <<i, stream[i].lost + k - 1>>
      BY <3>1, BytesOf
    <3>4. stream[i].lost \in Nat /\ size(i) \in Nat \ {0}
      BY <3>2
    <3> HIDE DEF B, size
    <3> QED BY <3>3, <3>4
  <2> HIDE DEF size
  <2> QED BY <2>1
<1>3. seqs \in Seq(Seq(B)) /\ Len(seqs) = n /\ seqs # <<>>
  <2>1. seqs \in [1..n -> Seq(B)]
    BY <1>1, <1>2
  <2> HIDE DEF seqs, n
  <2>2. seqs \in Seq(Seq(B)) /\ Len(seqs) = n
    BY <1>1, <2>1
  <2> QED BY <1>1, <2>2, EmptySeq
<1>4. PICK f \in [1..n -> Seq(B)] :
        /\ mem = f[n]
        /\ f[1] = seqs[1]
        /\ \A i \in 2..n : f[i] = f[i - 1] \o seqs[i]
  <2>1. mem = FlattenSeq(seqs)
    OBVIOUS
  <2>2. PICK f \in [1..Len(seqs) -> Seq(B)] :
          /\ FlattenSeq(seqs) = f[Len(seqs)]
          /\ f[1] = seqs[1]
          /\ \A i \in 2..Len(seqs) : f[i] = f[i - 1] \o seqs[i]
    <3> HIDE DEF seqs, B, n
    <3> QED BY <1>3, FlattenSeqUnrolls
  <2> HIDE DEF seqs, B, n
  <2> QED BY <1>3, <2>1, <2>2
<1> DEFINE ends == [i \in 0..n |-> IF i = 0 THEN 0 ELSE Len(f[i])]
<1>5. ends \in [0..n -> Nat] /\ ends[0] = 0 /\ \A i \in 1..n : ends[i] = Len(f[i])
  <2>1. \A i \in 1..n : Len(f[i]) \in Nat
    BY <1>4
  <2> HIDE DEF n
  <2>2. n \in Nat
    BY <1>1
  <2> QED BY <2>1, <2>2
<1> HIDE DEF ends
\* One piece more.
<1>6. \A i \in 1..n : /\ ends[i] = ends[i - 1] + size(i)
                      /\ \A p \in 1..ends[i - 1] : i > 1 /\ f[i][p] = f[i - 1][p]
                      /\ \A p \in (ends[i - 1] + 1)..ends[i] :
                           f[i][p] = <<i, stream[i].lost + (p - ends[i - 1] - 1)>>
  <2>1. ASSUME NEW i \in 1..n
        PROVE  /\ ends[i] = ends[i - 1] + size(i)
               /\ \A p \in 1..ends[i - 1] : i > 1 /\ f[i][p] = f[i - 1][p]
               /\ \A p \in (ends[i - 1] + 1)..ends[i] :
                    f[i][p] = Bytes(i, stream[i])[p - ends[i - 1]]
    <3> DEFINE b == Bytes(i, stream[i])
    <3>1. b \in Seq(B) /\ Len(b) = size(i) /\ size(i) \in Nat
      BY <1>2
    <3>2. seqs[i] = b
      BY <1>1
    <3> HIDE DEF b
    <3>3. CASE i = 1
      <4>1. f[1] = b /\ ends[1] = size(i) /\ ends[i - 1] = 0
        BY <1>1, <1>4, <1>5, <3>1, <3>2, <3>3
      <4> QED BY <3>1, <3>3, <4>1 DEF b
    <3>4. CASE i # 1
      <4>1. i \in 2..n /\ i - 1 \in 1..n /\ i > 1
        BY <1>1, <3>4
      <4>2. f[i - 1] \in Seq(B) /\ f[i] = f[i - 1] \o b
        BY <1>4, <3>2, <4>1
      <4>3. ends[i - 1] = Len(f[i - 1]) /\ ends[i] = Len(f[i])
        BY <1>5, <4>1
      <4>4. /\ Len(f[i]) = Len(f[i - 1]) + Len(b)
            /\ \A p \in 1..(Len(f[i - 1]) + Len(b)) :
                 f[i][p] = IF p <= Len(f[i - 1]) THEN f[i - 1][p] ELSE b[p - Len(f[i - 1])]
        <5> DEFINE a == f[i - 1]
        <5>1. a \in Seq(B) /\ f[i] = a \o b
          BY <4>2
        <5> HIDE DEF B, a
        <5>2. /\ Len(a \o b) = Len(a) + Len(b)
              /\ \A p \in 1..(Len(a) + Len(b)) :
                   (a \o b)[p] = IF p <= Len(a) THEN a[p] ELSE b[p - Len(a)]
          BY <3>1, <5>1, ConcatProperties
        <5> QED BY <5>1, <5>2 DEF a
      <4>5. Len(f[i - 1]) \in Nat
        BY <4>2
      <4>6. ends[i] = ends[i - 1] + size(i)
        BY <3>1, <4>3, <4>4
      <4>7. /\ \A p \in 1..ends[i - 1] : f[i][p] = f[i - 1][p]
            /\ \A p \in (ends[i - 1] + 1)..ends[i] : f[i][p] = b[p - ends[i - 1]]
        <5> DEFINE la == Len(f[i - 1])
        <5>1. la \in Nat /\ size(i) \in Nat /\ ends[i - 1] = la /\ ends[i] = la + size(i)
          BY <3>1, <4>3, <4>5, <4>6
        <5>2. \A p \in 1..(la + size(i)) :
                 f[i][p] = IF p <= la THEN f[i - 1][p] ELSE b[p - la]
          BY <3>1, <4>4
        <5> HIDE DEF size, la
        <5>3. ASSUME NEW p \in 1..la
              PROVE  f[i][p] = f[i - 1][p]
          <6>1. p \in 1..(la + size(i)) /\ p <= la
            BY <5>1
          <6> QED BY <5>2, <6>1
        <5>4. ASSUME NEW p \in (la + 1)..(la + size(i))
              PROVE  f[i][p] = b[p - la]
          <6>1. p \in 1..(la + size(i)) /\ ~(p <= la)
            BY <5>1
          <6> QED BY <5>2, <6>1
        <5> QED BY <5>1, <5>3, <5>4
      <4> QED BY <4>1, <4>6, <4>7 DEF b
    <3> QED BY <3>3, <3>4
  <2>2. ASSUME NEW i \in 1..n, NEW p \in (ends[i - 1] + 1)..ends[i]
        PROVE  f[i][p] = <<i, stream[i].lost + (p - ends[i - 1] - 1)>>
    <3>1. ends[i - 1] \in Nat
      BY <1>1, <1>5
    <3>2. ends[i] = ends[i - 1] + size(i) /\ size(i) \in Nat /\ stream[i].lost \in Nat
      BY <1>2, <2>1
    <3>3. p - ends[i - 1] \in 1..size(i)
      <4> HIDE DEF size
      <4> QED BY <3>1, <3>2
    <3>4. f[i][p] = <<i, stream[i].lost + (p - ends[i - 1]) - 1>>
      BY <1>2, <2>1, <3>3, ZenonT(40)
    <3>5. stream[i].lost + (p - ends[i - 1]) - 1 = stream[i].lost + (p - ends[i - 1] - 1)
      <4> DEFINE q == p - ends[i - 1]
      <4>1. q \in Int
        BY <3>3
      <4> HIDE DEF q
      <4>2. stream[i].lost + q - 1 = stream[i].lost + (q - 1)
        BY <3>2, <4>1
      <4> QED BY <4>2 DEF q
    <3> QED BY <3>4, <3>5
  <2> HIDE DEF size
  <2> QED BY <2>1, <2>2
<1>7. \A i, j \in 0..n : i < j => ends[i] < ends[j]
  <2>1. \A i \in 1..n : ends[i - 1] < ends[i]
    <3>1. ASSUME NEW i \in 1..n PROVE ends[i - 1] < ends[i]
      <4>1. i - 1 \in 0..n
        BY <1>1
      <4>2. ends[i - 1] \in Nat
        BY <1>5, <4>1
      <4>3. ends[i] = ends[i - 1] + size(i) /\ size(i) \in Nat \ {0}
        <5> HIDE DEF size
        <5> QED BY <1>2, <1>6
      <4> HIDE DEF size
      <4> QED BY <4>2, <4>3
    <3> QED BY <3>1
  <2> HIDE DEF n
  <2> QED BY <1>1, <1>5, <2>1, GrowsOverMany
\* Every prefix has its pieces.
<1> DEFINE Placed(m) == \A i \in 1..m : \A p \in (ends[i - 1] + 1)..ends[i] :
                          f[m][p] = <<i, stream[i].lost + (p - ends[i - 1] - 1)>>
           S == {m \in Nat : m + 1 <= n => Placed(m + 1)}
<1>8. ASSUME NEW m \in 1..n, m > 1 => Placed(m - 1)
      PROVE  Placed(m)
  <2>1. ASSUME NEW i \in 1..m, NEW p \in (ends[i - 1] + 1)..ends[i]
        PROVE  f[m][p] = <<i, stream[i].lost + (p - ends[i - 1] - 1)>>
    <3>1. CASE i = m
      BY <1>6, <3>1
    <3>2. CASE i # m
      <4>1. i \in 1..(m - 1) /\ m > 1 /\ i \in 0..n /\ m - 1 \in 0..n /\ i - 1 \in 0..n
        BY <1>1, <3>2
      <4>2. i = m - 1 \/ i < m - 1
        BY <4>1
      <4>3. ends[i] <= ends[m - 1] /\ ends[i] \in Nat /\ ends[m - 1] \in Nat /\ ends[i - 1] \in Nat
        BY <1>5, <1>7, <4>1, <4>2
      <4>4. p \in 1..ends[m - 1]
        BY <4>3
      <4>5. f[m][p] = f[m - 1][p]
        BY <1>6, <4>4
      <4>6. f[m - 1][p] = <<i, stream[i].lost + (p - ends[i - 1] - 1)>>
        BY <1>8, <4>1
      <4> QED BY <4>5, <4>6
    <3> QED BY <3>1, <3>2
  <2> QED BY <2>1
<1>9. Placed(n)
  <2> HIDE DEF Placed
  <2>1. 0 \in S
    BY <1>1, <1>8
  <2>2. ASSUME NEW m \in S, (m + 1) + 1 <= n
        PROVE  Placed((m + 1) + 1)
    <3>1. m \in Nat /\ Placed(m + 1) /\ (m + 1) + 1 \in 1..n /\ ((m + 1) + 1) - 1 = m + 1
      BY <1>1, <2>2
    <3> QED BY <1>8, <3>1
  <2>3. \A m \in S : m + 1 \in S
    BY <2>2
  <2>4. S = Nat
    <3>1. S \in SUBSET Nat
      OBVIOUS
    <3> HIDE DEF S
    <3> QED BY <2>1, <2>3, <3>1, NatSetInduction
  <2>5. n - 1 \in S /\ (n - 1) + 1 = n /\ n <= n
    <3> HIDE DEF S
    <3> QED BY <1>1, <2>4
  <2> QED BY <2>5
<1>10. mem \in Seq(B) /\ ends[n] = Len(mem)
  BY <1>1, <1>4, <1>5
<1>11. \A p \in 1..Len(mem) : \E i \in 1..n : ends[i - 1] < p /\ p <= ends[i]
  <2>1. Len(mem) \in Nat
    BY <1>10
  <2>2. \A p \in 1..Len(mem) : p \in Nat /\ 0 < p /\ p <= ends[n]
    BY <1>10, <2>1
  <2> HIDE DEF n
  <2> QED BY <1>1, <1>5, <2>2, LiesInAnInterval
<1>12. Offsets(stream, mem, ends)
  BY <1>4, <1>5, <1>6, <1>7, <1>9, <1>10, <1>11, ZenonT(40) DEF Offsets
<1> QED BY <1>10, <1>12

-----------------------------------------------------------------------------
(* The socket's memory.                                                      *)

\* Where a piece begins, and where every piece ends.
StartOf(i) == EndOf(i - 1)
Ends       == [i \in 0..Len(pieces) |-> EndOf(i)]

\* The memory holds the pieces of a stream.
LaidOut ==
    /\ pieces \in Streams
    /\ memSpan \in Seq(Nat \X Nat)
    /\ Offsets(pieces, memSpan, Ends)

\* Counting the bytes of the first pieces tells where the last of them ends.
LEMMA EndOfIs ==
  ASSUME pieces \in Streams, memSpan \in Seq(Nat \X Nat),
         NEW ends, Offsets(pieces, memSpan, ends)
  PROVE  Ends = ends
<1>1. Len(pieces) \in Nat /\ Len(memSpan) \in Nat
  BY StreamsAssumption
<1>2. /\ DOMAIN memSpan = 1..Len(memSpan)
      /\ \A i \in 0..Len(pieces) : ends[i] \in Nat
      /\ \A i, j \in 0..Len(pieces) : i < j => ends[i] < ends[j]
      /\ ends[Len(pieces)] = Len(memSpan)
  <2>1. DOMAIN memSpan = 1..Len(memSpan)
    OBVIOUS
  <2>2. /\ ends \in [0..Len(pieces) -> Nat]
        /\ \A i, j \in 0..Len(pieces) : i < j => ends[i] < ends[j]
        /\ ends[Len(pieces)] = Len(memSpan)
    BY DEF Offsets
  <2> QED BY <2>1, <2>2
<1>3. ASSUME NEW i \in 0..Len(pieces)
      PROVE  EndOf(i) = ends[i]
  <2> DEFINE P == {p \in DOMAIN memSpan : memSpan[p][1] <= i}
  <2>1. ends[i] \in Nat /\ ends[i] <= Len(memSpan)
    <3>1. i = Len(pieces) \/ i < Len(pieces)
      BY <1>1
    <3>2. Len(pieces) \in 0..Len(pieces)
      BY <1>1
    <3> QED BY <1>1, <1>2, <3>1, <3>2
  <2>2. ASSUME NEW p \in 1..Len(memSpan)
        PROVE  memSpan[p][1] <= i <=> p <= ends[i]
    <3>1. PICK j \in 1..Len(pieces) : ends[j - 1] < p /\ p <= ends[j]
      BY DEF Offsets
    <3>2. j \in 0..Len(pieces) /\ j - 1 \in 0..Len(pieces)
      BY <1>1
    <3>3. ends[j] \in Nat /\ ends[j - 1] \in Nat
      BY <1>2, <3>2
    <3>4. memSpan[p][1] = j
      <4>1. p \in (ends[j - 1] + 1)..ends[j]
        BY <3>1, <3>3
      <4>2. memSpan[p] = <<j, pieces[j].lost + (p - ends[j - 1] - 1)>>
        BY <4>1 DEF Offsets
      <4> QED BY <4>2
    <3>5. CASE j <= i
      <4>1. ends[j] <= ends[i]
        <5>1. CASE j = i
          BY <2>1, <5>1
        <5>2. CASE j < i
          <6>1. ends[j] < ends[i]
            BY <1>2, <3>2, <5>2
          <6> QED BY <2>1, <3>3, <6>1
        <5>3. j = i \/ j < i
          BY <1>1, <3>2, <3>5
        <5> QED BY <5>1, <5>2, <5>3
      <4> QED BY <2>1, <3>1, <3>3, <3>4, <3>5, <4>1, SMTT(30)
    <3>6. CASE ~(j <= i)
      <4>1. i = j - 1 \/ i < j - 1
        BY <3>6, <1>1
      <4>2. i < j - 1 => ends[i] < ends[j - 1]
        BY <1>2, <3>2
      <4>3. ends[i] <= ends[j - 1]
        BY <2>1, <3>3, <4>1, <4>2
      <4> QED BY <2>1, <3>1, <3>3, <3>4, <3>6, <4>3, SMTT(30)
    <3> QED BY <3>5, <3>6
  <2>3. P = 1..ends[i]
    BY <1>1, <1>2, <2>1, <2>2, SMTT(30)
  <2>4. Cardinality(1..ends[i]) = ends[i]
    BY <2>1, FS_Interval, SMTT(30)
  <2> QED BY <2>3, <2>4 DEF EndOf
<1>4. ends \in [0..Len(pieces) -> Nat]
  BY DEF Offsets
<1> QED BY <1>3, <1>4 DEF Ends

\* The memory of a socket begins laid out, and stays so.
LEMMA LaidOutAtFirst ==
  ASSUME Init PROVE LaidOut
<1>1. pieces \in Streams /\ memSpan = FlattenSeq([i \in DOMAIN pieces |-> Bytes(i, pieces[i])])
  BY DEF Init
<1>2. memSpan \in Seq(Nat \X Nat) /\ \E ends : Offsets(pieces, memSpan, ends)
  BY <1>1, StreamsAssumption, StreamIsLaidOut
<1>3. PICK ends : Offsets(pieces, memSpan, ends)
  BY <1>2
<1>4. Ends = ends
  BY <1>1, <1>2, <1>3, EndOfIs
<1> QED BY <1>1, <1>2, <1>3, <1>4 DEF LaidOut

LEMMA LaidOutStays ==
  ASSUME LaidOut, UNCHANGED <<pieces, memSpan>>
  PROVE  LaidOut' /\ \A i : EndOf(i)' = EndOf(i)
BY DEF LaidOut, Ends, EndOf

\* The pieces and where they are.
LEMMA PiecesAreThere ==
  ASSUME LaidOut
  PROVE  /\ Len(pieces) \in Nat \ {0} /\ DOMAIN pieces = 1..Len(pieces)
         /\ \A i \in DOMAIN pieces : IsPiece(pieces[i])
         /\ Len(memSpan) \in Nat \ {0} /\ DOMAIN memSpan = 1..Len(memSpan)
         /\ EndOf(0) = 0 /\ EndOf(Len(pieces)) = Len(memSpan)
         /\ \A i \in 0..Len(pieces) : EndOf(i) \in 0..Len(memSpan)
         /\ \A i, j \in 0..Len(pieces) : i < j => EndOf(i) < EndOf(j)
         /\ \A i \in DOMAIN pieces : /\ StartOf(i) \in Nat
                                     /\ EndOf(i) = StartOf(i) + (pieces[i].length - pieces[i].lost)
<1>1. /\ Len(pieces) \in Nat \ {0} /\ DOMAIN pieces = 1..Len(pieces)
      /\ \A i \in DOMAIN pieces : IsPiece(pieces[i])
  BY StreamsAssumption, EmptySeq DEF LaidOut
<1>2. /\ Ends \in [0..Len(pieces) -> Nat] /\ Ends[0] = 0 /\ Ends[Len(pieces)] = Len(memSpan)
      /\ \A i \in 1..Len(pieces) :
           Ends[i] = Ends[i - 1] + (pieces[i].length - pieces[i].lost)
      /\ \A i, j \in 0..Len(pieces) : i < j => Ends[i] < Ends[j]
  BY DEF LaidOut, Offsets
<1>3. \A i \in 0..Len(pieces) : Ends[i] = EndOf(i)
  BY DEF Ends
<1>4. 0 \in 0..Len(pieces) /\ Len(pieces) \in 0..Len(pieces)
      /\ \A i \in DOMAIN pieces : i \in 0..Len(pieces) /\ i - 1 \in 0..Len(pieces)
  BY <1>1
<1>5. EndOf(0) = 0 /\ EndOf(Len(pieces)) = Len(memSpan)
  BY <1>2, <1>3, <1>4
<1>6. \A i \in 0..Len(pieces) : EndOf(i) \in Nat
  BY <1>2, <1>3
<1>7. \A i, j \in 0..Len(pieces) : i < j => EndOf(i) < EndOf(j)
  BY <1>2, <1>3
<1>8. \A i \in DOMAIN pieces :
         /\ StartOf(i) \in Nat
         /\ EndOf(i) = StartOf(i) + (pieces[i].length - pieces[i].lost)
  BY <1>1, <1>2, <1>3, <1>4, <1>6 DEF StartOf
<1>9. Len(memSpan) \in Nat \ {0} /\ DOMAIN memSpan = 1..Len(memSpan)
  <2>1. Len(memSpan) \in Nat /\ DOMAIN memSpan = 1..Len(memSpan)
    BY DEF LaidOut
  <2>2. 0 < Len(memSpan)
    BY <1>1, <1>4, <1>5, <1>7
  <2> QED BY <2>1, <2>2
<1>10. \A i \in 0..Len(pieces) : EndOf(i) \in 0..Len(memSpan)
  <2>1. ASSUME NEW i \in 0..Len(pieces) PROVE EndOf(i) <= Len(memSpan)
    <3>1. Len(pieces) \in Nat
      BY <1>1
    <3>2. i = Len(pieces) \/ i < Len(pieces)
      BY <3>1
    <3> QED BY <1>4, <1>5, <1>6, <1>7, <1>9, <3>2
  <2> QED BY <1>6, <1>9, <2>1
<1> QED BY <1>1, <1>5, <1>7, <1>8, <1>9, <1>10

\* Which byte is where.
LEMMA ByteAt ==
  ASSUME LaidOut
  PROVE  /\ \A i \in DOMAIN pieces : \A p \in (StartOf(i) + 1)..EndOf(i) :
              /\ p \in DOMAIN memSpan
              /\ memSpan[p] = <<i, pieces[i].lost + (p - StartOf(i) - 1)>>
         /\ \A p \in DOMAIN memSpan : \E i \in DOMAIN pieces : StartOf(i) < p /\ p <= EndOf(i)
<1>1. /\ Len(pieces) \in Nat /\ DOMAIN pieces = 1..Len(pieces)
      /\ Len(memSpan) \in Nat /\ DOMAIN memSpan = 1..Len(memSpan)
      /\ \A i \in 0..Len(pieces) : EndOf(i) \in 0..Len(memSpan)
  BY PiecesAreThere
<1>2. \A i \in DOMAIN pieces : /\ Ends[i] = EndOf(i) /\ Ends[i - 1] = StartOf(i)
                               /\ StartOf(i) \in Nat /\ EndOf(i) \in 0..Len(memSpan)
  <2>1. ASSUME NEW i \in DOMAIN pieces
        PROVE  i \in 0..Len(pieces) /\ i - 1 \in 0..Len(pieces)
    BY <1>1
  <2> QED BY <1>1, <2>1 DEF Ends, StartOf
<1>3. ASSUME NEW i \in DOMAIN pieces, NEW p \in (StartOf(i) + 1)..EndOf(i)
      PROVE  p \in DOMAIN memSpan /\ memSpan[p] = <<i, pieces[i].lost + (p - StartOf(i) - 1)>>
  <2>1. p \in DOMAIN memSpan
    BY <1>1, <1>2
  <2>2. p \in (Ends[i - 1] + 1)..Ends[i] /\ i \in 1..Len(pieces)
    BY <1>1, <1>2
  <2>3. memSpan[p] = <<i, pieces[i].lost + (p - Ends[i - 1] - 1)>>
    BY <2>2 DEF LaidOut, Offsets
  <2> QED BY <1>2, <2>1, <2>3
<1>4. ASSUME NEW p \in DOMAIN memSpan
      PROVE  \E i \in DOMAIN pieces : StartOf(i) < p /\ p <= EndOf(i)
  <2>1. PICK i \in 1..Len(pieces) : Ends[i - 1] < p /\ p <= Ends[i]
    BY <1>1 DEF LaidOut, Offsets
  <2> QED BY <1>1, <1>2, <2>1
<1> QED BY <1>3, <1>4

-----------------------------------------------------------------------------
(* The buffer.                                                               *)

\* A byte of the buffer: nothing yet, or a byte of some piece.
Byte == {Blank} \cup ((DOMAIN pieces) \X Nat)

IsBuffer(buffer) == buffer \in Seq(Byte) /\ Len(buffer) = 18

\* The memory is bytes of the pieces.
LEMMA MemoryOfBytes ==
  ASSUME LaidOut
  PROVE  memSpan \in Seq(Byte)
<1>1. Len(memSpan) \in Nat /\ DOMAIN memSpan = 1..Len(memSpan)
  BY PiecesAreThere
<1>2. ASSUME NEW p \in DOMAIN memSpan
      PROVE  memSpan[p] \in Byte
  <2>1. PICK i \in DOMAIN pieces : StartOf(i) < p /\ p <= EndOf(i)
    BY ByteAt
  <2>2. StartOf(i) \in Nat /\ EndOf(i) \in Nat /\ p \in Nat /\ pieces[i].lost \in Nat
    <3>1. IsPiece(pieces[i]) /\ i \in 0..Len(pieces)
      BY PiecesAreThere
    <3> QED BY <1>1, <3>1, PiecesAreThere, PieceIs
  <2>3. p \in (StartOf(i) + 1)..EndOf(i)
    BY <2>1, <2>2
  <2>4. memSpan[p] = <<i, pieces[i].lost + (p - StartOf(i) - 1)>>
    BY <2>3, ByteAt
  <2>5. pieces[i].lost + (p - StartOf(i) - 1) \in Nat
    BY <2>1, <2>2
  <2> QED BY <2>4, <2>5 DEF Byte
<1>3. memSpan \in [1..Len(memSpan) -> Nat \X Nat]
  BY <1>1 DEF LaidOut
<1>4. memSpan \in [1..Len(memSpan) -> Byte]
  BY <1>1, <1>2, <1>3
<1> QED BY <1>1, <1>4

\* The bytes of a buffer.
LEMMA BufferBytes ==
  ASSUME NEW buffer, IsBuffer(buffer)
  PROVE  \A k \in 1..18 : buffer[k] \in Byte
<1>1. buffer \in Seq(Byte) /\ Len(buffer) = 18
  BY DEF IsBuffer
<1>2. ASSUME NEW k \in 1..18 PROVE buffer[k] \in Byte
  <2>1. k \in 1..Len(buffer)
    BY <1>1
  <2> QED BY <1>1, <2>1, ElementOfSeq
<1> QED BY <1>2

\* A stretch of a sequence.
LEMMA Stretch ==
  ASSUME NEW S, NEW s \in Seq(S), NEW lo \in Int, NEW hi \in Int,
         1 <= lo, lo <= hi + 1, hi <= Len(s)
  PROVE  /\ SubSeq(s, lo, hi) \in Seq(S)
         /\ Len(SubSeq(s, lo, hi)) = hi - lo + 1
         /\ \A k \in 1..(hi - lo + 1) : SubSeq(s, lo, hi)[k] = s[k + (lo - 1)]
<1>1. \A i \in lo..hi : s[i] \in S
  <2>1. ASSUME NEW i \in lo..hi PROVE s[i] \in S
    <3>1. i \in 1..Len(s)
      OBVIOUS
    <3> QED BY <3>1, ElementOfSeq
  <2> QED BY <2>1
<1>2. /\ SubSeq(s, lo, hi) \in Seq(S)
      /\ Len(SubSeq(s, lo, hi)) = IF lo <= hi THEN hi - lo + 1 ELSE 0
      /\ \A k \in 1..(hi - lo + 1) : SubSeq(s, lo, hi)[k] = s[lo + k - 1]
  BY <1>1, SubSeqProperties
<1>3. \A k \in 1..(hi - lo + 1) : lo + k - 1 = k + (lo - 1)
  OBVIOUS
<1>4. (IF lo <= hi THEN hi - lo + 1 ELSE 0) = hi - lo + 1
  OBVIOUS
<1> QED BY <1>2, <1>3, <1>4

\* recv() replaces len bytes of the buffer from dest on.
LEMMA FilledBuffer ==
  ASSUME IsBuffer(bufferSpan), memSpan \in Seq(Byte), readIndex \in Nat,
         NEW dest \in Nat, NEW len \in Nat, dest + len <= 18, readIndex + len <= Len(memSpan)
  PROVE  /\ IsBuffer(Filled(dest, len))
         /\ \A k \in 1..18 : Filled(dest, len)[k] =
              IF k <= dest THEN bufferSpan[k]
              ELSE IF k <= dest + len THEN memSpan[readIndex + (k - dest)]
              ELSE bufferSpan[k]
<1> DEFINE a == SubSeq(bufferSpan, 1, dest)
           b == SubSeq(memSpan, readIndex + 1, readIndex + len)
           c == SubSeq(bufferSpan, dest + len + 1, 18)
           m == dest + len
<1>1. bufferSpan \in Seq(Byte) /\ Len(bufferSpan) = 18 /\ m \in Nat
  BY DEF IsBuffer
<1>2. a \in Seq(Byte) /\ Len(a) = dest /\ \A k \in 1..dest : a[k] = bufferSpan[k]
  <2> DEFINE lo == 1
  <2>1. /\ lo \in Int /\ dest \in Int /\ 1 <= lo /\ lo <= dest + 1 /\ dest <= Len(bufferSpan)
        /\ dest - lo + 1 = dest /\ \A k \in Int : k + (lo - 1) = k
    BY <1>1
  <2>2. a = SubSeq(bufferSpan, lo, dest)
    OBVIOUS
  <2> HIDE DEF lo, a
  <2>3. /\ SubSeq(bufferSpan, lo, dest) \in Seq(Byte)
        /\ Len(SubSeq(bufferSpan, lo, dest)) = dest - lo + 1
        /\ \A k \in 1..(dest - lo + 1) : SubSeq(bufferSpan, lo, dest)[k] = bufferSpan[k + (lo - 1)]
    BY <1>1, <2>1, Stretch, ZenonT(40)
  <2> QED BY <2>1, <2>2, <2>3
<1>3. b \in Seq(Byte) /\ Len(b) = len /\ \A k \in 1..len : b[k] = memSpan[readIndex + k]
  <2> DEFINE lo == readIndex + 1
             hi == readIndex + len
  <2>1. Len(memSpan) \in Nat /\ lo \in Int /\ hi \in Int /\ 1 <= lo /\ lo <= hi + 1
        /\ hi <= Len(memSpan) /\ hi - lo + 1 = len
        /\ \A k \in Int : k + (lo - 1) = readIndex + k
    OBVIOUS
  <2> HIDE DEF lo, hi
  <2>2. /\ SubSeq(memSpan, lo, hi) \in Seq(Byte) /\ Len(SubSeq(memSpan, lo, hi)) = hi - lo + 1
        /\ \A k \in 1..(hi - lo + 1) : SubSeq(memSpan, lo, hi)[k] = memSpan[k + (lo - 1)]
    BY <2>1, Stretch
  <2>3. b = SubSeq(memSpan, lo, hi)
    BY DEF lo, hi
  <2> HIDE DEF b
  <2>4. \A k \in 1..len : b[k] = memSpan[k + (lo - 1)]
    BY <2>1, <2>2, <2>3
  <2>5. \A k \in 1..len : k + (lo - 1) = readIndex + k
    BY <2>1
  <2>6. \A k \in 1..len : b[k] = memSpan[readIndex + k]
    BY <2>4, <2>5
  <2> QED BY <2>1, <2>2, <2>3, <2>6
<1>4. c \in Seq(Byte) /\ Len(c) = 18 - m /\ \A k \in 1..(18 - m) : c[k] = bufferSpan[m + k]
  <2> DEFINE lo == m + 1
             hi == 18
  <2>1. /\ lo \in Int /\ hi \in Int /\ 1 <= lo /\ lo <= hi + 1 /\ hi <= Len(bufferSpan)
        /\ hi - lo + 1 = 18 - m /\ \A k \in Int : k + (lo - 1) = m + k
    BY <1>1
  <2>2. c = SubSeq(bufferSpan, lo, hi)
    OBVIOUS
  <2> HIDE DEF lo, hi, c, m
  <2>3. /\ SubSeq(bufferSpan, lo, hi) \in Seq(Byte)
        /\ Len(SubSeq(bufferSpan, lo, hi)) = hi - lo + 1
        /\ \A k \in 1..(hi - lo + 1) : SubSeq(bufferSpan, lo, hi)[k] = bufferSpan[k + (lo - 1)]
    BY <1>1, <2>1, Stretch, ZenonT(40)
  <2> QED BY <1>1, <2>1, <2>2, <2>3
<1>5. Filled(dest, len) = (a \o b) \o c
  BY LongestMessage DEF Filled
<1> HIDE DEF a, b, c
<1>6. /\ a \o b \in Seq(Byte) /\ Len(a \o b) = m
      /\ \A k \in 1..m : (a \o b)[k] = IF k <= dest THEN a[k] ELSE b[k - dest]
  <2>1. /\ a \o b \in Seq(Byte) /\ Len(a \o b) = Len(a) + Len(b)
        /\ \A k \in 1..(Len(a) + Len(b)) :
             (a \o b)[k] = IF k <= Len(a) THEN a[k] ELSE b[k - Len(a)]
    BY <1>2, <1>3, ConcatProperties
  <2> QED BY <1>2, <1>3, <2>1
<1>7. /\ (a \o b) \o c \in Seq(Byte) /\ Len((a \o b) \o c) = 18
      /\ \A k \in 1..18 : ((a \o b) \o c)[k] = IF k <= m THEN (a \o b)[k] ELSE c[k - m]
  <2> DEFINE ab == a \o b
  <2>1. ab \in Seq(Byte) /\ Len(ab) = m
    BY <1>6
  <2> HIDE DEF ab
  <2>2. /\ ab \o c \in Seq(Byte) /\ Len(ab \o c) = Len(ab) + Len(c)
        /\ \A k \in 1..(Len(ab) + Len(c)) :
             (ab \o c)[k] = IF k <= Len(ab) THEN ab[k] ELSE c[k - Len(ab)]
    BY <1>4, <2>1, ConcatProperties
  <2>3. Len(ab) + Len(c) = 18
    BY <1>4, <2>1
  <2>4. /\ ab \o c \in Seq(Byte) /\ Len(ab \o c) = 18
        /\ \A k \in 1..18 : (ab \o c)[k] = IF k <= m THEN ab[k] ELSE c[k - m]
    <3> HIDE DEF m
    <3> QED BY <2>1, <2>2, <2>3
  <2> QED BY <2>4 DEF ab
<1>8. ASSUME NEW k \in 1..18
      PROVE  Filled(dest, len)[k] =
               IF k <= dest THEN bufferSpan[k]
               ELSE IF k <= m THEN memSpan[readIndex + (k - dest)]
               ELSE bufferSpan[k]
  <2>1. CASE k <= dest
    <3>1. k \in 1..dest /\ k \in 1..m /\ k <= m
      BY <2>1
    <3> HIDE DEF m
    <3> QED BY <1>2, <1>5, <1>6, <1>7, <2>1, <3>1
  <2>2. CASE ~(k <= dest) /\ k <= m
    <3>1. k - dest \in 1..len /\ k \in 1..m
      BY <2>2
    <3> HIDE DEF m
    <3> QED BY <1>3, <1>5, <1>6, <1>7, <2>2, <3>1
  <2>3. CASE ~(k <= dest) /\ ~(k <= m)
    <3>1. k - m \in 1..(18 - m) /\ m + (k - m) = k
      BY <2>3
    <3> HIDE DEF m
    <3> QED BY <1>4, <1>5, <1>7, <2>3, <3>1
  <2> HIDE DEF m
  <2> QED BY <1>1, <2>1, <2>2, <2>3
<1>9. IsBuffer(Filled(dest, len))
  BY <1>5, <1>7 DEF IsBuffer
<1> QED BY <1>8, <1>9

\* std::shift_left moves the bytes of the window to its front.
LEMMA ShiftedBuffer ==
  ASSUME NEW buffer, IsBuffer(buffer), NEW by \in Int, by <= 13
  PROVE  /\ IsBuffer(ShiftLeft(buffer, by))
         /\ by < 0 => ShiftLeft(buffer, by) = buffer
         /\ by >= 0 => \A k \in 1..18 : ShiftLeft(buffer, by)[k] =
                                          IF k <= 13 - by THEN buffer[k + by] ELSE buffer[k]
<1>1. CASE by < 0
  BY <1>1 DEF ShiftLeft
<1>2. CASE ~(by < 0)
  <2> DEFINE a == SubSeq(buffer, by + 1, 13)
             b == SubSeq(buffer, 13 - by + 1, 18)
  <2>1. buffer \in Seq(Byte) /\ Len(buffer) = 18 /\ by \in Nat /\ 13 - by \in Nat
    BY <1>2 DEF IsBuffer
  <2>2. a \in Seq(Byte) /\ Len(a) = 13 - by /\ \A k \in 1..(13 - by) : a[k] = buffer[k + by]
    <3> DEFINE lo == by + 1
               hi == 13
    <3>1. /\ lo \in Int /\ hi \in Int /\ 1 <= lo /\ lo <= hi + 1 /\ hi <= Len(buffer)
          /\ hi - lo + 1 = 13 - by /\ \A k \in Int : k + (lo - 1) = k + by
      BY <2>1
    <3>2. a = SubSeq(buffer, lo, hi)
      OBVIOUS
    <3> HIDE DEF a, lo, hi
    <3>3. /\ SubSeq(buffer, lo, hi) \in Seq(Byte) /\ Len(SubSeq(buffer, lo, hi)) = hi - lo + 1
          /\ \A k \in 1..(hi - lo + 1) : SubSeq(buffer, lo, hi)[k] = buffer[k + (lo - 1)]
      BY <2>1, <3>1, Stretch, ZenonT(40)
    <3> QED BY <3>1, <3>2, <3>3
  <2>3. b \in Seq(Byte) /\ Len(b) = 5 + by /\ \A k \in 1..(5 + by) : b[k] = buffer[13 - by + k]
    <3> DEFINE lo == 13 - by + 1
               hi == 18
    <3>1. /\ lo \in Int /\ hi \in Int /\ 1 <= lo /\ lo <= hi + 1 /\ hi <= Len(buffer)
          /\ hi - lo + 1 = 5 + by /\ \A k \in Int : k + (lo - 1) = 13 - by + k
      BY <2>1
    <3>2. b = SubSeq(buffer, lo, hi)
      OBVIOUS
    <3> HIDE DEF b, lo, hi
    <3>3. /\ SubSeq(buffer, lo, hi) \in Seq(Byte) /\ Len(SubSeq(buffer, lo, hi)) = hi - lo + 1
          /\ \A k \in 1..(hi - lo + 1) : SubSeq(buffer, lo, hi)[k] = buffer[k + (lo - 1)]
      BY <2>1, <3>1, Stretch, ZenonT(40)
    <3> QED BY <3>1, <3>2, <3>3
  <2>4. ShiftLeft(buffer, by) = a \o b
    BY <1>2, LongestMessage, ShortestMessage DEF ShiftLeft
  <2> HIDE DEF a, b
  <2>5. /\ a \o b \in Seq(Byte) /\ Len(a \o b) = Len(a) + Len(b)
        /\ \A k \in 1..(Len(a) + Len(b)) : (a \o b)[k] = IF k <= Len(a) THEN a[k] ELSE b[k - Len(a)]
    BY <2>2, <2>3, ConcatProperties
  <2>6. Len(a) + Len(b) = 18
    BY <2>1, <2>2, <2>3
  <2>7. ASSUME NEW k \in 1..18
        PROVE  (a \o b)[k] = IF k <= 13 - by THEN buffer[k + by] ELSE buffer[k]
    <3>1. CASE k <= 13 - by
      <4>1. k \in 1..(13 - by)
        BY <2>1, <3>1
      <4> QED BY <2>2, <2>5, <2>6, <3>1, <4>1
    <3>2. CASE ~(k <= 13 - by)
      <4>1. k - (13 - by) \in 1..(5 + by) /\ 13 - by + (k - (13 - by)) = k
        BY <2>1, <3>2
      <4> QED BY <2>2, <2>3, <2>5, <2>6, <3>2, <4>1
    <3> QED BY <3>1, <3>2
  <2> QED BY <1>2, <2>4, <2>5, <2>6, <2>7 DEF IsBuffer
<1> QED BY <1>1, <1>2

\* A byte has a value, and so has an int read from a buffer.
LEMMA ValuesAreIntegers ==
  ASSUME LaidOut, NEW buffer, IsBuffer(buffer)
  PROVE  /\ \A byte \in Byte : Value(byte) \in Int
         /\ \A k \in 0..17 : At(buffer, k) \in Int
         /\ IntAt(buffer, LengthOffset) \in Int
<1>1. ASSUME NEW byte \in Byte
      PROVE  Value(byte) \in Int
  <2>1. CASE byte = Blank
    BY <2>1 DEF Value
  <2>2. CASE byte # Blank
    <3>1. byte[1] \in DOMAIN pieces /\ byte[2] \in Nat
      BY <2>2 DEF Byte
    <3>2. IsPiece(pieces[byte[1]])
      BY <3>1, PiecesAreThere
    <3> QED BY <2>2, <3>1, <3>2, ValuesIn DEF Value
  <2> QED BY <2>1, <2>2
<1>2. ASSUME NEW k \in 0..17
      PROVE  At(buffer, k) \in Int
  <2>1. k + 1 \in 1..18
    OBVIOUS
  <2>2. buffer[k + 1] \in Byte
    BY <2>1, BufferBytes
  <2> QED BY <1>1, <2>2 DEF At
<1>3. IntAt(buffer, LengthOffset) \in Int
  <2>1. /\ At(buffer, 0) \in Int /\ At(buffer, 0 + 1) \in Int
        /\ At(buffer, 0 + 2) \in Int /\ At(buffer, 0 + 3) \in Int
    BY <1>2
  <2> QED BY <2>1, HeaderLayout DEF IntAt
<1> QED BY <1>1, <1>2, <1>3

-----------------------------------------------------------------------------
(* Type correctness.                                                         *)

Stages == {"idle", "header", "scan", "discard", "rest", "terminated"}

AnswerSet == [type : Types \cup {"none"}, of : {0} \cup DOMAIN pieces]

\* Where the socket is.
ReadTyped ==
    /\ LaidOut
    /\ readIndex \in 0..Len(memSpan)
    /\ endOfBuffer \in BOOLEAN
    /\ endOfBuffer <=> (readIndex = Len(memSpan) /\ readIndex > 0)

\* What the locals hold in each stage.
LocalsTyped ==
    /\ stage \in Stages
    /\ bytesRead \in 0..17 /\ msgLength \in 0..18 /\ excessBytes \in Nat
    /\ stage \in {"scan", "discard", "rest"} => readIndex > 0
    /\ stage = "discard" => excessBytes > 0
    /\ stage \in {"discard", "rest"} => bytesRead >= 6

Typed ==
    /\ ReadTyped
    /\ LocalsTyped
    /\ IsBuffer(bufferSpan)
    /\ answers \in Seq(AnswerSet)

\* The types of the module follow.
LEMMA TypedIsTypeOK ==
  ASSUME Typed PROVE TypeOK
<1>1. readIndex \in Positions
  BY DEF Typed, ReadTyped, Positions
<1>2. endOfBuffer = (readIndex = Len(memSpan) /\ readIndex > 0)
  BY DEF Typed, ReadTyped
<1>3. stage \in {"idle", "header", "scan", "discard", "rest", "terminated"}
  BY DEF Typed, LocalsTyped, Stages
<1>4. /\ Len(bufferSpan) = BufferSize
      /\ \A k \in DOMAIN bufferSpan : bufferSpan[k][1] \in {0} \cup DOMAIN pieces
  <2>1. bufferSpan \in Seq(Byte) /\ Len(bufferSpan) = 18
    BY DEF Typed, IsBuffer
  <2>2. DOMAIN bufferSpan = 1..Len(bufferSpan)
    BY <2>1
  <2>3. ASSUME NEW k \in DOMAIN bufferSpan
        PROVE  bufferSpan[k][1] \in {0} \cup DOMAIN pieces
    <3>1. bufferSpan[k] \in Byte
      BY <2>1, <2>2, ElementOfSeq
    <3> QED BY <3>1 DEF Byte, Blank
  <2> QED BY <2>1, <2>3, LongestMessage
<1>5. bytesRead \in 0..(BufferSize - 1) /\ msgLength \in 0..BufferSize /\ excessBytes \in Nat
  BY LongestMessage DEF Typed, LocalsTyped
<1>6. ASSUME NEW n \in DOMAIN answers
      PROVE  /\ answers[n].type \in Types \cup {"none"}
             /\ answers[n].of \in {0} \cup DOMAIN pieces
  <2>1. answers \in Seq(AnswerSet)
    BY DEF Typed
  <2>2. n \in 1..Len(answers)
    BY <2>1
  <2>3. answers[n] \in AnswerSet
    BY <2>1, <2>2, ElementOfSeq
  <2> QED BY <2>3 DEF AnswerSet
<1> QED BY <1>1, <1>2, <1>3, <1>4, <1>5, <1>6 DEF TypeOK

LEMMA TypedAtFirst ==
  ASSUME Init PROVE Typed
<1>1. LaidOut
  BY LaidOutAtFirst
<1>2. Len(memSpan) \in Nat \ {0}
  BY <1>1, PiecesAreThere
<1>3. ReadTyped
  <2>1. readIndex = 0 /\ endOfBuffer = FALSE
    BY DEF Init
  <2>2. endOfBuffer \in BOOLEAN /\ ~endOfBuffer
    BY <2>1
  <2>3. readIndex \in 0..Len(memSpan) /\ ~(readIndex > 0)
    BY <1>2, <2>1
  <2> QED BY <1>1, <2>2, <2>3 DEF ReadTyped
<1>4. LocalsTyped
  BY DEF Init, LocalsTyped, Stages
<1>5. IsBuffer(bufferSpan)
  <2>1. bufferSpan = [k \in 1..18 |-> Blank] /\ Blank \in Byte
    BY LongestMessage DEF Init, Byte
  <2> DEFINE n == 18
  <2>2. bufferSpan \in [1..n -> Byte] /\ n \in Nat
    BY <2>1
  <2> HIDE DEF n
  <2>3. bufferSpan \in Seq(Byte) /\ Len(bufferSpan) = n
    BY <2>2
  <2> QED BY <2>3 DEF IsBuffer, n
<1>6. answers \in Seq(AnswerSet)
  BY DEF Init
<1> QED BY <1>3, <1>4, <1>5, <1>6 DEF Typed

\* How much each recv() asks for.
LEMMA DemandIs ==
  ASSUME Typed
  PROVE  /\ stage = "header" => Demand = 6
         /\ stage = "scan" => Demand = 8
         /\ stage = "discard" => Demand \in 1..12 /\ Demand <= excessBytes
         /\ stage = "rest" => Demand = msgLength - bytesRead
<1>1. stage = "header" => Demand = 6
  BY HeaderLayout DEF Demand
<1>2. stage = "scan" => Demand = 8
  BY HeaderLayout, ShortestMessage DEF Demand, BytesToKeep
<1>3. ASSUME stage = "discard"
      PROVE  Demand \in 1..12 /\ Demand <= excessBytes
  <2> DEFINE S == {12, excessBytes}
  <2>1. excessBytes \in Nat /\ excessBytes > 0
    BY <1>3 DEF Typed, LocalsTyped
  <2>2. S \in SUBSET Int /\ S # {} /\ (\A x \in S : 1 <= x) /\ 1 \in Int
    BY <2>1
  <2>3. Min(S) \in S /\ \A y \in S : Min(S) <= y
    <3> HIDE DEF S
    <3> QED BY <2>2, MinOfBounded
  <2>4. Demand = Min(S)
    BY <1>3, HeaderLayout, LongestMessage DEF Demand
  <2>5. Min(S) \in {12, excessBytes} /\ Min(S) <= 12 /\ Min(S) <= excessBytes
    BY <2>3
  <2> HIDE DEF S
  <2> QED BY <2>1, <2>4, <2>5
<1>4. stage = "rest" => Demand = msgLength - bytesRead
  BY DEF Demand
<1> QED BY <1>1, <1>2, <1>3, <1>4

\* The socket has been read for len bytes.
Received(len) ==
    /\ len \in Nat /\ readIndex + len <= Len(memSpan)
    /\ readIndex' = readIndex + len /\ readIndex' > 0
    /\ pieces' = pieces /\ memSpan' = memSpan
    /\ Byte' = Byte /\ AnswerSet' = AnswerSet

\* recv() moves the read index inside the memory, and sets the flag at its end.
LEMMA ConsumeReads ==
  ASSUME Typed, NEW len \in Int, Consume(len), len > 0 \/ readIndex > 0
  PROVE  Received(len) /\ ReadTyped'
<1>1. LaidOut /\ readIndex \in 0..Len(memSpan) /\ Len(memSpan) \in Nat
  BY PiecesAreThere DEF Typed, ReadTyped
<1>2. /\ len \in Nat /\ readIndex + len <= Len(memSpan)
      /\ readIndex' = readIndex + len
      /\ pieces' = pieces /\ memSpan' = memSpan
      /\ endOfBuffer' = (endOfBuffer \/ readIndex + len = Len(memSpan))
  BY DEF Consume, Available
<1>3. readIndex' > 0 /\ readIndex' \in 0..Len(memSpan')
  BY <1>1, <1>2
<1>4. LaidOut'
  BY <1>1, <1>2, LaidOutStays
<1>5. endOfBuffer' \in BOOLEAN /\ (endOfBuffer' <=> readIndex' = Len(memSpan') /\ readIndex' > 0)
  <2>1. endOfBuffer <=> (readIndex = Len(memSpan) /\ readIndex > 0)
    BY DEF Typed, ReadTyped
  <2>2. endOfBuffer' <=> (endOfBuffer \/ readIndex + len = Len(memSpan))
    BY <1>2
  <2>3. endOfBuffer' \in BOOLEAN
    BY <1>2
  <2>4. readIndex = Len(memSpan) => readIndex + len = Len(memSpan)
    BY <1>1, <1>2
  <2>5. readIndex + len = Len(memSpan) => readIndex' > 0
    BY <1>3
  <2> QED BY <1>2, <1>3, <2>1, <2>2, <2>3, <2>4, <2>5
<1> QED BY <1>2, <1>3, <1>4, <1>5, SMTT(30) DEF ReadTyped, Received, Byte, AnswerSet

\* Measuring a message leaves its locals as they should be.
LEMMA MeasureTypes ==
  ASSUME LaidOut, IsBuffer(bufferSpan'), NEW n \in 6..17, MeasureMessage(n)
  PROVE  LET length == IntAt(bufferSpan', LengthOffset)
         IN  /\ length \in Int
             /\ bytesRead' = n
             /\ msgLength' = IF length \in 0..18 THEN length ELSE 18
             /\ excessBytes' = IF length > 18 THEN length - 18 ELSE 0
             /\ stage' = IF length > 18 THEN "discard" ELSE "rest"
<1> DEFINE length == IntAt(bufferSpan', LengthOffset)
           fits   == length \in 0..18
           excess == IF fits THEN 0 ELSE length - 18
<1>1. length \in Int
  BY ValuesAreIntegers
<1>2. /\ bytesRead' = n
      /\ msgLength' = IF fits THEN length ELSE 18
      /\ excessBytes' = IF excess > 0 THEN excess ELSE 0
      /\ stage' = IF excess > 0 THEN "discard" ELSE "rest"
  BY LongestMessage DEF MeasureMessage, Excess
<1> HIDE DEF length
<1>3. (excess > 0 <=> length > 18) /\ (length > 18 => excess = length - 18)
  BY <1>1
<1>4. /\ excessBytes' = IF length > 18 THEN length - 18 ELSE 0
      /\ stage' = IF length > 18 THEN "discard" ELSE "rest"
  <2> HIDE DEF excess
  <2> QED BY <1>2, <1>3
<1> QED BY <1>1, <1>2, <1>4 DEF length

\* So the locals have their types after it.
LEMMA MeasureKeepsTypes ==
  ASSUME LaidOut, IsBuffer(bufferSpan'), NEW n \in 6..17, MeasureMessage(n), readIndex' > 0
  PROVE  LocalsTyped'
<1> DEFINE length == IntAt(bufferSpan', LengthOffset)
<1>1. /\ length \in Int
      /\ bytesRead' = n
      /\ msgLength' = IF length \in 0..18 THEN length ELSE 18
      /\ excessBytes' = IF length > 18 THEN length - 18 ELSE 0
      /\ stage' = IF length > 18 THEN "discard" ELSE "rest"
  BY MeasureTypes
<1> HIDE DEF length
<1> QED BY <1>1 DEF LocalsTyped, Stages

-----------------------------------------------------------------------------
(* What each step does to the socket, the buffer and the locals.             *)

\* The buffer stays one while the pieces stay.
LEMMA BufferStays ==
  ASSUME IsBuffer(bufferSpan'), Byte' = Byte
  PROVE  IsBuffer(bufferSpan)'
BY DEF IsBuffer

LEMMA HeaderStep ==
  ASSUME Typed, ReadHeader
  PROVE  /\ Received(6) /\ ReadTyped' /\ stage = "header" /\ answers' = answers
         /\ IsBuffer(bufferSpan')
         /\ \E buffer :
              /\ IsBuffer(buffer)
              /\ \A k \in 1..6 : buffer[k] = memSpan[readIndex + k]
              /\ \/ /\ DelimiterAt(buffer, 4)
                    /\ bufferSpan' = buffer /\ MeasureMessage(6)
                 \/ /\ ~DelimiterAt(buffer, 4)
                    /\ \A k \in 1..5 : bufferSpan'[k] = buffer[k + 1]
                    /\ stage' = "scan" /\ UNCHANGED <<bytesRead, msgLength, excessBytes>>
<1> DEFINE buffer == Filled(0, 6)
<1>1. stage = "header" /\ Consume(6) /\ answers' = answers
  BY HeaderLayout DEF ReadHeader
<1>2. Received(6) /\ ReadTyped'
  <2>1. 6 \in Int /\ 6 > 0
    OBVIOUS
  <2> QED BY <1>1, <2>1, ConsumeReads
<1>3. IsBuffer(buffer) /\ \A k \in 1..6 : buffer[k] = memSpan[readIndex + k]
  <2>1. IsBuffer(bufferSpan) /\ memSpan \in Seq(Byte) /\ readIndex \in Nat
    BY MemoryOfBytes DEF Typed, ReadTyped
  <2>2. readIndex + 6 <= Len(memSpan) /\ 0 \in Nat /\ 6 \in Nat /\ 0 + 6 <= 18
    BY <1>2 DEF Received
  <2>3. /\ IsBuffer(buffer)
        /\ \A k \in 1..18 : buffer[k] = IF k <= 0 THEN bufferSpan[k]
                                        ELSE IF k <= 0 + 6 THEN memSpan[readIndex + (k - 0)]
                                        ELSE bufferSpan[k]
    BY <2>1, <2>2, FilledBuffer
  <2> HIDE DEF buffer
  <2>4. ASSUME NEW k \in 1..6 PROVE buffer[k] = memSpan[readIndex + k]
    <3>1. k \in 1..18 /\ ~(k <= 0) /\ k <= 0 + 6 /\ k - 0 = k
      OBVIOUS
    <3> QED BY <2>3, <3>1
  <2> QED BY <2>3, <2>4
<1>4. IF DelimiterAt(buffer, 4) THEN bufferSpan' = buffer /\ MeasureMessage(6)
                                ELSE ScanOn(buffer, 1)
  BY HeaderLayout DEF ReadHeader
<1> HIDE DEF buffer
<1>5. CASE DelimiterAt(buffer, 4)
  BY <1>1, <1>2, <1>3, <1>4, <1>5
<1>6. CASE ~DelimiterAt(buffer, 4)
  <2>1. ScanOn(buffer, 1)
    BY <1>4, <1>6
  <2>2. /\ bufferSpan' = ShiftLeft(buffer, 1)
        /\ stage' = "scan" /\ UNCHANGED <<bytesRead, msgLength, excessBytes>>
    BY <2>1 DEF ScanOn
  <2>3. /\ IsBuffer(ShiftLeft(buffer, 1))
        /\ \A k \in 1..18 : ShiftLeft(buffer, 1)[k] =
                              IF k <= 13 - 1 THEN buffer[k + 1] ELSE buffer[k]
    <3> DEFINE by == 1
    <3>1. by \in Int /\ by <= 13 /\ by >= 0
      OBVIOUS
    <3> HIDE DEF by
    <3>2. /\ IsBuffer(ShiftLeft(buffer, by))
          /\ \A k \in 1..18 : ShiftLeft(buffer, by)[k] =
                                IF k <= 13 - by THEN buffer[k + by] ELSE buffer[k]
      BY <1>3, <3>1, ShiftedBuffer
    <3> QED BY <3>2 DEF by
  <2>4. \A k \in 1..5 : bufferSpan'[k] = buffer[k + 1]
    BY <2>2, <2>3
  <2> QED BY <1>1, <1>2, <1>3, <1>6, <2>2, <2>3, <2>4
<1> QED BY <1>5, <1>6

LEMMA ScanStep ==
  ASSUME Typed, ScanForDelimiter
  PROVE  /\ Received(8) /\ ReadTyped' /\ stage = "scan" /\ answers' = answers
         /\ IsBuffer(bufferSpan')
         /\ \E buffer :
              /\ IsBuffer(buffer)
              /\ \A k \in 1..5 : buffer[k] = bufferSpan[k]
              /\ \A k \in 6..13 : buffer[k] = memSpan[readIndex + (k - 5)]
              /\ \/ /\ \A d \in 0..11 : ~DelimiterAt(buffer, d)
                    /\ \A k \in 1..5 : bufferSpan'[k] = buffer[k + 8]
                    /\ stage' = "scan" /\ UNCHANGED <<bytesRead, msgLength, excessBytes>>
                 \/ \E d \in 0..11 :
                      /\ DelimiterAt(buffer, d) /\ \A e \in 0..(d - 1) : ~DelimiterAt(buffer, e)
                      /\ d < 4 => bufferSpan' = buffer
                      /\ d >= 4 => \A k \in 1..(13 - (d - 4)) :
                                     bufferSpan'[k] = buffer[k + (d - 4)]
                      /\ 13 - (d - 4) \in 6..17 /\ MeasureMessage(13 - (d - 4))
<1> DEFINE buffer == Filled(5, 8)
<1>1. /\ stage = "scan" /\ Consume(8) /\ answers' = answers
      /\ \/ (\A d \in 0..11 : ~DelimiterAt(buffer, d)) /\ ScanOn(buffer, 8)
         \/ \E d \in 0..11 :
              /\ DelimiterAt(buffer, d) /\ \A e \in 0..(d - 1) : ~DelimiterAt(buffer, e)
              /\ bufferSpan' = ShiftLeft(buffer, d - 4)
              /\ MeasureMessage(13 - (d - 4))
  <2>1. BytesToKeep = 5 /\ ShortestMsgSize - BytesToKeep = 8 /\ SearchPositions = 0..11
        /\ ShortestMsgSize = 13 /\ DelimiterOffset = 4
    BY HeaderLayout, ShortestMessage DEF BytesToKeep, SearchPositions
  <2> QED BY <2>1 DEF ScanForDelimiter, NoDelimiter, FirstDelimiterAt
<1>2. Received(8) /\ ReadTyped'
  <2>1. 8 \in Int /\ 8 > 0
    OBVIOUS
  <2> QED BY <1>1, <2>1, ConsumeReads
<1>3. /\ IsBuffer(buffer)
      /\ \A k \in 1..5 : buffer[k] = bufferSpan[k]
      /\ \A k \in 6..13 : buffer[k] = memSpan[readIndex + (k - 5)]
  <2>1. IsBuffer(bufferSpan) /\ memSpan \in Seq(Byte) /\ readIndex \in Nat
    BY MemoryOfBytes DEF Typed, ReadTyped
  <2>2. readIndex + 8 <= Len(memSpan) /\ 5 \in Nat /\ 8 \in Nat /\ 5 + 8 <= 18
    BY <1>2 DEF Received
  <2>3. /\ IsBuffer(buffer)
        /\ \A k \in 1..18 : buffer[k] = IF k <= 5 THEN bufferSpan[k]
                                        ELSE IF k <= 5 + 8 THEN memSpan[readIndex + (k - 5)]
                                        ELSE bufferSpan[k]
    BY <2>1, <2>2, FilledBuffer
  <2> HIDE DEF buffer
  <2>4. ASSUME NEW k \in 1..5 PROVE buffer[k] = bufferSpan[k]
    <3>1. k \in 1..18 /\ k <= 5
      OBVIOUS
    <3> QED BY <2>3, <3>1
  <2>5. ASSUME NEW k \in 6..13 PROVE buffer[k] = memSpan[readIndex + (k - 5)]
    <3>1. k \in 1..18 /\ ~(k <= 5) /\ k <= 5 + 8
      OBVIOUS
    <3> QED BY <2>3, <3>1
  <2> QED BY <2>3, <2>4, <2>5
<1> HIDE DEF buffer
<1>4. ASSUME NEW by \in Int, by <= 13
      PROVE  /\ IsBuffer(ShiftLeft(buffer, by))
             /\ by < 0 => ShiftLeft(buffer, by) = buffer
             /\ by >= 0 => \A k \in 1..18 : ShiftLeft(buffer, by)[k] =
                                              IF k <= 13 - by THEN buffer[k + by] ELSE buffer[k]
  BY <1>3, <1>4, ShiftedBuffer
<1>5. CASE (\A d \in 0..11 : ~DelimiterAt(buffer, d)) /\ ScanOn(buffer, 8)
  <2>1. /\ bufferSpan' = ShiftLeft(buffer, 8)
        /\ stage' = "scan" /\ UNCHANGED <<bytesRead, msgLength, excessBytes>>
    BY <1>5 DEF ScanOn
  <2>2. IsBuffer(bufferSpan') /\ \A k \in 1..5 : bufferSpan'[k] = buffer[k + 8]
    <3>1. /\ IsBuffer(ShiftLeft(buffer, 8))
          /\ \A k \in 1..18 : ShiftLeft(buffer, 8)[k] =
                                IF k <= 13 - 8 THEN buffer[k + 8] ELSE buffer[k]
      BY <1>4
    <3> QED BY <2>1, <3>1
  <2> QED BY <1>1, <1>2, <1>3, <1>5, <2>1, <2>2
<1>6. ASSUME NEW d \in 0..11,
             DelimiterAt(buffer, d), \A e \in 0..(d - 1) : ~DelimiterAt(buffer, e),
             bufferSpan' = ShiftLeft(buffer, d - 4), MeasureMessage(13 - (d - 4))
      PROVE  /\ IsBuffer(bufferSpan')
             /\ d < 4 => bufferSpan' = buffer
             /\ d >= 4 => \A k \in 1..(13 - (d - 4)) : bufferSpan'[k] = buffer[k + (d - 4)]
             /\ 13 - (d - 4) \in 6..17
  <2> DEFINE by == d - 4
  <2>1. by \in Int /\ by <= 13 /\ 13 - by \in 6..17 /\ (d < 4 <=> by < 0) /\ (d >= 4 <=> by >= 0)
    OBVIOUS
  <2>2. bufferSpan' = ShiftLeft(buffer, by)
    BY <1>6
  <2> HIDE DEF by
  <2>3. /\ IsBuffer(ShiftLeft(buffer, by))
        /\ by < 0 => ShiftLeft(buffer, by) = buffer
        /\ by >= 0 => \A k \in 1..18 : ShiftLeft(buffer, by)[k] =
                                         IF k <= 13 - by THEN buffer[k + by] ELSE buffer[k]
    BY <1>4, <2>1
  <2>4. ASSUME d >= 4, NEW k \in 1..(13 - by)
        PROVE  bufferSpan'[k] = buffer[k + by]
    <3>1. k \in 1..18 /\ k <= 13 - by
      BY <2>1, <2>4
    <3> QED BY <2>1, <2>2, <2>3, <2>4, <3>1
  <2>5. IsBuffer(bufferSpan') /\ (d < 4 => bufferSpan' = buffer)
    BY <2>1, <2>2, <2>3
  <2> QED BY <2>1, <2>4, <2>5 DEF by
<1>7. CASE \E d \in 0..11 :
             /\ DelimiterAt(buffer, d) /\ \A e \in 0..(d - 1) : ~DelimiterAt(buffer, e)
             /\ bufferSpan' = ShiftLeft(buffer, d - 4)
             /\ MeasureMessage(13 - (d - 4))
  <2>1. PICK d \in 0..11 :
             /\ DelimiterAt(buffer, d) /\ \A e \in 0..(d - 1) : ~DelimiterAt(buffer, e)
             /\ bufferSpan' = ShiftLeft(buffer, d - 4)
             /\ MeasureMessage(13 - (d - 4))
    BY <1>7
  <2>2. /\ IsBuffer(bufferSpan')
        /\ d < 4 => bufferSpan' = buffer
        /\ d >= 4 => \A k \in 1..(13 - (d - 4)) : bufferSpan'[k] = buffer[k + (d - 4)]
        /\ 13 - (d - 4) \in 6..17
    BY <1>6, <2>1
  <2> QED BY <1>1, <1>2, <1>3, <2>1, <2>2
<1> QED BY <1>1, <1>5, <1>7

LEMMA DiscardStep ==
  ASSUME Typed, DiscardLongMsg
  PROVE  /\ Received(Demand) /\ ReadTyped' /\ stage = "discard"
         /\ Demand \in 1..12 /\ Demand <= excessBytes
         /\ IsBuffer(bufferSpan') /\ \A k \in 1..6 : bufferSpan'[k] = bufferSpan[k]
         /\ excessBytes' = excessBytes - Demand
         /\ stage' = IF excessBytes' = 0 THEN "rest" ELSE "discard"
         /\ UNCHANGED <<bytesRead, msgLength, answers>>
<1>1. /\ stage = "discard" /\ Consume(Demand)
      /\ bufferSpan' = Filled(6, Demand)
      /\ excessBytes' = excessBytes - Demand
      /\ stage' = IF excessBytes' = 0 THEN "rest" ELSE "discard"
      /\ UNCHANGED <<bytesRead, msgLength, answers>>
  BY HeaderLayout DEF DiscardLongMsg
<1>2. Demand \in 1..12 /\ Demand <= excessBytes
  BY <1>1, DemandIs
<1> DEFINE len == Demand
<1>3. len \in 1..12 /\ Consume(len) /\ bufferSpan' = Filled(6, len)
  BY <1>1, <1>2
<1>4. Received(len) /\ ReadTyped'
  <2> HIDE DEF len
  <2>1. len \in Int /\ len > 0
    BY <1>3
  <2> QED BY <1>3, <2>1, ConsumeReads
<1>5. IsBuffer(bufferSpan') /\ \A k \in 1..6 : bufferSpan'[k] = bufferSpan[k]
  <2> HIDE DEF len
  <2>1. IsBuffer(bufferSpan) /\ memSpan \in Seq(Byte) /\ readIndex \in Nat
    BY MemoryOfBytes DEF Typed, ReadTyped
  <2>2. readIndex + len <= Len(memSpan) /\ 6 \in Nat /\ len \in Nat /\ 6 + len <= 18
    BY <1>3, <1>4 DEF Received
  <2>3. /\ IsBuffer(Filled(6, len))
        /\ \A k \in 1..18 : Filled(6, len)[k] = IF k <= 6 THEN bufferSpan[k]
                                        ELSE IF k <= 6 + len THEN memSpan[readIndex + (k - 6)]
                                        ELSE bufferSpan[k]
    BY <2>1, <2>2, FilledBuffer
  <2>4. ASSUME NEW k \in 1..6 PROVE bufferSpan'[k] = bufferSpan[k]
    <3>1. k \in 1..18 /\ k <= 6
      OBVIOUS
    <3> QED BY <1>3, <2>3, <3>1
  <2> QED BY <1>3, <2>3, <2>4
<1> QED BY <1>1, <1>2, <1>4, <1>5

LEMMA RestStep ==
  ASSUME Typed, ReadRest
  PROVE  /\ stage = "rest" /\ stage' = "idle"
         /\ msgLength - bytesRead \in Nat
         /\ Received(msgLength - bytesRead) /\ ReadTyped'
         /\ IsBuffer(bufferSpan')
         /\ \A k \in 1..bytesRead : bufferSpan'[k] = bufferSpan[k]
         /\ \A k \in (bytesRead + 1)..msgLength :
              bufferSpan'[k] = memSpan[readIndex + (k - bytesRead)]
         /\ \E valid \in ValidateChecksum(bufferSpan', msgLength) :
              answers' = Append(answers, Answer(bufferSpan', msgLength, valid))
         /\ bytesRead' = 0 /\ msgLength' = 0 /\ excessBytes' = excessBytes
<1> DEFINE len == msgLength - bytesRead
<1>1. /\ stage = "rest" /\ Consume(Demand)
      /\ bufferSpan' = Filled(bytesRead, Demand)
      /\ \E valid \in ValidateChecksum(bufferSpan', msgLength) :
           answers' = Append(answers, Answer(bufferSpan', msgLength, valid))
      /\ stage' = "idle" /\ bytesRead' = 0 /\ msgLength' = 0
      /\ UNCHANGED excessBytes
  BY DEF ReadRest
<1>2. /\ bytesRead \in 0..17 /\ msgLength \in 0..18 /\ readIndex > 0
  BY <1>1 DEF Typed, LocalsTyped
<1>3. len \in Int /\ Consume(len) /\ bufferSpan' = Filled(bytesRead, len)
  BY <1>1, <1>2, DemandIs
<1>4. Received(len) /\ ReadTyped'
  <2> HIDE DEF len
  <2> QED BY <1>2, <1>3, ConsumeReads
<1>5. len \in Nat /\ readIndex + len <= Len(memSpan)
  BY <1>4 DEF Received
<1>6. /\ IsBuffer(bufferSpan')
      /\ \A k \in 1..bytesRead : bufferSpan'[k] = bufferSpan[k]
      /\ \A k \in (bytesRead + 1)..msgLength :
           bufferSpan'[k] = memSpan[readIndex + (k - bytesRead)]
  <2>1. IsBuffer(bufferSpan) /\ memSpan \in Seq(Byte) /\ readIndex \in Nat
    BY MemoryOfBytes DEF Typed, ReadTyped
  <2>2. bytesRead \in Nat /\ bytesRead + len = msgLength /\ bytesRead + len <= 18
    BY <1>2, <1>5
  <2> HIDE DEF len
  <2>3. /\ IsBuffer(Filled(bytesRead, len))
        /\ \A k \in 1..18 : Filled(bytesRead, len)[k] =
             IF k <= bytesRead THEN bufferSpan[k]
             ELSE IF k <= bytesRead + len THEN memSpan[readIndex + (k - bytesRead)]
             ELSE bufferSpan[k]
    BY <1>5, <2>1, <2>2, FilledBuffer
  <2>4. ASSUME NEW k \in 1..bytesRead PROVE bufferSpan'[k] = bufferSpan[k]
    <3>1. k \in 1..18 /\ k <= bytesRead
      BY <1>2
    <3> QED BY <1>3, <2>3, <3>1
  <2>5. ASSUME NEW k \in (bytesRead + 1)..msgLength
        PROVE  bufferSpan'[k] = memSpan[readIndex + (k - bytesRead)]
    <3>1. k \in 1..18 /\ ~(k <= bytesRead) /\ k <= bytesRead + len
      BY <1>2, <2>2
    <3> QED BY <1>3, <2>3, <3>1
  <2> QED BY <1>3, <2>3, <2>4, <2>5
<1> QED BY <1>1, <1>4, <1>5, <1>6

\* What a call returns is an answer.
LEMMA AnswerTypes ==
  ASSUME LaidOut, NEW buffer, IsBuffer(buffer), NEW length, NEW valid
  PROVE  Answer(buffer, length, valid) \in AnswerSet
<1>1. MsgType(length) \in Types \cup {"none"}
  BY DEF MsgType
<1>2. IsWhole(buffer, length) => buffer[1][1] \in DOMAIN pieces
  <2>1. buffer[1] \in Byte
    BY BufferBytes
  <2> QED BY <2>1 DEF IsWhole, Byte, Blank
<1>3. Nothing \in AnswerSet
  BY DEF Nothing, AnswerSet
<1>4. [type |-> MsgType(length), of |-> IF IsWhole(buffer, length) THEN buffer[1][1] ELSE 0]
        \in AnswerSet
  <2> DEFINE of == IF IsWhole(buffer, length) THEN buffer[1][1] ELSE 0
  <2>1. of \in {0} \cup DOMAIN pieces
    BY <1>2
  <2> HIDE DEF of
  <2>2. [type |-> MsgType(length), of |-> of] \in AnswerSet
    BY <1>1, <2>1 DEF AnswerSet
  <2> QED BY <2>2 DEF of
<1> QED BY <1>3, <1>4 DEF Answer

\* Every step keeps the types.
LEMMA TypedKept ==
  ASSUME Typed, [Next]_vars
  PROVE  Typed'
<1> USE DEF Typed
<1>1. CASE BeginRead \/ ReadOutOfBounds
  <2>1. /\ UNCHANGED <<pieces, memSpan, readIndex, endOfBuffer, bufferSpan, bytesRead,
                       msgLength, excessBytes, answers>>
        /\ stage' \in {"header", "terminated"}
    BY <1>1 DEF BeginRead, ReadOutOfBounds, socketVars
  <2>2. ReadTyped'
    BY <2>1, LaidOutStays DEF ReadTyped
  <2>3. LocalsTyped'
    BY <2>1 DEF LocalsTyped, Stages
  <2>4. IsBuffer(bufferSpan)' /\ (answers \in Seq(AnswerSet))'
    BY <2>1 DEF IsBuffer, Byte, AnswerSet
  <2> QED BY <2>2, <2>3, <2>4
<1>2. CASE ReadHeader
  <2>1. /\ Received(6) /\ ReadTyped' /\ answers' = answers /\ IsBuffer(bufferSpan')
        /\ \/ MeasureMessage(6)
           \/ stage' = "scan" /\ UNCHANGED <<bytesRead, msgLength, excessBytes>>
    BY <1>2, HeaderStep
  <2>2. readIndex' > 0 /\ Byte' = Byte /\ AnswerSet' = AnswerSet
    BY <2>1 DEF Received
  <2>3. LocalsTyped'
    <3>1. CASE MeasureMessage(6)
      <4>1. LaidOut /\ 6 \in 6..17
        BY DEF ReadTyped
      <4> QED BY <2>1, <2>2, <3>1, <4>1, MeasureKeepsTypes
    <3>2. CASE stage' = "scan" /\ UNCHANGED <<bytesRead, msgLength, excessBytes>>
      BY <2>2, <3>2 DEF LocalsTyped, Stages
    <3> QED BY <2>1, <3>1, <3>2
  <2>4. IsBuffer(bufferSpan)' /\ (answers \in Seq(AnswerSet))'
    BY <2>1, <2>2, BufferStays
  <2> QED BY <2>1, <2>3, <2>4
<1>3. CASE ScanForDelimiter
  <2>1. /\ Received(8) /\ ReadTyped' /\ answers' = answers /\ IsBuffer(bufferSpan')
        /\ \/ \E n \in 6..17 : MeasureMessage(n)
           \/ stage' = "scan" /\ UNCHANGED <<bytesRead, msgLength, excessBytes>>
    BY <1>3, ScanStep
  <2>2. readIndex' > 0 /\ Byte' = Byte /\ AnswerSet' = AnswerSet
    BY <2>1 DEF Received
  <2>3. LocalsTyped'
    <3>1. CASE \E n \in 6..17 : MeasureMessage(n)
      <4>1. PICK n \in 6..17 : MeasureMessage(n)
        BY <3>1
      <4>2. LaidOut
        BY DEF ReadTyped
      <4> QED BY <2>1, <2>2, <4>1, <4>2, MeasureKeepsTypes
    <3>2. CASE stage' = "scan" /\ UNCHANGED <<bytesRead, msgLength, excessBytes>>
      BY <2>2, <3>2 DEF LocalsTyped, Stages
    <3> QED BY <2>1, <3>1, <3>2
  <2>4. IsBuffer(bufferSpan)' /\ (answers \in Seq(AnswerSet))'
    BY <2>1, <2>2, BufferStays
  <2> QED BY <2>1, <2>3, <2>4
<1>4. CASE DiscardLongMsg
  <2> DEFINE len == Demand
  <2>1. /\ Received(len) /\ ReadTyped' /\ stage = "discard"
        /\ len \in 1..12 /\ len <= excessBytes
        /\ IsBuffer(bufferSpan')
        /\ excessBytes' = excessBytes - len
        /\ stage' = IF excessBytes' = 0 THEN "rest" ELSE "discard"
        /\ UNCHANGED <<bytesRead, msgLength, answers>>
    BY <1>4, DiscardStep
  <2> HIDE DEF len
  <2>2. readIndex' > 0 /\ Byte' = Byte /\ AnswerSet' = AnswerSet
    BY <2>1 DEF Received
  <2>3. LocalsTyped'
    <3>1. excessBytes' \in Nat
      BY <2>1 DEF LocalsTyped
    <3> QED BY <2>1, <2>2, <3>1 DEF LocalsTyped, Stages
  <2>4. IsBuffer(bufferSpan)' /\ (answers \in Seq(AnswerSet))'
    BY <2>1, <2>2, BufferStays
  <2> QED BY <2>1, <2>3, <2>4
<1>5. CASE ReadRest
  <2> DEFINE len == msgLength - bytesRead
  <2>1. /\ Received(len) /\ ReadTyped' /\ stage' = "idle"
        /\ IsBuffer(bufferSpan')
        /\ \E valid \in ValidateChecksum(bufferSpan', msgLength) :
             answers' = Append(answers, Answer(bufferSpan', msgLength, valid))
        /\ bytesRead' = 0 /\ msgLength' = 0 /\ excessBytes' = excessBytes
    BY <1>5, RestStep
  <2> HIDE DEF len
  <2>2. readIndex' > 0 /\ Byte' = Byte /\ AnswerSet' = AnswerSet
    BY <2>1 DEF Received
  <2>3. LocalsTyped'
    BY <2>1, <2>2 DEF LocalsTyped, Stages
  <2>4. answers' \in Seq(AnswerSet)
    <3>1. PICK valid \in ValidateChecksum(bufferSpan', msgLength) :
             answers' = Append(answers, Answer(bufferSpan', msgLength, valid))
      BY <2>1
    <3>2. Answer(bufferSpan', msgLength, valid) \in AnswerSet
      BY <2>1, AnswerTypes DEF ReadTyped
    <3> QED BY <3>1, <3>2
  <2>5. IsBuffer(bufferSpan)' /\ (answers \in Seq(AnswerSet))'
    BY <2>1, <2>2, <2>4, BufferStays
  <2> QED BY <2>1, <2>3, <2>5
<1>6. CASE UNCHANGED vars
  <2>1. UNCHANGED <<pieces, memSpan, readIndex, endOfBuffer, stage, bufferSpan, bytesRead,
                    msgLength, excessBytes, answers>>
    BY <1>6 DEF vars, socketVars
  <2>2. ReadTyped'
    BY <2>1, LaidOutStays DEF ReadTyped
  <2>3. LocalsTyped'
    BY <2>1 DEF LocalsTyped, Stages
  <2>4. IsBuffer(bufferSpan)' /\ (answers \in Seq(AnswerSet))'
    BY <2>1 DEF IsBuffer, Byte, AnswerSet
  <2> QED BY <2>2, <2>3, <2>4
<1> QED BY <1>1, <1>2, <1>3, <1>4, <1>5, <1>6 DEF Next, Call, Proceed

LEMMA AlwaysTyped == Spec => []Typed
<1>1. Init => Typed
  BY TypedAtFirst
<1>2. Typed /\ [Next]_vars => Typed'
  BY TypedKept
<1> QED BY <1>1, <1>2, PTL DEF Spec

\* The positions of the socket and of the handler stay inside the socket's memory
\* and the buffer, whatever pieces the socket holds and in whatever order:
\* no copy of readNextMessage, scanForDelimiter or discardLongMsg overruns them
\* unless the program is terminated by a read past the end.
THEOREM HandlerTyped == Spec => []TypeOK
<1>1. Typed => TypeOK
  BY TypedIsTypeOK
<1> QED BY <1>1, AlwaysTyped, PTL

-----------------------------------------------------------------------------
(* Delimiters.                                                               *)

\* A position of the memory is one of a piece.
LEMMA PositionOf ==
  ASSUME LaidOut, NEW p \in DOMAIN memSpan
  PROVE  \E i \in DOMAIN pieces :
           /\ p \in (StartOf(i) + 1)..EndOf(i)
           /\ StartOf(i) \in Nat /\ EndOf(i) \in Nat /\ p \in Nat
           /\ memSpan[p] = <<i, pieces[i].lost + (p - StartOf(i) - 1)>>
<1>1. p \in Nat
  BY PiecesAreThere
<1>2. PICK i \in DOMAIN pieces : StartOf(i) < p /\ p <= EndOf(i)
  BY ByteAt
<1>3. StartOf(i) \in Nat /\ EndOf(i) \in Nat
  <2>1. i \in 0..Len(pieces) /\ Len(memSpan) \in Nat
    BY PiecesAreThere
  <2>2. EndOf(i) \in 0..Len(memSpan) /\ StartOf(i) \in Nat
    BY <2>1, PiecesAreThere
  <2> QED BY <2>1, <2>2
<1>4. p \in (StartOf(i) + 1)..EndOf(i)
  BY <1>1, <1>2, <1>3
<1> QED BY <1>1, <1>3, <1>4, ByteAt

\* The value of a byte of a piece.
LEMMA ValueOfByte ==
  ASSUME LaidOut, NEW i \in DOMAIN pieces, NEW at \in Nat
  PROVE  Value(<<i, at>>) = ValueIn(pieces[i], at)
<1>1. i # 0
  BY PiecesAreThere
<1>2. <<i, at>> # Blank
  BY <1>1 DEF Blank
<1> QED BY <1>2 DEF Value

\* In the memory a delimiter is nowhere but in its place in a message.
LEMMA DelimiterIsInMessage ==
  ASSUME LaidOut, NEW p \in DOMAIN memSpan, p + 1 \in DOMAIN memSpan,
         Value(memSpan[p]) = 80, Value(memSpan[p + 1]) = 235
  PROVE  \E i \in DOMAIN pieces :
           /\ pieces[i].kind # "garbage"
           /\ memSpan[p] = <<i, 4>>
           /\ p = StartOf(i) + 5 - pieces[i].lost
<1>1. PICK i \in DOMAIN pieces :
        /\ p \in (StartOf(i) + 1)..EndOf(i)
        /\ StartOf(i) \in Nat /\ EndOf(i) \in Nat /\ p \in Nat
        /\ memSpan[p] = <<i, pieces[i].lost + (p - StartOf(i) - 1)>>
  BY PositionOf
<1> DEFINE at == pieces[i].lost + (p - StartOf(i) - 1)
<1>2. IsPiece(pieces[i])
  BY PiecesAreThere
<1>3. /\ pieces[i].lost \in 0..3 /\ pieces[i].length \in Nat
      /\ pieces[i].kind # "garbage" => pieces[i].length >= 13
  BY <1>2, PieceIs
<1>4. at \in Nat
  BY <1>1, <1>3
<1>5. pieces[i].kind # "garbage" /\ at \in {0, 4}
  <2>1. Value(memSpan[p]) = ValueIn(pieces[i], at)
    BY <1>1, <1>4, ValueOfByte
  <2> HIDE DEF at
  <2> QED BY <1>2, <1>4, <2>1, ValuesIn
<1>6. at # 0
  <2>1. SUFFICES ASSUME at = 0 PROVE FALSE
    OBVIOUS
  <2>2. pieces[i].lost = 0 /\ p = StartOf(i) + 1
    BY <1>1, <1>3, <2>1
  <2>3. EndOf(i) = StartOf(i) + (pieces[i].length - pieces[i].lost)
    BY PiecesAreThere
  <2>4. p + 1 \in (StartOf(i) + 1)..EndOf(i)
    BY <1>1, <1>3, <1>5, <2>2, <2>3
  <2>5. memSpan[p + 1] = <<i, pieces[i].lost + ((p + 1) - StartOf(i) - 1)>>
    BY <2>4, ByteAt, SMTT(30)
  <2>6. pieces[i].lost + ((p + 1) - StartOf(i) - 1) = 1
    BY <1>1, <2>2
  <2>7. Value(memSpan[p + 1]) = ValueIn(pieces[i], 1)
    BY <2>5, <2>6, ValueOfByte
  <2>8. ValueIn(pieces[i], 1) = 0
    <3>1. 1 \in Nat /\ 1 \in 1..3
      OBVIOUS
    <3> QED BY <1>2, <1>5, <3>1, ValuesIn
  <2> QED BY <2>7, <2>8
<1>7. at = 4
  BY <1>5, <1>6
<1>8. p = StartOf(i) + 5 - pieces[i].lost
  BY <1>1, <1>3, <1>7
<1> QED BY <1>1, <1>5, <1>7, <1>8

\* Every message has its delimiter.
LEMMA MessageHasDelimiter ==
  ASSUME LaidOut, NEW i \in DOMAIN pieces, pieces[i].kind # "garbage"
  PROVE  LET p == StartOf(i) + 5 - pieces[i].lost
         IN  /\ p \in DOMAIN memSpan /\ p + 1 \in DOMAIN memSpan
             /\ StartOf(i) < p /\ p + 1 <= EndOf(i)
             /\ Value(memSpan[p]) = 80 /\ Value(memSpan[p + 1]) = 235
<1> DEFINE p == StartOf(i) + 5 - pieces[i].lost
<1>1. IsPiece(pieces[i])
  BY PiecesAreThere
<1>2. /\ pieces[i].lost \in 0..3 /\ pieces[i].length \in Nat /\ pieces[i].length >= 13
  BY <1>1, PieceIs
<1>3. StartOf(i) \in Nat /\ EndOf(i) = StartOf(i) + (pieces[i].length - pieces[i].lost)
  BY PiecesAreThere
<1>4. p \in (StartOf(i) + 1)..EndOf(i) /\ p + 1 \in (StartOf(i) + 1)..EndOf(i)
  BY <1>2, <1>3
<1>5. /\ pieces[i].lost + (p - StartOf(i) - 1) = 4
      /\ pieces[i].lost + ((p + 1) - StartOf(i) - 1) = 5
      /\ StartOf(i) < p /\ p + 1 <= EndOf(i)
  BY <1>2, <1>3
<1> HIDE DEF p
<1>6. /\ p \in DOMAIN memSpan /\ p + 1 \in DOMAIN memSpan
      /\ memSpan[p] = <<i, 4>> /\ memSpan[p + 1] = <<i, 5>>
  BY <1>4, <1>5, ByteAt
<1>7. Value(memSpan[p]) = ValueIn(pieces[i], 4) /\ Value(memSpan[p + 1]) = ValueIn(pieces[i], 5)
  BY <1>6, ValueOfByte
<1>8. ValueIn(pieces[i], 4) = 80 /\ ValueIn(pieces[i], 5) = 235
  <2>1. 4 \in Nat /\ 5 \in Nat
    OBVIOUS
  <2> QED BY <1>1, <2>1, ValuesIn
<1> QED BY <1>5, <1>6, <1>7, <1>8 DEF p

\* What a delimiter in the buffer is.
LEMMA DelimiterMeans ==
  ASSUME NEW buffer, NEW d \in 0..16
  PROVE  DelimiterAt(buffer, d) <=> Value(buffer[d + 1]) = 80 /\ Value(buffer[d + 2]) = 235
<1>1. d + 1 + 1 = d + 2
  OBVIOUS
<1> QED BY <1>1, HeaderLayout DEF DelimiterAt, At

-----------------------------------------------------------------------------
(* What is in the buffer.                                                    *)

\* The first n bytes of the buffer are the n that were read last.
JustRead(n) ==
    n <= readIndex /\ \A k \in 1..n : bufferSpan[k] = memSpan[(readIndex - n) + k]

\* The window of a search is a stretch of the memory.
Kept == stage = "scan" => JustRead(5)

\* While a message is being read, the buffer begins with what was read last,
\* or cannot begin with a whole message: a delimiter is too far in front, or
\* the length does not fit.
Gathered ==
    stage \in {"discard", "rest"} =>
        \/ \E d \in 0..3 : bufferSpan[d + 1][2] = 4
        \/ IntAt(bufferSpan, LengthOffset) \notin 0..18
        \/ stage = "rest" /\ JustRead(bytesRead)

\* The first four bytes of a buffer make its length.
LEMMA LengthFromFront ==
  ASSUME NEW buffer, NEW other, \A k \in 1..4 : other[k] = buffer[k]
  PROVE  IntAt(other, LengthOffset) = IntAt(buffer, LengthOffset)
<1>1. /\ other[0 + 1] = buffer[0 + 1] /\ other[0 + 1 + 1] = buffer[0 + 1 + 1]
      /\ other[0 + 2 + 1] = buffer[0 + 2 + 1] /\ other[0 + 3 + 1] = buffer[0 + 3 + 1]
  OBVIOUS
<1> QED BY <1>1, HeaderLayout DEF IntAt, At

\* Values do not change while the pieces stay.
LEMMA LengthStays ==
  ASSUME pieces' = pieces
  PROVE  IntAt(bufferSpan, LengthOffset)' = IntAt(bufferSpan', LengthOffset)
BY DEF IntAt, At, Value, LengthOffset

\* A window read in one stretch: its bytes, and where its delimiters are.
LEMMA WindowIsRead ==
  ASSUME Typed, Kept, ScanForDelimiter,
         NEW buffer,
         \A k \in 1..5 : buffer[k] = bufferSpan[k],
         \A k \in 6..13 : buffer[k] = memSpan[readIndex + (k - 5)]
  PROVE  /\ readIndex - 5 \in Nat
         /\ \A k \in 1..13 : /\ buffer[k] = memSpan[(readIndex - 5) + k]
                             /\ (readIndex - 5) + k \in DOMAIN memSpan
<1>1. stage = "scan" /\ Received(8)
  BY ScanStep
<1>2. 5 <= readIndex /\ \A k \in 1..5 : bufferSpan[k] = memSpan[(readIndex - 5) + k]
  BY <1>1 DEF Kept, JustRead
<1> DEFINE n == Len(memSpan)
<1>3. readIndex \in Nat /\ n \in Nat /\ readIndex + 8 <= n
  <2>1. LaidOut /\ readIndex \in 0..Len(memSpan)
    BY DEF Typed, ReadTyped
  <2>2. Len(memSpan) \in Nat
    BY <2>1, PiecesAreThere
  <2>3. readIndex + 8 <= Len(memSpan)
    BY <1>1 DEF Received
  <2> QED BY <2>1, <2>2, <2>3
<1>5. DOMAIN memSpan = 1..n
  BY PiecesAreThere DEF Typed, ReadTyped
<1> HIDE DEF n
<1>4. ASSUME NEW k \in 1..13
      PROVE  buffer[k] = memSpan[(readIndex - 5) + k] /\ (readIndex - 5) + k \in DOMAIN memSpan
  <2>1. CASE k \in 1..5
    <3>1. (readIndex - 5) + k \in 1..n
      BY <1>2, <1>3, <2>1
    <3> QED BY <1>2, <1>5, <2>1, <3>1
  <2>2. CASE k \in 6..13
    <3>1. readIndex + (k - 5) = (readIndex - 5) + k /\ (readIndex - 5) + k \in 1..n
      BY <1>2, <1>3, <2>2
    <3>2. buffer[k] = memSpan[readIndex + (k - 5)]
      BY <2>2
    <3> QED BY <1>5, <3>1, <3>2
  <2> QED BY <2>1, <2>2
<1> QED BY <1>2, <1>3, <1>4

\* Every step keeps the window and what is gathered.
LEMMA GatheredKept ==
  ASSUME Typed, Kept, Gathered, [Next]_vars
  PROVE  Kept' /\ Gathered'
<1>0. readIndex \in Nat
  BY DEF Typed, ReadTyped
<1>1. CASE BeginRead \/ ReadOutOfBounds \/ ReadRest
  <2>1. stage' \in {"idle", "header", "terminated"}
    BY <1>1 DEF BeginRead, ReadOutOfBounds, ReadRest
  <2> QED BY <2>1 DEF Kept, Gathered
<1>2. CASE ReadHeader
  <2>1. Received(6)
    BY <1>2, HeaderStep
  <2>2. /\ pieces' = pieces /\ memSpan' = memSpan
        /\ readIndex' = readIndex + 6
    BY <2>1 DEF Received
  <2>3. PICK buffer :
          /\ IsBuffer(buffer)
          /\ \A k \in 1..6 : buffer[k] = memSpan[readIndex + k]
          /\ \/ /\ DelimiterAt(buffer, 4)
                /\ bufferSpan' = buffer /\ MeasureMessage(6)
             \/ /\ ~DelimiterAt(buffer, 4)
                /\ \A k \in 1..5 : bufferSpan'[k] = buffer[k + 1]
                /\ stage' = "scan" /\ UNCHANGED <<bytesRead, msgLength, excessBytes>>
    BY <1>2, HeaderStep
  <2>4. CASE bufferSpan' = buffer /\ MeasureMessage(6)
    <3> DEFINE length == IntAt(bufferSpan', LengthOffset)
    <3>1. /\ bytesRead' = 6
          /\ stage' = IF length > 18 THEN "discard" ELSE "rest"
      <4>1. LaidOut /\ IsBuffer(bufferSpan') /\ 6 \in 6..17
        BY <2>3, <2>4 DEF Typed, ReadTyped
      <4> QED BY <2>4, <4>1, MeasureTypes
    <3>2. length > 18 => length \notin 0..18
      OBVIOUS
    <3>3. JustRead(bytesRead)'
      <4>1. readIndex' - bytesRead' = readIndex /\ bytesRead' <= readIndex'
        BY <1>0, <2>2, <3>1
      <4>2. \A k \in 1..6 : bufferSpan'[k] = memSpan'[(readIndex' - bytesRead') + k]
        BY <2>2, <2>3, <2>4, <4>1
      <4> QED BY <3>1, <4>1, <4>2 DEF JustRead
    <3>4. length = IntAt(bufferSpan, LengthOffset)'
      BY <2>2, LengthStays
    <3> HIDE DEF length
    <3> QED BY <3>1, <3>2, <3>3, <3>4 DEF Kept, Gathered
  <2>5. CASE /\ \A k \in 1..5 : bufferSpan'[k] = buffer[k + 1]
             /\ stage' = "scan"
    <3>1. JustRead(5)'
      <4>1. 5 <= readIndex' /\ \A k \in 1..5 : (readIndex' - 5) + k = readIndex + (k + 1)
        BY <1>0, <2>2
      <4>2. \A k \in 1..5 : bufferSpan'[k] = memSpan'[(readIndex' - 5) + k]
        <5>1. ASSUME NEW k \in 1..5 PROVE bufferSpan'[k] = memSpan'[(readIndex' - 5) + k]
          <6>1. k + 1 \in 1..6
            OBVIOUS
          <6> QED BY <2>2, <2>3, <2>5, <4>1, <6>1
        <5> QED BY <5>1
      <4> QED BY <4>1, <4>2 DEF JustRead
    <3> QED BY <2>5, <3>1 DEF Kept, Gathered
  <2> QED BY <2>3, <2>4, <2>5
<1>3. CASE ScanForDelimiter
  <2>1. Received(8)
    BY <1>3, ScanStep
  <2>2. /\ pieces' = pieces /\ memSpan' = memSpan
        /\ readIndex' = readIndex + 8
    BY <2>1 DEF Received
  <2>3. IsBuffer(bufferSpan')
    BY <1>3, ScanStep
  <2>4. PICK buffer :
          /\ \A k \in 1..5 : buffer[k] = bufferSpan[k]
          /\ \A k \in 6..13 : buffer[k] = memSpan[readIndex + (k - 5)]
          /\ \/ /\ \A d \in 0..11 : ~DelimiterAt(buffer, d)
                /\ \A k \in 1..5 : bufferSpan'[k] = buffer[k + 8]
                /\ stage' = "scan" /\ UNCHANGED <<bytesRead, msgLength, excessBytes>>
             \/ \E d \in 0..11 :
                  /\ DelimiterAt(buffer, d) /\ \A e \in 0..(d - 1) : ~DelimiterAt(buffer, e)
                  /\ d < 4 => bufferSpan' = buffer
                  /\ d >= 4 => \A k \in 1..(13 - (d - 4)) :
                                 bufferSpan'[k] = buffer[k + (d - 4)]
                  /\ 13 - (d - 4) \in 6..17 /\ MeasureMessage(13 - (d - 4))
    BY <1>3, ScanStep
  <2> DEFINE base == readIndex - 5
  <2>5. /\ base \in Nat
        /\ \A k \in 1..13 : /\ buffer[k] = memSpan[base + k]
                            /\ base + k \in DOMAIN memSpan
    BY <1>3, <2>4, WindowIsRead
  <2>6. readIndex' = base + 13
    BY <1>0, <2>2
  <2> HIDE DEF base
  <2>7. CASE /\ \A k \in 1..5 : bufferSpan'[k] = buffer[k + 8]
             /\ stage' = "scan"
    <3>1. JustRead(5)'
      <4>1. 5 <= readIndex' /\ \A k \in 1..5 : (readIndex' - 5) + k = base + (k + 8)
        BY <2>5, <2>6
      <4>2. \A k \in 1..5 : bufferSpan'[k] = memSpan'[(readIndex' - 5) + k]
        <5>1. ASSUME NEW k \in 1..5 PROVE bufferSpan'[k] = memSpan'[(readIndex' - 5) + k]
          <6>1. k + 8 \in 1..13
            OBVIOUS
          <6> QED BY <2>2, <2>5, <2>7, <4>1, <6>1
        <5> QED BY <5>1
      <4> QED BY <4>1, <4>2 DEF JustRead
    <3> QED BY <2>7, <3>1 DEF Kept, Gathered
  <2>8. ASSUME NEW d \in 0..11, DelimiterAt(buffer, d),
               d < 4 => bufferSpan' = buffer,
               d >= 4 => \A k \in 1..(13 - (d - 4)) : bufferSpan'[k] = buffer[k + (d - 4)],
               13 - (d - 4) \in 6..17, MeasureMessage(13 - (d - 4))
        PROVE  Kept' /\ Gathered'
    <3> DEFINE length == IntAt(bufferSpan', LengthOffset)
               n == 13 - (d - 4)
    <3>1. /\ bytesRead' = n
          /\ stage' = IF length > 18 THEN "discard" ELSE "rest"
      <4>1. LaidOut /\ n \in 6..17 /\ MeasureMessage(n)
        BY <2>8 DEF Typed, ReadTyped
      <4> HIDE DEF n
      <4> QED BY <2>3, <4>1, MeasureTypes
    <3>2. length > 18 => length \notin 0..18
      OBVIOUS
    <3>3. length = IntAt(bufferSpan, LengthOffset)'
      BY <2>2, LengthStays
    <3>4. CASE d >= 4
      <4>1. JustRead(bytesRead)'
        <5>1. n \in 6..13 /\ readIndex' - n = base + (d - 4) /\ n <= readIndex'
          BY <2>5, <2>6, <3>4
        <5>2. ASSUME NEW k \in 1..n
              PROVE  bufferSpan'[k] = memSpan'[(readIndex' - n) + k]
          <6>1. k + (d - 4) \in 1..13 /\ base + (k + (d - 4)) = (base + (d - 4)) + k
            BY <2>5, <3>4, <5>1
          <6>2. bufferSpan'[k] = buffer[k + (d - 4)]
            BY <2>8, <3>4
          <6> QED BY <2>2, <2>5, <5>1, <6>1, <6>2
        <5> HIDE DEF n
        <5> QED BY <3>1, <5>1, <5>2 DEF JustRead
      <4> HIDE DEF length, n
      <4> QED BY <3>1, <3>2, <3>3, <4>1 DEF Kept, Gathered
    <3>5. CASE d < 4
      <4>1. Value(buffer[d + 1]) = 80 /\ Value(buffer[d + 2]) = 235
        BY <2>8, DelimiterMeans
      <4>2. d + 1 \in 1..13 /\ d + 2 \in 1..13 /\ base + (d + 2) = (base + (d + 1)) + 1
        BY <2>5
      <4> DEFINE p == base + (d + 1)
      <4>3. /\ p \in DOMAIN memSpan /\ p + 1 \in DOMAIN memSpan
            /\ buffer[d + 1] = memSpan[p] /\ buffer[d + 2] = memSpan[p + 1]
        BY <2>5, <4>2
      <4> HIDE DEF p
      <4>4. \E i \in DOMAIN pieces : memSpan[p] = <<i, 4>>
        BY <4>1, <4>3, DelimiterIsInMessage DEF Typed, ReadTyped
      <4>5. bufferSpan'[d + 1][2] = 4 /\ d \in 0..3
        BY <2>8, <3>5, <4>3, <4>4
      <4>6. stage' # "scan"
        BY <3>1
      <4> QED BY <4>5, <4>6 DEF Kept, Gathered
    <3> QED BY <3>4, <3>5
  <2> QED BY <2>4, <2>7, <2>8
<1>4. CASE DiscardLongMsg
  <2> DEFINE len == Demand
  <2>1. /\ Received(len) /\ stage = "discard"
        /\ \A k \in 1..6 : bufferSpan'[k] = bufferSpan[k]
        /\ stage' = IF excessBytes' = 0 THEN "rest" ELSE "discard"
    BY <1>4, DiscardStep
  <2> HIDE DEF len
  <2>2. pieces' = pieces
    BY <2>1 DEF Received
  <2>3. IntAt(bufferSpan, LengthOffset)' = IntAt(bufferSpan, LengthOffset)
    <3>1. IntAt(bufferSpan', LengthOffset) = IntAt(bufferSpan, LengthOffset)
      <4>1. \A k \in 1..4 : bufferSpan'[k] = bufferSpan[k]
        BY <2>1
      <4> QED BY <4>1, LengthFromFront
    <3> QED BY <2>2, <3>1, LengthStays
  <2>4. \/ \E d \in 0..3 : bufferSpan[d + 1][2] = 4
        \/ IntAt(bufferSpan, LengthOffset) \notin 0..18
    BY <2>1 DEF Gathered
  <2>5. \A d \in 0..3 : bufferSpan'[d + 1] = bufferSpan[d + 1]
    BY <2>1
  <2>6. stage' # "scan"
    BY <2>1, SMTT(30)
  <2> QED BY <2>3, <2>4, <2>5, <2>6 DEF Kept, Gathered
<1>5. CASE UNCHANGED vars
  <2>1. /\ pieces' = pieces /\ memSpan' = memSpan /\ readIndex' = readIndex
        /\ endOfBuffer' = endOfBuffer /\ stage' = stage /\ bufferSpan' = bufferSpan
        /\ bytesRead' = bytesRead /\ msgLength' = msgLength
        /\ excessBytes' = excessBytes /\ answers' = answers
    BY <1>5 DEF vars, socketVars
  <2>2. Kept'
    BY <2>1, SMTT(30) DEF Kept, JustRead, IntAt, At, Value
  <2>3. Gathered'
    BY <2>1, SMTT(30) DEF Gathered, JustRead, IntAt, At, Value
  <2> QED BY <2>2, <2>3
<1> QED BY <1>1, <1>2, <1>3, <1>4, <1>5 DEF Next, Call, Proceed

-----------------------------------------------------------------------------
(* What is returned as one of the messages sent is that message, in order.    *)

\* What a call may return for piece i.
Allowed(i) ==
    CASE pieces[i].kind \in Types -> {IF pieces[i].sumOk
                                      THEN [type |-> pieces[i].kind, of |-> i]
                                      ELSE Nothing}
      [] pieces[i].length > BufferSize -> {Nothing, [type |-> MsgType(BufferSize), of |-> 0]}
      [] OTHER -> {Nothing}

\* The second part of AnswersInOrder.
GenuineAnswers ==
    \A n \in DOMAIN answers :
      answers[n].of # 0 =>
        /\ answers[n] \in Allowed(answers[n].of)
        /\ \A m \in 1..(n - 1) : answers[m].of < answers[n].of

\* The messages returned are behind the socket, and strictly so once a call has
\* read anything.
AnswersAreBehind ==
    \A n \in DOMAIN answers :
      answers[n].of # 0 =>
        /\ EndOf(answers[n].of) <= readIndex
        /\ stage \in {"scan", "discard", "rest"} => EndOf(answers[n].of) < readIndex

\* A known length is that of one type.
LEMMA TypeOfLength ==
  /\ \A type \in Types : MsgType(MsgLength(type)) = type
  /\ \A length : MsgType(length) # "none" =>
       /\ MsgType(length) \in Types /\ MsgLength(MsgType(length)) = length
       /\ length \in 13..18
<1>1. \A s, t \in Types : MsgLength(s) = MsgLength(t) => s = t
  BY MessageLengths
<1>2. ASSUME NEW type \in Types
      PROVE  MsgType(MsgLength(type)) = type
  BY <1>1 DEF MsgType
<1>3. ASSUME NEW length, MsgType(length) # "none"
      PROVE  /\ MsgType(length) \in Types /\ MsgLength(MsgType(length)) = length
             /\ length \in 13..18
  <2>1. MsgType(length) \in Types /\ MsgLength(MsgType(length)) = length
    BY <1>3 DEF MsgType
  <2>2. \A type \in Types : MsgLength(type) \in 13..18
    BY MessageLengths
  <2> QED BY <2>1, <2>2
<1> QED BY <1>2, <1>3

\* A whole piece in the buffer.
LEMMA WholeBytes ==
  ASSUME LaidOut, NEW buffer, IsBuffer(buffer), NEW length \in 13..18, IsWhole(buffer, length)
  PROVE  /\ buffer[1][1] \in DOMAIN pieces
         /\ pieces[buffer[1][1]].length = length /\ pieces[buffer[1][1]].lost = 0
         /\ \A k \in 1..length : buffer[k] = <<buffer[1][1], k - 1>>
<1> DEFINE i == buffer[1][1]
<1>1. i # 0 /\ pieces[i].length = length /\ SubSeq(buffer, 1, length) = Bytes(i, pieces[i])
  BY DEF IsWhole
<1>2. i \in DOMAIN pieces
  <2>1. buffer[1] \in Byte
    BY BufferBytes
  <2> QED BY <1>1, <2>1 DEF Byte, Blank
<1> HIDE DEF i
<1>3. IsPiece(pieces[i]) /\ i \in Nat
  BY <1>2, PiecesAreThere
<1>4. buffer \in Seq(Byte) /\ 1 <= length /\ length <= Len(buffer)
  BY DEF IsBuffer
<1> DEFINE lo == 1
<1>5. /\ lo \in Int /\ length \in Int /\ 1 <= lo /\ lo <= length + 1
      /\ length - lo + 1 = length /\ \A k \in Int : k + (lo - 1) = k
  OBVIOUS
<1>6. SubSeq(buffer, lo, length) = Bytes(i, pieces[i])
  BY <1>1
<1> HIDE DEF lo
<1>7. /\ Len(SubSeq(buffer, lo, length)) = length - lo + 1
      /\ \A k \in 1..(length - lo + 1) : SubSeq(buffer, lo, length)[k] = buffer[k + (lo - 1)]
  BY <1>4, <1>5, Stretch
<1>8. /\ Len(Bytes(i, pieces[i])) = length
      /\ \A k \in 1..length : Bytes(i, pieces[i])[k] = buffer[k]
  BY <1>5, <1>6, <1>7
<1>9. /\ Len(Bytes(i, pieces[i])) = pieces[i].length - pieces[i].lost
      /\ \A k \in 1..(pieces[i].length - pieces[i].lost) :
           Bytes(i, pieces[i])[k] = <<i, pieces[i].lost + k - 1>>
  BY <1>3, BytesOf
<1>10. pieces[i].lost = 0
  <2>1. pieces[i].length \in Nat /\ pieces[i].lost \in 0..3
    BY <1>3, PieceIs
  <2> QED BY <1>1, <1>8, <1>9, <2>1
<1>11. ASSUME NEW k \in 1..length
       PROVE  buffer[k] = <<i, k - 1>>
  <2>1. pieces[i].length - pieces[i].lost = length /\ pieces[i].lost + k - 1 = k - 1
    BY <1>1, <1>10
  <2> QED BY <1>8, <1>9, <2>1
<1> QED BY <1>1, <1>2, <1>10, <1>11 DEF i

\* The length in front of a message is its length.
LEMMA LengthOfWhole ==
  ASSUME LaidOut, NEW i \in DOMAIN pieces, pieces[i].kind # "garbage",
         NEW buffer, \A k \in 1..4 : buffer[k] = <<i, k - 1>>
  PROVE  IntAt(buffer, LengthOffset) = pieces[i].length
<1>1. IsPiece(pieces[i])
  BY PiecesAreThere
<1>2. /\ buffer[0 + 1] = <<i, 0>> /\ buffer[0 + 1 + 1] = <<i, 1>>
      /\ buffer[0 + 2 + 1] = <<i, 2>> /\ buffer[0 + 3 + 1] = <<i, 3>>
  OBVIOUS
<1>3. /\ Value(<<i, 0>>) = ValueIn(pieces[i], 0) /\ Value(<<i, 1>>) = ValueIn(pieces[i], 1)
      /\ Value(<<i, 2>>) = ValueIn(pieces[i], 2) /\ Value(<<i, 3>>) = ValueIn(pieces[i], 3)
  <2>1. 0 \in Nat /\ 1 \in Nat /\ 2 \in Nat /\ 3 \in Nat
    OBVIOUS
  <2> QED BY <2>1, ValueOfByte
<1>4. /\ ValueIn(pieces[i], 0) = pieces[i].length /\ ValueIn(pieces[i], 1) = 0
      /\ ValueIn(pieces[i], 2) = 0 /\ ValueIn(pieces[i], 3) = 0
  <2>1. 0 \in Nat /\ 1 \in Nat /\ 2 \in Nat /\ 3 \in Nat
        /\ 1 \in 1..3 /\ 2 \in 1..3 /\ 3 \in 1..3
    OBVIOUS
  <2> QED BY <1>1, <2>1, ValuesIn
<1>5. /\ At(buffer, 0) = pieces[i].length /\ At(buffer, 0 + 1) = 0
      /\ At(buffer, 0 + 2) = 0 /\ At(buffer, 0 + 3) = 0
  BY <1>2, <1>3, <1>4 DEF At
<1>6. pieces[i].length \in Nat
  BY <1>1, PieceIs
<1> QED BY <1>5, <1>6, HeaderLayout DEF IntAt

\* A piece that is returned as a message is owed, and has just been read.
LEMMA GenuineAnswer ==
  ASSUME Typed, Gathered, ReadRest,
         NEW valid \in ValidateChecksum(bufferSpan', msgLength),
         Answer(bufferSpan', msgLength, valid).of # 0
  PROVE  LET i == Answer(bufferSpan', msgLength, valid).of
         IN  /\ i \in DOMAIN pieces
             /\ Answer(bufferSpan', msgLength, valid) \in Allowed(i)
             /\ EndOf(i) = readIndex'
<1> DEFINE answer == Answer(bufferSpan', msgLength, valid)
           i == bufferSpan'[1][1]
           L == msgLength
<1>1. LaidOut /\ IsBuffer(bufferSpan')
  BY RestStep DEF Typed, ReadTyped
<1>2. valid /\ MsgType(L) # "none" /\ IsWhole(bufferSpan', L)
      /\ answer = [type |-> MsgType(L), of |-> i]
  <2>1. Nothing.of = 0
    BY DEF Nothing
  <2>2. valid /\ MsgType(L) # "none"
    BY <2>1 DEF Answer
  <2>3. answer = [type |-> MsgType(L), of |-> IF IsWhole(bufferSpan', L) THEN i ELSE 0]
    BY <2>2 DEF Answer
  <2>4. IsWhole(bufferSpan', L)
    BY <2>3
  <2> QED BY <2>2, <2>3, <2>4
<1>3. MsgType(L) \in Types /\ MsgLength(MsgType(L)) = L /\ L \in 13..18
  BY <1>2, TypeOfLength
<1>4. /\ i \in DOMAIN pieces
      /\ pieces[i].length = L /\ pieces[i].lost = 0
      /\ \A k \in 1..L : bufferSpan'[k] = <<i, k - 1>>
  BY <1>1, <1>2, <1>3, WholeBytes
<1>5. IsPiece(pieces[i])
  BY <1>1, <1>4, PiecesAreThere
<1>6. pieces[i].sumOk
  <2>1. ValidateChecksum(bufferSpan', L) = {pieces[i].sumOk}
    BY <1>2 DEF ValidateChecksum
  <2> QED BY <1>2, <2>1
<1>7. pieces[i].kind \in Types /\ pieces[i].kind = MsgType(L)
  <2>1. pieces[i].kind \in Types
    BY <1>3, <1>4, <1>5, <1>6, PieceIs
  <2>2. MsgLength(pieces[i].kind) = L
    BY <1>4, <1>5, <2>1, PieceIs
  <2> QED BY <2>1, <2>2, TypeOfLength
<1>8. answer \in Allowed(i)
  <2> DEFINE owed == IF pieces[i].sumOk THEN [type |-> pieces[i].kind, of |-> i] ELSE Nothing
  <2>1. owed = [type |-> pieces[i].kind, of |-> i]
    BY <1>6, Zenon
  <2>2. Allowed(i) = {owed}
    <3>1. pieces[i].kind \in Types
      BY <1>7
    <3>2. ~(pieces[i].length > BufferSize)
      BY <1>3, <1>4, LongestMessage
    <3> HIDE DEF i
    <3> QED BY <3>1, <3>2 DEF Allowed
  <2> HIDE DEF owed, i
  <2> QED BY <1>2, <1>7, <2>1, <2>2 DEF i
<1>9. /\ stage = "rest" /\ msgLength - bytesRead \in Nat
      /\ Received(msgLength - bytesRead)
      /\ \A k \in 1..bytesRead : bufferSpan'[k] = bufferSpan[k]
      /\ \A k \in (bytesRead + 1)..msgLength :
           bufferSpan'[k] = memSpan[readIndex + (k - bytesRead)]
  BY RestStep
<1>10. bytesRead \in 6..17
  BY <1>9 DEF Typed, LocalsTyped
<1>11. readIndex' = readIndex + (L - bytesRead) /\ readIndex' <= Len(memSpan)
       /\ readIndex \in Nat /\ L - bytesRead \in Nat
  <2>1. readIndex \in Nat
    <3>1. LaidOut /\ readIndex \in 0..Len(memSpan)
      BY DEF Typed, ReadTyped
    <3> QED BY <3>1, PiecesAreThere
  <2> QED BY <1>9, <2>1 DEF Received
<1> HIDE DEF i, L, answer
\* A delimiter too far in front is not that of a whole message.
<1>12. \A d \in 0..3 : bufferSpan[d + 1][2] # 4
  <2>1. ASSUME NEW d \in 0..3 PROVE bufferSpan[d + 1][2] = d
    <3>1. d + 1 \in 1..bytesRead /\ d + 1 \in 1..L /\ (d + 1) - 1 = d
      BY <1>3, <1>10
    <3> QED BY <1>4, <1>9, <3>1
  <2> QED BY <2>1
\* Nor is a length that does not fit.
<1>13. IntAt(bufferSpan, LengthOffset) \in 0..18
  <2>1. \A k \in 1..4 : bufferSpan[k] = <<i, k - 1>>
    <3>1. \A k \in 1..4 : k \in 1..bytesRead /\ k \in 1..L
      BY <1>3, <1>10
    <3> QED BY <1>4, <1>9, <3>1
  <2>2. pieces[i].kind # "garbage"
    BY <1>7, MessageLengths
  <2>3. IntAt(bufferSpan, LengthOffset) = pieces[i].length
    BY <1>1, <1>4, <2>1, <2>2, LengthOfWhole
  <2> QED BY <1>3, <1>4, <2>3
<1>14. JustRead(bytesRead)
  BY <1>9, <1>12, <1>13 DEF Gathered
\* So its last byte is the last one read.
<1>15. memSpan[readIndex'] = <<i, L - 1>>
  <2>1. bufferSpan'[L] = <<i, L - 1>>
    <3>1. L \in 1..L
      BY <1>3
    <3> QED BY <1>4, <3>1
  <2>2. CASE L = bytesRead
    <3>1. L \in 1..bytesRead /\ (readIndex - bytesRead) + L = readIndex'
      BY <1>3, <1>10, <1>11, <2>2
    <3>2. bufferSpan'[L] = bufferSpan[L] /\ bufferSpan[L] = memSpan[(readIndex - bytesRead) + L]
      BY <1>9, <1>14, <3>1 DEF JustRead
    <3> QED BY <2>1, <3>1, <3>2
  <2>3. CASE L # bytesRead
    <3>1. L \in (bytesRead + 1)..L /\ readIndex + (L - bytesRead) = readIndex'
      BY <1>3, <1>10, <1>11, <2>3
    <3>2. bufferSpan'[L] = memSpan[readIndex + (L - bytesRead)]
      BY <1>9, <3>1 DEF L
    <3> QED BY <2>1, <3>1, <3>2
  <2> QED BY <2>2, <2>3
<1>16. EndOf(i) = readIndex'
  <2>1. readIndex' > 0
    BY <1>9 DEF Received
  <2> DEFINE p == readIndex'
             n == Len(memSpan)
  <2>2. p \in 1..n
    <3>1. n \in Nat
      BY <1>1, PiecesAreThere
    <3> HIDE DEF n
    <3> QED BY <1>11, <2>1, <3>1 DEF n
  <2>3. p \in DOMAIN memSpan /\ memSpan[p] = <<i, L - 1>>
    BY <1>1, <1>15, <2>2, PiecesAreThere
  <2> HIDE DEF p, n
  <2>4. PICK j \in DOMAIN pieces :
           /\ p \in (StartOf(j) + 1)..EndOf(j)
           /\ StartOf(j) \in Nat /\ EndOf(j) \in Nat /\ p \in Nat
           /\ memSpan[p] = <<j, pieces[j].lost + (p - StartOf(j) - 1)>>
    BY <1>1, <2>3, PositionOf
  <2>5. j = i /\ pieces[i].lost + (p - StartOf(i) - 1) = L - 1
    BY <2>3, <2>4
  <2>6. EndOf(i) = StartOf(i) + (pieces[i].length - pieces[i].lost)
    BY <1>1, <1>4, PiecesAreThere
  <2>7. EndOf(i) = p
    BY <1>3, <1>4, <2>4, <2>5, <2>6
  <2> QED BY <2>7 DEF p
<1>17. answer.of = i
  BY <1>2
<1> QED BY <1>4, <1>8, <1>16, <1>17 DEF answer

\* What has been returned stays in order when nothing more is.
LEMMA AnswersStay ==
  ASSUME LaidOut, answers \in Seq(AnswerSet), GenuineAnswers, AnswersAreBehind,
         UNCHANGED <<pieces, memSpan, answers>>,
         readIndex \in Nat, readIndex' \in Nat, readIndex <= readIndex',
         stage' \in {"scan", "discard", "rest"} =>
           stage \in {"scan", "discard", "rest"} \/ readIndex < readIndex'
  PROVE  GenuineAnswers' /\ AnswersAreBehind'
<1>1. \A i : EndOf(i)' = EndOf(i)
  BY LaidOutStays
<1>2. \A i : Allowed(i)' = Allowed(i)
  BY DEF Allowed
<1>3. GenuineAnswers'
  BY <1>2 DEF GenuineAnswers
<1>4. \A i \in DOMAIN pieces : EndOf(i) \in Nat
  <2>1. \A i \in 0..Len(pieces) : EndOf(i) \in 0..Len(memSpan)
    BY PiecesAreThere
  <2>2. \A i \in DOMAIN pieces : i \in 0..Len(pieces)
    BY PiecesAreThere
  <2>3. Len(memSpan) \in Nat
    BY PiecesAreThere
  <2> QED BY <2>1, <2>2, <2>3
<1>5. ASSUME NEW n \in DOMAIN answers, answers[n].of # 0
      PROVE  /\ EndOf(answers[n].of) <= readIndex'
             /\ stage' \in {"scan", "discard", "rest"} => EndOf(answers[n].of) < readIndex'
  <2>1. answers[n] \in AnswerSet
    BY <1>5
  <2>2. answers[n].of \in DOMAIN pieces
    BY <1>5, <2>1 DEF AnswerSet
  <2>3. /\ EndOf(answers[n].of) <= readIndex
        /\ stage \in {"scan", "discard", "rest"} => EndOf(answers[n].of) < readIndex
    BY <1>5 DEF AnswersAreBehind
  <2> DEFINE e == EndOf(answers[n].of)
  <2>4. e \in Nat
    BY <1>4, <2>2
  <2> HIDE DEF e
  <2>5. e <= readIndex /\ (stage \in {"scan", "discard", "rest"} => e < readIndex)
    BY <2>3 DEF e
  <2>6. e <= readIndex' /\ (stage' \in {"scan", "discard", "rest"} => e < readIndex')
    BY <2>4, <2>5
  <2> QED BY <2>6 DEF e
<1>6. AnswersAreBehind'
  BY <1>1, <1>5 DEF AnswersAreBehind
<1> QED BY <1>3, <1>6

\* Every step keeps the messages returned in order.
LEMMA AnswersKept ==
  ASSUME Typed, Gathered, GenuineAnswers, AnswersAreBehind, [Next]_vars
  PROVE  GenuineAnswers' /\ AnswersAreBehind'
<1>1. LaidOut /\ answers \in Seq(AnswerSet) /\ readIndex \in Nat
  <2>1. LaidOut /\ answers \in Seq(AnswerSet) /\ readIndex \in 0..Len(memSpan)
    BY DEF Typed, ReadTyped
  <2> QED BY <2>1, PiecesAreThere
<1>2. ASSUME NEW len, Received(len), len > 0 \/ stage \in {"scan", "discard", "rest"},
             answers' = answers
      PROVE  GenuineAnswers' /\ AnswersAreBehind'
  <2>1. /\ len \in Nat /\ readIndex' = readIndex + len
        /\ UNCHANGED <<pieces, memSpan, answers>>
    BY <1>2 DEF Received
  <2>2. /\ readIndex' \in Nat /\ readIndex <= readIndex'
        /\ len > 0 => readIndex < readIndex'
    BY <1>1, <2>1
  <2> QED BY <1>1, <1>2, <2>1, <2>2, AnswersStay
<1>3. CASE Call
  BY <1>1, <1>3, AnswersStay DEF Call, BeginRead, socketVars
<1>4. CASE ReadHeader
  <2>1. Received(6) /\ answers' = answers
    BY <1>4, HeaderStep
  <2> QED BY <1>2, <2>1
<1>5. CASE ScanForDelimiter
  <2>1. Received(8) /\ answers' = answers
    BY <1>5, ScanStep
  <2> QED BY <1>2, <2>1
<1>6. CASE DiscardLongMsg
  <2>1. Received(Demand) /\ answers' = answers /\ stage = "discard"
    BY <1>6, DiscardStep
  <2> QED BY <1>2, <2>1
<1>7. CASE ReadRest
  <2>1. /\ stage = "rest" /\ stage' = "idle" /\ Received(msgLength - bytesRead)
        /\ \E valid \in ValidateChecksum(bufferSpan', msgLength) :
              answers' = Append(answers, Answer(bufferSpan', msgLength, valid))
    BY <1>7, RestStep
  <2>2. PICK valid \in ValidateChecksum(bufferSpan', msgLength) :
           answers' = Append(answers, Answer(bufferSpan', msgLength, valid))
    BY <2>1
  <2> DEFINE a == Answer(bufferSpan', msgLength, valid)
             n == Len(answers)
  <2>3. a.of # 0 => /\ a.of \in DOMAIN pieces /\ a \in Allowed(a.of) /\ EndOf(a.of) = readIndex'
    BY <1>7, GenuineAnswer
  <2>4. a \in AnswerSet
    <3>1. IsBuffer(bufferSpan')
      BY <1>7, RestStep
    <3> QED BY <1>1, <3>1, AnswerTypes
  <2>5. answers' = Append(answers, a)
    BY <2>2
  <2> HIDE DEF a
  <2>6. /\ n \in Nat /\ DOMAIN answers = 1..n
        /\ DOMAIN answers' = 1..(n + 1)
        /\ answers'[n + 1] = a
        /\ \A m \in 1..n : answers'[m] = answers[m] /\ answers[m] \in AnswerSet
    BY <1>1, <2>4, <2>5
  <2>7. /\ UNCHANGED <<pieces, memSpan>> /\ readIndex' \in Nat /\ readIndex <= readIndex'
    <3>1. /\ msgLength - bytesRead \in Nat
          /\ readIndex' = readIndex + (msgLength - bytesRead)
          /\ UNCHANGED <<pieces, memSpan>>
      BY <2>1 DEF Received
    <3> QED BY <1>1, <3>1
  <2>8. \A i : EndOf(i)' = EndOf(i) /\ Allowed(i)' = Allowed(i)
    <3>1. \A i : EndOf(i)' = EndOf(i)
      BY <1>1, <2>7, LaidOutStays
    <3>2. \A i : Allowed(i)' = Allowed(i)
      BY <2>7 DEF Allowed
    <3> QED BY <3>1, <3>2
  <2>9. /\ Len(pieces) \in Nat /\ DOMAIN pieces = 1..Len(pieces)
        /\ \A i \in DOMAIN pieces : EndOf(i) \in Nat
        /\ \A i, j \in DOMAIN pieces : i < j => EndOf(i) < EndOf(j)
    <3>1. /\ Len(pieces) \in Nat /\ DOMAIN pieces = 1..Len(pieces)
          /\ Len(memSpan) \in Nat
          /\ \A i \in 0..Len(pieces) : EndOf(i) \in 0..Len(memSpan)
          /\ \A i, j \in 0..Len(pieces) : i < j => EndOf(i) < EndOf(j)
      BY <1>1, PiecesAreThere
    <3>2. \A i \in DOMAIN pieces : i \in 0..Len(pieces)
      BY <3>1
    <3> QED BY <3>1, <3>2
  \* Those before the new one are behind it.
  <2>10. ASSUME NEW m \in 1..n, answers[m].of # 0
         PROVE  /\ answers[m].of \in DOMAIN pieces
                /\ EndOf(answers[m].of) < readIndex
                /\ EndOf(answers[m].of) <= readIndex'
    <3>1. answers[m].of \in DOMAIN pieces
      BY <2>6, <2>10 DEF AnswerSet
    <3>2. EndOf(answers[m].of) < readIndex
      BY <2>1, <2>6, <2>10 DEF AnswersAreBehind
    <3> DEFINE e == EndOf(answers[m].of)
    <3>3. e \in Nat
      BY <2>9, <3>1
    <3> HIDE DEF e
    <3>4. e <= readIndex'
      BY <1>1, <2>7, <3>2, <3>3 DEF e
    <3> QED BY <3>1, <3>2, <3>4 DEF e
  <2>11. ASSUME a.of # 0, NEW m \in 1..n
         PROVE  answers[m].of < a.of
    <3> DEFINE j == answers[m].of
               i == a.of
    <3>1. i \in DOMAIN pieces /\ EndOf(i) = readIndex' /\ i \in Nat /\ i > 0
      BY <2>3, <2>9, <2>11
    <3>2. j \in {0} \cup DOMAIN pieces
      BY <2>6, <2>11 DEF AnswerSet
    <3>3. j # 0 => EndOf(j) < readIndex
      BY <2>10
    <3> HIDE DEF i, j
    <3>4. CASE j = 0
      BY <3>1, <3>4 DEF i, j
    <3>5. CASE j # 0
      <4>1. j \in DOMAIN pieces /\ j \in Nat /\ EndOf(j) \in Nat /\ EndOf(j) < readIndex
        BY <2>9, <3>2, <3>3, <3>5
      <4>2. EndOf(j) < EndOf(i)
        BY <1>1, <2>7, <3>1, <4>1
      <4>3. j # i /\ ~(i < j)
        <5>1. i < j => EndOf(i) < EndOf(j)
          BY <2>9, <3>1, <4>1
        <5>2. EndOf(i) \in Nat
          BY <2>9, <3>1
        <5> QED BY <4>1, <4>2, <5>1, <5>2
      <4>4. j < i
        BY <3>1, <4>1, <4>3
      <4> QED BY <4>4 DEF i, j
    <3> QED BY <3>4, <3>5
  <2>12. ASSUME NEW k \in DOMAIN answers', answers'[k].of # 0
         PROVE  /\ answers'[k] \in Allowed(answers'[k].of)
                /\ \A m \in 1..(k - 1) : answers'[m].of < answers'[k].of
                /\ EndOf(answers'[k].of) <= readIndex'
    <3>1. CASE k = n + 1
      <4>1. answers'[k] = a
        BY <2>6, <3>1
      <4>2. a.of # 0 /\ a \in Allowed(a.of) /\ EndOf(a.of) = readIndex'
        BY <2>3, <2>12, <4>1
      <4>3. ASSUME NEW m \in 1..(k - 1) PROVE answers'[m].of < a.of
        <5>1. m \in 1..n
          BY <2>6, <3>1
        <5> QED BY <2>6, <2>11, <4>2, <5>1
      <4>4. EndOf(a.of) <= readIndex'
        <5> DEFINE e == EndOf(a.of)
        <5>1. e = readIndex'
          BY <4>2
        <5> HIDE DEF e
        <5>2. e <= readIndex'
          BY <2>7, <5>1
        <5> QED BY <5>2 DEF e
      <4> QED BY <4>1, <4>2, <4>3, <4>4
    <3>2. CASE k # n + 1
      <4>1. k \in 1..n
        BY <2>6, <2>12, <3>2
      <4>2. answers'[k] = answers[k] /\ answers[k].of # 0
        BY <2>6, <2>12, <4>1
      <4>3. /\ answers[k] \in Allowed(answers[k].of)
            /\ \A m \in 1..(k - 1) : answers[m].of < answers[k].of
        BY <2>6, <4>1, <4>2 DEF GenuineAnswers
      <4>4. ASSUME NEW m \in 1..(k - 1) PROVE answers'[m] = answers[m]
        <5>1. m \in 1..n
          BY <2>6, <4>1
        <5> QED BY <2>6, <5>1
      <4>5. EndOf(answers[k].of) <= readIndex'
        BY <2>10, <4>1, <4>2
      <4> QED BY <4>2, <4>3, <4>4, <4>5
    <3> QED BY <3>1, <3>2
  <2>13. GenuineAnswers'
    <3> HIDE DEF n
    <3> QED BY <2>8, <2>12 DEF GenuineAnswers
  <2>14. AnswersAreBehind'
    <3> HIDE DEF n
    <3> QED BY <2>1, <2>8, <2>12 DEF AnswersAreBehind
  <2> QED BY <2>13, <2>14
<1>8. CASE ReadOutOfBounds
  BY <1>1, <1>8, AnswersStay DEF ReadOutOfBounds, socketVars
<1>9. CASE UNCHANGED vars
  BY <1>1, <1>9, AnswersStay DEF vars, socketVars
<1> QED BY <1>3, <1>4, <1>5, <1>6, <1>7, <1>8, <1>9 DEF Next, Proceed

-----------------------------------------------------------------------------
(* The messages that have a header, and the calls that return them.         *)

\* A message before which nothing has lost its front.
LEMMA FramedPiece ==
  ASSUME LaidOut, NEW i \in Framed
  PROVE  /\ i \in DOMAIN pieces /\ i \in 1..Len(pieces) /\ IsPiece(pieces[i])
         /\ pieces[i].kind # "garbage" /\ pieces[i].lost = 0
         /\ pieces[i].length \in Nat /\ pieces[i].length >= 13
         /\ StartOf(i) \in Nat /\ EndOf(i) = StartOf(i) + pieces[i].length
         /\ EndOf(i) \in Nat /\ EndOf(i) <= Len(memSpan) /\ Len(memSpan) \in Nat
         /\ \A j \in 1..(i - 1) : j \in DOMAIN pieces /\ (j \in Framed \/ pieces[j].kind = "garbage")
<1>1. /\ i \in DOMAIN pieces /\ pieces[i].kind # "garbage"
      /\ \A j \in 1..i : pieces[j].lost = 0
  BY DEF Framed, InStep
<1>2. i \in 1..Len(pieces) /\ Len(pieces) \in Nat /\ IsPiece(pieces[i])
  BY <1>1, PiecesAreThere
<1>3. pieces[i].lost = 0
  <2>1. i \in 1..i
    BY <1>2
  <2> QED BY <1>1, <2>1
<1>4. pieces[i].length \in Nat /\ pieces[i].length >= 13
  BY <1>1, <1>2, PieceIs
<1>5. StartOf(i) \in Nat /\ EndOf(i) = StartOf(i) + pieces[i].length
  <2>1. StartOf(i) \in Nat /\ EndOf(i) = StartOf(i) + (pieces[i].length - pieces[i].lost)
    BY <1>1, PiecesAreThere
  <2>2. pieces[i].length - pieces[i].lost = pieces[i].length
    BY <1>3, <1>4
  <2> QED BY <2>1, <2>2
<1>6. EndOf(i) \in Nat /\ EndOf(i) <= Len(memSpan) /\ Len(memSpan) \in Nat
  <2>1. i \in 0..Len(pieces)
    BY <1>2
  <2>2. EndOf(i) \in 0..Len(memSpan) /\ Len(memSpan) \in Nat
    BY <2>1, PiecesAreThere
  <2> QED BY <2>2
<1>7. ASSUME NEW j \in 1..(i - 1)
      PROVE  j \in DOMAIN pieces /\ (j \in Framed \/ pieces[j].kind = "garbage")
  <2>1. j \in 1..Len(pieces) /\ \A k \in 1..j : k \in 1..i
    BY <1>2
  <2>2. j \in DOMAIN pieces
    BY <2>1, PiecesAreThere
  <2>3. j \in InStep
    BY <1>1, <2>1, <2>2 DEF InStep
  <2> QED BY <2>2, <2>3 DEF Framed
<1> QED BY <1>1, <1>2, <1>3, <1>4, <1>5, <1>6, <1>7

\* The first of these messages is returned by the first call, and every other
\* one by the call after that for the last such message before it.
LEMMA RanksCount ==
  ASSUME LaidOut, NEW i \in Framed
  PROVE  /\ Rank(i) \in Nat \ {0}
         /\ Rank(i) = 1 => \A j \in Framed : ~(j < i)
         /\ Rank(i) > 1 => \E h \in Framed :
              /\ h < i /\ Rank(h) = Rank(i) - 1
              /\ \A j \in Framed : ~(h < j /\ j < i)
<1> DEFINE upTo(j) == {h \in Framed : h <= j}
           before  == {h \in Framed : h < i}
<1>1. \A j \in Framed : j \in 1..Len(pieces)
  BY FramedPiece
<1>2. Len(pieces) \in Nat /\ IsFiniteSet(1..Len(pieces))
  <2>1. Len(pieces) \in Nat /\ 1 \in Int
    BY PiecesAreThere
  <2>2. Len(pieces) \in Int
    BY <2>1
  <2> DEFINE lo == 1
  <2>3. lo \in Int
    OBVIOUS
  <2> HIDE DEF lo
  <2>4. IsFiniteSet(lo..Len(pieces))
    BY <2>2, <2>3, FS_Interval
  <2> QED BY <2>1, <2>4 DEF lo
<1>3. before \in SUBSET (1..Len(pieces)) /\ i \notin before /\ IsFiniteSet(before)
  <2>1. before \in SUBSET (1..Len(pieces)) /\ i \notin before
    BY <1>1
  <2> HIDE DEF before
  <2> QED BY <1>2, <2>1, FS_Subset
<1>4. upTo(i) = before \cup {i}
  BY <1>1
<1>5. Rank(i) = Cardinality(before) + 1 /\ Cardinality(before) \in Nat
  <2>1. Rank(i) = Cardinality(upTo(i))
    BY DEF Rank
  <2> HIDE DEF upTo, before
  <2>2. Cardinality(before \cup {i}) = Cardinality(before) + 1
    BY <1>3, FS_AddElement
  <2>3. Cardinality(before) \in Nat
    BY <1>3, FS_CardinalityType
  <2> QED BY <1>4, <2>1, <2>2, <2>3
<1>6. ASSUME Rank(i) = 1 PROVE \A j \in Framed : ~(j < i)
  <2>1. Cardinality(before) = 0
    <3> HIDE DEF before
    <3> QED BY <1>5, <1>6
  <2>2. before = {}
    <3> HIDE DEF before
    <3> QED BY <1>3, <2>1, FS_EmptySet
  <2> QED BY <2>2
<1>7. ASSUME Rank(i) > 1
      PROVE  \E h \in Framed : /\ h < i /\ Rank(h) = Rank(i) - 1
                               /\ \A j \in Framed : ~(h < j /\ j < i)
  <2>1. before # {}
    <3>1. Cardinality(before) # 0
      <4> HIDE DEF before
      <4> QED BY <1>5, <1>7
    <3> HIDE DEF before
    <3> QED BY <1>3, <3>1, FS_EmptySet
  <2>2. PICK h \in before : \A j \in before : j <= h
    <3>1. before \in SUBSET Int /\ \A j \in before : j <= Len(pieces)
      <4> HIDE DEF before
      <4> QED BY <1>2, <1>3
    <3>2. Max(before) \in before /\ \A j \in before : j <= Max(before)
      <4>1. Len(pieces) \in Int
        BY <1>2
      <4> HIDE DEF before
      <4> QED BY <2>1, <3>1, <4>1, MaxOfBounded
    <3> QED BY <3>2
  <2>3. h \in Framed /\ h < i
    BY <2>2
  <2>4. upTo(h) = before
    <3>1. \A j \in Framed : j <= h <=> j < i
      <4>1. ASSUME NEW j \in Framed, j < i PROVE j <= h
        BY <2>2, <4>1
      <4>2. ASSUME NEW j \in Framed, j <= h PROVE j < i
        BY <1>1, <2>3, <4>2
      <4> QED BY <4>1, <4>2
    <3> QED BY <3>1
  <2>5. Rank(h) = Rank(i) - 1
    <3>1. Rank(h) = Cardinality(upTo(h))
      BY DEF Rank
    <3> HIDE DEF upTo, before
    <3> QED BY <1>5, <2>4, <3>1
  <2>6. \A j \in Framed : ~(h < j /\ j < i)
    <3>1. ASSUME NEW j \in Framed, h < j, j < i PROVE FALSE
      <4>1. j <= h
        BY <2>2, <3>1
      <4> QED BY <1>1, <2>3, <3>1, <4>1
    <3> QED BY <3>1
  <2> QED BY <2>3, <2>5, <2>6
<1>8. Rank(i) \in Nat \ {0}
  <2> HIDE DEF before
  <2> QED BY <1>5
<1> HIDE DEF before, upTo
<1> QED BY <1>6, <1>7, <1>8

-----------------------------------------------------------------------------
(* Where a call stands in the message that it is to return.                  *)

\* Message i is the next one that begins at position p or later, and all that
\* is left in front of it is garbage.
Ahead(i, p) ==
    /\ p <= StartOf(i)
    /\ \A j \in 1..(i - 1) : EndOf(j) > p => pieces[j].kind = "garbage"

\* The buffer begins with the header of message i, and what is still to be
\* discarded and read goes to its end.
Measured(i) ==
    /\ \A k \in 1..6 : bufferSpan[k] = <<i, k - 1>>
    /\ bytesRead \in 6..13
    /\ msgLength = IF pieces[i].length <= 18 THEN pieces[i].length ELSE 18
    /\ (readIndex + excessBytes) + (msgLength - bytesRead) = EndOf(i)
    /\ stage = "rest" => excessBytes = 0
    /\ stage = "discard" => excessBytes > 0 /\ pieces[i].length > 18
    /\ pieces[i].length <= 18 => \A k \in 1..bytesRead : bufferSpan[k] = <<i, k - 1>>

\* How many calls have begun.
Called == Len(answers) + (IF stage = "idle" THEN 0 ELSE 1)

\* The call that is to return message i is there.
AtMessage(i) ==
    /\ stage # "terminated"
    /\ stage = "idle" => readIndex = EndOf(i)
    /\ stage = "header" => Ahead(i, readIndex)
    /\ stage = "scan" => Ahead(i, readIndex - 5)
    /\ stage \in {"discard", "rest"} => Measured(i)

\* Every call is at its message; the first begins at the front.
InSync ==
    /\ Called = 0 => readIndex = 0
    /\ \A i \in Framed : Rank(i) = Called => AtMessage(i)

\* The first part of AnswersInOrder.
AnswersInStep == \A i \in Framed : Rank(i) \in DOMAIN answers => answers[Rank(i)] \in Allowed(i)

\* The memory being what it was, the messages are where they were.
LEMMA MessagesStay ==
  ASSUME LaidOut, UNCHANGED <<pieces, memSpan>>
  PROVE  /\ Framed' = Framed
         /\ \A i : /\ Rank(i)' = Rank(i) /\ Allowed(i)' = Allowed(i)
                   /\ EndOf(i)' = EndOf(i) /\ StartOf(i)' = StartOf(i)
         /\ \A i, p : Ahead(i, p)' <=> Ahead(i, p)
<1>1. Framed' = Framed
  BY DEF Framed, InStep
<1>2. \A i : Rank(i)' = Rank(i)
  BY <1>1 DEF Rank
<1>3. \A i : Allowed(i)' = Allowed(i)
  BY DEF Allowed
<1>4. \A i : EndOf(i)' = EndOf(i)
  BY LaidOutStays
<1>5. \A i : StartOf(i)' = StartOf(i)
  BY <1>4 DEF StartOf
<1>6. \A i, p : Ahead(i, p)' <=> Ahead(i, p)
  BY <1>4, <1>5 DEF Ahead
<1> QED BY <1>1, <1>2, <1>3, <1>4, <1>5, <1>6

\* The first delimiter after the place where a call looks for a message is not
\* before that message's own.
LEMMA DelimiterOfNext ==
  ASSUME LaidOut, NEW i \in Framed, NEW b \in Nat, Ahead(i, b),
         NEW p \in DOMAIN memSpan, p + 1 \in DOMAIN memSpan, b < p,
         Value(memSpan[p]) = 80, Value(memSpan[p + 1]) = 235
  PROVE  p >= StartOf(i) + 5
<1>1. PICK m \in DOMAIN pieces : /\ pieces[m].kind # "garbage" /\ memSpan[p] = <<m, 4>>
                                 /\ p = StartOf(m) + 5 - pieces[m].lost
  BY DelimiterIsInMessage
<1>2. /\ i \in DOMAIN pieces /\ i \in 1..Len(pieces) /\ pieces[i].lost = 0
      /\ StartOf(i) \in Nat /\ EndOf(i) = StartOf(i) + pieces[i].length
      /\ EndOf(i) \in Nat /\ pieces[i].length \in Nat /\ pieces[i].length >= 13
  BY FramedPiece
<1>3. /\ Len(pieces) \in Nat /\ m \in 1..Len(pieces)
      /\ StartOf(m) \in Nat /\ EndOf(m) = StartOf(m) + (pieces[m].length - pieces[m].lost)
      /\ \A h, j \in 0..Len(pieces) : h < j => EndOf(h) < EndOf(j)
  BY PiecesAreThere
<1>4. pieces[m].lost \in 0..3 /\ pieces[m].length \in Nat /\ pieces[m].length >= 13
  <2>1. IsPiece(pieces[m])
    BY PiecesAreThere
  <2> QED BY <1>1, <2>1, PieceIs
<1>5. CASE m = i
  BY <1>1, <1>2, <1>5
<1>6. CASE m < i
  <2>1. m \in 1..(i - 1)
    BY <1>2, <1>3, <1>6
  <2>2. EndOf(m) > b
    <3> DEFINE e == EndOf(m)
               st == StartOf(m)
    <3>1. /\ e = st + (pieces[m].length - pieces[m].lost) /\ st \in Nat
          /\ p = st + 5 - pieces[m].lost
      BY <1>1, <1>3
    <3> HIDE DEF e, st
    <3>2. e > b
      BY <1>4, <3>1
    <3> QED BY <3>2 DEF e
  <2> QED BY <1>1, <2>1, <2>2 DEF Ahead
<1>7. CASE i < m
  <2>1. StartOf(m) >= EndOf(i)
    <3>1. CASE m - 1 = i
      BY <1>2, <3>1 DEF StartOf
    <3>2. CASE m - 1 # i
      <4>1. /\ m - 1 \in 0..Len(pieces) /\ i \in 0..Len(pieces) /\ i < m - 1
        BY <1>2, <1>3, <1>7, <3>2, SMTT(30)
      <4>2. EndOf(i) < EndOf(m - 1)
        BY <1>3, <4>1
      <4> DEFINE e == EndOf(m - 1)
      <4>3. e \in Nat /\ EndOf(i) < e
        BY <1>3, <4>2 DEF StartOf
      <4> HIDE DEF e
      <4>4. e >= EndOf(i)
        BY <1>2, <4>3, SMTT(30)
      <4> QED BY <4>4 DEF StartOf, e
    <3> QED BY <3>1, <3>2
  <2> DEFINE st == StartOf(m)
             s  == StartOf(i)
             lost == pieces[m].lost
  <2>2. /\ st \in Nat /\ s \in Nat /\ lost \in 0..3 /\ p = st + 5 - lost
        /\ st >= s + pieces[i].length /\ pieces[i].length \in Nat /\ pieces[i].length >= 13
    BY <1>1, <1>2, <1>3, <1>4, <2>1
  <2> HIDE DEF st, s, lost
  <2>3. p >= s + 5
    BY <2>2
  <2> QED BY <2>3 DEF s
<1> QED BY <1>2, <1>3, <1>5, <1>6, <1>7

\* Measuring the message whose first n bytes the buffer begins with.
LEMMA MeasuredNow ==
  ASSUME LaidOut, NEW i \in Framed, NEW n \in 6..13,
         UNCHANGED <<pieces, memSpan>>, readIndex' = StartOf(i) + n,
         IsBuffer(bufferSpan'), MeasureMessage(n),
         \A k \in 1..n : bufferSpan'[k] = <<i, k - 1>>
  PROVE  stage' \in {"discard", "rest"} /\ Measured(i)'
<1>1. /\ i \in DOMAIN pieces /\ pieces[i].kind # "garbage"
      /\ pieces[i].length \in Nat /\ pieces[i].length >= 13
      /\ StartOf(i) \in Nat /\ EndOf(i) = StartOf(i) + pieces[i].length
  BY FramedPiece
<1>2. IntAt(bufferSpan', LengthOffset) = pieces[i].length
  <2>1. \A k \in 1..4 : k \in 1..n
    OBVIOUS
  <2>2. \A k \in 1..4 : bufferSpan'[k] = <<i, k - 1>>
    BY <2>1
  <2> DEFINE buffer == bufferSpan'
  <2>3. \A k \in 1..4 : buffer[k] = <<i, k - 1>>
    BY <2>2
  <2> HIDE DEF buffer
  <2>4. IntAt(buffer, LengthOffset) = pieces[i].length
    BY <1>1, <2>3, LengthOfWhole
  <2> QED BY <2>4 DEF buffer
<1> DEFINE L == pieces[i].length
<1>3. /\ bytesRead' = n
      /\ msgLength' = IF L \in 0..18 THEN L ELSE 18
      /\ excessBytes' = IF L > 18 THEN L - 18 ELSE 0
      /\ stage' = IF L > 18 THEN "discard" ELSE "rest"
  <2>1. n \in 6..17
    OBVIOUS
  <2> QED BY <1>2, <2>1, MeasureTypes
<1>4. EndOf(i)' = EndOf(i)
  BY LaidOutStays
<1>5. L' = L
  OBVIOUS
<1> HIDE DEF L
<1>6. L \in Nat /\ L >= 13 /\ EndOf(i) = StartOf(i) + L
  BY <1>1 DEF L
<1>7. /\ msgLength' = IF L <= 18 THEN L ELSE 18
      /\ (readIndex' + excessBytes') + (msgLength' - bytesRead') = EndOf(i)
      /\ stage' = "rest" => excessBytes' = 0
      /\ stage' = "discard" => excessBytes' > 0 /\ L > 18
      /\ stage' \in {"discard", "rest"}
  <2>1. CASE L <= 18
    BY <1>1, <1>3, <1>6, <2>1
  <2>2. CASE L > 18
    BY <1>1, <1>3, <1>6, <2>2
  <2> QED BY <1>6, <2>1, <2>2
<1>8. \A k \in 1..6 : bufferSpan'[k] = <<i, k - 1>>
  <2>1. \A k \in 1..6 : k \in 1..n
    OBVIOUS
  <2> QED BY <2>1
<1> QED BY <1>3, <1>4, <1>5, <1>7, <1>8 DEF Measured, L

\* The bytes of a message in the memory, and its delimiter.
LEMMA MessageBytes ==
  ASSUME LaidOut, NEW i \in Framed
  PROVE  /\ \A k \in 1..pieces[i].length : /\ StartOf(i) + k \in DOMAIN memSpan
                                           /\ memSpan[StartOf(i) + k] = <<i, k - 1>>
         /\ Value(memSpan[StartOf(i) + 5]) = 80 /\ Value(memSpan[StartOf(i) + 6]) = 235
<1>1. /\ i \in DOMAIN pieces /\ pieces[i].kind # "garbage" /\ pieces[i].lost = 0
      /\ pieces[i].length \in Nat
      /\ StartOf(i) \in Nat /\ EndOf(i) = StartOf(i) + pieces[i].length
  BY FramedPiece
<1>2. ASSUME NEW k \in 1..pieces[i].length
      PROVE  /\ StartOf(i) + k \in DOMAIN memSpan
             /\ memSpan[StartOf(i) + k] = <<i, k - 1>>
  <2> DEFINE p == StartOf(i) + k
  <2>1. p \in (StartOf(i) + 1)..EndOf(i)
    BY <1>1
  <2>2. p \in DOMAIN memSpan /\ memSpan[p] = <<i, pieces[i].lost + (p - StartOf(i) - 1)>>
    <3> HIDE DEF p
    <3> QED BY <1>1, <2>1, ByteAt
  <2>3. pieces[i].lost + (p - StartOf(i) - 1) = k - 1
    BY <1>1
  <2> QED BY <2>2, <2>3
<1>3. Value(memSpan[StartOf(i) + 5]) = 80 /\ Value(memSpan[StartOf(i) + 6]) = 235
  <2>1. LET p == StartOf(i) + 5 - pieces[i].lost
        IN  Value(memSpan[p]) = 80 /\ Value(memSpan[p + 1]) = 235
    BY <1>1, MessageHasDelimiter
  <2>2. StartOf(i) + 5 - pieces[i].lost = StartOf(i) + 5
        /\ (StartOf(i) + 5) + 1 = StartOf(i) + 6
    BY <1>1
  <2> QED BY <2>1, <2>2
<1> QED BY <1>2, <1>3

\* A call begins where the one before it has left the socket: in front of the
\* next message, or of garbage in front of that.
LEMMA CallInSync ==
  ASSUME Typed, InSync, Call
  PROVE  InSync'
<1>1. /\ LaidOut /\ UNCHANGED <<pieces, memSpan, readIndex, answers>>
      /\ stage = "idle" /\ stage' = "header"
  BY DEF Typed, ReadTyped, Call, BeginRead, socketVars
<1>2. Called = Len(answers) /\ Called' = Len(answers) + 1 /\ Len(answers) \in Nat
  <2>1. answers \in Seq(AnswerSet)
    BY DEF Typed
  <2> QED BY <1>1, <2>1 DEF Called
<1>3. /\ Framed' = Framed /\ \A i : Rank(i)' = Rank(i)
      /\ \A i, p : Ahead(i, p)' <=> Ahead(i, p)
  BY <1>1, MessagesStay
<1>4. ASSUME NEW i \in Framed, Rank(i) = Len(answers) + 1
      PROVE  Ahead(i, readIndex)
  <2>1. /\ i \in 1..Len(pieces) /\ Len(pieces) \in Nat /\ StartOf(i) \in Nat
        /\ \A j \in 1..(i - 1) : j \in DOMAIN pieces /\ (j \in Framed \/ pieces[j].kind = "garbage")
    BY <1>1, FramedPiece, PiecesAreThere
  <2>2. CASE Len(answers) = 0
    <3>1. readIndex = 0
      BY <1>2, <2>2 DEF InSync
    <3>2. \A j \in Framed : ~(j < i)
      <4>1. Rank(i) = 1
        BY <1>4, <2>2
      <4> QED BY <1>1, <4>1, RanksCount
    <3>3. ASSUME NEW j \in 1..(i - 1) PROVE pieces[j].kind = "garbage"
      <4>1. j < i
        BY <2>1
      <4> QED BY <2>1, <3>2, <4>1
    <3> QED BY <2>1, <3>1, <3>3 DEF Ahead
  <2>3. CASE Len(answers) # 0
    <3>1. Rank(i) > 1
      BY <1>2, <1>4, <2>3
    <3>2. PICK h \in Framed : /\ h < i /\ Rank(h) = Rank(i) - 1
                              /\ \A j \in Framed : ~(h < j /\ j < i)
      BY <1>1, <3>1, RanksCount
    <3>3. Rank(h) = Called
      BY <1>2, <1>4, <3>2
    <3>4. readIndex = EndOf(h)
      BY <1>1, <3>3 DEF InSync, AtMessage
    <3>5. /\ h \in 1..Len(pieces) /\ EndOf(h) \in Nat
          /\ \A m, n \in 0..Len(pieces) : m < n => EndOf(m) < EndOf(n)
          /\ \A m \in 0..Len(pieces) : EndOf(m) \in 0..Len(memSpan)
          /\ Len(memSpan) \in Nat
      BY <1>1, FramedPiece, PiecesAreThere
    <3>6. EndOf(h) <= StartOf(i)
      <4>1. h = i - 1 \/ h < i - 1
        BY <2>1, <3>2, <3>5
      <4>2. h \in 0..Len(pieces) /\ i - 1 \in 0..Len(pieces)
        BY <2>1, <3>5
      <4>3. EndOf(h) = EndOf(i - 1) \/ EndOf(h) < EndOf(i - 1)
        BY <3>5, <4>1, <4>2
      <4> DEFINE e == EndOf(i - 1)
                 f == EndOf(h)
      <4>4. e \in Nat /\ f \in Nat /\ (f = e \/ f < e)
        BY <3>5, <4>2, <4>3
      <4> HIDE DEF e, f
      <4>5. f <= e
        BY <4>4
      <4> QED BY <4>5 DEF StartOf, e, f
    <3>7. ASSUME NEW j \in 1..(i - 1), EndOf(j) > readIndex PROVE pieces[j].kind = "garbage"
      <4>1. j \in 0..Len(pieces) /\ h \in 0..Len(pieces) /\ j \in Nat /\ h \in Nat /\ j < i
        BY <2>1, <3>5
      <4>2. ~(EndOf(j) <= EndOf(h))
        <5> DEFINE e == EndOf(j)
                   f == EndOf(h)
        <5>1. e \in Nat /\ f \in Nat /\ e > f
          BY <3>4, <3>5, <3>7, <4>1
        <5> HIDE DEF e, f
        <5>2. ~(e <= f)
          BY <5>1
        <5> QED BY <5>2 DEF e, f
      <4>3. h < j
        <5>1. CASE j = h
          <6> DEFINE e == EndOf(h)
          <6>1. e \in Nat
            BY <3>5
          <6> HIDE DEF e
          <6>2. e <= e
            BY <6>1
          <6> QED BY <4>2, <5>1, <6>2 DEF e
        <5>2. CASE j < h
          <6>1. EndOf(j) < EndOf(h)
            BY <3>5, <4>1, <5>2
          <6> DEFINE e == EndOf(j)
                     f == EndOf(h)
          <6>2. e \in Nat /\ f \in Nat /\ e < f
            BY <3>5, <4>1, <6>1
          <6> HIDE DEF e, f
          <6>3. e <= f
            BY <6>2
          <6> QED BY <4>2, <6>3 DEF e, f
        <5> QED BY <4>1, <5>1, <5>2
      <4>4. j \notin Framed
        BY <3>2, <4>1, <4>3
      <4> QED BY <2>1, <4>4
    <3> QED BY <3>4, <3>6, <3>7 DEF Ahead
  <2> QED BY <2>2, <2>3
<1>5. Called' # 0
  BY <1>2
<1>6. ASSUME NEW i \in Framed', Rank(i)' = Called'
      PROVE  AtMessage(i)'
  <2>1. i \in Framed /\ Rank(i) = Len(answers) + 1
    BY <1>2, <1>3, <1>6
  <2> DEFINE p == readIndex
  <2>2. Ahead(i, p)
    BY <1>4, <2>1
  <2>3. p' = p
    BY <1>1
  <2>4. Ahead(i, p)'
    <3>1. EndOf(i)' = EndOf(i) /\ StartOf(i)' = StartOf(i)
          /\ \A j : EndOf(j)' = EndOf(j)
      BY <1>1, MessagesStay
    <3>2. pieces' = pieces
      BY <1>1
    <3> QED BY <2>2, <2>3, <3>1, <3>2 DEF Ahead
  <2> HIDE DEF p
  <2>5. Ahead(i, readIndex)'
    BY <2>4 DEF p
  <2> QED BY <1>1, <2>5 DEF AtMessage
<1> QED BY <1>5, <1>6 DEF InSync

\* The search goes on in front of a message.
LEMMA AheadFurther ==
  ASSUME LaidOut, NEW i \in Framed, NEW b \in Nat, NEW c \in Nat, b <= c,
         Ahead(i, b), c <= StartOf(i)
  PROVE  Ahead(i, c)
<1>1. ASSUME NEW j \in 1..(i - 1), EndOf(j) > c
      PROVE  pieces[j].kind = "garbage"
  <2>1. i \in 1..Len(pieces) /\ Len(pieces) \in Nat
    BY FramedPiece, PiecesAreThere
  <2>2. j \in 0..Len(pieces)
    BY <2>1
  <2>3. EndOf(j) \in 0..Len(memSpan) /\ Len(memSpan) \in Nat
    BY <2>2, PiecesAreThere
  <2> DEFINE e == EndOf(j)
  <2>4. e \in Nat /\ e > c
    BY <1>1, <2>3
  <2> HIDE DEF e
  <2>5. e > b
    BY <2>4
  <2>6. EndOf(j) > b
    BY <2>5 DEF e
  <2> QED BY <2>6 DEF Ahead
<1> QED BY <1>1 DEF Ahead

\* A step that moves nothing but the search keeps the message it is for.
LEMMA SearchInSync ==
  ASSUME LaidOut, UNCHANGED <<pieces, memSpan, answers>>, answers \in Seq(AnswerSet),
         stage \in {"header", "scan"}, stage' \in {"scan", "discard", "rest"},
         \A i \in Framed : Rank(i) = Called =>
            /\ stage' = "scan" => Ahead(i, readIndex' - 5)
            /\ stage' \in {"discard", "rest"} => Measured(i)'
  PROVE  InSync'
<1>1. Called' = Called /\ Called' # 0
  <2>1. Len(answers) \in Nat
    OBVIOUS
  <2>2. Called = Len(answers) + 1 /\ Called' = Len(answers) + 1
    BY DEF Called
  <2> QED BY <2>1, <2>2
<1>2. ASSUME NEW i \in Framed', Rank(i)' = Called'
      PROVE  AtMessage(i)'
  <2>1. i \in Framed /\ Rank(i) = Called
    BY <1>1, <1>2, MessagesStay
  <2>2. stage' = "scan" => Ahead(i, readIndex - 5)'
    <3>1. EndOf(i)' = EndOf(i) /\ StartOf(i)' = StartOf(i)
          /\ \A j : EndOf(j)' = EndOf(j)
      BY MessagesStay
    <3>2. pieces' = pieces
      OBVIOUS
    <3> QED BY <2>1, <3>1, <3>2 DEF Ahead
  <2> QED BY <2>1, <2>2 DEF AtMessage
<1> QED BY <1>1, <1>2 DEF InSync

\* The first recv() of a call.
LEMMA HeaderInSync ==
  ASSUME Typed, InSync, ReadHeader
  PROVE  InSync'
<1>1. /\ LaidOut /\ readIndex \in Nat /\ answers \in Seq(AnswerSet)
      /\ Received(6) /\ stage = "header" /\ answers' = answers /\ IsBuffer(bufferSpan')
      /\ UNCHANGED <<pieces, memSpan>> /\ readIndex' = readIndex + 6
      /\ Len(memSpan) \in Nat /\ readIndex + 6 <= Len(memSpan)
  <2>1. LaidOut /\ readIndex \in 0..Len(memSpan) /\ answers \in Seq(AnswerSet)
    BY DEF Typed, ReadTyped
  <2>2. Len(memSpan) \in Nat
    BY <2>1, PiecesAreThere
  <2>3. Received(6) /\ stage = "header" /\ answers' = answers /\ IsBuffer(bufferSpan')
    BY HeaderStep
  <2> QED BY <2>1, <2>2, <2>3 DEF Received
<1>2. PICK buffer :
        /\ IsBuffer(buffer)
        /\ \A k \in 1..6 : buffer[k] = memSpan[readIndex + k]
        /\ \/ /\ DelimiterAt(buffer, 4)
              /\ bufferSpan' = buffer /\ MeasureMessage(6)
           \/ /\ ~DelimiterAt(buffer, 4)
              /\ \A k \in 1..5 : bufferSpan'[k] = buffer[k + 1]
              /\ stage' = "scan" /\ UNCHANGED <<bytesRead, msgLength, excessBytes>>
  BY HeaderStep
<1>3. DelimiterAt(buffer, 4) <=>
        Value(memSpan[readIndex + 5]) = 80 /\ Value(memSpan[readIndex + 6]) = 235
  <2> DEFINE d == 4
  <2>1. d \in 0..16 /\ d + 1 = 5 /\ d + 2 = 6
    OBVIOUS
  <2> HIDE DEF d
  <2>2. DelimiterAt(buffer, d) <=> Value(buffer[d + 1]) = 80 /\ Value(buffer[d + 2]) = 235
    BY <2>1, DelimiterMeans
  <2>3. buffer[5] = memSpan[readIndex + 5] /\ buffer[6] = memSpan[readIndex + 6]
    BY <1>2
  <2> QED BY <2>1, <2>2, <2>3 DEF d
<1>4. stage' \in {"scan", "discard", "rest"}
  <2>1. CASE MeasureMessage(6)
    BY <2>1 DEF MeasureMessage
  <2> QED BY <1>2, <2>1
<1>5. ASSUME NEW i \in Framed, Rank(i) = Called
      PROVE  /\ stage' = "scan" => Ahead(i, readIndex' - 5)
             /\ stage' \in {"discard", "rest"} => Measured(i)'
  <2>1. Ahead(i, readIndex) /\ readIndex <= StartOf(i)
    BY <1>1, <1>5 DEF InSync, AtMessage, Ahead
  <2>2. /\ StartOf(i) \in Nat /\ pieces[i].length \in Nat /\ pieces[i].length >= 13
    BY <1>1, FramedPiece
  <2>3. CASE DelimiterAt(buffer, 4)
    <3>1. bufferSpan' = buffer /\ MeasureMessage(6)
      BY <1>2, <2>3
    <3>2. StartOf(i) = readIndex
      <4> DEFINE p == readIndex + 5
      <4>1. /\ p \in DOMAIN memSpan /\ p + 1 \in DOMAIN memSpan /\ readIndex < p
            /\ p + 1 = readIndex + 6 /\ DOMAIN memSpan = 1..Len(memSpan)
        BY <1>1, PiecesAreThere
      <4>2. Value(memSpan[p]) = 80 /\ Value(memSpan[p + 1]) = 235
        BY <1>3, <2>3, <4>1
      <4> HIDE DEF p
      <4>3. p >= StartOf(i) + 5
        BY <1>1, <2>1, <4>1, <4>2, DelimiterOfNext
      <4> QED BY <1>1, <2>1, <2>2, <4>3 DEF p
    <3>3. ASSUME NEW k \in 1..6 PROVE bufferSpan'[k] = <<i, k - 1>>
      <4>1. k \in 1..pieces[i].length
        BY <2>2
      <4>2. memSpan[StartOf(i) + k] = <<i, k - 1>>
        BY <1>1, <4>1, MessageBytes
      <4>3. bufferSpan'[k] = memSpan[readIndex + k]
        BY <1>2, <3>1
      <4> QED BY <3>2, <4>2, <4>3
    <3> DEFINE n == 6
    <3>4. n \in 6..13 /\ readIndex' = StartOf(i) + n /\ MeasureMessage(n)
          /\ \A k \in 1..n : bufferSpan'[k] = <<i, k - 1>>
      BY <1>1, <3>1, <3>2, <3>3
    <3> HIDE DEF n
    <3> QED BY <1>1, <3>4, MeasuredNow
  <2>4. CASE ~DelimiterAt(buffer, 4)
    <3>1. stage' = "scan"
      BY <1>2, <2>4
    <3>2. StartOf(i) # readIndex
      BY <1>1, <1>3, <2>4, MessageBytes
    <3> DEFINE c == readIndex' - 5
    <3>3. c \in Nat /\ readIndex <= c /\ c <= StartOf(i)
      BY <1>1, <2>1, <2>2, <3>2
    <3> HIDE DEF c
    <3>4. Ahead(i, c)
      BY <1>1, <2>1, <3>3, AheadFurther
    <3> QED BY <3>1, <3>4 DEF c
  <2> QED BY <2>3, <2>4
<1> QED BY <1>1, <1>4, <1>5, SearchInSync

\* A recv() of the search.
LEMMA ScanInSync ==
  ASSUME Typed, Kept, InSync, ScanForDelimiter
  PROVE  InSync'
<1> DEFINE b == readIndex - 5
<1>1. /\ LaidOut /\ readIndex \in Nat /\ answers \in Seq(AnswerSet)
      /\ stage = "scan" /\ answers' = answers /\ IsBuffer(bufferSpan')
      /\ UNCHANGED <<pieces, memSpan>> /\ readIndex' = readIndex + 8
      /\ DOMAIN memSpan = 1..Len(memSpan)
  <2>1. LaidOut /\ readIndex \in 0..Len(memSpan) /\ answers \in Seq(AnswerSet)
    BY DEF Typed, ReadTyped
  <2>2. Len(memSpan) \in Nat /\ DOMAIN memSpan = 1..Len(memSpan)
    BY <2>1, PiecesAreThere
  <2>3. Received(8) /\ stage = "scan" /\ answers' = answers /\ IsBuffer(bufferSpan')
    BY ScanStep
  <2> QED BY <2>1, <2>2, <2>3 DEF Received
<1>2. PICK buffer :
        /\ IsBuffer(buffer)
        /\ \A k \in 1..5 : buffer[k] = bufferSpan[k]
        /\ \A k \in 6..13 : buffer[k] = memSpan[readIndex + (k - 5)]
        /\ \/ /\ \A d \in 0..11 : ~DelimiterAt(buffer, d)
              /\ \A k \in 1..5 : bufferSpan'[k] = buffer[k + 8]
              /\ stage' = "scan" /\ UNCHANGED <<bytesRead, msgLength, excessBytes>>
           \/ \E d \in 0..11 :
                /\ DelimiterAt(buffer, d) /\ \A e \in 0..(d - 1) : ~DelimiterAt(buffer, e)
                /\ d < 4 => bufferSpan' = buffer
                /\ d >= 4 => \A k \in 1..(13 - (d - 4)) :
                               bufferSpan'[k] = buffer[k + (d - 4)]
                /\ 13 - (d - 4) \in 6..17 /\ MeasureMessage(13 - (d - 4))
  BY ScanStep
<1>3. /\ b \in Nat /\ readIndex' = b + 13 /\ readIndex' - 5 = b + 8
      /\ \A k \in 1..13 : buffer[k] = memSpan[b + k] /\ b + k \in DOMAIN memSpan
  <2>1. /\ b \in Nat
        /\ \A k \in 1..13 : buffer[k] = memSpan[b + k] /\ b + k \in DOMAIN memSpan
    BY <1>2, WindowIsRead
  <2>2. readIndex' = b + 13 /\ readIndex' - 5 = b + 8
    BY <1>1
  <2> QED BY <2>1, <2>2
<1> HIDE DEF b
<1>4. \A d \in 0..11 : /\ DelimiterAt(buffer, d) <=>
                            Value(memSpan[b + (d + 1)]) = 80 /\ Value(memSpan[b + (d + 2)]) = 235
                       /\ b + (d + 1) \in DOMAIN memSpan /\ b + (d + 2) \in DOMAIN memSpan
  <2> TAKE d \in 0..11
  <2>1. d \in 0..16 /\ d + 1 \in 1..13 /\ d + 2 \in 1..13
    OBVIOUS
  <2>2. DelimiterAt(buffer, d) <=> Value(buffer[d + 1]) = 80 /\ Value(buffer[d + 2]) = 235
    BY <2>1, DelimiterMeans
  <2>3. buffer[d + 1] = memSpan[b + (d + 1)] /\ buffer[d + 2] = memSpan[b + (d + 2)]
        /\ b + (d + 1) \in DOMAIN memSpan /\ b + (d + 2) \in DOMAIN memSpan
    BY <1>3, <2>1
  <2> QED BY <2>2, <2>3
<1>5. stage' \in {"scan", "discard", "rest"}
  <2>1. ASSUME NEW n, MeasureMessage(n) PROVE stage' \in {"discard", "rest"}
    BY <2>1 DEF MeasureMessage
  <2> QED BY <1>2, <2>1
<1>6. ASSUME NEW i \in Framed, Rank(i) = Called
      PROVE  /\ stage' = "scan" => Ahead(i, readIndex' - 5)
             /\ stage' \in {"discard", "rest"} => Measured(i)'
  <2> DEFINE st == StartOf(i)
             e  == (st - b) + 4
  <2>1. Ahead(i, b) /\ b <= st
    BY <1>1, <1>6 DEF InSync, AtMessage, Ahead, b
  <2>2. st \in Nat /\ pieces[i].length \in Nat /\ pieces[i].length >= 13
    BY <1>1, FramedPiece
  \* Where the delimiter of the message is in the window.
  <2>3. ASSUME st <= b + 7 PROVE e \in 4..11 /\ DelimiterAt(buffer, e)
    <3>1. Value(memSpan[st + 5]) = 80 /\ Value(memSpan[st + 6]) = 235
      BY <1>1, MessageBytes
    <3> HIDE DEF st
    <3>2. e \in 4..11 /\ e \in 0..11 /\ b + (e + 1) = st + 5 /\ b + (e + 2) = st + 6
      BY <1>3, <2>1, <2>2, <2>3
    <3> HIDE DEF e
    <3> QED BY <1>4, <3>1, <3>2
  <2>4. CASE \A d \in 0..11 : ~DelimiterAt(buffer, d)
    <3>1. stage' = "scan"
      <4>1. ~ \E d \in 0..11 : DelimiterAt(buffer, d)
        BY <2>4
      <4> QED BY <1>2, <4>1
    <3>2. b + 8 <= st
      <4>1. ~(st <= b + 7)
        <5>1. ASSUME st <= b + 7 PROVE FALSE
          <6>1. e \in 0..11
            BY <2>3, <5>1
          <6> HIDE DEF e
          <6> QED BY <2>3, <2>4, <5>1, <6>1
        <5> QED BY <5>1
      <4> HIDE DEF st
      <4> QED BY <1>3, <2>2, <4>1
    <3> DEFINE c == b + 8
    <3>3. c \in Nat /\ b <= c /\ c <= StartOf(i)
      BY <1>3, <3>2
    <3> HIDE DEF c
    <3>4. Ahead(i, c)
      BY <1>1, <1>3, <2>1, <3>3, AheadFurther
    <3>5. readIndex' - 5 = c
      BY <1>3 DEF c
    <3> QED BY <3>1, <3>4, <3>5
  <2>5. ASSUME NEW d \in 0..11,
               DelimiterAt(buffer, d), \A f \in 0..(d - 1) : ~DelimiterAt(buffer, f),
               d >= 4 => \A k \in 1..(13 - (d - 4)) : bufferSpan'[k] = buffer[k + (d - 4)],
               MeasureMessage(13 - (d - 4))
        PROVE  stage' \in {"discard", "rest"} /\ Measured(i)'
    <3>1. b + (d + 1) >= st + 5
      <4> DEFINE p == b + (d + 1)
      <4>1. p \in DOMAIN memSpan /\ p + 1 \in DOMAIN memSpan /\ b < p /\ p + 1 = b + (d + 2)
        <5>1. p + 1 = b + (d + 2) /\ b < p
          BY <1>3
        <5> QED BY <1>4, <5>1
      <4>2. Value(memSpan[p]) = 80 /\ Value(memSpan[p + 1]) = 235
        BY <1>4, <2>5, <4>1
      <4> HIDE DEF p
      <4>3. p >= StartOf(i) + 5
        BY <1>1, <1>3, <2>1, <4>1, <4>2, DelimiterOfNext, ZenonT(40)
      <4> QED BY <4>3 DEF p
    <3>2. d = e
      <4>1. st <= b + 7
        <5> HIDE DEF st
        <5> QED BY <1>3, <2>2, <3>1
      <4>2. e \in 4..11 /\ DelimiterAt(buffer, e)
        BY <2>3, <4>1
      <4>3. e <= d
        <5> HIDE DEF st
        <5> QED BY <1>3, <2>2, <3>1
      <4>4. ~(e < d)
        <5>1. ASSUME e < d PROVE e \in 0..(d - 1)
          <6> HIDE DEF e
          <6> QED BY <4>2, <5>1
        <5> HIDE DEF e
        <5> QED BY <2>5, <4>2, <5>1
      <4> HIDE DEF e
      <4> QED BY <4>2, <4>3, <4>4
    <3>3. d >= 4 /\ d - 4 = st - b /\ st <= b + 7
      <4> HIDE DEF st
      <4> QED BY <1>3, <2>1, <2>2, <3>2
    <3> DEFINE n == 13 - (d - 4)
    <3>4. n \in 6..13 /\ readIndex' = st + n
      <4> HIDE DEF st
      <4> QED BY <1>3, <2>2, <3>3
    <3>5. ASSUME NEW k \in 1..n PROVE bufferSpan'[k] = <<i, k - 1>>
      <4>1. bufferSpan'[k] = buffer[k + (d - 4)]
        BY <2>5, <3>3
      <4>2. k + (d - 4) \in 1..13 /\ b + (k + (d - 4)) = st + k /\ k \in 1..pieces[i].length
        <5> HIDE DEF st
        <5> QED BY <1>3, <2>2, <3>3
      <4>3. buffer[k + (d - 4)] = memSpan[b + (k + (d - 4))]
        BY <1>3, <4>2
      <4>4. memSpan[st + k] = <<i, k - 1>>
        BY <1>1, <4>2, MessageBytes
      <4> QED BY <4>1, <4>2, <4>3, <4>4
    <3>6. MeasureMessage(n) /\ readIndex' = StartOf(i) + n
      BY <2>5, <3>4
    <3> HIDE DEF n
    <3> QED BY <1>1, <3>4, <3>5, <3>6, MeasuredNow
  <2> HIDE DEF e
  <2> QED BY <1>2, <2>4, <2>5
<1> QED BY <1>1, <1>5, <1>6, SearchInSync

\* An iteration of the loop that discards.
LEMMA DiscardInSync ==
  ASSUME Typed, InSync, DiscardLongMsg
  PROVE  InSync'
<1>1. /\ LaidOut /\ readIndex \in Nat /\ answers \in Seq(AnswerSet)
      /\ stage = "discard" /\ UNCHANGED <<pieces, memSpan, answers, bytesRead, msgLength>>
      /\ Demand \in 1..12 /\ Demand <= excessBytes /\ excessBytes \in Nat
      /\ readIndex' = readIndex + Demand /\ excessBytes' = excessBytes - Demand
      /\ stage' = IF excessBytes' = 0 THEN "rest" ELSE "discard"
      /\ \A k \in 1..6 : bufferSpan'[k] = bufferSpan[k]
  <2>1. LaidOut /\ readIndex \in 0..Len(memSpan) /\ answers \in Seq(AnswerSet)
        /\ excessBytes \in Nat
    BY DEF Typed, ReadTyped, LocalsTyped
  <2>2. Len(memSpan) \in Nat
    BY <2>1, PiecesAreThere
  <2> QED BY <2>1, <2>2, DiscardStep DEF Received
<1>2. stage' \in {"discard", "rest"}
  BY <1>1
<1>3. Called' = Called /\ Called' # 0
  <2>1. Len(answers) \in Nat
    BY <1>1
  <2>2. Called = Len(answers) + 1 /\ Called' = Len(answers) + 1
    BY <1>1, <1>2 DEF Called
  <2> QED BY <2>1, <2>2
<1>4. ASSUME NEW i \in Framed', Rank(i)' = Called'
      PROVE  AtMessage(i)'
  <2>1. i \in Framed /\ Rank(i) = Called
    BY <1>1, <1>3, <1>4, MessagesStay
  <2>2. Measured(i)
    BY <1>1, <2>1 DEF InSync, AtMessage
  <2>3. EndOf(i)' = EndOf(i)
    BY <1>1, MessagesStay
  <2> DEFINE L == pieces[i].length
  <2>4. L' = L /\ L \in Nat
    BY <1>1, <2>1, FramedPiece
  <2> HIDE DEF L
  <2>5. /\ \A k \in 1..6 : bufferSpan[k] = <<i, k - 1>>
        /\ bytesRead \in 6..13 /\ msgLength = (IF L <= 18 THEN L ELSE 18) /\ L > 18
        /\ (readIndex + excessBytes) + (msgLength - bytesRead) = EndOf(i)
    BY <1>1, <2>2 DEF Measured, L
  <2>6. (readIndex' + excessBytes') + (msgLength' - bytesRead') = EndOf(i)
    <3>1. /\ readIndex' + excessBytes' = readIndex + excessBytes
          /\ msgLength' - bytesRead' = msgLength - bytesRead
      BY <1>1
    <3> QED BY <2>5, <3>1
  <2>7. /\ stage' = "rest" => excessBytes' = 0
        /\ stage' = "discard" => excessBytes' > 0
        /\ ~(L <= 18)
    BY <1>1, <2>4, <2>5
  <2>8. Measured(i)'
    BY <1>1, <2>3, <2>4, <2>5, <2>6, <2>7 DEF Measured, L
  <2> QED BY <1>2, <2>8 DEF AtMessage
<1> QED BY <1>3, <1>4 DEF InSync

\* A buffer with all the bytes of a message.
LEMMA BufferIsWhole ==
  ASSUME LaidOut, NEW i \in Framed, NEW buffer, IsBuffer(buffer), pieces[i].length <= 18,
         \A k \in 1..pieces[i].length : buffer[k] = <<i, k - 1>>
  PROVE  IsWhole(buffer, pieces[i].length) /\ buffer[1][1] = i
<1> DEFINE L == pieces[i].length
           lo == 1
<1>1. /\ i \in 1..Len(pieces) /\ Len(pieces) \in Nat /\ IsPiece(pieces[i])
      /\ pieces[i].lost = 0 /\ L \in Nat /\ L >= 13 /\ L <= 18
  BY FramedPiece, PiecesAreThere
<1>2. i \in Nat /\ i # 0
  BY <1>1
<1>3. buffer[1][1] = i
  <2>1. 1 \in 1..L
    BY <1>1
  <2> QED BY <2>1
<1>4. /\ Bytes(i, pieces[i]) \in Seq(Nat \X Nat) /\ Len(Bytes(i, pieces[i])) = L
      /\ \A k \in 1..L : Bytes(i, pieces[i])[k] = <<i, k - 1>>
  <2>1. /\ Bytes(i, pieces[i]) \in Seq(Nat \X Nat)
        /\ Len(Bytes(i, pieces[i])) = L - pieces[i].lost
        /\ \A n \in 1..(L - pieces[i].lost) :
             Bytes(i, pieces[i])[n] = <<i, pieces[i].lost + n - 1>>
    BY <1>1, <1>2, BytesOf
  <2>2. L - pieces[i].lost = L /\ \A n \in 1..L : pieces[i].lost + n - 1 = n - 1
    BY <1>1
  <2> QED BY <2>1, <2>2
<1>5. /\ SubSeq(buffer, 1, L) \in Seq(Byte) /\ Len(SubSeq(buffer, 1, L)) = L
      /\ \A k \in 1..L : SubSeq(buffer, 1, L)[k] = buffer[k]
  <2> HIDE DEF L
  <2>1. buffer \in Seq(Byte) /\ 1 <= L /\ L <= Len(buffer) /\ L \in Int
    BY <1>1 DEF IsBuffer
  <2>2. /\ lo \in Int /\ 1 <= lo /\ lo <= L + 1
        /\ L - lo + 1 = L /\ \A k \in Int : k + (lo - 1) = k
    BY <1>1
  <2> HIDE DEF lo
  <2>3. /\ SubSeq(buffer, lo, L) \in Seq(Byte)
        /\ Len(SubSeq(buffer, lo, L)) = L - lo + 1
        /\ \A k \in 1..(L - lo + 1) : SubSeq(buffer, lo, L)[k] = buffer[k + (lo - 1)]
    BY <2>1, <2>2, Stretch
  <2>4. /\ SubSeq(buffer, lo, L) \in Seq(Byte) /\ Len(SubSeq(buffer, lo, L)) = L
        /\ \A k \in 1..L : SubSeq(buffer, lo, L)[k] = buffer[k]
    BY <2>2, <2>3
  <2> QED BY <2>4 DEF lo
<1>6. SubSeq(buffer, 1, L) = Bytes(i, pieces[i])
  <2> DEFINE s == SubSeq(buffer, 1, L)
             t == Bytes(i, pieces[i])
  <2>1. \A k \in 1..L : s[k] = t[k]
    BY <1>4, <1>5
  <2>2. s \in Seq(Byte) /\ t \in Seq(Nat \X Nat) /\ Len(s) = L /\ Len(t) = L
    BY <1>4, <1>5
  <2> HIDE DEF s, t, L
  <2>3. s = [k \in 1..L |-> s[k]]
    BY <2>2
  <2>4. t = [k \in 1..L |-> t[k]]
    BY <2>2
  <2>5. [k \in 1..L |-> s[k]] = [k \in 1..L |-> t[k]]
    BY <2>1
  <2>6. s = t
    BY <2>3, <2>4, <2>5
  <2> QED BY <2>6 DEF s, t
<1> QED BY <1>2, <1>3, <1>6 DEF IsWhole

\* The last recv() of a call.
LEMMA RestInSync ==
  ASSUME Typed, InSync, AnswersInStep, ReadRest
  PROVE  InSync' /\ AnswersInStep'
<1>1. /\ LaidOut /\ readIndex \in Nat /\ answers \in Seq(AnswerSet)
      /\ stage = "rest" /\ stage' = "idle" /\ UNCHANGED <<pieces, memSpan>>
      /\ msgLength - bytesRead \in Nat /\ readIndex' = readIndex + (msgLength - bytesRead)
      /\ IsBuffer(bufferSpan')
      /\ \A k \in 1..bytesRead : bufferSpan'[k] = bufferSpan[k]
      /\ \A k \in (bytesRead + 1)..msgLength :
           bufferSpan'[k] = memSpan[readIndex + (k - bytesRead)]
  <2>1. LaidOut /\ readIndex \in 0..Len(memSpan) /\ answers \in Seq(AnswerSet)
    BY DEF Typed, ReadTyped
  <2>2. Len(memSpan) \in Nat
    BY <2>1, PiecesAreThere
  <2> QED BY <2>1, <2>2, RestStep DEF Received
<1>2. PICK valid \in ValidateChecksum(bufferSpan', msgLength) :
         answers' = Append(answers, Answer(bufferSpan', msgLength, valid))
  BY RestStep
<1> DEFINE a == Answer(bufferSpan', msgLength, valid)
           n == Len(answers)
<1>3. a \in AnswerSet
  BY <1>1, AnswerTypes
<1>4. answers' = Append(answers, a)
  BY <1>2
<1> HIDE DEF a
<1>5. /\ n \in Nat /\ DOMAIN answers = 1..n /\ DOMAIN answers' = 1..(n + 1)
      /\ answers'[n + 1] = a /\ Len(answers') = n + 1
      /\ \A m \in 1..n : answers'[m] = answers[m]
  BY <1>1, <1>3, <1>4
<1>6. Called = n + 1 /\ Called' = n + 1 /\ Called' # 0
  BY <1>1, <1>5 DEF Called
<1>7. /\ Framed' = Framed
      /\ \A i : Rank(i)' = Rank(i) /\ Allowed(i)' = Allowed(i) /\ EndOf(i)' = EndOf(i)
  BY <1>1, MessagesStay
<1>8. ASSUME NEW i \in Framed, Rank(i) = Called
      PROVE  readIndex' = EndOf(i) /\ a \in Allowed(i)
  <2> DEFINE L == pieces[i].length
  <2>1. /\ i \in DOMAIN pieces /\ IsPiece(pieces[i]) /\ pieces[i].kind # "garbage"
        /\ pieces[i].lost = 0 /\ L \in Nat /\ L >= 13
        /\ StartOf(i) \in Nat /\ EndOf(i) = StartOf(i) + L
    BY <1>1, FramedPiece
  <2>2. /\ bytesRead \in 6..13 /\ msgLength = (IF L <= 18 THEN L ELSE 18)
        /\ (readIndex + excessBytes) + (msgLength - bytesRead) = EndOf(i)
        /\ excessBytes = 0
        /\ \A k \in 1..6 : bufferSpan[k] = <<i, k - 1>>
        /\ L <= 18 => \A k \in 1..bytesRead : bufferSpan[k] = <<i, k - 1>>
    BY <1>1, <1>8 DEF InSync, AtMessage, Measured
  <2>3. readIndex' = EndOf(i)
    BY <1>1, <2>2
  <2>4. \A type \in Types : MsgLength(type) \in 13..18
    BY MessageLengths
  <2>5. CASE L <= 18
    <3>1. msgLength = L /\ readIndex = StartOf(i) + bytesRead
      <4> DEFINE st == StartOf(i)
      <4>1. st \in Nat /\ EndOf(i) = st + L
        BY <2>1
      <4> HIDE DEF st, L
      <4>2. msgLength = L
        BY <2>2, <2>5
      <4>3. readIndex + (L - bytesRead) = st + L
        BY <1>1, <2>2, <4>1, <4>2
      <4>4. L \in Nat /\ bytesRead \in Nat /\ readIndex \in Nat /\ st \in Nat
        BY <1>1, <2>1, <2>2, <4>1 DEF L
      <4>5. readIndex = st + bytesRead
        BY <4>3, <4>4
      <4> QED BY <4>2, <4>5 DEF st
    <3>2. ASSUME NEW k \in 1..L PROVE bufferSpan'[k] = <<i, k - 1>>
      <4>1. CASE k <= bytesRead
        <5>1. k \in 1..bytesRead
          BY <2>2, <4>1
        <5> QED BY <1>1, <2>2, <2>5, <5>1
      <4>2. CASE k > bytesRead
        <5>1. k \in (bytesRead + 1)..msgLength /\ k \in 1..pieces[i].length
          BY <2>1, <2>2, <3>1, <4>2
        <5>2. bufferSpan'[k] = memSpan[readIndex + (k - bytesRead)]
          BY <1>1, <5>1
        <5>3. readIndex + (k - bytesRead) = StartOf(i) + k
          BY <2>1, <2>2, <3>1
        <5>4. memSpan[StartOf(i) + k] = <<i, k - 1>>
          BY <1>1, <5>1, MessageBytes
        <5> QED BY <5>2, <5>3, <5>4
      <4> QED BY <2>2, <4>1, <4>2
    <3> DEFINE buffer == bufferSpan'
    <3>3. IsWhole(buffer, pieces[i].length) /\ buffer[1][1] = i
      <4>1. IsBuffer(buffer) /\ \A k \in 1..pieces[i].length : buffer[k] = <<i, k - 1>>
        BY <1>1, <3>2
      <4> HIDE DEF buffer
      <4> QED BY <1>1, <2>5, <4>1, BufferIsWhole
    <3>4. IsWhole(bufferSpan', msgLength) /\ bufferSpan'[1][1] = i
      BY <3>1, <3>3
    <3>5. valid = pieces[i].sumOk
      <4>1. ValidateChecksum(bufferSpan', msgLength) = {pieces[bufferSpan'[1][1]].sumOk}
        BY <3>4, Zenon DEF ValidateChecksum
      <4> QED BY <3>4, <4>1
    <3>6. CASE pieces[i].kind \in Types
      <4>1. L = MsgLength(pieces[i].kind)
        BY <2>1, <3>6, PieceIs
      <4>2. MsgType(msgLength) = pieces[i].kind /\ MsgType(msgLength) # "none"
        <5>1. "none" \notin Types
          BY MessageLengths
        <5> QED BY <3>1, <3>6, <4>1, <5>1, TypeOfLength
      <4> DEFINE owed == IF pieces[i].sumOk THEN [type |-> pieces[i].kind, of |-> i] ELSE Nothing
      <4>3. a = owed
        <5>1. CASE pieces[i].sumOk
          <6>1. valid
            BY <3>5, <5>1
          <6>2. a = [type |-> MsgType(msgLength), of |-> i]
            BY <3>4, <4>2, <6>1 DEF a, Answer
          <6>3. owed = [type |-> pieces[i].kind, of |-> i]
            BY <5>1, Zenon
          <6> HIDE DEF owed
          <6> QED BY <4>2, <6>2, <6>3
        <5>2. CASE ~pieces[i].sumOk
          <6>1. ~valid
            BY <3>5, <5>2
          <6>2. a = Nothing
            BY <6>1 DEF a, Answer
          <6>3. owed = Nothing
            BY <5>2, Zenon
          <6> HIDE DEF owed
          <6> QED BY <6>2, <6>3
        <5> QED BY <5>1, <5>2
      <4>4. Allowed(i) = {owed}
        <5>1. ~(pieces[i].length > BufferSize)
          BY <2>1, <2>5, LongestMessage
        <5> QED BY <3>6, <5>1 DEF Allowed
      <4> HIDE DEF owed
      <4> QED BY <2>3, <4>3, <4>4
    <3>7. CASE pieces[i].kind \notin Types
      <4>1. a = Nothing
        <5>1. CASE pieces[i].sumOk
          <6>1. \A type \in Types : MsgLength(type) # L
            BY <2>1, <3>7, <5>1, PieceIs
          <6>2. MsgType(msgLength) = "none"
            BY <3>1, <6>1 DEF MsgType
          <6> QED BY <6>2 DEF a, Answer
        <5>2. CASE ~pieces[i].sumOk
          <6>1. ~valid
            BY <3>5, <5>2
          <6> QED BY <6>1 DEF a, Answer
        <5> QED BY <5>1, <5>2
      <4>2. Allowed(i) = {Nothing}
        <5>1. ~(pieces[i].length > BufferSize)
          BY <2>1, <2>5, LongestMessage
        <5> QED BY <3>7, <5>1 DEF Allowed
      <4> QED BY <2>3, <4>1, <4>2
    <3> QED BY <3>6, <3>7
  <2>6. CASE L > 18
    <3>1. msgLength = 18 /\ ~(L <= 18)
      BY <2>1, <2>2, <2>6
    <3>2. pieces[i].kind \notin Types
      <4>1. ASSUME pieces[i].kind \in Types PROVE FALSE
        <5>1. L = MsgLength(pieces[i].kind)
          BY <2>1, <4>1, PieceIs
        <5>2. L \in 13..18
          BY <2>4, <4>1, <5>1
        <5> QED BY <2>6, <5>2
      <4> QED BY <4>1
    <3>3. ~IsWhole(bufferSpan', msgLength)
      <4>1. bufferSpan'[1][1] = i
        <5>1. 1 \in 1..bytesRead /\ 1 \in 1..6
          BY <2>2
        <5>2. bufferSpan'[1] = bufferSpan[1] /\ bufferSpan[1] = <<i, 1 - 1>>
          BY <1>1, <2>2, <5>1
        <5> QED BY <5>2
      <4>2. pieces[i].length # msgLength
        BY <2>1, <2>6, <3>1
      <4> QED BY <4>1, <4>2 DEF IsWhole
    <3>4. a \in {Nothing, [type |-> MsgType(18), of |-> 0]}
      BY <3>1, <3>3 DEF a, Answer
    <3>5. Allowed(i) = {Nothing, [type |-> MsgType(18), of |-> 0]}
      <4>1. pieces[i].length > BufferSize
        BY <2>6, LongestMessage
      <4> QED BY <3>2, <4>1, LongestMessage DEF Allowed
    <3> QED BY <2>3, <3>4, <3>5
  <2> QED BY <2>1, <2>5, <2>6
<1>9. InSync'
  <2>1. ASSUME NEW i \in Framed', Rank(i)' = Called'
        PROVE  AtMessage(i)'
    <3>1. i \in Framed /\ Rank(i) = Called
      BY <1>6, <1>7, <2>1
    <3>2. readIndex' = EndOf(i)'
      BY <1>7, <1>8, <3>1
    <3> QED BY <1>1, <3>2 DEF AtMessage
  <2> QED BY <1>6, <2>1 DEF InSync
<1>10. AnswersInStep'
  <2>1. ASSUME NEW i \in Framed', Rank(i)' \in DOMAIN answers'
        PROVE  answers'[Rank(i)'] \in Allowed(i)'
    <3>1. i \in Framed /\ Rank(i)' = Rank(i) /\ Allowed(i)' = Allowed(i)
          /\ Rank(i) \in 1..(n + 1)
      BY <1>5, <1>7, <2>1
    <3>2. CASE Rank(i) = n + 1
      <4>1. a \in Allowed(i)
        BY <1>6, <1>8, <3>1, <3>2
      <4> QED BY <1>5, <3>1, <3>2, <4>1
    <3>3. CASE Rank(i) # n + 1
      <4>1. Rank(i) \in 1..n
        BY <1>5, <3>1, <3>3
      <4>2. answers[Rank(i)] \in Allowed(i)
        BY <1>5, <3>1, <4>1 DEF AnswersInStep
      <4> QED BY <1>5, <3>1, <4>1, <4>2
    <3> QED BY <3>2, <3>3
  <2> HIDE DEF n
  <2> QED BY <2>1 DEF AnswersInStep
<1> QED BY <1>9, <1>10

\* While a message is awaited, what a call asks for is there.
LEMMA StaysInBounds ==
  ASSUME Typed, InSync, ReadOutOfBounds, NEW i \in Framed, Rank(i) = Called
  PROVE  FALSE
<1>1. /\ LaidOut /\ readIndex \in Nat /\ Len(memSpan) \in Nat
      /\ stage \in {"header", "scan", "discard", "rest"} /\ ~Available(Demand)
      /\ stage = "scan" => readIndex > 0
      /\ excessBytes \in Nat
  <2>1. LaidOut /\ readIndex \in 0..Len(memSpan)
    BY DEF Typed, ReadTyped
  <2>2. Len(memSpan) \in Nat
    BY <2>1, PiecesAreThere
  <2>3. stage = "scan" => readIndex > 0
    BY DEF Typed, LocalsTyped
  <2>4. stage \in {"header", "scan", "discard", "rest"} /\ ~Available(Demand)
    BY DEF ReadOutOfBounds
  <2>5. excessBytes \in Nat
    BY DEF Typed, LocalsTyped
  <2> QED BY <2>1, <2>2, <2>3, <2>4, <2>5
<1> DEFINE st == StartOf(i)
           e  == EndOf(i)
           L  == pieces[i].length
           all == Len(memSpan)
<1>2. /\ st \in Nat /\ L \in Nat /\ L >= 13 /\ e = st + L /\ e <= all
  BY <1>1, FramedPiece
<1>3. AtMessage(i)
  BY DEF InSync
<1>4. ~(Demand >= 0 /\ readIndex + Demand <= all)
  BY <1>1 DEF Available
<1>5. /\ stage = "header" => readIndex <= st
      /\ stage = "scan" => readIndex - 5 <= st
      /\ stage \in {"discard", "rest"} =>
           /\ bytesRead \in 6..13 /\ msgLength = (IF L <= 18 THEN L ELSE 18)
           /\ (readIndex + excessBytes) + (msgLength - bytesRead) = e
           /\ stage = "rest" => excessBytes = 0
  BY <1>3 DEF AtMessage, Ahead, Measured
<1>6. /\ stage = "header" => Demand = 6
      /\ stage = "scan" => Demand = 8
      /\ stage = "discard" => Demand \in 1..12 /\ Demand <= excessBytes
      /\ stage = "rest" => Demand = msgLength - bytesRead
  BY DemandIs
<1>7. all \in Nat
  BY <1>1
<1> HIDE DEF st, e, L, all
<1>8. CASE stage = "header"
  BY <1>1, <1>2, <1>4, <1>5, <1>6, <1>7, <1>8
<1>9. CASE stage = "scan"
  BY <1>1, <1>2, <1>4, <1>5, <1>6, <1>7, <1>9
<1>10. CASE stage = "discard"
  <2>1. msgLength - bytesRead >= 0 /\ msgLength - bytesRead \in Int
    BY <1>2, <1>5, <1>10
  <2>2. Demand \in 1..12 /\ Demand <= excessBytes
    BY <1>6, <1>10
  <2>3. (readIndex + excessBytes) + (msgLength - bytesRead) <= all
    BY <1>2, <1>5, <1>10
  <2> DEFINE left == msgLength - bytesRead
             len == Demand
  <2>4. left \in Nat /\ len \in Nat /\ len <= excessBytes /\ excessBytes \in Nat
        /\ readIndex \in Nat /\ (readIndex + excessBytes) + left <= all
    BY <1>1, <2>1, <2>2, <2>3
  <2> HIDE DEF left, len
  <2>5. len >= 0 /\ readIndex + len <= all
    BY <1>7, <2>4
  <2> QED BY <1>4, <2>5 DEF len
<1>11. CASE stage = "rest"
  <2>1. msgLength - bytesRead >= 0 /\ Demand = msgLength - bytesRead
    BY <1>2, <1>5, <1>6, <1>11
  <2>2. readIndex + (msgLength - bytesRead) = e
    BY <1>1, <1>5, <1>11
  <2> QED BY <1>2, <1>4, <2>1, <2>2
<1> QED BY <1>1, <1>8, <1>9, <1>10, <1>11

\* Nothing but the end of a call returns anything.
LEMMA AnswersInStepStay ==
  ASSUME LaidOut, UNCHANGED <<pieces, memSpan, answers>>, AnswersInStep
  PROVE  AnswersInStep'
<1>1. Framed' = Framed /\ \A i : Rank(i)' = Rank(i) /\ Allowed(i)' = Allowed(i)
  BY MessagesStay
<1> QED BY <1>1 DEF AnswersInStep

\* A stopped program stays where it is.
LEMMA StoppedInSync ==
  ASSUME LaidOut, InSync, UNCHANGED vars
  PROVE  InSync'
<1>1. /\ UNCHANGED <<pieces, memSpan, readIndex, stage, bufferSpan>>
      /\ UNCHANGED <<bytesRead, msgLength, excessBytes, answers>>
  BY DEF vars, socketVars
<1>2. /\ Framed' = Framed
      /\ \A i : Rank(i)' = Rank(i) /\ EndOf(i)' = EndOf(i)
      /\ \A i : StartOf(i)' = StartOf(i)
  BY <1>1, MessagesStay
<1>3. Called' = Called
  BY <1>1 DEF Called
<1>4. ASSUME NEW i, AtMessage(i) PROVE AtMessage(i)'
  <2>1. Measured(i)' <=> Measured(i)
    BY <1>1, <1>2 DEF Measured
  <2>2. Ahead(i, readIndex)' <=> Ahead(i, readIndex)
    BY <1>1, <1>2 DEF Ahead
  <2>3. Ahead(i, readIndex - 5)' <=> Ahead(i, readIndex - 5)
    BY <1>1, <1>2 DEF Ahead
  <2> QED BY <1>1, <1>2, <1>4, <2>1, <2>2, <2>3 DEF AtMessage
<1> QED BY <1>1, <1>2, <1>3, <1>4 DEF InSync

\* Every step keeps the calls at their messages.
LEMMA InSyncKept ==
  ASSUME Typed, Kept, InSync, AnswersInStep, [Next]_vars
  PROVE  InSync' /\ AnswersInStep'
<1>1. LaidOut
  BY DEF Typed, ReadTyped
<1>2. CASE Call
  <2>1. UNCHANGED <<pieces, memSpan, answers>>
    BY <1>2 DEF Call, BeginRead, socketVars
  <2> QED BY <1>1, <1>2, <2>1, CallInSync, AnswersInStepStay
<1>3. CASE ReadHeader
  <2>1. UNCHANGED <<pieces, memSpan, answers>>
    BY <1>3, HeaderStep DEF Received
  <2> QED BY <1>1, <1>3, <2>1, HeaderInSync, AnswersInStepStay
<1>4. CASE ScanForDelimiter
  <2>1. UNCHANGED <<pieces, memSpan, answers>>
    BY <1>4, ScanStep DEF Received
  <2> QED BY <1>1, <1>4, <2>1, ScanInSync, AnswersInStepStay
<1>5. CASE DiscardLongMsg
  <2>1. UNCHANGED <<pieces, memSpan, answers>>
    BY <1>5, DiscardStep DEF Received
  <2> QED BY <1>1, <1>5, <2>1, DiscardInSync, AnswersInStepStay
<1>6. CASE ReadRest
  BY <1>6, RestInSync
<1>7. CASE ReadOutOfBounds
  <2>1. /\ UNCHANGED <<pieces, memSpan, readIndex, answers>>
        /\ stage # "idle" /\ stage' # "idle"
    BY <1>7 DEF ReadOutOfBounds, socketVars
  <2>2. Called' = Called
    BY <2>1 DEF Called
  <2>3. Framed' = Framed /\ \A i : Rank(i)' = Rank(i)
    BY <1>1, <2>1, MessagesStay
  <2>4. \A i \in Framed : Rank(i) # Called
    BY <1>7, StaysInBounds
  <2>5. InSync'
    BY <2>1, <2>2, <2>3, <2>4 DEF InSync
  <2> QED BY <1>1, <2>1, <2>5, AnswersInStepStay
<1>8. CASE UNCHANGED vars
  <2>1. UNCHANGED <<pieces, memSpan, answers>>
    BY <1>8 DEF vars, socketVars
  <2> QED BY <1>1, <1>8, <2>1, StoppedInSync, AnswersInStepStay
<1> QED BY <1>2, <1>3, <1>4, <1>5, <1>6, <1>7, <1>8 DEF Next, Proceed

-----------------------------------------------------------------------------

\* Everything above together is inductive.
HandlerInv ==
    /\ Typed
    /\ Kept /\ Gathered
    /\ GenuineAnswers /\ AnswersAreBehind
    /\ InSync /\ AnswersInStep

LEMMA HandlerInvAtFirst ==
  ASSUME Init PROVE HandlerInv
<1>1. /\ stage = "idle" /\ answers = <<>> /\ readIndex = 0
      /\ DOMAIN answers = {} /\ Len(answers) = 0
  BY DEF Init
<1>2. Typed /\ LaidOut
  BY TypedAtFirst, LaidOutAtFirst
<1>3. Kept /\ Gathered
  BY <1>1 DEF Kept, Gathered
<1>4. GenuineAnswers /\ AnswersAreBehind /\ AnswersInStep
  BY <1>1 DEF GenuineAnswers, AnswersAreBehind, AnswersInStep
<1>5. InSync
  <2>1. Called = 0
    BY <1>1 DEF Called
  <2>2. \A i \in Framed : Rank(i) # 0
    BY <1>2, RanksCount
  <2> QED BY <1>1, <2>1, <2>2 DEF InSync
<1> QED BY <1>2, <1>3, <1>4, <1>5 DEF HandlerInv

LEMMA AlwaysHandlerInv == Spec => []HandlerInv
<1>1. HandlerInv /\ [Next]_vars => HandlerInv'
  <2> SUFFICES ASSUME HandlerInv, [Next]_vars PROVE HandlerInv'
    OBVIOUS
  <2>1. /\ Typed /\ Kept /\ Gathered /\ GenuineAnswers /\ AnswersAreBehind
        /\ InSync /\ AnswersInStep
    BY DEF HandlerInv
  <2>2. Typed'
    BY <2>1, TypedKept
  <2>3. Kept' /\ Gathered'
    BY <2>1, GatheredKept
  <2>4. GenuineAnswers' /\ AnswersAreBehind'
    BY <2>1, AnswersKept
  <2>5. InSync' /\ AnswersInStep'
    BY <2>1, InSyncKept
  <2> QED BY <2>2, <2>3, <2>4, <2>5 DEF HandlerInv
<1> QED BY <1>1, HandlerInvAtFirst, PTL DEF Spec

\* What is allowed is what is owed, but for foreign messages that do not fit.
LEMMA AllowedIsOwed ==
  ASSUME NEW i, NEW a \in Allowed(i),
         pieces[i].length \in Int, i # 0,
         pieces[i].kind \in Types => FitsBuffer(i)
  PROVE  /\ IF FitsBuffer(i) THEN a = Owed(i) ELSE a.of = 0
         /\ a.of # 0 => a = Owed(i)
<1>1. Nothing.of = 0 /\ BufferSize \in Int
  BY LongestMessage DEF Nothing
<1>2. CASE pieces[i].kind \in Types
  <2>1. FitsBuffer(i) /\ ~(pieces[i].length > BufferSize)
    BY <1>1, <1>2 DEF FitsBuffer
  <2>2. Allowed(i) = {Owed(i)}
    <3> HIDE DEF Nothing
    <3>1. Allowed(i) = {IF pieces[i].sumOk THEN [type |-> pieces[i].kind, of |-> i] ELSE Nothing}
      BY <1>2, <2>1 DEF Allowed
    <3>2. Owed(i) = IF pieces[i].sumOk THEN [type |-> pieces[i].kind, of |-> i] ELSE Nothing
      BY <1>2 DEF Owed
    <3> QED BY <3>1, <3>2
  <2> QED BY <2>1, <2>2
<1>3. CASE pieces[i].kind \notin Types /\ pieces[i].length > BufferSize
  BY <1>1, <1>3 DEF Allowed, Owed, FitsBuffer
<1>4. CASE pieces[i].kind \notin Types /\ ~(pieces[i].length > BufferSize)
  BY <1>1, <1>4 DEF Allowed, Owed, FitsBuffer
<1> QED BY <1>2, <1>3, <1>4

\* The calls go through the messages of a stream one by one, in order, whatever
\* the pieces of the stream and however many: the n-th call of readNextMessage
\* returns the n-th message as what it is, or an empty optional if it is corrupt
\* or foreign, provided that it fits the buffer; a longer one is not returned
\* as a message of the stream.  After a message has lost its front, what is
\* returned as a message still is that message, and none comes twice.
THEOREM AnswersComeInOrder == Spec => []AnswersInOrder
<1>1. ASSUME HandlerInv PROVE AnswersInOrder
  <2>1. LaidOut /\ GenuineAnswers /\ AnswersInStep /\ answers \in Seq(AnswerSet)
    BY <1>1 DEF HandlerInv, Typed, ReadTyped
  <2>2. ASSUME NEW i \in DOMAIN pieces
        PROVE  /\ pieces[i].length \in Int /\ i # 0
               /\ pieces[i].kind \in Types => FitsBuffer(i)
    <3>1. IsPiece(pieces[i]) /\ i # 0
      BY <2>1, PiecesAreThere
    <3>2. pieces[i].length \in Nat
      BY <3>1, PieceIs
    <3>3. ASSUME pieces[i].kind \in Types PROVE pieces[i].length \in 13..18
      BY <3>1, <3>3, PieceIs, MessageLengths
    <3> QED BY <3>1, <3>2, <3>3, LongestMessage DEF FitsBuffer
  <2>3. ASSUME NEW i \in Framed, Rank(i) \in DOMAIN answers
        PROVE  IF FitsBuffer(i) THEN answers[Rank(i)] = Owed(i) ELSE answers[Rank(i)].of = 0
    <3>1. answers[Rank(i)] \in Allowed(i) /\ i \in DOMAIN pieces
      BY <2>1, <2>3 DEF AnswersInStep, Framed, InStep
    <3> QED BY <2>2, <3>1, AllowedIsOwed
  <2>4. ASSUME NEW n \in DOMAIN answers, answers[n].of # 0
        PROVE  /\ answers[n] = Owed(answers[n].of)
               /\ \A m \in 1..(n - 1) : answers[m].of < answers[n].of
    <3>1. /\ answers[n] \in Allowed(answers[n].of)
          /\ \A m \in 1..(n - 1) : answers[m].of < answers[n].of
      BY <2>1, <2>4 DEF GenuineAnswers
    <3>2. answers[n].of \in DOMAIN pieces
      <4>1. answers[n] \in AnswerSet
        BY <2>1, <2>4
      <4>2. answers[n].of \in {0} \cup DOMAIN pieces
        BY <4>1, Zenon DEF AnswerSet
      <4> QED BY <2>4, <4>2
    <3>3. answers[n] = Owed(answers[n].of)
      <4> DEFINE i == answers[n].of
      <4> HIDE DEF i
      <4>1. /\ pieces[i].length \in Int /\ i # 0
            /\ pieces[i].kind \in Types => FitsBuffer(i)
        BY <2>2, <3>2 DEF i
      <4>2. answers[n] \in Allowed(i) /\ answers[n].of # 0
        BY <2>4, <3>1 DEF i
      <4>3. answers[n] = Owed(i)
        BY <4>1, <4>2, AllowedIsOwed
      <4> QED BY <4>3 DEF i
    <3> QED BY <3>1, <3>3
  <2> QED BY <2>3, <2>4 DEF AnswersInOrder
<1> QED BY <1>1, AlwaysHandlerInv, PTL

\* No call takes bytes of the message after the one it returns, however much
\* garbage scanForDelimiter has to search, and between calls the socket stands
\* at the end of a message.
THEOREM NothingIsReadAhead == Spec => []NeverReadsAhead
<1>1. ASSUME HandlerInv PROVE NeverReadsAhead
  <2>1. LaidOut /\ InSync /\ stage \in Stages /\ readIndex \in Nat /\ excessBytes \in Nat
    <3>1. LaidOut /\ InSync /\ stage \in Stages /\ readIndex \in 0..Len(memSpan)
          /\ excessBytes \in Nat
      BY <1>1 DEF HandlerInv, Typed, ReadTyped, LocalsTyped
    <3>2. Len(memSpan) \in Nat
      BY <3>1, PiecesAreThere
    <3> QED BY <3>1, <3>2
  <2>2. ASSUME NEW i \in Framed, Rank(i) = Called
        PROVE  readIndex <= EndOf(i) /\ (stage = "idle" => readIndex = EndOf(i))
    <3> DEFINE st == StartOf(i)
               e  == EndOf(i)
               L  == pieces[i].length
    <3>1. st \in Nat /\ L \in Nat /\ L >= 13 /\ e = st + L /\ e \in Nat
      BY <2>1, FramedPiece
    <3>2. AtMessage(i)
      BY <2>1, <2>2 DEF InSync
    <3>3. /\ stage \in {"idle", "header", "scan", "discard", "rest"}
          /\ stage = "idle" => readIndex = e
          /\ stage = "header" => readIndex <= st
          /\ stage = "scan" => readIndex - 5 <= st
          /\ stage \in {"discard", "rest"} =>
               /\ bytesRead \in 6..13 /\ msgLength = (IF L <= 18 THEN L ELSE 18)
               /\ (readIndex + excessBytes) + (msgLength - bytesRead) = e
      BY <2>1, <3>2 DEF AtMessage, Ahead, Measured, Stages
    <3> HIDE DEF st, e, L
    <3>4. CASE stage \in {"discard", "rest"}
      <4>1. msgLength - bytesRead \in Nat
        BY <3>1, <3>3, <3>4
      <4> DEFINE left == msgLength - bytesRead
      <4>2. left \in Nat /\ (readIndex + excessBytes) + left = e
        BY <3>3, <3>4, <4>1
      <4> HIDE DEF left
      <4>3. readIndex <= e
        BY <2>1, <3>1, <4>2
      <4> QED BY <3>4, <4>3 DEF e
    <3>5. CASE stage \in {"idle", "header", "scan"}
      <4>1. readIndex <= e
        BY <2>1, <3>1, <3>3, <3>5
      <4> QED BY <3>3, <4>1 DEF e
    <3> QED BY <3>3, <3>4, <3>5
  <2> QED BY <2>2 DEF NeverReadsAhead, Called
<1> QED BY <1>1, AlwaysHandlerInv, PTL

=============================================================================
