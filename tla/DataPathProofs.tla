--------------------------- MODULE DataPathProofs ---------------------------
(***************************************************************************)
(* Theorems about Secded, Handshake and DataPath.                          *)
(*                                                                         *)
(* The code.  A flip of data bit d changes the parity bits of Column(d),   *)
(* the bits of d's position; columns differ and are neither empty nor a    *)
(* single bit, and the overall parity tells one flip from two.  So a       *)
(* repair that sees the columns (Wrong) and the overall parity (Odd) finds *)
(* the flipped bit, or knows that there are two.  The eight masks of the   *)
(* 64-bit encoder are compared with the positions byte by byte.            *)
(*                                                                         *)
(* The loops.  LInv says where in its buffer each loop stands, and that a  *)
(* write loop has made at most one step per byte sent or retry used.       *)
(*                                                                         *)
(* The payload.  CInv names the sealed content G: each word that the codes *)
(* cover is that word of G, or one flip away, or two flips away with       *)
(* doubleHit on record; as long as no unsealed byte was hit, G is what the *)
(* client sent.                                                            *)
(*                                                                         *)
(* The gate.  More bytes never change a verdict of the parser other than   *)
(* "need more" (StatusGrows), so what it says of the bytes read so far it  *)
(* says of all the client sends.                                           *)
(***************************************************************************)
EXTENDS DataPath, TLAPS, FiniteSetTheorems

-----------------------------------------------------------------------------
(* Bytes and their bits *)

LEMMA TwoToValues ==
  /\ TwoTo(0) = 1 /\ TwoTo(1) = 2 /\ TwoTo(2) = 4 /\ TwoTo(3) = 8
  /\ TwoTo(4) = 16 /\ TwoTo(5) = 32 /\ TwoTo(6) = 64 /\ TwoTo(7) = 128
  /\ TwoTo(8) = 256
BY DEF TwoTo

LEMMA ByteBits ==
  ASSUME NEW v
  PROVE  /\ BitsOf(v) \subseteq 0..7
         /\ 0 \in BitsOf(v) <=> (v \div 1) % 2 = 1
         /\ 1 \in BitsOf(v) <=> (v \div 2) % 2 = 1
         /\ 2 \in BitsOf(v) <=> (v \div 4) % 2 = 1
         /\ 3 \in BitsOf(v) <=> (v \div 8) % 2 = 1
         /\ 4 \in BitsOf(v) <=> (v \div 16) % 2 = 1
         /\ 5 \in BitsOf(v) <=> (v \div 32) % 2 = 1
         /\ 6 \in BitsOf(v) <=> (v \div 64) % 2 = 1
         /\ 7 \in BitsOf(v) <=> (v \div 128) % 2 = 1
BY TwoToValues DEF BitsOf

\* What a bit of S adds to its byte.
Share(S, k) == IF k \in S THEN TwoTo(k) ELSE 0

LEMMA ValueShares ==
  ASSUME NEW S
  PROVE  Value(S) = Share(S, 0) + Share(S, 1) + Share(S, 2) + Share(S, 3)
                     + Share(S, 4) + Share(S, 5) + Share(S, 6) + Share(S, 7)
BY DEF Value, Share

LEMMA Shares ==
  ASSUME NEW S
  PROVE  /\ Share(S, 0) = IF 0 \in S THEN 1 ELSE 0
         /\ Share(S, 1) = IF 1 \in S THEN 2 ELSE 0
         /\ Share(S, 2) = IF 2 \in S THEN 4 ELSE 0
         /\ Share(S, 3) = IF 3 \in S THEN 8 ELSE 0
         /\ Share(S, 4) = IF 4 \in S THEN 16 ELSE 0
         /\ Share(S, 5) = IF 5 \in S THEN 32 ELSE 0
         /\ Share(S, 6) = IF 6 \in S THEN 64 ELSE 0
         /\ Share(S, 7) = IF 7 \in S THEN 128 ELSE 0
BY TwoToValues DEF Share

LEMMA ValueRange ==
  ASSUME NEW S
  PROVE  Value(S) \in 0..255
BY ValueShares, Shares

LEMMA ByteDigits ==
  ASSUME NEW v \in 0..255
  PROVE  v = ((v \div 1) % 2) + 2 * ((v \div 2) % 2) + 4 * ((v \div 4) % 2) + 8 * ((v \div 8) % 2)
              + 16 * ((v \div 16) % 2) + 32 * ((v \div 32) % 2) + 64 * ((v \div 64) % 2)
              + 128 * ((v \div 128) % 2)
<1>1. v \div 1 = 2 * (v \div 2) + ((v \div 1) % 2)
  OBVIOUS
<1>2. v \div 2 = 2 * (v \div 4) + ((v \div 2) % 2)
  OBVIOUS
<1>3. v \div 4 = 2 * (v \div 8) + ((v \div 4) % 2)
  OBVIOUS
<1>4. v \div 8 = 2 * (v \div 16) + ((v \div 8) % 2)
  OBVIOUS
<1>5. v \div 16 = 2 * (v \div 32) + ((v \div 16) % 2)
  OBVIOUS
<1>6. v \div 32 = 2 * (v \div 64) + ((v \div 32) % 2)
  OBVIOUS
<1>7. v \div 64 = 2 * (v \div 128) + ((v \div 64) % 2)
  OBVIOUS
<1>8. v \div 128 = (v \div 128) % 2 /\ v \div 1 = v
  OBVIOUS
<1>. QED
  BY <1>1, <1>2, <1>3, <1>4, <1>5, <1>6, <1>7, <1>8

LEMMA ValueOfBits ==
  ASSUME NEW v \in 0..255
  PROVE  Value(BitsOf(v)) = v
<1>. DEFINE B == BitsOf(v)
<1>1. Share(B, 0) = (v \div 1) % 2 /\ Share(B, 1) = 2 * ((v \div 2) % 2)
  BY Shares, ByteBits
<1>2. Share(B, 2) = 4 * ((v \div 4) % 2) /\ Share(B, 3) = 8 * ((v \div 8) % 2)
  BY Shares, ByteBits
<1>3. Share(B, 4) = 16 * ((v \div 16) % 2) /\ Share(B, 5) = 32 * ((v \div 32) % 2)
  BY Shares, ByteBits
<1>4. Share(B, 6) = 64 * ((v \div 64) % 2) /\ Share(B, 7) = 128 * ((v \div 128) % 2)
  BY Shares, ByteBits
<1>. HIDE DEF B
<1>5. Value(B) = v
  BY <1>1, <1>2, <1>3, <1>4, ValueShares, ByteDigits
<1>. QED
  BY <1>5 DEF B

\* v has the binary digits a (lowest) to h.
IsSum(v, a, b, c, d, e, f, g, h) ==
  v = a + 2 * b + 4 * c + 8 * d + 16 * e + 32 * f + 64 * g + 128 * h

LEMMA DigitsOfSum ==
  ASSUME NEW a \in 0..1, NEW b \in 0..1, NEW c \in 0..1, NEW d \in 0..1,
         NEW e \in 0..1, NEW f \in 0..1, NEW g \in 0..1, NEW h \in 0..1, NEW v \in Int,
         IsSum(v, a, b, c, d, e, f, g, h)
  PROVE  /\ (v \div 1) % 2 = a /\ (v \div 2) % 2 = b /\ (v \div 4) % 2 = c /\ (v \div 8) % 2 = d
         /\ (v \div 16) % 2 = e /\ (v \div 32) % 2 = f /\ (v \div 64) % 2 = g /\ (v \div 128) % 2 = h
<1>. USE DEF IsSum
<1>1. (v \div 1) % 2 = a
  OBVIOUS
<1>2. (v \div 2) % 2 = b
  <2>1. v \div 2 = b + 2 * c + 4 * d + 8 * e + 16 * f + 32 * g + 64 * h
    OBVIOUS
  <2>. QED
    BY <2>1
<1>3. (v \div 4) % 2 = c
  <2>1. v \div 4 = c + 2 * d + 4 * e + 8 * f + 16 * g + 32 * h
    OBVIOUS
  <2>. QED
    BY <2>1
<1>4. (v \div 8) % 2 = d
  <2>1. v \div 8 = d + 2 * e + 4 * f + 8 * g + 16 * h
    OBVIOUS
  <2>. QED
    BY <2>1
<1>5. (v \div 16) % 2 = e
  <2>1. v \div 16 = e + 2 * f + 4 * g + 8 * h
    OBVIOUS
  <2>. QED
    BY <2>1
<1>6. (v \div 32) % 2 = f
  <2>1. v \div 32 = f + 2 * g + 4 * h
    OBVIOUS
  <2>. QED
    BY <2>1
<1>7. (v \div 64) % 2 = g
  <2>1. v \div 64 = g + 2 * h
    OBVIOUS
  <2>. QED
    BY <2>1
<1>8. (v \div 128) % 2 = h
  <2>1. v \div 128 = h
    OBVIOUS
  <2>. QED
    BY <2>1
<1>. QED
  BY <1>1, <1>2, <1>3, <1>4, <1>5, <1>6, <1>7, <1>8

\* Bit k of S as a digit.
Digit(S, k) == IF k \in S THEN 1 ELSE 0

LEMMA BitsOfValue ==
  ASSUME NEW S \in SUBSET (0..7)
  PROVE  BitsOf(Value(S)) = S
<1>. DEFINE D(k) == Digit(S, k)
            v == Value(S)
<1>1. \A k \in 0..7 : D(k) \in 0..1
  BY DEF Digit
<1>2. IsSum(v, D(0), D(1), D(2), D(3), D(4), D(5), D(6), D(7))
  BY ValueShares, Shares DEF Digit, IsSum
<1>3. v \in Int
  BY ValueRange
<1>4. \A k \in 0..7 : D(k) = 1 <=> k \in S
  BY DEF Digit
<1>. HIDE DEF D, v
<1>5. D(0) \in 0..1 /\ D(1) \in 0..1 /\ D(2) \in 0..1 /\ D(3) \in 0..1
      /\ D(4) \in 0..1 /\ D(5) \in 0..1 /\ D(6) \in 0..1 /\ D(7) \in 0..1
  BY <1>1
<1>6. /\ (v \div 1) % 2 = D(0) /\ (v \div 2) % 2 = D(1) /\ (v \div 4) % 2 = D(2) /\ (v \div 8) % 2 = D(3)
      /\ (v \div 16) % 2 = D(4) /\ (v \div 32) % 2 = D(5) /\ (v \div 64) % 2 = D(6)
      /\ (v \div 128) % 2 = D(7)
  BY <1>2, <1>3, <1>5, DigitsOfSum
<1>7. \A k \in 0..7 : k \in BitsOf(v) <=> k \in S
  BY <1>4, <1>6, ByteBits
<1>8. BitsOf(v) = S
  BY <1>7, ByteBits
<1>. QED
  BY <1>8 DEF v

-----------------------------------------------------------------------------
(* Parity *)

LEMMA ParityRange ==
  ASSUME NEW S, IsFiniteSet(S)
  PROVE  Parity(S) \in {0, 1}
<1>1. Cardinality(S) \in Nat
  BY FS_CardinalityType
<1>. QED
  BY <1>1 DEF Parity

LEMMA EvenOdd ==
  ASSUME NEW c \in Nat
  PROVE  (c + 1) % 2 = 1 - (c % 2) /\ (c - 1) % 2 = 1 - (c % 2)
OBVIOUS

\* A flipped bit changes the parity.
LEMMA ParityFlips ==
  ASSUME NEW S, IsFiniteSet(S), NEW x
  PROVE  /\ IsFiniteSet(SymDiff(S, {x}))
         /\ Parity(SymDiff(S, {x})) = 1 - Parity(S)
<1>1. Cardinality(S) \in Nat
  BY FS_CardinalityType
<1>2. CASE x \in S
  <2>1. SymDiff(S, {x}) = S \ {x}
    BY <1>2 DEF SymDiff
  <2>2. IsFiniteSet(S \ {x}) /\ Cardinality(S \ {x}) = Cardinality(S) - 1
    BY <1>2, FS_RemoveElement
  <2>. QED
    BY <1>1, <2>1, <2>2, EvenOdd DEF Parity
<1>3. CASE x \notin S
  <2>1. SymDiff(S, {x}) = S \cup {x}
    BY <1>3 DEF SymDiff
  <2>2. IsFiniteSet(S \cup {x}) /\ Cardinality(S \cup {x}) = Cardinality(S) + 1
    BY <1>3, FS_AddElement
  <2>. QED
    BY <1>1, <2>1, <2>2, EvenOdd DEF Parity
<1>. QED
  BY <1>2, <1>3

\* ... of the bits a mask selects if it is one of them.
LEMMA MaskedParityFlips ==
  ASSUME NEW S, IsFiniteSet(S), NEW M, NEW x
  PROVE  Parity(SymDiff(S, {x}) \cap M)
           = IF x \in M THEN 1 - Parity(S \cap M) ELSE Parity(S \cap M)
<1>1. IsFiniteSet(S \cap M)
  BY FS_Intersection
<1>2. CASE x \in M
  <2>1. SymDiff(S, {x}) \cap M = SymDiff(S \cap M, {x})
    BY <1>2 DEF SymDiff
  <2>. QED
    BY <1>1, <1>2, <2>1, ParityFlips
<1>3. CASE x \notin M
  <2>1. SymDiff(S, {x}) \cap M = S \cap M
    BY <1>3 DEF SymDiff
  <2>. QED
    BY <1>3, <2>1
<1>. QED
  BY <1>2, <1>3

-----------------------------------------------------------------------------
(* The positions of the data bits *)

LEMMA PowersOfTwo ==
  ASSUME NEW v
  PROVE  IsPowerOfTwo(v) <=> v \in {1, 2, 4, 8, 16, 32, 64, 128}
<1>1. \A k \in 0..7 : \/ k = 0 \/ k = 1 \/ k = 2 \/ k = 3 \/ k = 4 \/ k = 5 \/ k = 6 \/ k = 7
  OBVIOUS
<1>2. IsPowerOfTwo(v) => v \in {1, 2, 4, 8, 16, 32, 64, 128}
  BY <1>1, TwoToValues DEF IsPowerOfTwo
<1>3. v \in {1, 2, 4, 8, 16, 32, 64, 128} => IsPowerOfTwo(v)
  BY TwoToValues DEF IsPowerOfTwo
<1>. QED
  BY <1>2, <1>3

\* ParityBits(n) = p if p is the first that is large enough.
LEMMA WidthParityBits ==
  /\ ParityBitsOf[16] = 5 /\ ParityBitsOf[32] = 6 /\ ParityBitsOf[64] = 7
  /\ TotalPositions(16) = 21 /\ TotalPositions(32) = 38 /\ TotalPositions(64) = 71
<1>. DEFINE Fits(n, p) == /\ p = 8 \/ TwoTo(p) >= n + p + 1
                          /\ \A q \in 1..(p - 1) : TwoTo(q) < n + q + 1
<1>0. \A p \in 1..8 : \/ p = 1 \/ p = 2 \/ p = 3 \/ p = 4 \/ p = 5 \/ p = 6 \/ p = 7 \/ p = 8
  OBVIOUS
<1>1. ParityBits(16) = 5
  <2>1. \A p \in 1..8 : Fits(16, p) <=> p = 5
    BY <1>0, TwoToValues
  <2>. QED
    BY <2>1 DEF ParityBits
<1>2. ParityBits(32) = 6
  <2>1. \A p \in 1..8 : Fits(32, p) <=> p = 6
    BY <1>0, TwoToValues
  <2>. QED
    BY <2>1 DEF ParityBits
<1>3. ParityBits(64) = 7
  <2>1. \A p \in 1..8 : Fits(64, p) <=> p = 7
    BY <1>0, TwoToValues
  <2>. QED
    BY <2>1 DEF ParityBits
<1>. QED
  BY <1>1, <1>2, <1>3 DEF ParityBitsOf, TotalPositions, Widths

\* The numbers up to m without the powers of two.
Plain(m) == ((((((1..m \ {1}) \ {2}) \ {4}) \ {8}) \ {16}) \ {32}) \ {64}

LEMMA PlainCount ==
  ASSUME NEW m \in 0..127
  PROVE  Cardinality(Plain(m)) =
           IF m < 1 THEN m ELSE IF m < 2 THEN m - 1 ELSE IF m < 4 THEN m - 2
           ELSE IF m < 8 THEN m - 3 ELSE IF m < 16 THEN m - 4 ELSE IF m < 32 THEN m - 5
           ELSE IF m < 64 THEN m - 6 ELSE m - 7
<1>. DEFINE A == 1..m
            B == A \ {1}
            C == B \ {2}
            D == C \ {4}
            E == D \ {8}
            F == E \ {16}
            G == F \ {32}
            H == G \ {64}
<1>1. IsFiniteSet(A) /\ Cardinality(A) = m
  <2>1. IsFiniteSet(1..m) /\ Cardinality(1..m) = IF 1 > m THEN 0 ELSE m - 1 + 1
    BY FS_Interval
  <2>. QED
    BY <2>1
<1>2. \A x \in Nat : /\ x \in A <=> 1 <= x /\ x <= m
                     /\ x \in B <=> 2 <= x /\ x <= m
                     /\ x \in C <=> 3 <= x /\ x <= m
                     /\ x > 4 => (x \in D <=> x <= m)
                     /\ x > 8 => (x \in E <=> x <= m)
                     /\ x > 16 => (x \in F <=> x <= m)
                     /\ x > 32 => (x \in G <=> x <= m)
  OBVIOUS
<1>. HIDE DEF A
<1>3. IsFiniteSet(B) /\ Cardinality(B) = IF 1 \in A THEN Cardinality(A) - 1 ELSE Cardinality(A)
  BY <1>1, FS_RemoveElement
<1>. HIDE DEF B
<1>4. IsFiniteSet(C) /\ Cardinality(C) = IF 2 \in B THEN Cardinality(B) - 1 ELSE Cardinality(B)
  BY <1>3, FS_RemoveElement
<1>. HIDE DEF C
<1>5. IsFiniteSet(D) /\ Cardinality(D) = IF 4 \in C THEN Cardinality(C) - 1 ELSE Cardinality(C)
  BY <1>4, FS_RemoveElement
<1>. HIDE DEF D
<1>6. IsFiniteSet(E) /\ Cardinality(E) = IF 8 \in D THEN Cardinality(D) - 1 ELSE Cardinality(D)
  BY <1>5, FS_RemoveElement
<1>. HIDE DEF E
<1>7. IsFiniteSet(F) /\ Cardinality(F) = IF 16 \in E THEN Cardinality(E) - 1 ELSE Cardinality(E)
  BY <1>6, FS_RemoveElement
<1>. HIDE DEF F
<1>8. IsFiniteSet(G) /\ Cardinality(G) = IF 32 \in F THEN Cardinality(F) - 1 ELSE Cardinality(F)
  BY <1>7, FS_RemoveElement
<1>. HIDE DEF G
<1>9. Cardinality(H) = IF 64 \in G THEN Cardinality(G) - 1 ELSE Cardinality(G)
  BY <1>8, FS_RemoveElement
<1>. HIDE DEF H
<1>10. /\ 1 \in A <=> 1 <= m
       /\ 2 \in B <=> 2 <= m
       /\ 4 \in C <=> 4 <= m
       /\ 8 \in D <=> 8 <= m
       /\ 16 \in E <=> 16 <= m
       /\ 32 \in F <=> 32 <= m
       /\ 64 \in G <=> 64 <= m
  BY <1>2
<1>11. Cardinality(H) =
           IF m < 1 THEN m ELSE IF m < 2 THEN m - 1 ELSE IF m < 4 THEN m - 2
           ELSE IF m < 8 THEN m - 3 ELSE IF m < 16 THEN m - 4 ELSE IF m < 32 THEN m - 5
           ELSE IF m < 64 THEN m - 6 ELSE m - 7
  BY <1>1, <1>3, <1>4, <1>5, <1>6, <1>7, <1>8, <1>9, <1>10
<1>. QED
  BY <1>11 DEF Plain, A, B, C, D, E, F, G, H

\* The position of data bit d.
Position(d) ==
  IF d < 1 THEN d + 3 ELSE IF d < 4 THEN d + 4 ELSE IF d < 11 THEN d + 5
  ELSE IF d < 26 THEN d + 6 ELSE IF d < 57 THEN d + 7 ELSE d + 8

LEMMA WidthSplit ==
  ASSUME NEW n \in Widths
  PROVE  n = 16 \/ n = 32 \/ n = 64
BY DEF Widths

LEMMA DataPositionsAre ==
  ASSUME NEW n \in Widths
  PROVE  DataPositions(n) = {q \in 1..TotalPositions(n) : q \notin {1, 2, 4, 8, 16, 32, 64}}
<1>1. TotalPositions(n) \in 0..71
  BY WidthSplit, WidthParityBits
<1>. QED
  BY <1>1, PowersOfTwo DEF DataPositions

LEMMA DataIndexIs ==
  ASSUME NEW n \in Widths, NEW pos \in DataPositions(n)
  PROVE  DataIndex[n][pos] =
           IF pos < 5 THEN pos - 3 ELSE IF pos < 9 THEN pos - 4 ELSE IF pos < 17 THEN pos - 5
           ELSE IF pos < 33 THEN pos - 6 ELSE IF pos < 65 THEN pos - 7 ELSE pos - 8
<1>1. pos \in 1..71 /\ pos <= TotalPositions(n) /\ pos \notin {1, 2, 4, 8, 16, 32, 64}
  BY DataPositionsAre, WidthSplit, WidthParityBits
<1>2. {q \in DataPositions(n) : q < pos} = Plain(pos - 1)
  <2>1. TotalPositions(n) \in Nat
    BY WidthSplit, WidthParityBits
  <2>. QED
    BY <1>1, <2>1, DataPositionsAre DEF Plain
<1>3. DataIndex[n][pos] = Cardinality(Plain(pos - 1))
  BY <1>2 DEF DataIndex
<1>4. pos - 1 \in 0..127
  BY <1>1
<1>. QED
  BY <1>1, <1>3, <1>4, PlainCount

LEMMA PositionOfIndex ==
  ASSUME NEW n \in Widths, NEW pos \in DataPositions(n)
  PROVE  DataIndex[n][pos] \in 0..(n - 1) /\ Position(DataIndex[n][pos]) = pos
<1>1. pos \in 1..TotalPositions(n) /\ pos \notin {1, 2, 4, 8, 16, 32, 64}
  BY DataPositionsAre
<1>. QED
  BY <1>1, DataIndexIs, WidthSplit, WidthParityBits DEF Position

LEMMA IndexOfPosition ==
  ASSUME NEW n \in Widths, NEW d \in 0..(n - 1)
  PROVE  Position(d) \in DataPositions(n) /\ DataIndex[n][Position(d)] = d
<1>1. Position(d) \in DataPositions(n)
  BY DataPositionsAre, WidthSplit, WidthParityBits DEF Position
<1>. QED
  BY <1>1, DataIndexIs, WidthSplit, WidthParityBits DEF Position

\* Parity bit i covers the data bits whose position has bit i.
LEMMA CoveredBitsAre ==
  ASSUME NEW n \in Widths, NEW i \in 0..6, NEW d \in 0..(n - 1)
  PROVE  d \in CoveredBits[n][i] <=> i \in BitsOf(Position(d))
<1>1. CoveredBits[n][i] = {DataIndex[n][pos] : pos \in {q \in DataPositions(n) : i \in BitsOf(q)}}
  BY DEF CoveredBits
<1>2. d \in CoveredBits[n][i] => i \in BitsOf(Position(d))
  BY <1>1, PositionOfIndex
<1>3. i \in BitsOf(Position(d)) => d \in CoveredBits[n][i]
  BY <1>1, IndexOfPosition
<1>. QED
  BY <1>2, <1>3

-----------------------------------------------------------------------------
(* The masks of the 64-bit code *)

LEMMA EightBits ==
  ASSUME NEW b \in 0..7
  PROVE  \/ b = 0 \/ b = 1 \/ b = 2 \/ b = 3 \/ b = 4 \/ b = 5 \/ b = 6 \/ b = 7
OBVIOUS

\* The bits of byte m of the mask of weight w, for the data bits d .. d + 7,
\* are those of that weight of their positions.
ByteAgrees(w, d, m) ==
  /\ (m \div 1) % 2 = (Position(d) \div w) % 2
  /\ (m \div 2) % 2 = (Position(d + 1) \div w) % 2
  /\ (m \div 4) % 2 = (Position(d + 2) \div w) % 2
  /\ (m \div 8) % 2 = (Position(d + 3) \div w) % 2
  /\ (m \div 16) % 2 = (Position(d + 4) \div w) % 2
  /\ (m \div 32) % 2 = (Position(d + 5) \div w) % 2
  /\ (m \div 64) % 2 = (Position(d + 6) \div w) % 2
  /\ (m \div 128) % 2 = (Position(d + 7) \div w) % 2

\* ... and so for all eight bytes of the mask, the highest first.
MaskAgrees(w, mask) ==
  /\ ByteAgrees(w, 56, mask[1]) /\ ByteAgrees(w, 48, mask[2])
  /\ ByteAgrees(w, 40, mask[3]) /\ ByteAgrees(w, 32, mask[4])
  /\ ByteAgrees(w, 24, mask[5]) /\ ByteAgrees(w, 16, mask[6])
  /\ ByteAgrees(w, 8, mask[7]) /\ ByteAgrees(w, 0, mask[8])

LEMMA Mask0 == MaskAgrees(1, ParityMasks[1])
<1>1. ByteAgrees(1, 56, 171) /\ ByteAgrees(1, 48, 85)
  BY DEF ByteAgrees, Position
<1>2. ByteAgrees(1, 40, 85) /\ ByteAgrees(1, 32, 85)
  BY DEF ByteAgrees, Position
<1>3. ByteAgrees(1, 24, 86) /\ ByteAgrees(1, 16, 170)
  BY DEF ByteAgrees, Position
<1>4. ByteAgrees(1, 8, 173) /\ ByteAgrees(1, 0, 91)
  BY DEF ByteAgrees, Position
<1>5. ParityMasks[1] = <<171, 85, 85, 85, 86, 170, 173, 91>>
  BY DEF ParityMasks
<1>. QED
  BY <1>1, <1>2, <1>3, <1>4, <1>5 DEF MaskAgrees

LEMMA Mask1 == MaskAgrees(2, ParityMasks[2])
<1>1. ByteAgrees(2, 56, 205) /\ ByteAgrees(2, 48, 153)
  BY DEF ByteAgrees, Position
<1>2. ByteAgrees(2, 40, 153) /\ ByteAgrees(2, 32, 153)
  BY DEF ByteAgrees, Position
<1>3. ByteAgrees(2, 24, 155) /\ ByteAgrees(2, 16, 51)
  BY DEF ByteAgrees, Position
<1>4. ByteAgrees(2, 8, 54) /\ ByteAgrees(2, 0, 109)
  BY DEF ByteAgrees, Position
<1>5. ParityMasks[2] = <<205, 153, 153, 153, 155, 51, 54, 109>>
  BY DEF ParityMasks
<1>. QED
  BY <1>1, <1>2, <1>3, <1>4, <1>5 DEF MaskAgrees

LEMMA Mask2 == MaskAgrees(4, ParityMasks[3])
<1>1. ByteAgrees(4, 56, 241) /\ ByteAgrees(4, 48, 225)
  BY DEF ByteAgrees, Position
<1>2. ByteAgrees(4, 40, 225) /\ ByteAgrees(4, 32, 225)
  BY DEF ByteAgrees, Position
<1>3. ByteAgrees(4, 24, 227) /\ ByteAgrees(4, 16, 195)
  BY DEF ByteAgrees, Position
<1>4. ByteAgrees(4, 8, 199) /\ ByteAgrees(4, 0, 142)
  BY DEF ByteAgrees, Position
<1>5. ParityMasks[3] = <<241, 225, 225, 225, 227, 195, 199, 142>>
  BY DEF ParityMasks
<1>. QED
  BY <1>1, <1>2, <1>3, <1>4, <1>5 DEF MaskAgrees

LEMMA Mask3 == MaskAgrees(8, ParityMasks[4])
<1>1. ByteAgrees(8, 56, 1) /\ ByteAgrees(8, 48, 254)
  BY DEF ByteAgrees, Position
<1>2. ByteAgrees(8, 40, 1) /\ ByteAgrees(8, 32, 254)
  BY DEF ByteAgrees, Position
<1>3. ByteAgrees(8, 24, 3) /\ ByteAgrees(8, 16, 252)
  BY DEF ByteAgrees, Position
<1>4. ByteAgrees(8, 8, 7) /\ ByteAgrees(8, 0, 240)
  BY DEF ByteAgrees, Position
<1>5. ParityMasks[4] = <<1, 254, 1, 254, 3, 252, 7, 240>>
  BY DEF ParityMasks
<1>. QED
  BY <1>1, <1>2, <1>3, <1>4, <1>5 DEF MaskAgrees

LEMMA Mask4 == MaskAgrees(16, ParityMasks[5])
<1>1. ByteAgrees(16, 56, 1) /\ ByteAgrees(16, 48, 255)
  BY DEF ByteAgrees, Position
<1>2. ByteAgrees(16, 40, 254) /\ ByteAgrees(16, 32, 0)
  BY DEF ByteAgrees, Position
<1>3. ByteAgrees(16, 24, 3) /\ ByteAgrees(16, 16, 255)
  BY DEF ByteAgrees, Position
<1>4. ByteAgrees(16, 8, 248) /\ ByteAgrees(16, 0, 0)
  BY DEF ByteAgrees, Position
<1>5. ParityMasks[5] = <<1, 255, 254, 0, 3, 255, 248, 0>>
  BY DEF ParityMasks
<1>. QED
  BY <1>1, <1>2, <1>3, <1>4, <1>5 DEF MaskAgrees

LEMMA Mask5 == MaskAgrees(32, ParityMasks[6])
<1>1. ByteAgrees(32, 56, 1) /\ ByteAgrees(32, 48, 255)
  BY DEF ByteAgrees, Position
<1>2. ByteAgrees(32, 40, 255) /\ ByteAgrees(32, 32, 255)
  BY DEF ByteAgrees, Position
<1>3. ByteAgrees(32, 24, 252) /\ ByteAgrees(32, 16, 0)
  BY DEF ByteAgrees, Position
<1>4. ByteAgrees(32, 8, 0) /\ ByteAgrees(32, 0, 0)
  BY DEF ByteAgrees, Position
<1>5. ParityMasks[6] = <<1, 255, 255, 255, 252, 0, 0, 0>>
  BY DEF ParityMasks
<1>. QED
  BY <1>1, <1>2, <1>3, <1>4, <1>5 DEF MaskAgrees

LEMMA Mask6 == MaskAgrees(64, ParityMasks[7])
<1>1. ByteAgrees(64, 56, 254) /\ ByteAgrees(64, 48, 0)
  BY DEF ByteAgrees, Position
<1>2. ByteAgrees(64, 40, 0) /\ ByteAgrees(64, 32, 0)
  BY DEF ByteAgrees, Position
<1>3. ByteAgrees(64, 24, 0) /\ ByteAgrees(64, 16, 0)
  BY DEF ByteAgrees, Position
<1>4. ByteAgrees(64, 8, 0) /\ ByteAgrees(64, 0, 0)
  BY DEF ByteAgrees, Position
<1>5. ParityMasks[7] = <<254, 0, 0, 0, 0, 0, 0, 0>>
  BY DEF ParityMasks
<1>. QED
  BY <1>1, <1>2, <1>3, <1>4, <1>5 DEF MaskAgrees

LEMMA MaskByteAgrees ==
  ASSUME NEW mask, NEW i \in 0..6, MaskAgrees(TwoTo(i), mask), NEW k \in 1..8
  PROVE  ByteAgrees(TwoTo(i), 64 - 8 * k, mask[k])
<1>1. k = 1 \/ k = 2 \/ k = 3 \/ k = 4 \/ k = 5 \/ k = 6 \/ k = 7 \/ k = 8
  OBVIOUS
<1>. QED
  BY <1>1 DEF MaskAgrees

LEMMA SelectedBits ==
  ASSUME NEW i \in 0..6, NEW d \in Nat, NEW m, ByteAgrees(TwoTo(i), d, m), NEW b \in 0..7
  PROVE  b \in BitsOf(m) <=> i \in BitsOf(Position(d + b))
<1>1. i \in BitsOf(Position(d + b)) <=> (Position(d + b) \div TwoTo(i)) % 2 = 1
  BY DEF BitsOf
<1>2. b \in BitsOf(m) <=> (m \div TwoTo(b)) % 2 = 1
  BY DEF BitsOf
<1>3. (m \div TwoTo(b)) % 2 = (Position(d + b) \div TwoTo(i)) % 2
  <2>1. CASE b = 0
    BY <2>1, TwoToValues DEF ByteAgrees
  <2>2. CASE b = 1
    BY <2>2, TwoToValues DEF ByteAgrees
  <2>3. CASE b = 2
    BY <2>3, TwoToValues DEF ByteAgrees
  <2>4. CASE b = 3
    BY <2>4, TwoToValues DEF ByteAgrees
  <2>5. CASE b = 4
    BY <2>5, TwoToValues DEF ByteAgrees
  <2>6. CASE b = 5
    BY <2>6, TwoToValues DEF ByteAgrees
  <2>7. CASE b = 6
    BY <2>7, TwoToValues DEF ByteAgrees
  <2>8. CASE b = 7
    BY <2>8, TwoToValues DEF ByteAgrees
  <2>. QED
    BY <2>1, <2>2, <2>3, <2>4, <2>5, <2>6, <2>7, <2>8, EightBits
<1>. QED
  BY <1>1, <1>2, <1>3

LEMMA MasksAre ==
  ASSUME NEW i \in 0..6, NEW d \in 0..63
  PROVE  d \in ParityMaskBits[i] <=> i \in BitsOf(Position(d))
<1>. DEFINE k == 8 - (d \div 8)
            b == d % 8
            m == ParityMasks[i + 1]
<1>1. k \in 1..8 /\ b \in 0..7 /\ d = 64 - 8 * k + b /\ 64 - 8 * k \in Nat
  OBVIOUS
<1>2. MaskAgrees(TwoTo(i), m)
  <2>1. i = 0 \/ i = 1 \/ i = 2 \/ i = 3 \/ i = 4 \/ i = 5 \/ i = 6
    OBVIOUS
  <2>. QED
    BY <2>1, TwoToValues, Mask0, Mask1, Mask2, Mask3, Mask4, Mask5, Mask6
<1>4. ParityMaskBits[i] = UNION {{8 * (8 - j) + c : c \in BitsOf(m[j])} : j \in 1..8}
  BY DEF ParityMaskBits
<1>5. d \in ParityMaskBits[i] <=> \E j \in 1..8 : \E c \in BitsOf(m[j]) : d = 8 * (8 - j) + c
  BY <1>4
<1>6. \A j \in 1..8 : \A c \in BitsOf(m[j]) : d = 8 * (8 - j) + c => j = k /\ c = b
  <2>1. \A j \in 1..8 : BitsOf(m[j]) \subseteq 0..7
    BY ByteBits
  <2>2. \A j \in 1..8 : \A c \in 0..7 : d = 8 * (8 - j) + c => j = k /\ c = b
    OBVIOUS
  <2>. QED
    BY <2>1, <2>2
<1>7. d = 8 * (8 - k) + b
  BY <1>1
<1>. HIDE DEF k, b, m
<1>3. b \in BitsOf(m[k]) <=> i \in BitsOf(Position(64 - 8 * k + b))
  <2>1. ByteAgrees(TwoTo(i), 64 - 8 * k, m[k])
    BY <1>1, <1>2, MaskByteAgrees
  <2>. QED
    BY <1>1, <2>1, SelectedBits
<1>8. d \in ParityMaskBits[i] <=> b \in BitsOf(m[k])
  BY <1>1, <1>5, <1>6, <1>7
<1>. QED
  BY <1>1, <1>3, <1>8

-----------------------------------------------------------------------------
(* The code *)

\* The parity bits of the positional code, without the overall bit, and their values.
HammingBits(n) == 0..(ParityBitsOf[n] - 1)
Hamming(data, n) == {i \in HammingBits(n) : Parity(data \cap CoveredBits[n][i]) = 1}
\* The parity bits that data bit d is in.
Column(d) == BitsOf(Position(d))

LEMMA HammingBitsIn ==
  ASSUME NEW n \in Widths
  PROVE  HammingBits(n) \subseteq 0..6
BY WidthSplit, WidthParityBits DEF HammingBits

LEMMA DataFinite ==
  ASSUME NEW n \in Widths, NEW data \in SUBSET (0..(n - 1))
  PROVE  IsFiniteSet(data)
<1>1. n - 1 \in Int
  BY WidthSplit
<1>2. IsFiniteSet(0..(n - 1))
  BY <1>1, FS_Interval
<1>. QED
  BY <1>2, FS_Subset

LEMMA EccFinite ==
  ASSUME NEW code \in SUBSET (0..7)
  PROVE  IsFiniteSet(code)
<1>1. code \in SUBSET Nat /\ \A s \in code : s <= 7
  OBVIOUS
<1>. QED
  BY <1>1, FS_BoundedSetOfNaturals

\* The masks of the 64-bit code select what the positions say.
LEMMA EncodeIs ==
  ASSUME NEW n \in Widths, NEW data \in SUBSET (0..(n - 1))
  PROVE  /\ Encode(data, n) = WithOverall(data, Hamming(data, n))
         /\ Encode(data, n) = EncodePositional(data, n)
<1>1. EncodePositional(data, n) = WithOverall(data, Hamming(data, n))
  BY DEF EncodePositional, Hamming, HammingBits
<1>2. CASE n = 64
  <2>1. \A i \in 0..6 : data \cap ParityMaskBits[i] = data \cap CoveredBits[64][i]
    <3>1. TAKE i \in 0..6
    <3>2. \A d \in data : d \in 0..63
      BY <1>2
    <3>3. 64 \in Widths /\ 64 - 1 = 63
      BY DEF Widths
    <3>4. \A d \in data : d \in ParityMaskBits[i] <=> d \in CoveredBits[64][i]
      BY <3>2, <3>3, MasksAre, CoveredBitsAre
    <3>. QED
      BY <3>4
  <2>2. HammingBits(64) = 0..6
    BY WidthParityBits DEF HammingBits
  <2>3. Hamming(data, 64) = {i \in 0..6 : Parity(data \cap ParityMaskBits[i]) = 1}
    BY <2>1, <2>2 DEF Hamming
  <2>. QED
    BY <1>1, <1>2, <2>3 DEF Encode, EncodeFull
<1>3. CASE n # 64
  <2>1. data \cap 0..(n - 1) = data
    OBVIOUS
  <2>. QED
    BY <1>1, <1>3, <2>1 DEF Encode
<1>. QED
  BY <1>2, <1>3

LEMMA ColumnIn ==
  ASSUME NEW n \in Widths, NEW d \in 0..(n - 1)
  PROVE  Column(d) \subseteq HammingBits(n)
<1>1. Position(d) \in 0..TotalPositions(n)
  BY IndexOfPosition DEF DataPositions
<1>2. n = 16 => Position(d) \in 0..31
  BY <1>1, WidthParityBits
<1>3. n = 32 => Position(d) \in 0..63
  BY <1>1, WidthParityBits
<1>4. n = 64 => Position(d) \in 0..127
  BY <1>1, WidthParityBits
<1>. DEFINE p == Position(d)
<1>. HIDE DEF p
<1>5. p \in 0..31 => 5 \notin BitsOf(p)
  BY ByteBits
<1>6. p \in 0..63 => 6 \notin BitsOf(p)
  BY ByteBits
<1>7. p \in 0..127 => 7 \notin BitsOf(p)
  BY ByteBits
<1>8. BitsOf(p) \subseteq 0..7
  BY ByteBits
<1>9. CASE n = 16
  BY <1>2, <1>5, <1>6, <1>7, <1>8, <1>9, WidthParityBits DEF HammingBits, Column, p
<1>10. CASE n = 32
  BY <1>3, <1>6, <1>7, <1>8, <1>10, WidthParityBits DEF HammingBits, Column, p
<1>11. CASE n = 64
  BY <1>4, <1>7, <1>8, <1>11, WidthParityBits DEF HammingBits, Column, p
<1>. QED
  BY <1>9, <1>10, <1>11, WidthSplit

LEMMA HammingFlips ==
  ASSUME NEW n \in Widths, NEW data \in SUBSET (0..(n - 1)), NEW d \in 0..(n - 1)
  PROVE  Hamming(SymDiff(data, {d}), n) = SymDiff(Hamming(data, n), Column(d))
<1>1. IsFiniteSet(data)
  BY DataFinite
<1>2. \A i \in HammingBits(n) : d \in CoveredBits[n][i] <=> i \in Column(d)
  BY HammingBitsIn, CoveredBitsAre DEF Column
<1>3. \A i \in HammingBits(n) :
        Parity(SymDiff(data, {d}) \cap CoveredBits[n][i])
          = IF i \in Column(d) THEN 1 - Parity(data \cap CoveredBits[n][i])
            ELSE Parity(data \cap CoveredBits[n][i])
  BY <1>1, <1>2, MaskedParityFlips
<1>4. \A i \in HammingBits(n) : Parity(data \cap CoveredBits[n][i]) \in {0, 1}
  BY <1>1, FS_Intersection, ParityRange
<1>5. \A i \in HammingBits(n) :
        i \in Hamming(SymDiff(data, {d}), n) <=> (i \in Hamming(data, n) <=> i \notin Column(d))
  <2>1. TAKE i \in HammingBits(n)
  <2>. DEFINE p == Parity(data \cap CoveredBits[n][i])
              q == Parity(SymDiff(data, {d}) \cap CoveredBits[n][i])
  <2>2. q = (IF i \in Column(d) THEN 1 - p ELSE p) /\ p \in {0, 1}
    BY <1>3, <1>4
  <2>3. (i \in Hamming(data, n) <=> p = 1) /\ (i \in Hamming(SymDiff(data, {d}), n) <=> q = 1)
    BY DEF Hamming
  <2>. HIDE DEF p, q
  <2>. QED
    BY <2>2, <2>3
<1>6. Column(d) \subseteq HammingBits(n)
  BY ColumnIn
<1>7. /\ Hamming(SymDiff(data, {d}), n) \subseteq HammingBits(n)
      /\ Hamming(data, n) \subseteq HammingBits(n)
  BY DEF Hamming
<1>. HIDE DEF Hamming
<1>. QED
  BY <1>5, <1>6, <1>7 DEF SymDiff

-----------------------------------------------------------------------------
(* Flipped code bits *)

\* What a repair looks at: the parity bits that differ, and the overall parity.
Wrong(data, code, n) == SymDiff(Hamming(data, n), code \cap HammingBits(n))
Odd(data, code, n) ==
  (Parity(data) + Parity(code \cap HammingBits(n)) + Digit(code, OverallBit)) % 2

LEMMA EncodeBits ==
  ASSUME NEW n \in Widths, NEW data \in SUBSET (0..(n - 1))
  PROVE  /\ Encode(data, n) \subseteq 0..7
         /\ Encode(data, n) \cap HammingBits(n) = Hamming(data, n)
         /\ Digit(Encode(data, n), OverallBit)
              = IF Parity(data) # Parity(Hamming(data, n)) THEN 1 ELSE 0
<1>1. Encode(data, n) = WithOverall(data, Hamming(data, n))
  BY EncodeIs
<1>2. Hamming(data, n) \subseteq HammingBits(n) /\ HammingBits(n) \subseteq 0..6
  BY HammingBitsIn DEF Hamming
<1>. HIDE DEF Hamming, HammingBits
<1>. QED
  BY <1>1, <1>2 DEF WithOverall, OverallBit, Digit

LEMMA CodewordClean ==
  ASSUME NEW n \in Widths, NEW data \in SUBSET (0..(n - 1))
  PROVE  Wrong(data, Encode(data, n), n) = {} /\ Odd(data, Encode(data, n), n) = 0
<1>1. Wrong(data, Encode(data, n), n) = {}
  BY EncodeBits DEF Wrong, SymDiff
<1>2. Parity(data) \in {0, 1}
  BY DataFinite, ParityRange
<1>3. Parity(Hamming(data, n)) \in {0, 1}
  <2>1. Hamming(data, n) \in SUBSET (0..7)
    BY HammingBitsIn DEF Hamming
  <2>. QED
    BY <2>1, EccFinite, ParityRange
<1>4. Odd(data, Encode(data, n), n) = 0
  <2>. DEFINE p == Parity(data)
              q == Parity(Hamming(data, n))
  <2>1. Odd(data, Encode(data, n), n) = (p + q + (IF p # q THEN 1 ELSE 0)) % 2
    BY EncodeBits DEF Odd
  <2>. HIDE DEF p, q
  <2>2. p \in {0, 1} /\ q \in {0, 1}
    BY <1>2, <1>3 DEF p, q
  <2>. QED
    BY <2>1, <2>2
<1>. QED
  BY <1>1, <1>4

LEMMA RepairIs ==
  ASSUME NEW n \in Widths, NEW data \in SUBSET (0..(n - 1)), NEW code \in SUBSET (0..7)
  PROVE  Repair(data, n, code)
           = ApplyRepair(data, code, n, Encode(data, n), Value(Wrong(data, code, n)),
                         Odd(data, code, n) = 1)
<1>1. data \cap 0..(n - 1) = data
  OBVIOUS
<1>2. SymDiff(Encode(data, n), code \cap HammingBits(n)) \cap HammingBits(n) = Wrong(data, code, n)
  BY EncodeBits DEF Wrong, SymDiff
<1>. QED
  BY <1>1, <1>2 DEF Repair, Odd, Digit, HammingBits

\* The three kinds of code bits.
LEMMA DataFlip ==
  ASSUME NEW n \in Widths, NEW data \in SUBSET (0..(n - 1)), NEW code \in SUBSET (0..7),
         NEW d \in 0..(n - 1)
  PROVE  /\ Wrong(SymDiff(data, {d}), code, n) = SymDiff(Wrong(data, code, n), Column(d))
         /\ Odd(SymDiff(data, {d}), code, n) = 1 - Odd(data, code, n)
<1>1. Wrong(SymDiff(data, {d}), code, n) = SymDiff(Wrong(data, code, n), Column(d))
  BY HammingFlips DEF Wrong, SymDiff
<1>2. Parity(SymDiff(data, {d})) = 1 - Parity(data) /\ Parity(data) \in {0, 1}
  BY DataFinite, ParityFlips, ParityRange
<1>3. Parity(code \cap HammingBits(n)) \in {0, 1}
  BY EccFinite, ParityRange
<1>4. Digit(code, OverallBit) \in {0, 1}
  BY DEF Digit
<1>5. Odd(SymDiff(data, {d}), code, n) = 1 - Odd(data, code, n)
  <2>. DEFINE p == Parity(data)
              q == Parity(code \cap HammingBits(n))
              o == Digit(code, OverallBit)
  <2>1. Odd(SymDiff(data, {d}), code, n) = (1 - p + q + o) % 2 /\ Odd(data, code, n) = (p + q + o) % 2
    BY <1>2 DEF Odd
  <2>2. p \in {0, 1} /\ q \in {0, 1} /\ o \in {0, 1}
    BY <1>2, <1>3, <1>4
  <2>. HIDE DEF p, q, o
  <2>. QED
    BY <2>1, <2>2
<1>. QED
  BY <1>1, <1>5

LEMMA HammingFlip ==
  ASSUME NEW n \in Widths, NEW data \in SUBSET (0..(n - 1)), NEW code \in SUBSET (0..7),
         NEW i \in HammingBits(n)
  PROVE  /\ Wrong(data, SymDiff(code, {i}), n) = SymDiff(Wrong(data, code, n), {i})
         /\ Odd(data, SymDiff(code, {i}), n) = 1 - Odd(data, code, n)
<1>0. SymDiff(code, {i}) \cap HammingBits(n) = SymDiff(code \cap HammingBits(n), {i})
  BY DEF SymDiff
<1>1. Wrong(data, SymDiff(code, {i}), n) = SymDiff(Wrong(data, code, n), {i})
  BY <1>0 DEF Wrong, SymDiff
<1>2. Parity(data) \in {0, 1}
  BY DataFinite, ParityRange
<1>3. /\ Parity(code \cap HammingBits(n)) \in {0, 1}
      /\ Parity(SymDiff(code, {i}) \cap HammingBits(n)) = 1 - Parity(code \cap HammingBits(n))
  <2>1. IsFiniteSet(code \cap HammingBits(n))
    BY EccFinite
  <2>. QED
    BY <1>0, <2>1, ParityRange, ParityFlips
<1>4. Digit(code, OverallBit) \in {0, 1} /\ Digit(SymDiff(code, {i}), OverallBit) = Digit(code, OverallBit)
  BY HammingBitsIn DEF Digit, OverallBit, SymDiff
<1>5. Odd(data, SymDiff(code, {i}), n) = 1 - Odd(data, code, n)
  <2>. DEFINE p == Parity(data)
              q == Parity(code \cap HammingBits(n))
              o == Digit(code, OverallBit)
  <2>1. Odd(data, SymDiff(code, {i}), n) = (p + (1 - q) + o) % 2 /\ Odd(data, code, n) = (p + q + o) % 2
    BY <1>3, <1>4 DEF Odd
  <2>2. p \in {0, 1} /\ q \in {0, 1} /\ o \in {0, 1}
    BY <1>2, <1>3, <1>4
  <2>. HIDE DEF p, q, o
  <2>. QED
    BY <2>1, <2>2
<1>. QED
  BY <1>1, <1>5

LEMMA OverallFlip ==
  ASSUME NEW n \in Widths, NEW data \in SUBSET (0..(n - 1)), NEW code \in SUBSET (0..7)
  PROVE  /\ Wrong(data, SymDiff(code, {OverallBit}), n) = Wrong(data, code, n)
         /\ Odd(data, SymDiff(code, {OverallBit}), n) = 1 - Odd(data, code, n)
<1>1. SymDiff(code, {OverallBit}) \cap HammingBits(n) = code \cap HammingBits(n)
  BY HammingBitsIn DEF SymDiff, OverallBit
<1>2. Wrong(data, SymDiff(code, {OverallBit}), n) = Wrong(data, code, n)
  BY <1>1 DEF Wrong
<1>3. Parity(data) \in {0, 1}
  BY DataFinite, ParityRange
<1>4. Parity(code \cap HammingBits(n)) \in {0, 1}
  BY EccFinite, ParityRange
<1>5. /\ Digit(code, OverallBit) \in {0, 1}
      /\ Digit(SymDiff(code, {OverallBit}), OverallBit) = 1 - Digit(code, OverallBit)
  BY DEF Digit, SymDiff
<1>6. Odd(data, SymDiff(code, {OverallBit}), n) = 1 - Odd(data, code, n)
  <2>. DEFINE p == Parity(data)
              q == Parity(code \cap HammingBits(n))
              o == Digit(code, OverallBit)
  <2>1. /\ Odd(data, SymDiff(code, {OverallBit}), n) = (p + q + (1 - o)) % 2
        /\ Odd(data, code, n) = (p + q + o) % 2
    BY <1>1, <1>5 DEF Odd
  <2>2. p \in {0, 1} /\ q \in {0, 1} /\ o \in {0, 1}
    BY <1>3, <1>4, <1>5
  <2>. HIDE DEF p, q, o
  <2>. QED
    BY <2>1, <2>2
<1>. QED
  BY <1>2, <1>6

\* The code bit f flips in data and code.
FlipData(data, f) == IF f[1] = "data" THEN SymDiff(data, {f[2]}) ELSE data
FlipCode(code, f) == IF f[1] = "ecc" THEN SymDiff(code, {f[2]}) ELSE code
\* The parity bits that then differ from the recomputed ones.
ColumnOf(f) ==
  IF f[1] = "data" THEN Column(f[2]) ELSE IF f[2] = OverallBit THEN {} ELSE {f[2]}

\* The two kinds of code bits.
IsDataBit(f, n) == f[1] = "data" /\ f[2] \in 0..(n - 1)
IsCodeBit(f, n) == f[1] = "ecc" /\ f[2] \in HammingBits(n) \cup {OverallBit}

LEMMA CodeBitsAre ==
  ASSUME NEW n, NEW f \in CodeBits(n)
  PROVE  /\ IsDataBit(f, n) \/ IsCodeBit(f, n)
         /\ f = <<f[1], f[2]>>
<1>1. (\E i \in 0..(n - 1) : f = <<"data", i>>)
        \/ (\E i \in HammingBits(n) \cup {OverallBit} : f = <<"ecc", i>>)
  BY DEF CodeBits, HammingBits
<1>2. ASSUME NEW i \in 0..(n - 1), f = <<"data", i>>
      PROVE  IsDataBit(f, n) /\ f = <<f[1], f[2]>>
  BY <1>2 DEF IsDataBit
<1>3. ASSUME NEW i \in HammingBits(n) \cup {OverallBit}, f = <<"ecc", i>>
      PROVE  IsCodeBit(f, n) /\ f = <<f[1], f[2]>>
  BY <1>3 DEF IsCodeBit
<1>. QED
  BY <1>1, <1>2, <1>3

LEMMA FlipTypes ==
  ASSUME NEW n \in Widths, NEW f \in CodeBits(n),
         NEW data \in SUBSET (0..(n - 1)), NEW code \in SUBSET (0..7)
  PROVE  FlipData(data, f) \in SUBSET (0..(n - 1)) /\ FlipCode(code, f) \in SUBSET (0..7)
<1>1. CASE IsDataBit(f, n)
  BY <1>1 DEF IsDataBit, FlipData, FlipCode, SymDiff
<1>2. CASE IsCodeBit(f, n)
  <2>1. f[2] \in 0..7
    BY <1>2, HammingBitsIn DEF IsCodeBit, OverallBit
  <2>. QED
    BY <1>2, <2>1 DEF IsCodeBit, FlipData, FlipCode, SymDiff
<1>. QED
  BY <1>1, <1>2, CodeBitsAre

LEMMA CodeBitFlip ==
  ASSUME NEW n \in Widths, NEW f \in CodeBits(n),
         NEW data \in SUBSET (0..(n - 1)), NEW code \in SUBSET (0..7)
  PROVE  /\ Wrong(FlipData(data, f), FlipCode(code, f), n)
              = SymDiff(Wrong(data, code, n), ColumnOf(f))
         /\ Odd(FlipData(data, f), FlipCode(code, f), n) = 1 - Odd(data, code, n)
<1>1. CASE IsDataBit(f, n)
  <2>1. FlipData(data, f) = SymDiff(data, {f[2]}) /\ FlipCode(code, f) = code
        /\ ColumnOf(f) = Column(f[2]) /\ f[2] \in 0..(n - 1)
    BY <1>1 DEF IsDataBit, FlipData, FlipCode, ColumnOf
  <2>. QED
    BY <2>1, DataFlip
<1>2. CASE IsCodeBit(f, n) /\ f[2] = OverallBit
  <2>1. FlipData(data, f) = data /\ FlipCode(code, f) = SymDiff(code, {OverallBit})
        /\ ColumnOf(f) = {}
    BY <1>2 DEF IsCodeBit, FlipData, FlipCode, ColumnOf
  <2>2. SymDiff(Wrong(data, code, n), {}) = Wrong(data, code, n)
    BY DEF SymDiff
  <2>. QED
    BY <2>1, <2>2, OverallFlip
<1>3. CASE IsCodeBit(f, n) /\ f[2] # OverallBit
  <2>1. FlipData(data, f) = data /\ FlipCode(code, f) = SymDiff(code, {f[2]})
        /\ ColumnOf(f) = {f[2]} /\ f[2] \in HammingBits(n)
    BY <1>3 DEF IsCodeBit, FlipData, FlipCode, ColumnOf
  <2>. QED
    BY <2>1, HammingFlip
<1>. QED
  BY <1>1, <1>2, <1>3, CodeBitsAre

\* The number a column stands for: the position of a data bit, a power of two
\* for a parity bit, zero for the overall bit.
ColumnValue(f) ==
  IF f[1] = "data" THEN Position(f[2]) ELSE IF f[2] = OverallBit THEN 0 ELSE TwoTo(f[2])

LEMMA DataColumnValue ==
  ASSUME NEW n \in Widths, NEW d \in 0..(n - 1)
  PROVE  /\ Value(Column(d)) = Position(d)
         /\ Position(d) \in 3..TotalPositions(n)
         /\ ~IsPowerOfTwo(Position(d))
         /\ DataIndex[n][Position(d)] = d
<1>1. Position(d) \in DataPositions(n) /\ DataIndex[n][Position(d)] = d
  BY IndexOfPosition
<1>2. Position(d) \in 1..TotalPositions(n) /\ ~IsPowerOfTwo(Position(d)) /\ Position(d) \notin {1, 2}
  BY <1>1, DataPositionsAre DEF DataPositions
<1>3. TotalPositions(n) \in 0..71
  BY WidthSplit, WidthParityBits
<1>4. Position(d) \in 0..255
  BY <1>2, <1>3
<1>. QED
  BY <1>1, <1>2, <1>3, <1>4, ValueOfBits DEF Column

LEMMA SingletonValue ==
  ASSUME NEW i \in 0..6
  PROVE  Value({i}) = TwoTo(i)
<1>1. i = 0 \/ i = 1 \/ i = 2 \/ i = 3 \/ i = 4 \/ i = 5 \/ i = 6
  OBVIOUS
<1>. QED
  BY <1>1, ValueShares, Shares, TwoToValues

LEMMA EmptyValue == Value({}) = 0
BY ValueShares, Shares

LEMMA ColumnValues ==
  ASSUME NEW n \in Widths, NEW f \in CodeBits(n)
  PROVE  /\ ColumnOf(f) \in SUBSET (0..7)
         /\ Value(ColumnOf(f)) = ColumnValue(f)
<1>1. CASE IsDataBit(f, n)
  <2>1. ColumnOf(f) = Column(f[2]) /\ ColumnValue(f) = Position(f[2]) /\ f[2] \in 0..(n - 1)
    BY <1>1 DEF IsDataBit, ColumnOf, ColumnValue
  <2>2. Column(f[2]) \in SUBSET (0..7)
    BY ByteBits DEF Column
  <2>. QED
    BY <2>1, <2>2, DataColumnValue
<1>2. CASE IsCodeBit(f, n) /\ f[2] = OverallBit
  <2>1. ColumnOf(f) = {} /\ ColumnValue(f) = 0
    BY <1>2 DEF IsCodeBit, ColumnOf, ColumnValue
  <2>. QED
    BY <2>1, EmptyValue
<1>3. CASE IsCodeBit(f, n) /\ f[2] # OverallBit
  <2>1. ColumnOf(f) = {f[2]} /\ ColumnValue(f) = TwoTo(f[2]) /\ f[2] \in 0..6
    BY <1>3, HammingBitsIn DEF IsCodeBit, ColumnOf, ColumnValue
  <2>. QED
    BY <2>1, SingletonValue
<1>. QED
  BY <1>1, <1>2, <1>3, CodeBitsAre

LEMMA ColumnsDiffer ==
  ASSUME NEW n \in Widths, NEW f \in CodeBits(n), NEW g \in CodeBits(n), f # g
  PROVE  ColumnOf(f) # ColumnOf(g)
<1>. DEFINE v(h) == ColumnValue(h)
<1>1. \A h \in CodeBits(n) : IsDataBit(h, n) =>
        /\ v(h) = Position(h[2]) /\ v(h) \in Nat /\ v(h) > 0 /\ ~IsPowerOfTwo(v(h))
        /\ DataIndex[n][v(h)] = h[2]
  <2>. SUFFICES ASSUME NEW h \in CodeBits(n), IsDataBit(h, n)
                PROVE  /\ v(h) = Position(h[2]) /\ v(h) \in Nat /\ v(h) > 0
                       /\ ~IsPowerOfTwo(v(h)) /\ DataIndex[n][v(h)] = h[2]
    OBVIOUS
  <2>1. v(h) = Position(h[2]) /\ h[2] \in 0..(n - 1)
    BY DEF IsDataBit, ColumnValue
  <2>2. TotalPositions(n) \in Nat
    BY WidthSplit, WidthParityBits
  <2>. QED
    BY <2>1, <2>2, DataColumnValue
<1>2. \A h \in CodeBits(n) : IsCodeBit(h, n) /\ h[2] # OverallBit =>
        /\ IsPowerOfTwo(v(h)) /\ v(h) = TwoTo(h[2]) /\ h[2] \in 0..6 /\ v(h) # 0
  <2>. SUFFICES ASSUME NEW h \in CodeBits(n), IsCodeBit(h, n), h[2] # OverallBit
                PROVE  IsPowerOfTwo(v(h)) /\ v(h) = TwoTo(h[2]) /\ h[2] \in 0..6 /\ v(h) # 0
    OBVIOUS
  <2>1. v(h) = TwoTo(h[2]) /\ h[2] \in 0..6
    BY HammingBitsIn DEF IsCodeBit, ColumnValue
  <2>2. h[2] = 0 \/ h[2] = 1 \/ h[2] = 2 \/ h[2] = 3 \/ h[2] = 4 \/ h[2] = 5 \/ h[2] = 6
    BY <2>1
  <2>3. IsPowerOfTwo(v(h))
    BY <2>1 DEF IsPowerOfTwo
  <2>. QED
    BY <2>1, <2>2, <2>3, TwoToValues
<1>3. \A h \in CodeBits(n) : IsCodeBit(h, n) /\ h[2] = OverallBit => v(h) = 0
  BY DEF IsCodeBit, ColumnValue
<1>4. \A h \in CodeBits(n) : /\ IsDataBit(h, n) \/ IsCodeBit(h, n)
                             /\ h = <<h[1], h[2]>> /\ Value(ColumnOf(h)) = v(h)
  BY CodeBitsAre, ColumnValues
<1>5. ~IsPowerOfTwo(0)
  BY PowersOfTwo
<1>6. \A i, j \in 0..6 : TwoTo(i) = TwoTo(j) => i = j
  <2>1. TAKE i, j \in 0..6
  <2>2. i = 0 \/ i = 1 \/ i = 2 \/ i = 3 \/ i = 4 \/ i = 5 \/ i = 6
    OBVIOUS
  <2>3. j = 0 \/ j = 1 \/ j = 2 \/ j = 3 \/ j = 4 \/ j = 5 \/ j = 6
    OBVIOUS
  <2>. QED
    BY <2>2, <2>3, TwoToValues
<1>. HIDE DEF v
<1>7. SUFFICES ASSUME v(f) = v(g) PROVE FALSE
  BY <1>4
<1>8. CASE IsDataBit(f, n) /\ IsDataBit(g, n)
  <2>1. f[2] = g[2]
    BY <1>1, <1>7, <1>8
  <2>2. f[1] = g[1]
    BY <1>8 DEF IsDataBit
  <2>. QED
    BY <1>4, <2>1, <2>2
<1>9. CASE IsCodeBit(f, n) /\ IsCodeBit(g, n)
  <2>1. f[2] = g[2]
    BY <1>2, <1>3, <1>6, <1>7, <1>9
  <2>2. f[1] = g[1]
    BY <1>9 DEF IsCodeBit
  <2>. QED
    BY <1>4, <2>1, <2>2
<1>10. CASE IsDataBit(f, n) /\ IsCodeBit(g, n)
  BY <1>1, <1>2, <1>3, <1>7, <1>10
<1>11. CASE IsCodeBit(f, n) /\ IsDataBit(g, n)
  BY <1>1, <1>2, <1>3, <1>7, <1>11
<1>. QED
  BY <1>4, <1>8, <1>9, <1>10, <1>11

LEMMA CleanRepair ==
  ASSUME NEW n \in Widths, NEW data \in SUBSET (0..(n - 1))
  PROVE  Repair(data, n, Encode(data, n)) = Outcome("OK", data, Encode(data, n))
<1>1. Encode(data, n) \in SUBSET (0..7)
  BY EncodeBits
<1>2. Repair(data, n, Encode(data, n))
        = ApplyRepair(data, Encode(data, n), n, Encode(data, n), 0, 0 = 1)
  BY <1>1, RepairIs, CodewordClean, EmptyValue
<1>. QED
  BY <1>2 DEF ApplyRepair

LEMMA DoubleDiff ==
  ASSUME NEW S, NEW x
  PROVE  SymDiff(SymDiff(S, {x}), {x}) = S
BY DEF SymDiff

LEMMA CodewordFlip ==
  ASSUME NEW n \in Widths, NEW data \in SUBSET (0..(n - 1)), NEW f \in CodeBits(n)
  PROVE  /\ Wrong(FlipData(data, f), FlipCode(Encode(data, n), f), n) = ColumnOf(f)
         /\ Odd(FlipData(data, f), FlipCode(Encode(data, n), f), n) = 1
<1>. DEFINE E == Encode(data, n)
<1>1. E \in SUBSET (0..7)
  BY EncodeBits
<1>2. Wrong(data, E, n) = {} /\ Odd(data, E, n) = 0
  BY CodewordClean
<1>3. SymDiff({}, ColumnOf(f)) = ColumnOf(f)
  BY DEF SymDiff
<1>. HIDE DEF E
<1>4. /\ Wrong(FlipData(data, f), FlipCode(E, f), n) = SymDiff(Wrong(data, E, n), ColumnOf(f))
      /\ Odd(FlipData(data, f), FlipCode(E, f), n) = 1 - Odd(data, E, n)
  BY <1>1, CodeBitFlip
<1>5. Wrong(FlipData(data, f), FlipCode(E, f), n) = ColumnOf(f)
      /\ Odd(FlipData(data, f), FlipCode(E, f), n) = 1
  BY <1>2, <1>3, <1>4
<1>. QED
  BY <1>5 DEF E

\* Every single flip is undone.
LEMMA SingleRepair ==
  ASSUME NEW n \in Widths, NEW data \in SUBSET (0..(n - 1)), NEW f \in CodeBits(n)
  PROVE  Repair(FlipData(data, f), n, FlipCode(Encode(data, n), f))
           = Outcome("CORRECTED", data, Encode(data, n))
<1>. DEFINE E == Encode(data, n)
            data1 == FlipData(data, f)
            code1 == FlipCode(E, f)
<1>1. E \in SUBSET (0..7)
  BY EncodeBits
<1>2. data1 \in SUBSET (0..(n - 1)) /\ code1 \in SUBSET (0..7)
  BY <1>1, FlipTypes
<1>3. Wrong(data1, code1, n) = ColumnOf(f) /\ Odd(data1, code1, n) = 1
  BY CodewordFlip
<1>4. Repair(data1, n, code1) = ApplyRepair(data1, code1, n, Encode(data1, n), ColumnValue(f), TRUE)
  <2>1. Value(Wrong(data1, code1, n)) = ColumnValue(f)
    BY <1>3, ColumnValues
  <2>2. (Odd(data1, code1, n) = 1) = TRUE
    BY <1>3
  <2>. HIDE DEF data1, code1
  <2>. QED
    BY <1>2, <2>1, <2>2, RepairIs
<1>5. TotalPositions(n) \in Nat
  BY WidthSplit, WidthParityBits
<1>6. CASE IsDataBit(f, n)
  <2>1. /\ ColumnValue(f) = Position(f[2]) /\ f[2] \in 0..(n - 1)
        /\ data1 = SymDiff(data, {f[2]})
    BY <1>6 DEF IsDataBit, ColumnValue, FlipData
  <2>2. /\ ColumnValue(f) \in 3..TotalPositions(n) /\ ~IsPowerOfTwo(ColumnValue(f))
        /\ DataIndex[n][ColumnValue(f)] = f[2]
    BY <2>1, DataColumnValue
  <2>3. SymDiff(data1, {f[2]}) = data
    BY <2>1, DoubleDiff
  <2>. HIDE DEF data1, code1
  <2>4. ApplyRepair(data1, code1, n, Encode(data1, n), ColumnValue(f), TRUE)
          = Outcome("CORRECTED", data, Encode(data, n))
    BY <1>5, <2>2, <2>3 DEF ApplyRepair
  <2>. QED
    BY <1>4, <2>4 DEF data1, code1
<1>7. CASE IsCodeBit(f, n) /\ f[2] = OverallBit
  <2>1. ColumnValue(f) = 0 /\ data1 = data
    BY <1>7 DEF IsCodeBit, ColumnValue, FlipData
  <2>. QED
    BY <1>4, <2>1 DEF ApplyRepair
<1>8. CASE IsCodeBit(f, n) /\ f[2] # OverallBit
  <2>1. ColumnValue(f) = TwoTo(f[2]) /\ data1 = data /\ f[2] \in HammingBits(n) /\ f[2] \in 0..6
    BY <1>8, HammingBitsIn DEF IsCodeBit, ColumnValue, FlipData
  <2>2. IsPowerOfTwo(ColumnValue(f))
    BY <2>1 DEF IsPowerOfTwo
  <2>3. ColumnValue(f) \in 1..TotalPositions(n)
    <3>1. f[2] = 0 \/ f[2] = 1 \/ f[2] = 2 \/ f[2] = 3 \/ f[2] = 4 \/ f[2] = 5 \/ f[2] = 6
      BY <2>1
    <3>2. CASE n = 16
      BY <2>1, <3>1, <3>2, TwoToValues, WidthParityBits DEF HammingBits
    <3>3. CASE n = 32
      BY <2>1, <3>1, <3>3, TwoToValues, WidthParityBits DEF HammingBits
    <3>4. CASE n = 64
      BY <2>1, <3>1, <3>4, TwoToValues, WidthParityBits DEF HammingBits
    <3>. QED
      BY <3>2, <3>3, <3>4, WidthSplit
  <2>. HIDE DEF data1, code1
  <2>4. ApplyRepair(data1, code1, n, Encode(data1, n), ColumnValue(f), TRUE)
          = Outcome("CORRECTED", data1, Encode(data1, n))
    BY <1>5, <2>2, <2>3 DEF ApplyRepair
  <2>. QED
    BY <1>4, <2>1, <2>4 DEF data1, code1
<1>. QED
  BY <1>6, <1>7, <1>8, CodeBitsAre

\* Every double flip is reported and changes nothing.
LEMMA DoubleRepair ==
  ASSUME NEW n \in Widths, NEW data \in SUBSET (0..(n - 1)),
         NEW f \in CodeBits(n), NEW g \in CodeBits(n), f # g
  PROVE  LET data2 == FlipData(FlipData(data, f), g)
             code2 == FlipCode(FlipCode(Encode(data, n), f), g)
         IN  Repair(data2, n, code2) = Outcome("UNCORRECTABLE", data2, code2)
<1>. DEFINE E == Encode(data, n)
            data1 == FlipData(data, f)
            code1 == FlipCode(E, f)
            data2 == FlipData(data1, g)
            code2 == FlipCode(code1, g)
<1>1. E \in SUBSET (0..7)
  BY EncodeBits
<1>2. data1 \in SUBSET (0..(n - 1)) /\ code1 \in SUBSET (0..7)
  BY <1>1, FlipTypes
<1>3. Wrong(data1, code1, n) = ColumnOf(f) /\ Odd(data1, code1, n) = 1
  BY CodewordFlip
<1>. HIDE DEF data1, code1
<1>4. data2 \in SUBSET (0..(n - 1)) /\ code2 \in SUBSET (0..7)
  BY <1>2, FlipTypes
<1>5. Wrong(data2, code2, n) = SymDiff(ColumnOf(f), ColumnOf(g)) /\ Odd(data2, code2, n) = 0
  BY <1>2, <1>3, CodeBitFlip
<1>. HIDE DEF data2, code2
<1>6. Value(Wrong(data2, code2, n)) # 0
  <2>. DEFINE W == SymDiff(ColumnOf(f), ColumnOf(g))
  <2>1. W # {}
    <3>1. ColumnOf(f) # ColumnOf(g)
      BY ColumnsDiffer
    <3>2. \A A, B : SymDiff(A, B) = {} => A = B
      BY DEF SymDiff
    <3>. QED
      BY <3>1, <3>2
  <2>2. W \in SUBSET (0..7)
    BY ColumnValues DEF SymDiff
  <2>3. {} \in SUBSET (0..7)
    OBVIOUS
  <2>. HIDE DEF W
  <2>4. BitsOf(Value(W)) = W /\ BitsOf(Value({})) = {}
    BY <2>2, <2>3, BitsOfValue
  <2>5. Value(W) # 0
    BY <2>1, <2>4, EmptyValue
  <2>. QED
    BY <1>5, <2>5 DEF W
<1>7. Repair(data2, n, code2)
        = ApplyRepair(data2, code2, n, Encode(data2, n), Value(Wrong(data2, code2, n)), FALSE)
  <2>1. (Odd(data2, code2, n) = 1) = FALSE
    BY <1>5
  <2>. QED
    BY <1>4, <2>1, RepairIs
<1>8. Repair(data2, n, code2) = Outcome("UNCORRECTABLE", data2, code2)
  BY <1>6, <1>7 DEF ApplyRepair
<1>. QED
  BY <1>8 DEF data2, code2, data1, code1

LEMMA FlippedOnce ==
  ASSUME NEW S, NEW n, NEW f \in CodeBits(n)
  PROVE  /\ Flipped(S, "data", {f}) = FlipData(S, f)
         /\ Flipped(S, "ecc", {f}) = FlipCode(S, f)
<1>1. f[1] = "data" \/ f[1] = "ecc"
  BY CodeBitsAre DEF IsDataBit, IsCodeBit
<1>2. SymDiff(S, {}) = S
  BY DEF SymDiff
<1>3. \A kind : {h[2] : h \in {g \in {f} : g[1] = kind}} = IF f[1] = kind THEN {f[2]} ELSE {}
  OBVIOUS
<1>. QED
  BY <1>1, <1>2, <1>3 DEF Flipped, FlipData, FlipCode

LEMMA FlippedTwice ==
  ASSUME NEW S, NEW n, NEW f \in CodeBits(n), NEW g \in CodeBits(n), f # g
  PROVE  /\ Flipped(S, "data", {f, g}) = FlipData(FlipData(S, f), g)
         /\ Flipped(S, "ecc", {f, g}) = FlipCode(FlipCode(S, f), g)
<1>1. \A h \in {f, g} : h[1] \in {"data", "ecc"} /\ h = <<h[1], h[2]>>
  BY CodeBitsAre DEF IsDataBit, IsCodeBit
<1>2. f[1] = g[1] => f[2] # g[2]
  BY <1>1
<1>. DEFINE K(kind) == {h[2] : h \in {e \in {f, g} : e[1] = kind}}
<1>3. \A kind : \A x : x \in K(kind) <=> (f[1] = kind /\ x = f[2]) \/ (g[1] = kind /\ x = g[2])
  OBVIOUS
<1>. HIDE DEF K
<1>4. SymDiff(S, K("data")) = FlipData(FlipData(S, f), g)
  BY <1>2, <1>3 DEF SymDiff, FlipData
<1>5. SymDiff(S, K("ecc")) = FlipCode(FlipCode(S, f), g)
  BY <1>2, <1>3 DEF SymDiff, FlipCode
<1>. QED
  BY <1>4, <1>5 DEF Flipped, K

\* The code of llps_secded.c, for every word of its three widths: the masks of
\* the 64-bit encoder are the positional Hamming code, every single flip of a
\* data, parity or overall bit is undone, every double flip is reported as
\* uncorrectable, and an intact word is left alone.
THEOREM SecdedCode ==
  \A n \in Widths : \A word \in SUBSET (0..(n - 1)) :
    /\ Encode(word, n) = EncodePositional(word, n)
    /\ Repair(word, n, Encode(word, n)) = Outcome("OK", word, Encode(word, n))
    /\ \A f \in CodeBits(n) :
         RepairFlipped(word, n, {f}) = Outcome("CORRECTED", word, Encode(word, n))
    /\ \A f, g \in CodeBits(n) :
         f # g => RepairFlipped(word, n, {f, g}).status = "UNCORRECTABLE"
<1>. TAKE n \in Widths
<1>. TAKE word \in SUBSET (0..(n - 1))
<1>1. Encode(word, n) = EncodePositional(word, n)
  BY EncodeIs
<1>2. Repair(word, n, Encode(word, n)) = Outcome("OK", word, Encode(word, n))
  BY CleanRepair
<1>3. ASSUME NEW f \in CodeBits(n)
      PROVE  RepairFlipped(word, n, {f}) = Outcome("CORRECTED", word, Encode(word, n))
  <2>1. Flipped(word, "data", {f}) = FlipData(word, f)
    BY FlippedOnce
  <2>2. Flipped(Encode(word, n), "ecc", {f}) = FlipCode(Encode(word, n), f)
    BY FlippedOnce
  <2>. QED
    BY <2>1, <2>2, SingleRepair DEF RepairFlipped
<1>4. ASSUME NEW f \in CodeBits(n), NEW g \in CodeBits(n), f # g
      PROVE  RepairFlipped(word, n, {f, g}).status = "UNCORRECTABLE"
  <2>. DEFINE data2 == FlipData(FlipData(word, f), g)
              code2 == FlipCode(FlipCode(Encode(word, n), f), g)
  <2>1. RepairFlipped(word, n, {f, g}) = Repair(data2, n, code2)
    <3>1. \A S : /\ Flipped(S, "data", {f, g}) = FlipData(FlipData(S, f), g)
                 /\ Flipped(S, "ecc", {f, g}) = FlipCode(FlipCode(S, f), g)
      BY <1>4, FlippedTwice
    <3>. QED
      BY <3>1 DEF RepairFlipped
  <2>2. Repair(data2, n, code2) = Outcome("UNCORRECTABLE", data2, code2)
    BY <1>4, DoubleRepair
  <2>. HIDE DEF data2, code2
  <2>. QED
    BY <2>1, <2>2 DEF Outcome
<1>. QED
  BY <1>1, <1>2, <1>3, <1>4

\* Every client's first bytes, taken as a word of each width, are protected by
\* the code: SecdedReference of the run, for every word.
THEOREM CodeMatchesReference == Spec => []SecdedReference
<1>1. SecdedReference
  <2>1. \A n \in Widths : \A word : word \cap 0..(n - 1) \in SUBSET (0..(n - 1))
    OBVIOUS
  <2>. QED
    BY <2>1, SecdedCode DEF SecdedReference
<1>. QED
  BY <1>1, PTL

-----------------------------------------------------------------------------
(* Words of the buffer *)

LEMMA WordArithmetic ==
  ASSUME NEW n \in 0..BufferSize
  PROVE  /\ WordCountFor(n) \in 0..WordCount
         /\ ProtectedLen(n) \in n..BufferSize
         /\ n = 0 => WordCountFor(n) = 0
         /\ \A p \in Offsets : /\ p \div 8 \in Words /\ p % 8 \in 0..7
                               /\ p = 8 * (p \div 8) + (p % 8)
                               /\ p < ProtectedLen(n) <=> p \div 8 < WordCountFor(n)
<1>. USE DataPathAssumption DEF WordBytes
<1>1. BufferSize \in Nat /\ n \in Nat /\ n <= BufferSize
  OBVIOUS
<1>2. WordCountFor(n) = (n + 7) \div 8
  BY <1>1 DEF WordCountFor
<1>3. WordCount = (BufferSize + 7) \div 8
  BY <1>1 DEF WordCount
<1>4. WordCountFor(n) \in 0..WordCount
  BY <1>1, <1>2, <1>3
<1>5. n <= 8 * WordCountFor(n)
  BY <1>1, <1>2
<1>6. ProtectedLen(n) = IF 8 * WordCountFor(n) > BufferSize THEN BufferSize ELSE 8 * WordCountFor(n)
  BY <1>1, <1>2, <1>4 DEF ProtectedLen
<1>7. ProtectedLen(n) \in n..BufferSize
  BY <1>1, <1>4, <1>3, <1>5, <1>6
<1>8. ASSUME NEW p \in Offsets
      PROVE  /\ p \div 8 \in Words /\ p % 8 \in 0..7
             /\ p = 8 * (p \div 8) + (p % 8)
             /\ p < ProtectedLen(n) <=> p \div 8 < WordCountFor(n)
  <2>1. p \in 0..(BufferSize - 1)
    BY DEF Offsets
  <2>2. p \div 8 \in Words
    BY <1>1, <1>3, <2>1 DEF Words
  <2>3. p % 8 \in 0..7 /\ p = 8 * (p \div 8) + (p % 8)
    BY <1>1, <2>1
  <2>. DEFINE q == p \div 8
              c == WordCountFor(n)
  <2>4. p < 8 * c <=> q < c
    <3>1. c \in Nat
      BY <1>1, <1>3, <1>4
    <3>2. q \in Nat /\ p % 8 \in 0..7 /\ p = 8 * q + (p % 8)
      BY <2>1, <2>3
    <3>. HIDE DEF q, c
    <3>. QED
      BY <3>1, <3>2
  <2>5. p < ProtectedLen(n) <=> p < 8 * c
    BY <1>1, <1>3, <1>4, <1>6, <2>1
  <2>. QED
    BY <2>2, <2>3, <2>4, <2>5
<1>9. n = 0 => WordCountFor(n) = 0
  BY <1>2
<1>. QED
  BY <1>4, <1>7, <1>8, <1>9

LEMMA FullEncodeType ==
  ASSUME NEW data
  PROVE  Encode(data, 64) \in SUBSET (0..7)
BY DEF Encode, EncodeFull, WithOverall, OverallBit

LEMMA RepairTypes ==
  ASSUME NEW data, NEW code \in SUBSET (0..7)
  PROVE  Repair(data, 64, code).ecc \in SUBSET (0..7)
<1>1. \A d : Encode(d, 64) \in SUBSET (0..7)
  BY FullEncodeType
<1>. QED
  BY <1>1 DEF Repair, ApplyRepair, Outcome

LEMMA ByteOfType ==
  ASSUME NEW word, NEW k
  PROVE  ByteOf(word, k) \in 0..255
BY ValueRange DEF ByteOf

LEMMA SealTypes ==
  ASSUME NEW b \in [Offsets -> 0..255], NEW n \in 0..BufferSize
  PROVE  /\ ZeroPadding(b, n) \in [Offsets -> 0..255]
         /\ SealedEcc(b, n) \in [Words -> SUBSET (0..7)]
<1>1. ZeroPadding(b, n) \in [Offsets -> 0..255]
  BY DEF ZeroPadding
<1>2. SealedEcc(b, n) \in [Words -> SUBSET (0..7)]
  BY FullEncodeType DEF SealedEcc
<1>. QED
  BY <1>1, <1>2

\* What a repair of the first n bytes leaves.
LEMMA RepairBufferTypes ==
  ASSUME TypeOK, NEW n \in 0..BufferSize, RepairBuffer(n, RepairOutcomes(n))
  PROVE  buf' \in [Offsets -> 0..255] /\ ecc' \in [Words -> SUBSET (0..7)] /\ eccLen' = eccLen
<1>. DEFINE o == RepairOutcomes(n)
<1>1. /\ buf' = RepairedBuf(n, o)
      /\ ecc' = [w \in Words |-> IF cfg.ecc /\ w \in CorrectedWords(o) THEN o[w].ecc ELSE ecc[w]]
      /\ eccLen' = eccLen
  BY DEF RepairBuffer
<1>2. \A w \in CorrectedWords(o) : w \in Words => o[w].ecc \in SUBSET (0..7)
  <2>1. SUFFICES ASSUME NEW w \in CorrectedWords(o), w \in Words PROVE o[w].ecc \in SUBSET (0..7)
    OBVIOUS
  <2>2. w \in 0..(WordCountFor(n) - 1)
    BY <2>1 DEF CorrectedWords, RepairOutcomes
  <2>3. o[w] = Repair(LoadWord(buf, ProtectedLen(n), w), 64, ecc[w])
    BY <2>2 DEF RepairOutcomes
  <2>4. ecc[w] \in SUBSET (0..7)
    BY <2>1 DEF TypeOK
  <2>. QED
    BY <2>3, <2>4, RepairTypes
<1>3. buf \in [Offsets -> 0..255] /\ ecc \in [Words -> SUBSET (0..7)]
  BY DEF TypeOK
<1>. HIDE DEF o
<1>4. RepairedBuf(n, o) \in [Offsets -> 0..255]
  BY <1>3, ByteOfType DEF RepairedBuf
<1>. QED
  BY <1>1, <1>2, <1>3, <1>4

-----------------------------------------------------------------------------
(* The loops *)

\* A write loop makes one step at most per byte sent or retry used.
LoopInv ==
  /\ pc \notin {"preface", "flush", "write"} => step = 0
  /\ pc \notin {"flush", "write"} => off = 0 /\ retry = 0
  /\ pc \in {"flush", "write"} => off < len /\ step <= off + retry
  /\ failure # "write_steps"

\* What the codes cover: nothing before the first seal, then all that was read.
EccLenInv ==
  /\ ~cfg.ecc => eccLen = 0
  /\ pc \in {"load", "preface"} => eccLen = 0
  /\ cfg.ecc /\ pc \in {"connect", "flush", "read", "write", "eof"} => eccLen = len

\* The buffer holds the last len bytes read; off of them are sent.
CountInv ==
  /\ sent \in Seq(0..255)
  /\ len <= taken
  /\ pc = "load" => len = 0
  /\ pc \in {"load", "preface", "connect"} => sent = <<>> /\ taken = len
  /\ pc \in {"flush", "write"} => Len(sent) = taken - len + off
  /\ pc = "read" => Len(sent) = taken

LInv == TypeOK /\ LoopInv /\ EccLenInv /\ CountInv

LEMMA InitLInv == Init => LInv
<1>. SUFFICES ASSUME Init PROVE LInv
  OBVIOUS
<1>. USE DataPathAssumption
<1>1. client.bytes \in Seq(0..255) /\ Len(client.bytes) \in Nat
  BY DEF Init
<1>2. TypeOK
  <2>1. buf \in [Offsets -> 0..255] /\ ecc \in [Words -> SUBSET (0..7)]
    BY DEF Init
  <2>2. cfg \in [ecc : BOOLEAN, gate : BOOLEAN, preface : BOOLEAN] /\ client \in Clients
    BY DEF Init
  <2>3. /\ taken \in 0..Len(client.bytes) /\ len \in 0..BufferSize /\ eccLen \in 0..len
        /\ off \in 0..len /\ retry \in 0..IoRetryBudget /\ step \in 0..IoStepMax
        /\ flips \in 0..FlipMax
    BY <1>1 DEF Init, IoStepMax
  <2>4. pc \in Pcs /\ fds \in {"open", "shut"} /\ expired \in BOOLEAN /\ reason \in Reasons
        /\ {unsealedHit, doubleHit} \subseteq BOOLEAN
    BY DEF Init, Pcs, Reasons
  <2>. QED
    BY <2>1, <2>2, <2>3, <2>4 DEF TypeOK
<1>3. LoopInv /\ EccLenInv /\ CountInv
  BY DEF Init, LoopInv, EccLenInv, CountInv
<1>. QED
  BY <1>2, <1>3 DEF LInv

LEMMA SeqElements ==
  ASSUME NEW T, NEW s \in Seq(T)
  PROVE  Len(s) \in Nat /\ \A i \in 1..Len(s) : s[i] \in T
OBVIOUS

LEMMA TypeFacts ==
  ASSUME TypeOK
  PROVE  /\ client.bytes \in Seq(0..255) /\ Len(client.bytes) \in Nat
         /\ \A i \in 1..Len(client.bytes) : client.bytes[i] \in 0..255
         /\ taken \in Nat /\ len \in Nat /\ off \in Nat /\ eccLen \in Nat /\ retry \in Nat
         /\ step \in Nat /\ flips \in Nat /\ BufferSize \in Nat /\ IoRetryBudget \in Nat
         /\ IoStepMax = BufferSize + IoRetryBudget
<1>1. client.bytes \in Seq(0..255)
  BY DataPathAssumption DEF TypeOK
<1>2. Len(client.bytes) \in Nat /\ \A i \in 1..Len(client.bytes) : client.bytes[i] \in 0..255
  BY <1>1, SeqElements
<1>3. BufferSize \in Nat /\ IoRetryBudget \in Nat /\ FlipMax \in Nat
      /\ IoStepMax = BufferSize + IoRetryBudget
  BY DataPathAssumption DEF IoStepMax
<1>4. taken \in Nat /\ len \in Nat /\ retry \in Nat /\ step \in Nat /\ flips \in Nat
  BY <1>2, <1>3 DEF TypeOK
<1>5. off \in Nat /\ eccLen \in Nat
  BY <1>4 DEF TypeOK
<1>. QED
  BY <1>1, <1>2, <1>3, <1>4, <1>5

\* A session that ends.
LEMMA FailLInv ==
  ASSUME LInv, NEW why, NEW mark, Fail(why, mark), why # "write_steps", mark \in Reasons,
         UNCHANGED <<configVars, sent, fds, expired, faultVars>>,
         taken' \in taken..Len(client.bytes)
  PROVE  LInv'
<1>. USE DEF LInv
<1>0. BufferSize \in Nat /\ IoStepMax \in Nat /\ IoRetryBudget \in Nat /\ taken' \in Nat
  BY TypeFacts
<1>1. /\ pc' = "closed" /\ failure' = why /\ reason' = mark
      /\ len' = 0 /\ off' = 0 /\ retry' = 0 /\ step' = 0 /\ eccLen' = 0
      /\ buf' = [p \in Offsets |-> 0] /\ ecc' = [w \in Words |-> {}]
      /\ cfg' = cfg /\ client' = client /\ sent' = sent /\ fds' = fds /\ expired' = expired
      /\ flips' = flips /\ unsealedHit' = unsealedHit /\ doubleHit' = doubleHit
  BY DEF Fail, configVars, faultVars
<1>2. TypeOK'
  <2>1. buf' \in [Offsets -> 0..255] /\ ecc' \in [Words -> SUBSET (0..7)]
    BY <1>1
  <2>2. /\ cfg' \in [ecc : BOOLEAN, gate : BOOLEAN, preface : BOOLEAN] /\ client' \in Clients
        /\ fds' \in {"open", "shut"} /\ expired' \in BOOLEAN
        /\ flips' \in 0..FlipMax /\ {unsealedHit', doubleHit'} \subseteq BOOLEAN
    BY <1>1 DEF TypeOK
  <2>3. /\ taken' \in 0..Len(client'.bytes) /\ len' \in 0..BufferSize /\ eccLen' \in 0..len'
        /\ off' \in 0..len' /\ retry' \in 0..IoRetryBudget /\ step' \in 0..IoStepMax
    BY <1>0, <1>1, TypeFacts
  <2>4. pc' \in Pcs /\ reason' \in Reasons
    BY <1>1 DEF Pcs
  <2>. QED
    BY <2>1, <2>2, <2>3, <2>4 DEF TypeOK
<1>3. LoopInv' /\ EccLenInv' /\ CountInv'
  BY <1>0, <1>1 DEF LoopInv, EccLenInv, CountInv
<1>. QED
  BY <1>2, <1>3

\* The actions that end a session and change nothing else.
LEMMA EndsLInv ==
  ASSUME LInv, NEW why, NEW mark, Fail(why, mark), why # "write_steps", mark \in Reasons,
         UNCHANGED <<configVars, taken, sent, fds, expired, faultVars>>
  PROVE  LInv'
<1>1. taken' \in taken..Len(client.bytes)
  BY TypeFacts DEF LInv, TypeOK
<1>. QED
  BY <1>1, FailLInv

LEMMA ReasonsAre ==
  ASSUME TypeOK
  PROVE  /\ reason \in Reasons /\ "CLIENT_PREFACE_TIMEOUT" \in Reasons
         /\ "PROTOCOL_HANDSHAKE" \in Reasons /\ "METADATA_FAULT" \in Reasons
         /\ "CONTRACT_VIOLATION" \in Reasons /\ "PAYLOAD_ECC" \in Reasons
         /\ PumpMark("CONTRACT_VIOLATION") \in Reasons /\ PumpMark("PAYLOAD_ECC") \in Reasons
BY DEF TypeOK, Reasons, PumpMark

\* What every step but a read of the preface or of the pump, a flip or a repair
\* leaves alone.
LEMMA QuietLInv ==
  ASSUME LInv, UNCHANGED <<configVars, taken, sent, bufferVars, loopVars, endVars, faultVars>>,
         fds' \in {"open", "shut"}, expired' \in BOOLEAN, pc' \in Pcs,
         \/ pc' = pc
         \/ pc = "load" /\ pc' = "preface"
         \/ pc = "load" /\ pc' = "connect"
         \/ pc = "connect" /\ len = 0 /\ pc' = "read"
         \/ pc = "connect" /\ len # 0 /\ pc' = "flush"
         \/ pc = "read" /\ pc' = "eof"
  PROVE  LInv'
<1>. USE DEF LInv
<1>1. /\ cfg' = cfg /\ client' = client /\ taken' = taken /\ sent' = sent
      /\ buf' = buf /\ ecc' = ecc /\ eccLen' = eccLen
      /\ len' = len /\ off' = off /\ retry' = retry /\ step' = step
      /\ reason' = reason /\ failure' = failure
      /\ flips' = flips /\ unsealedHit' = unsealedHit /\ doubleHit' = doubleHit
  BY DEF configVars, bufferVars, loopVars, endVars, faultVars
<1>2. TypeOK'
  BY <1>1 DEF TypeOK
<1>3. LoopInv'
  <2>1. /\ pc' \notin {"preface", "flush", "write"} => step = 0
        /\ pc' \notin {"flush", "write"} => off = 0 /\ retry = 0
    BY DEF LoopInv
  <2>2. len \in Nat
    BY TypeFacts
  <2>3. pc' \in {"flush", "write"} => off < len /\ step <= off + retry
    <3>1. CASE pc' = pc
      BY <3>1 DEF LoopInv
    <3>2. CASE pc = "connect" /\ len # 0 /\ pc' = "flush"
      BY <2>2, <3>2 DEF LoopInv
    <3>. QED
      BY <3>1, <3>2
  <2>. QED
    BY <1>1, <2>1, <2>3 DEF LoopInv
<1>4. EccLenInv'
  BY <1>1 DEF EccLenInv, CountInv
<1>5. CountInv'
  BY <1>1, TypeFacts DEF CountInv, LoopInv
<1>. QED
  BY <1>2, <1>3, <1>4, <1>5

LEMMA ConnectLInv == LInv /\ Connect => LInv'
<1>. SUFFICES ASSUME LInv, Connect PROVE LInv'
  OBVIOUS
<1>1. CASE Fail("backend_connect", reason)
  BY <1>1, EndsLInv, ReasonsAre DEF Connect, LInv
<1>2. CASE pc' = (IF len = 0 THEN "read" ELSE "flush") /\ UNCHANGED <<bufferVars, loopVars, endVars>>
  <2>1. pc' \in Pcs /\ fds' = fds /\ expired' = expired /\ pc = "connect"
    BY <1>2 DEF Connect, Pcs
  <2>2. fds' \in {"open", "shut"} /\ expired' \in BOOLEAN
    BY <2>1 DEF LInv, TypeOK
  <2>3. UNCHANGED <<configVars, taken, sent, bufferVars, loopVars, endVars, faultVars>>
    BY <1>2 DEF Connect
  <2>. QED
    BY <1>2, <2>1, <2>2, <2>3, QuietLInv
<1>. QED
  BY <1>1, <1>2 DEF Connect

LEMMA LoadConfigLInv == LInv /\ LoadConfig => LInv'
<1>. SUFFICES ASSUME LInv, LoadConfig PROVE LInv'
  OBVIOUS
<1>1. CASE Fail("client_preface_config", reason)
  BY <1>1, EndsLInv, ReasonsAre DEF LoadConfig, LInv
<1>2. CASE pc' = (IF cfg.preface THEN "preface" ELSE "connect") /\ UNCHANGED <<bufferVars, loopVars, endVars>>
  <2>1. pc' \in Pcs /\ fds' = fds /\ expired' = expired /\ pc = "load"
    BY <1>2 DEF LoadConfig, Pcs
  <2>2. fds' \in {"open", "shut"} /\ expired' \in BOOLEAN
    BY <2>1 DEF LInv, TypeOK
  <2>3. UNCHANGED <<configVars, taken, sent, bufferVars, loopVars, endVars, faultVars>>
    BY <1>2 DEF LoadConfig
  <2>. QED
    BY <1>2, <2>1, <2>2, <2>3, QuietLInv
<1>. QED
  BY <1>1, <1>2 DEF LoadConfig

LEMMA QuietActionsLInv ==
  LInv /\ (Expire \/ PrefaceTimeout \/ PrefaceReadFails \/ PumpEof \/ PumpReadFails
             \/ PumpMetadataFault \/ UNCHANGED vars) => LInv'
<1>. SUFFICES ASSUME LInv PROVE
       (Expire \/ PrefaceTimeout \/ PrefaceReadFails \/ PumpEof \/ PumpReadFails
             \/ PumpMetadataFault \/ UNCHANGED vars) => LInv'
  OBVIOUS
<1>0. TypeOK
  BY DEF LInv
<1>1. Expire => LInv'
  <2>. SUFFICES ASSUME Expire PROVE LInv'
    OBVIOUS
  <2>1. fds' \in {"open", "shut"} /\ expired' \in BOOLEAN /\ pc' \in Pcs /\ pc' = pc
    BY <1>0 DEF Expire, TypeOK
  <2>. QED
    BY <2>1, QuietLInv DEF Expire
<1>2. PrefaceTimeout => LInv'
  BY <1>0, EndsLInv, ReasonsAre DEF PrefaceTimeout
<1>3. PrefaceReadFails => LInv'
  BY <1>0, EndsLInv, ReasonsAre DEF PrefaceReadFails
<1>4. PumpEof => LInv'
  <2>. SUFFICES ASSUME PumpEof PROVE LInv'
    OBVIOUS
  <2>1. fds' \in {"open", "shut"} /\ expired' \in BOOLEAN
    BY <1>0 DEF PumpEof, TypeOK
  <2>2. pc = "read" /\ pc' = "eof" /\ pc' \in Pcs
    BY DEF PumpEof, Pcs
  <2>. QED
    BY <2>1, <2>2, QuietLInv DEF PumpEof
<1>5. PumpReadFails => LInv'
  BY <1>0, EndsLInv, ReasonsAre DEF PumpReadFails
<1>6. PumpMetadataFault => LInv'
  BY <1>0, EndsLInv, ReasonsAre DEF PumpMetadataFault
<1>7. UNCHANGED vars => LInv'
  <2>. SUFFICES ASSUME UNCHANGED vars PROVE LInv'
    OBVIOUS
  <2>1. fds' \in {"open", "shut"} /\ expired' \in BOOLEAN /\ pc' \in Pcs /\ pc' = pc
    BY <1>0 DEF vars, TypeOK
  <2>. QED
    BY <2>1, QuietLInv DEF vars
<1>. QED
  BY <1>1, <1>2, <1>3, <1>4, <1>5, <1>6, <1>7

\* A read: where the bytes go, and how many there are.
LEMMA ReadSizesAre ==
  ASSUME TypeOK, NEW room \in Nat, room > 0, NEW n \in ReadSizes(room)
  PROVE  n \in 1..room /\ taken + n <= Len(client.bytes)
<1>1. Len(client.bytes) - taken \in Nat
  BY TypeFacts DEF TypeOK
<1>. DEFINE there == Len(client.bytes) - taken
            most == IF there < room THEN there ELSE room
<1>2. most # 0 /\ n \in {1, most}
  BY DEF ReadSizes
<1>3. most \in Nat /\ most <= there /\ most <= room
  BY <1>1
<1>4. n \in Nat /\ n >= 1 /\ n <= most
  BY <1>2, <1>3
<1>. QED
  BY <1>1, <1>3, <1>4, TypeFacts

LEMMA PlacedType ==
  ASSUME TypeOK, NEW at \in 0..BufferSize, NEW n \in Nat, n >= 1, taken + n <= Len(client.bytes)
  PROVE  Placed(buf, at, n) \in [Offsets -> 0..255]
<1>1. ASSUME NEW p \in Offsets, p \in at..(at + n - 1)
      PROVE  client.bytes[taken + p - at + 1] \in 0..255
  <2>1. taken + p - at + 1 \in 1..Len(client.bytes)
    <3>1. taken \in Nat /\ Len(client.bytes) \in Nat /\ BufferSize \in Nat
      BY TypeFacts
    <3>2. p \in Int /\ at \in Int /\ at <= p /\ p <= at + n - 1
      BY <1>1, <3>1 DEF Offsets
    <3>. QED
      BY <3>1, <3>2
  <2>. QED
    BY <2>1, TypeFacts
<1>2. \A p \in Offsets : buf[p] \in 0..255
  BY DEF TypeOK
<1>. QED
  BY <1>1, <1>2 DEF Placed

\* A seal of the bytes just read, in the preface or in the pump.
LEMMA SealLInv ==
  ASSUME LInv, NEW b \in [Offsets -> 0..255], NEW n \in 1..BufferSize, Seal(b, n), len' = n,
         UNCHANGED <<configVars, sent, fds, expired, faultVars, off, retry, endVars>>,
         step' = 0, off = 0, retry = 0, taken' \in n..Len(client.bytes),
         \/ pc' = "connect" /\ taken' = n /\ sent = <<>>
         \/ pc' = "write" /\ Len(sent) = taken' - n
  PROVE  LInv'
<1>. USE DEF LInv
<1>0. BufferSize \in Nat /\ IoStepMax \in Nat /\ IoRetryBudget \in Nat /\ taken' \in Nat /\ n \in Nat
  BY TypeFacts
<1>1. /\ buf' = IF cfg.ecc THEN ZeroPadding(b, n) ELSE b
      /\ ecc' = IF cfg.ecc THEN SealedEcc(ZeroPadding(b, n), n) ELSE ecc
      /\ eccLen' = IF cfg.ecc THEN n ELSE eccLen
      /\ off' = off /\ retry' = retry /\ reason' = reason /\ failure' = failure
      /\ cfg' = cfg /\ client' = client /\ sent' = sent /\ fds' = fds /\ expired' = expired
      /\ flips' = flips /\ unsealedHit' = unsealedHit /\ doubleHit' = doubleHit
  BY DEF Seal, configVars, faultVars, endVars
<1>2. cfg.ecc \in BOOLEAN
  BY DEF TypeOK
<1>3. TypeOK'
  <2>0. n \in 0..BufferSize
    BY <1>0
  <2>1. buf' \in [Offsets -> 0..255] /\ ecc' \in [Words -> SUBSET (0..7)]
    <3>1. ZeroPadding(b, n) \in [Offsets -> 0..255]
      BY <2>0, SealTypes
    <3>2. SealedEcc(ZeroPadding(b, n), n) \in [Words -> SUBSET (0..7)]
      BY <2>0, <3>1, SealTypes
    <3>. QED
      BY <1>1, <3>1, <3>2 DEF TypeOK
  <2>2. /\ cfg' \in [ecc : BOOLEAN, gate : BOOLEAN, preface : BOOLEAN] /\ client' \in Clients
        /\ fds' \in {"open", "shut"} /\ expired' \in BOOLEAN
        /\ flips' \in 0..FlipMax /\ {unsealedHit', doubleHit'} \subseteq BOOLEAN
        /\ reason' \in Reasons
    BY <1>1 DEF TypeOK
  <2>3. /\ taken' \in 0..Len(client'.bytes) /\ len' \in 0..BufferSize
        /\ off' \in 0..len' /\ retry' \in 0..IoRetryBudget /\ step' \in 0..IoStepMax
    BY <1>0, <1>1, <2>0, TypeFacts
  <2>4. eccLen' \in 0..len'
    BY <1>0, <1>1, <1>2 DEF EccLenInv
  <2>5. pc' \in Pcs
    BY DEF Pcs
  <2>. QED
    BY <2>1, <2>2, <2>3, <2>4, <2>5 DEF TypeOK
<1>4. LoopInv'
  BY <1>0, <1>1 DEF LoopInv
<1>5. EccLenInv'
  BY <1>1, <1>2 DEF EccLenInv
<1>6. CountInv'
  <2>1. sent' \in Seq(0..255) /\ len' <= taken'
    BY <1>0, <1>1 DEF CountInv
  <2>2. CASE pc' = "connect" /\ taken' = n /\ sent = <<>>
    BY <1>1, <2>1, <2>2 DEF CountInv
  <2>3. CASE pc' = "write" /\ Len(sent) = taken' - n
    BY <1>0, <1>1, <2>1, <2>3 DEF CountInv
  <2>. QED
    BY <2>2, <2>3
<1>. QED
  BY <1>3, <1>4, <1>5, <1>6

\* One more iteration of the preface loop, or its end.
LEMMA CycleLInv ==
  ASSUME LInv, pc = "preface", NEW b \in [Offsets -> 0..255], NEW n \in 0..BufferSize,
         NextPrefaceCycle(b, n), UNCHANGED <<configVars, sent, fds, expired, faultVars>>,
         taken' = n, taken' \in taken..Len(client.bytes)
  PROVE  LInv'
<1>. USE DEF LInv
<1>1. CASE Fail("client_preface_retry", reason)
  BY <1>1, FailLInv, ReasonsAre
<1>2. CASE /\ step + 1 < IoStepMax /\ step' = step + 1 /\ buf' = b /\ len' = n
           /\ UNCHANGED <<pc, ecc, eccLen, off, retry, endVars>>
  <2>0. BufferSize \in Nat /\ IoStepMax \in Nat /\ IoRetryBudget \in Nat /\ n \in Nat /\ step \in Nat
    BY TypeFacts
  <2>1. /\ pc' = pc /\ ecc' = ecc /\ eccLen' = eccLen /\ off' = off /\ retry' = retry
        /\ reason' = reason /\ failure' = failure
        /\ cfg' = cfg /\ client' = client /\ sent' = sent /\ fds' = fds /\ expired' = expired
        /\ flips' = flips /\ unsealedHit' = unsealedHit /\ doubleHit' = doubleHit
    BY <1>2 DEF configVars, faultVars, endVars
  <2>2. eccLen = 0 /\ off = 0 /\ retry = 0 /\ sent = <<>>
    BY DEF EccLenInv, LoopInv, CountInv
  <2>3. TypeOK'
    <3>1. buf' \in [Offsets -> 0..255] /\ ecc' \in [Words -> SUBSET (0..7)]
      BY <1>2, <2>1 DEF TypeOK
    <3>2. /\ cfg' \in [ecc : BOOLEAN, gate : BOOLEAN, preface : BOOLEAN] /\ client' \in Clients
          /\ fds' \in {"open", "shut"} /\ expired' \in BOOLEAN
          /\ flips' \in 0..FlipMax /\ {unsealedHit', doubleHit'} \subseteq BOOLEAN
          /\ reason' \in Reasons /\ pc' \in Pcs
      BY <2>1 DEF TypeOK
    <3>3. /\ taken' \in 0..Len(client'.bytes) /\ len' \in 0..BufferSize /\ eccLen' \in 0..len'
          /\ off' \in 0..len' /\ retry' \in 0..IoRetryBudget /\ step' \in 0..IoStepMax
      BY <1>2, <2>0, <2>1, <2>2, TypeFacts
    <3>. QED
      BY <3>1, <3>2, <3>3 DEF TypeOK
  <2>4. LoopInv' /\ EccLenInv'
    BY <2>1, <2>2 DEF LoopInv, EccLenInv
  <2>5. CountInv'
    BY <1>2, <2>0, <2>1, <2>2 DEF CountInv
  <2>. QED
    BY <2>3, <2>4, <2>5
<1>. QED
  BY <1>1, <1>2 DEF NextPrefaceCycle

LEMMA PrefaceAgainLInv == LInv /\ PrefaceAgain => LInv'
<1>. SUFFICES ASSUME LInv, PrefaceAgain PROVE LInv'
  OBVIOUS
<1>1. buf \in [Offsets -> 0..255] /\ len \in 0..BufferSize /\ taken \in 0..Len(client.bytes)
  BY DEF LInv, TypeOK
<1>2. pc = "preface" /\ NextPrefaceCycle(buf, len) /\ taken' = taken
      /\ UNCHANGED <<configVars, sent, fds, expired, faultVars>>
  BY DEF PrefaceAgain
<1>3. taken = len
  BY <1>2 DEF LInv, CountInv
<1>4. taken' \in taken..Len(client.bytes)
  BY <1>1, <1>2, TypeFacts DEF LInv
<1>. QED
  BY <1>1, <1>2, <1>3, <1>4, CycleLInv

LEMMA PrefaceReadLInv ==
  ASSUME LInv, NEW n \in 1..BufferSize, PrefaceRead(n)
  PROVE  LInv'
<1>. USE DEF LInv
<1>1. pc = "preface" /\ len < BufferSize /\ n \in ReadSizes(BufferSize - len) /\ taken' = taken + n
      /\ UNCHANGED <<configVars, sent, fds, expired, faultVars>>
  BY DEF PrefaceRead
<1>2. len \in 0..BufferSize /\ BufferSize - len \in Nat /\ BufferSize - len > 0
  <2>1. len \in 0..BufferSize /\ BufferSize \in Nat /\ len \in Nat
    BY TypeFacts DEF TypeOK
  <2>. QED
    BY <1>1, <2>1
<1>3. n \in 1..(BufferSize - len) /\ taken + n <= Len(client.bytes)
  BY <1>1, <1>2, ReadSizesAre
<1>4. n \in Nat /\ n >= 1 /\ len + n \in 1..BufferSize
  BY <1>2, <1>3, TypeFacts
<1>5. taken = len /\ sent = <<>> /\ off = 0 /\ retry = 0
  BY <1>1 DEF CountInv, LoopInv
<1>6. taken' \in taken..Len(client.bytes) /\ taken' = len + n /\ taken' \in (len + n)..Len(client.bytes)
  BY <1>1, <1>3, <1>4, <1>5, TypeFacts
<1>. DEFINE b == Placed(buf, len, n)
            status == IF cfg.gate THEN HandshakeStatus(b, len + n) ELSE Valid
<1>7. b \in [Offsets -> 0..255]
  BY <1>2, <1>3, <1>4, PlacedType
<1>8. \/ /\ Seal(b, len + n) /\ len' = len + n /\ pc' = "connect" /\ step' = 0
         /\ UNCHANGED <<off, retry, endVars>>
      \/ NextPrefaceCycle(b, len + n)
      \/ Fail("protocol_handshake_invalid", "PROTOCOL_HANDSHAKE")
  BY DEF PrefaceRead
<1>. HIDE DEF b
<1>9. CASE /\ Seal(b, len + n) /\ len' = len + n /\ pc' = "connect" /\ step' = 0
           /\ UNCHANGED <<off, retry, endVars>>
  BY <1>1, <1>4, <1>5, <1>6, <1>7, <1>9, SealLInv
<1>10. CASE NextPrefaceCycle(b, len + n)
  <2>1. len + n \in 0..BufferSize
    BY <1>4, TypeFacts
  <2>. QED
    BY <1>1, <1>6, <1>7, <1>10, <2>1, CycleLInv
<1>11. CASE Fail("protocol_handshake_invalid", "PROTOCOL_HANDSHAKE")
  BY <1>1, <1>6, <1>11, FailLInv, ReasonsAre
<1>. QED
  BY <1>8, <1>9, <1>10, <1>11

LEMMA PumpReadLInv ==
  ASSUME LInv, NEW n \in 1..BufferSize, PumpRead(n)
  PROVE  LInv'
<1>. USE DEF LInv
<1>1. /\ pc = "read" /\ n \in ReadSizes(BufferSize) /\ taken' = taken + n
      /\ Seal(Placed(buf, 0, n), n) /\ len' = n /\ pc' = "write"
      /\ UNCHANGED <<configVars, sent, fds, expired, faultVars, off, retry, endVars>> /\ step' = step
  BY DEF PumpRead
<1>2. BufferSize \in Nat /\ BufferSize > 0
  BY DataPathAssumption
<1>3. taken + n <= Len(client.bytes) /\ n \in Nat /\ n >= 1
  BY <1>1, <1>2, ReadSizesAre
<1>4. off = 0 /\ retry = 0 /\ step = 0 /\ Len(sent) = taken
  BY <1>1 DEF LoopInv, CountInv
<1>5. taken' \in n..Len(client.bytes) /\ Len(sent) = taken' - n
  BY <1>1, <1>3, <1>4, TypeFacts
<1>6. Placed(buf, 0, n) \in [Offsets -> 0..255]
  <2>1. 0 \in 0..BufferSize
    BY <1>2
  <2>. QED
    BY <1>3, <2>1, PlacedType
<1>. QED
  BY <1>1, <1>4, <1>5, <1>6, SealLInv

\* An iteration of a write loop that sends or waits: more bytes are sent or one
\* more retry is used, so the step bound is not reached.
LEMMA NextWriteLInv ==
  ASSUME LInv, Writing, NEW o \in off..len, NEW r \in retry..IoRetryBudget,
         off + retry + 1 <= o + r, NextWriteStep(o, r, RepairOutcomes(len)),
         UNCHANGED <<configVars, taken, fds, expired, faultVars>>,
         sent' \in Seq(0..255), Len(sent') = Len(sent) + (o - off)
  PROVE  LInv'
<1>. USE DEF LInv
<1>0. /\ BufferSize \in Nat /\ IoStepMax = BufferSize + IoRetryBudget /\ IoRetryBudget \in Nat
      /\ taken \in Nat /\ len \in Nat /\ off \in Nat /\ retry \in Nat /\ step \in Nat
      /\ o \in Nat /\ r \in Nat
  <2>1. /\ BufferSize \in Nat /\ IoStepMax = BufferSize + IoRetryBudget /\ IoRetryBudget \in Nat
        /\ taken \in Nat /\ len \in Nat /\ off \in Nat /\ retry \in Nat /\ step \in Nat
    BY TypeFacts
  <2>. QED
    BY <2>1
<1>1. len \in 0..BufferSize /\ off < len /\ step <= off + retry /\ Len(sent) = taken - len + off
  BY DEF TypeOK, LoopInv, CountInv, Writing
<1>2. /\ cfg' = cfg /\ client' = client /\ fds' = fds /\ expired' = expired /\ taken' = taken
      /\ flips' = flips /\ unsealedHit' = unsealedHit /\ doubleHit' = doubleHit
  BY DEF configVars, faultVars
<1>3. o < len => step + 1 < IoStepMax
  BY <1>0, <1>1
<1>4. ~(o < len /\ step + 1 >= IoStepMax)
  BY <1>0, <1>3
<1>5. \/ /\ o = len /\ pc' = "read" /\ off' = 0 /\ retry' = 0 /\ step' = 0
      \/ /\ o < len /\ pc' = pc /\ off' = o /\ retry' = r /\ step' = step + 1
  BY <1>4 DEF NextWriteStep
<1>6. RepairBuffer(len, RepairOutcomes(len)) /\ len' = len /\ reason' = reason /\ failure' = failure
  BY <1>4 DEF NextWriteStep, endVars
<1>7. buf' \in [Offsets -> 0..255] /\ ecc' \in [Words -> SUBSET (0..7)] /\ eccLen' = eccLen
  BY <1>1, <1>6, RepairBufferTypes
<1>8. TypeOK'
  <2>1. /\ cfg' \in [ecc : BOOLEAN, gate : BOOLEAN, preface : BOOLEAN] /\ client' \in Clients
        /\ fds' \in {"open", "shut"} /\ expired' \in BOOLEAN
        /\ flips' \in 0..FlipMax /\ {unsealedHit', doubleHit'} \subseteq BOOLEAN
        /\ reason' \in Reasons /\ taken' \in 0..Len(client'.bytes) /\ len' \in 0..BufferSize
        /\ eccLen' \in 0..len'
    BY <1>2, <1>6, <1>7 DEF TypeOK
  <2>2. off' \in 0..len' /\ retry' \in 0..IoRetryBudget /\ step' \in 0..IoStepMax
    BY <1>0, <1>3, <1>5, <1>6
  <2>3. pc' \in Pcs
    BY <1>5 DEF TypeOK, Pcs
  <2>. QED
    BY <1>7, <2>1, <2>2, <2>3 DEF TypeOK
<1>9. CASE o = len /\ pc' = "read" /\ off' = 0 /\ retry' = 0 /\ step' = 0
  <2>1. LoopInv'
    BY <1>6, <1>9 DEF LoopInv
  <2>2. EccLenInv'
    BY <1>2, <1>6, <1>7, <1>9 DEF EccLenInv, Writing
  <2>3. Len(sent') = taken'
    BY <1>0, <1>1, <1>2, <1>9
  <2>4. CountInv'
    BY <1>2, <1>6, <1>9, <2>3 DEF CountInv
  <2>. QED
    BY <1>8, <2>1, <2>2, <2>4
<1>10. CASE o < len /\ pc' = pc /\ off' = o /\ retry' = r /\ step' = step + 1
  <2>0. off' < len' /\ step' <= off' + retry' /\ Len(sent') = taken' - len' + off'
    BY <1>0, <1>1, <1>2, <1>6, <1>10
  <2>1. LoopInv'
    BY <1>6, <1>10, <2>0 DEF LoopInv, Writing
  <2>2. EccLenInv'
    BY <1>2, <1>6, <1>7, <1>10 DEF EccLenInv, Writing
  <2>4. CountInv'
    BY <1>2, <1>6, <1>10, <2>0 DEF CountInv, Writing
  <2>. QED
    BY <1>8, <2>1, <2>2, <2>4
<1>. QED
  BY <1>5, <1>9, <1>10

LEMMA Concatenation ==
  ASSUME NEW T, NEW s \in Seq(T), NEW q \in Seq(T)
  PROVE  /\ s \o q \in Seq(T) /\ Len(s \o q) = Len(s) + Len(q)
         /\ \A i \in 1..Len(s) : (s \o q)[i] = s[i]
         /\ \A i \in 1..Len(q) : (s \o q)[Len(s) + i] = q[i]
OBVIOUS

\* The bytes of a send.
LEMMA SentBytes ==
  ASSUME LInv, Writing, NEW n \in 1..(len - off), NEW o,
         sent' = sent \o [i \in 1..n |-> RepairedBuf(len, o)[off + i - 1]]
  PROVE  /\ sent' \in Seq(0..255) /\ Len(sent') = Len(sent) + n
         /\ \A i \in 1..Len(sent) : sent'[i] = sent[i]
         /\ \A i \in 1..n : sent'[Len(sent) + i] = RepairedBuf(len, o)[off + i - 1]
<1>0. BufferSize \in Nat /\ len \in 0..BufferSize /\ off \in 0..len /\ n \in Nat
  BY TypeFacts DEF LInv, TypeOK
<1>. DEFINE piece == [i \in 1..n |-> RepairedBuf(len, o)[off + i - 1]]
<1>1. ASSUME NEW p \in Offsets PROVE RepairedBuf(len, o)[p] \in 0..255
  BY ByteOfType DEF RepairedBuf, LInv, TypeOK
<1>2. \A i \in 1..n : off + i - 1 \in Offsets
  BY <1>0 DEF Offsets
<1>3. piece \in [1..n -> 0..255]
  BY <1>1, <1>2
<1>4. sent \in Seq(0..255)
  BY DEF LInv, CountInv
<1>5. \A i \in 1..n : piece[i] = RepairedBuf(len, o)[off + i - 1]
  OBVIOUS
<1>. HIDE DEF piece
<1>6. piece \in Seq(0..255) /\ Len(piece) = n
  BY <1>0, <1>3
<1>7. /\ sent \o piece \in Seq(0..255) /\ Len(sent \o piece) = Len(sent) + Len(piece)
      /\ \A i \in 1..Len(sent) : (sent \o piece)[i] = sent[i]
      /\ \A i \in 1..Len(piece) : (sent \o piece)[Len(sent) + i] = piece[i]
  <2>. DEFINE B == 0..255
  <2>1. sent \in Seq(B) /\ piece \in Seq(B)
    BY <1>4, <1>6
  <2>. HIDE DEF B
  <2>2. /\ sent \o piece \in Seq(B) /\ Len(sent \o piece) = Len(sent) + Len(piece)
        /\ \A i \in 1..Len(sent) : (sent \o piece)[i] = sent[i]
        /\ \A i \in 1..Len(piece) : (sent \o piece)[Len(sent) + i] = piece[i]
    BY <2>1, Concatenation
  <2>. QED
    BY <2>2 DEF B
<1>8. sent' = sent \o piece
  BY DEF piece
<1>. QED
  BY <1>5, <1>6, <1>7, <1>8

LEMMA SendSizes ==
  ASSUME LInv, Writing, NEW n \in {1, len - off}
  PROVE  n \in 1..(len - off) /\ off + n \in off..len
<1>1. len \in Nat /\ off \in Nat /\ off < len
  BY TypeFacts DEF LInv, LoopInv, Writing
<1>. QED
  BY <1>1

LEMMA WriteLInv == LInv /\ WriteStep => LInv'
<1>. SUFFICES ASSUME LInv, WriteStep PROVE LInv'
  OBVIOUS
<1>. DEFINE o == RepairOutcomes(len)
<1>0. TypeOK
  BY DEF LInv
<1>1. \/ \E n \in {1, len - off} : SendSome(n, o)
      \/ SendAgain(o) \/ SendFails(o) \/ SendEccLost(o)
  BY DEF WriteStep
<1>2. /\ len \in Nat /\ off \in Nat /\ retry \in Nat /\ IoRetryBudget \in Nat
      /\ retry \in 0..IoRetryBudget /\ off \in 0..len
  BY <1>0, TypeFacts DEF TypeOK
<1>3. ASSUME NEW n \in {1, len - off}, SendSome(n, o) PROVE LInv'
  <2>. HIDE DEF o
  <2>1. /\ Writing /\ NextWriteStep(off + n, retry, o)
        /\ UNCHANGED <<configVars, taken, fds, expired, faultVars>>
        /\ sent' = sent \o [i \in 1..n |-> RepairedBuf(len, o)[off + i - 1]]
    BY <1>3 DEF SendSome
  <2>2. n \in 1..(len - off) /\ off + n \in off..len
    BY <2>1, SendSizes
  <2>3. sent' \in Seq(0..255) /\ Len(sent') = Len(sent) + n
    BY <2>1, <2>2, SentBytes
  <2>4. retry \in retry..IoRetryBudget /\ off + retry + 1 <= off + n + retry /\ n = (off + n) - off
    BY <1>2, <2>2
  <2>5. Len(sent') = Len(sent) + ((off + n) - off)
    BY <2>3, <2>4
  <2>. QED
    BY <2>1, <2>2, <2>3, <2>4, <2>5, NextWriteLInv DEF o
<1>4. ASSUME SendAgain(o) PROVE LInv'
  <2>1. Writing /\ UNCHANGED <<configVars, taken, sent, fds, expired, faultVars>>
    BY <1>4 DEF SendAgain
  <2>2. CASE retry < IoRetryBudget /\ NextWriteStep(off, retry + 1, o)
    <3>1. off \in off..len /\ retry + 1 \in retry..IoRetryBudget /\ off + retry + 1 <= off + (retry + 1)
      BY <1>2, <2>2
    <3>2. sent' \in Seq(0..255) /\ Len(sent') = Len(sent) + (off - off)
      <4>1. sent \in Seq(0..255) /\ sent' = sent
        BY <2>1 DEF LInv, CountInv
      <4>2. Len(sent) \in Nat /\ off - off = 0
        BY <1>2, <4>1
      <4>. QED
        BY <4>1, <4>2
    <3>. QED
      BY <2>1, <2>2, <3>1, <3>2, NextWriteLInv
  <2>3. CASE Fail("write_retry", PumpMark("CONTRACT_VIOLATION"))
    BY <1>0, <2>1, <2>3, EndsLInv, ReasonsAre
  <2>. QED
    BY <1>4, <2>2, <2>3 DEF SendAgain
<1>5. ASSUME SendFails(o) PROVE LInv'
  BY <1>0, <1>5, EndsLInv, ReasonsAre DEF SendFails
<1>6. ASSUME SendEccLost(o) PROVE LInv'
  BY <1>0, <1>6, EndsLInv, ReasonsAre DEF SendEccLost
<1>. QED
  BY <1>1, <1>3, <1>4, <1>5, <1>6

\* The steps that change only the buffer, its codes and how the session is
\* marked.
LEMMA ContentLInv ==
  ASSUME LInv, UNCHANGED <<configVars, taken, sent, pc, expired, eccLen, loopVars, failure>>,
         buf' \in [Offsets -> 0..255], ecc' \in [Words -> SUBSET (0..7)],
         fds' \in {"open", "shut"}, reason' \in Reasons, flips' \in 0..FlipMax,
         {unsealedHit', doubleHit'} \subseteq BOOLEAN
  PROVE  LInv'
<1>1. /\ cfg' = cfg /\ client' = client /\ taken' = taken /\ sent' = sent /\ pc' = pc
      /\ expired' = expired /\ eccLen' = eccLen /\ failure' = failure
      /\ len' = len /\ off' = off /\ retry' = retry /\ step' = step
  BY DEF configVars, loopVars
<1>2. TypeOK'
  BY <1>1 DEF LInv, TypeOK
<1>3. LoopInv' /\ EccLenInv' /\ CountInv'
  BY <1>1 DEF LInv, LoopInv, EccLenInv, CountInv
<1>. QED
  BY <1>2, <1>3 DEF LInv

LEMMA ScrubLInv == LInv /\ Scrub => LInv'
<1>. SUFFICES ASSUME LInv, Scrub PROVE LInv'
  OBVIOUS
<1>. DEFINE o == RepairOutcomes(eccLen)
<1>1. /\ RepairBuffer(eccLen, o)
      /\ IF Repairable(o) THEN UNCHANGED <<reason, fds>> ELSE reason' = "PAYLOAD_ECC" /\ fds' = "shut"
      /\ UNCHANGED <<configVars, taken, sent, pc, expired, loopVars, failure, faultVars>>
  BY DEF Scrub
<1>2. TypeOK
  BY DEF LInv
<1>3. eccLen \in 0..BufferSize
  <2>1. eccLen \in 0..len /\ len \in 0..BufferSize /\ BufferSize \in Nat
    BY <1>2, TypeFacts DEF TypeOK
  <2>. QED
    BY <2>1
<1>4. buf' \in [Offsets -> 0..255] /\ ecc' \in [Words -> SUBSET (0..7)] /\ eccLen' = eccLen
  BY <1>1, <1>2, <1>3, RepairBufferTypes
<1>5. /\ fds' \in {"open", "shut"} /\ reason' \in Reasons /\ flips' \in 0..FlipMax
      /\ {unsealedHit', doubleHit'} \subseteq BOOLEAN
  BY <1>1, <1>2, ReasonsAre DEF TypeOK, faultVars
<1>. QED
  BY <1>1, <1>4, <1>5, ContentLInv

\* A flip is of a byte or of a code.
LEMMA FlipBitsAre ==
  ASSUME NEW f \in FlipBits
  PROVE  \/ f[1] = "data" /\ f[2] \in Offsets /\ f[3] \in 0..7
         \/ f[1] = "ecc" /\ f[2] \in Words /\ f[3] \in 0..7
BY DataPathAssumption

LEMMA FlipLInv ==
  ASSUME LInv, NEW f \in FlipBits, Flip(f)
  PROVE  LInv'
<1>0. TypeOK /\ flips \in Nat /\ FlipMax \in Nat
  BY TypeFacts, DataPathAssumption DEF LInv
<1>1. /\ flips < FlipMax /\ flips' = flips + 1
      /\ UNCHANGED <<configVars, taken, sent, pc, fds, expired, eccLen, loopVars, endVars>>
  BY DEF Flip
<1>2. flips' \in 0..FlipMax
  BY <1>0, <1>1
<1>3. {unsealedHit', doubleHit'} \subseteq BOOLEAN
  BY DEF Flip
<1>4. fds' \in {"open", "shut"} /\ reason' \in Reasons /\ failure' = failure
  BY <1>0, <1>1 DEF TypeOK, endVars
<1>5. buf' \in [Offsets -> 0..255]
  <2>1. CASE f[1] = "data"
    <3>1. buf' = [buf EXCEPT ![f[2]] = Value(SymDiff(BitsOf(@), {f[3]}))]
      BY <2>1 DEF Flip
    <3>. QED
      BY <1>0, <3>1, ValueRange DEF TypeOK
  <2>2. CASE f[1] # "data"
    BY <1>0, <2>2 DEF Flip, TypeOK
  <2>. QED
    BY <2>1, <2>2
<1>6. ecc' \in [Words -> SUBSET (0..7)]
  <2>1. CASE f[1] = "data"
    BY <1>0, <2>1 DEF Flip, TypeOK
  <2>2. CASE f[1] # "data"
    <3>1. ecc' = [ecc EXCEPT ![f[2]] = SymDiff(@, {f[3]})]
      BY <2>2 DEF Flip
    <3>2. f[2] \in Words /\ f[3] \in 0..7
      BY <2>2, FlipBitsAre
    <3>3. SymDiff(ecc[f[2]], {f[3]}) \in SUBSET (0..7)
      BY <1>0, <3>2 DEF TypeOK, SymDiff
    <3>. QED
      BY <1>0, <3>1, <3>3 DEF TypeOK
  <2>. QED
    BY <2>1, <2>2
<1>. QED
  BY <1>1, <1>2, <1>3, <1>4, <1>5, <1>6, ContentLInv

LEMMA NextLInv == LInv /\ [Next]_vars => LInv'
<1>. SUFFICES ASSUME LInv, [Next]_vars PROVE LInv'
  OBVIOUS
<1>1. ASSUME NEW n \in 1..BufferSize, PrefaceRead(n) \/ PumpRead(n) PROVE LInv'
  BY <1>1, PrefaceReadLInv, PumpReadLInv
<1>2. ASSUME NEW f \in FlipBits, Flip(f) PROVE LInv'
  BY <1>2, FlipLInv
<1>. QED
  BY <1>1, <1>2, LoadConfigLInv, QuietActionsLInv, PrefaceAgainLInv, ConnectLInv, WriteLInv, ScrubLInv
  DEF Next, Terminated

LEMMA SpecLInv == Spec => []LInv
BY InitLInv, NextLInv, PTL DEF Spec

\* The loops end within their budgets for every buffer, retry budget and client,
\* and the step bound of the write loops is never what ends them.
THEOREM LoopBounds == Spec => []LoopsBounded
<1>1. LInv => LoopsBounded
  BY DEF LInv, LoopInv, LoopsBounded
<1>. QED
  BY <1>1, SpecLInv, PTL

-----------------------------------------------------------------------------
(* Words and bytes *)

LEMMA LoadWordBits ==
  ASSUME NEW b, NEW n, NEW w, NEW k \in 0..7, NEW i \in 0..7
  PROVE  8 * k + i \in LoadWord(b, n, w) <=> 8 * w + k < n /\ i \in BitsOf(b[8 * w + k])
<1>1. LoadWord(b, n, w) = UNION {{8 * h + j : j \in BitsOf(b[8 * w + h])} : h \in {j \in 0..7 : 8 * w + j < n}}
  BY DEF LoadWord, WordBytes
<1>2. 8 * k + i \in LoadWord(b, n, w) <=>
        \E h \in 0..7 : 8 * w + h < n /\ \E j \in BitsOf(b[8 * w + h]) : 8 * k + i = 8 * h + j
  BY <1>1
<1>3. \A h \in 0..7 : BitsOf(b[8 * w + h]) \subseteq 0..7
  BY ByteBits
<1>4. \A h \in 0..7 : \A j \in 0..7 : 8 * k + i = 8 * h + j => h = k /\ j = i
  OBVIOUS
<1>5. \A h \in 0..7 : \A j \in BitsOf(b[8 * w + h]) : 8 * k + i = 8 * h + j => h = k /\ j = i
  BY <1>3, <1>4
<1>. QED
  BY <1>2, <1>5

LEMMA LoadWordType ==
  ASSUME NEW b, NEW n, NEW w
  PROVE  LoadWord(b, n, w) \in SUBSET (0..63)
<1>1. SUFFICES ASSUME NEW d \in LoadWord(b, n, w) PROVE d \in 0..63
  OBVIOUS
<1>2. PICK h \in 0..7 : \E j \in BitsOf(b[8 * w + h]) : d = 8 * h + j
  BY <1>1 DEF LoadWord, WordBytes
<1>3. BitsOf(b[8 * w + h]) \subseteq 0..7
  BY ByteBits
<1>. QED
  BY <1>2, <1>3

\* A bit of a word is a bit of one of its bytes.
LEMMA WordBit ==
  ASSUME NEW d \in 0..63
  PROVE  d \div 8 \in 0..7 /\ d % 8 \in 0..7 /\ d = 8 * (d \div 8) + (d % 8)
OBVIOUS

LEMMA SameBytesSameWord ==
  ASSUME NEW b, NEW g, NEW n, NEW w, \A k \in 0..7 : 8 * w + k < n => b[8 * w + k] = g[8 * w + k]
  PROVE  LoadWord(b, n, w) = LoadWord(g, n, w)
<1>1. \A k \in 0..7 : \A i \in 0..7 : 8 * k + i \in LoadWord(b, n, w) <=> 8 * k + i \in LoadWord(g, n, w)
  BY LoadWordBits
<1>2. \A d \in 0..63 : d \in LoadWord(b, n, w) <=> d \in LoadWord(g, n, w)
  BY <1>1, WordBit
<1>. QED
  BY <1>2, LoadWordType

\* The position of offset p in its word.
LEMMA OffsetSplit ==
  ASSUME NEW p \in Nat
  PROVE  p \div 8 \in Nat /\ p % 8 \in 0..7 /\ 8 * (p \div 8) + (p % 8) = p
OBVIOUS

LEMMA WordOffset ==
  ASSUME NEW w \in Nat, NEW k \in 0..7
  PROVE  8 * w + k \in Nat /\ (8 * w + k) \div 8 = w /\ (8 * w + k) % 8 = k
OBVIOUS

\* A byte stored from a word that was loaded is the byte.
LEMMA ByteOfLoaded ==
  ASSUME NEW b, NEW n, NEW p \in Nat, p < n, b[p] \in 0..255
  PROVE  ByteOf(LoadWord(b, n, p \div 8), p % 8) = b[p]
<1>. DEFINE w == p \div 8
            k == p % 8
<1>1. k \in 0..7 /\ 8 * w + k = p
  BY OffsetSplit
<1>. HIDE DEF w, k
<1>2. \A i \in 0..7 : 8 * k + i \in LoadWord(b, n, w) <=> i \in BitsOf(b[p])
  BY <1>1, LoadWordBits
<1>3. BitsOf(b[p]) \subseteq 0..7
  BY ByteBits
<1>4. {i \in 0..7 : 8 * k + i \in LoadWord(b, n, w)} = BitsOf(b[p])
  BY <1>2, <1>3
<1>5. ByteOf(LoadWord(b, n, w), k) = b[p]
  BY <1>4, ValueOfBits DEF ByteOf
<1>. QED
  BY <1>5 DEF w, k

\* Buffer c is b with bit i of byte p flipped, as far as its first n bytes go.
ByteFlip(b, c, n, p, i) ==
  /\ p \in Nat /\ p < n /\ i \in 0..7
  /\ c[p] = Value(SymDiff(BitsOf(b[p]), {i}))
  /\ \A q \in Nat : q # p /\ q < n => c[q] = b[q]

\* That flips one bit of its word.
LEMMA WordFlip ==
  ASSUME NEW b, NEW c, NEW n, NEW p, NEW i, ByteFlip(b, c, n, p, i)
  PROVE  LoadWord(c, n, p \div 8) = SymDiff(LoadWord(b, n, p \div 8), {8 * (p % 8) + i})
<1>0. /\ p \in Nat /\ p < n /\ i \in 0..7
      /\ c[p] = Value(SymDiff(BitsOf(b[p]), {i}))
      /\ \A q \in Nat : q # p /\ q < n => c[q] = b[q]
  BY DEF ByteFlip
<1>. DEFINE w == p \div 8
            k == p % 8
<1>1. k \in 0..7 /\ 8 * w + k = p /\ w \in Nat
  BY <1>0, OffsetSplit
<1>2. BitsOf(c[p]) = SymDiff(BitsOf(b[p]), {i})
  <2>1. SymDiff(BitsOf(b[p]), {i}) \in SUBSET (0..7)
    BY <1>0, ByteBits DEF SymDiff
  <2>. QED
    BY <1>0, <2>1, BitsOfValue
<1>. HIDE DEF w, k
<1>3. \A j \in 0..7 : 8 * k + j \in LoadWord(c, n, w) <=> 8 * k + j \in SymDiff(LoadWord(b, n, w), {8 * k + i})
  <2>1. TAKE j \in 0..7
  <2>2. 8 * k + j \in LoadWord(c, n, w) <=> j \in SymDiff(BitsOf(b[p]), {i})
    BY <1>0, <1>1, <1>2, LoadWordBits
  <2>3. 8 * k + j \in LoadWord(b, n, w) <=> j \in BitsOf(b[p])
    BY <1>0, <1>1, LoadWordBits
  <2>4. 8 * k + j = 8 * k + i <=> j = i
    BY <1>0, <1>1
  <2>. QED
    BY <2>2, <2>3, <2>4 DEF SymDiff
<1>4. \A h \in 0..7 : \A j \in 0..7 : h # k =>
        (8 * h + j \in LoadWord(c, n, w) <=> 8 * h + j \in SymDiff(LoadWord(b, n, w), {8 * k + i}))
  <2>. SUFFICES ASSUME NEW h \in 0..7, NEW j \in 0..7, h # k
                PROVE  8 * h + j \in LoadWord(c, n, w) <=> 8 * h + j \in SymDiff(LoadWord(b, n, w), {8 * k + i})
    OBVIOUS
  <2>1. 8 * w + h \in Nat /\ 8 * w + h # p /\ 8 * h + j # 8 * k + i
    BY <1>0, <1>1
  <2>2. 8 * w + h < n => c[8 * w + h] = b[8 * w + h]
    BY <1>0, <2>1
  <2>3. 8 * h + j \in LoadWord(c, n, w) <=> 8 * h + j \in LoadWord(b, n, w)
    BY <2>2, LoadWordBits
  <2>. QED
    BY <2>1, <2>3 DEF SymDiff
<1>5. \A d \in 0..63 : d \in LoadWord(c, n, w) <=> d \in SymDiff(LoadWord(b, n, w), {8 * k + i})
  BY <1>0, <1>3, <1>4, WordBit
<1>6. LoadWord(c, n, w) = SymDiff(LoadWord(b, n, w), {8 * k + i})
  <2>1. 8 * k + i \in 0..63
    BY <1>0, <1>1
  <2>2. SymDiff(LoadWord(b, n, w), {8 * k + i}) \in SUBSET (0..63)
    BY <2>1, LoadWordType DEF SymDiff
  <2>. QED
    BY <1>5, <2>2, LoadWordType
<1>. QED
  BY <1>6 DEF w, k

-----------------------------------------------------------------------------
(* What a sealed word may have suffered *)

\* A word and its code: those of W, with one bit flipped, with two.
Clean(d, c, W) == d = W /\ c = Encode(W, 64)
Single(d, c, W) ==
  \E f \in CodeBits(64) : d = FlipData(W, f) /\ c = FlipCode(Encode(W, 64), f)
Double(d, c, W) ==
  \E f, g \in CodeBits(64) : /\ f # g
                             /\ d = FlipData(FlipData(W, f), g)
                             /\ c = FlipCode(FlipCode(Encode(W, 64), f), g)

\* After k flips, hit saying whether one fell on a faulty word.
Holds(d, c, W, k, hit) ==
  \/ Clean(d, c, W)
  \/ Single(d, c, W) /\ k >= 1
  \/ hit /\ k >= 2 /\ (k > 2 \/ Double(d, c, W))

LEMMA Width64 == 64 \in Widths /\ 64 - 1 = 63
BY DEF Widths

LEMMA CleanOutcome ==
  ASSUME NEW W \in SUBSET (0..63), NEW d, NEW c, Clean(d, c, W)
  PROVE  Repair(d, 64, c) = Outcome("OK", W, Encode(W, 64))
<1>1. W \in SUBSET (0..(64 - 1))
  BY Width64
<1>. QED
  BY <1>1, Width64, CleanRepair DEF Clean

LEMMA SingleOutcome ==
  ASSUME NEW W \in SUBSET (0..63), NEW d, NEW c, Single(d, c, W)
  PROVE  Repair(d, 64, c) = Outcome("CORRECTED", W, Encode(W, 64))
<1>1. W \in SUBSET (0..(64 - 1))
  BY Width64
<1>2. PICK f \in CodeBits(64) : d = FlipData(W, f) /\ c = FlipCode(Encode(W, 64), f)
  BY DEF Single
<1>. QED
  BY <1>1, <1>2, Width64, SingleRepair

LEMMA DoubleOutcome ==
  ASSUME NEW W \in SUBSET (0..63), NEW d, NEW c, Double(d, c, W)
  PROVE  Repair(d, 64, c).status = "UNCORRECTABLE"
<1>1. W \in SUBSET (0..(64 - 1))
  BY Width64
<1>2. PICK f \in CodeBits(64), g \in CodeBits(64) :
        f # g /\ d = FlipData(FlipData(W, f), g) /\ c = FlipCode(FlipCode(Encode(W, 64), f), g)
  BY DEF Double
<1>3. Repair(d, 64, c) = Outcome("UNCORRECTABLE", d, c)
  BY <1>1, <1>2, Width64, DoubleRepair
<1>. QED
  BY <1>3 DEF Outcome

\* What a repair makes of such a word.
LEMMA HeldOutcome ==
  ASSUME NEW W \in SUBSET (0..63), NEW d, NEW c, NEW k, NEW hit, Holds(d, c, W, k, hit)
  PROVE  \/ hit /\ k > 2
         \/ hit /\ Repair(d, 64, c).status = "UNCORRECTABLE"
         \/ /\ Repair(d, 64, c).status = "CORRECTED"
            /\ Repair(d, 64, c).data = W /\ Repair(d, 64, c).ecc = Encode(W, 64)
         \/ Repair(d, 64, c).status = "OK" /\ d = W
<1>1. CASE Clean(d, c, W)
  <2>1. Repair(d, 64, c) = Outcome("OK", W, Encode(W, 64)) /\ d = W
    BY <1>1, CleanOutcome DEF Clean
  <2>. QED
    BY <2>1 DEF Outcome
<1>2. CASE Single(d, c, W)
  <2>1. Repair(d, 64, c) = Outcome("CORRECTED", W, Encode(W, 64))
    BY <1>2, SingleOutcome
  <2>. QED
    BY <2>1 DEF Outcome
<1>3. CASE hit /\ k > 2
  BY <1>3
<1>4. CASE hit /\ k >= 2 /\ Double(d, c, W)
  BY <1>4, DoubleOutcome
<1>. QED
  BY <1>1, <1>2, <1>3, <1>4 DEF Holds

\* A word with one bit flipped is not a word of the code.
LEMMA SingleFaulty ==
  ASSUME NEW W \in SUBSET (0..63), NEW d \in SUBSET (0..63), NEW c, Single(d, c, W)
  PROVE  ~IsValid(d, 64, c)
<1>1. SUFFICES ASSUME c = Encode(d, 64) PROVE FALSE
  BY DEF IsValid
<1>2. Clean(d, c, d)
  BY <1>1 DEF Clean
<1>3. Repair(d, 64, c) = Outcome("OK", d, Encode(d, 64))
  BY <1>2, CleanOutcome
<1>4. Repair(d, 64, c) = Outcome("CORRECTED", W, Encode(W, 64))
  BY SingleOutcome
<1>. QED
  BY <1>3, <1>4 DEF Outcome

LEMMA FlipTwice ==
  ASSUME NEW S, NEW f
  PROVE  FlipData(FlipData(S, f), f) = S /\ FlipCode(FlipCode(S, f), f) = S
BY DoubleDiff DEF FlipData, FlipCode

\* A further flip.
LEMMA HeldFlip ==
  ASSUME NEW W \in SUBSET (0..63), NEW d \in SUBSET (0..63), NEW c, NEW k \in Nat,
         NEW hit, NEW hit2, Holds(d, c, W, k, hit), hit => hit2, ~IsValid(d, 64, c) => hit2,
         NEW g \in CodeBits(64)
  PROVE  Holds(FlipData(d, g), FlipCode(c, g), W, k + 1, hit2)
<1>1. CASE Clean(d, c, W)
  <2>1. Single(FlipData(d, g), FlipCode(c, g), W)
    BY <1>1 DEF Clean, Single
  <2>2. k + 1 >= 1
    OBVIOUS
  <2>. QED
    BY <2>1, <2>2 DEF Holds
<1>2. CASE Single(d, c, W) /\ k >= 1
  <2>1. hit2
    BY <1>2, SingleFaulty
  <2>2. PICK f \in CodeBits(64) : d = FlipData(W, f) /\ c = FlipCode(Encode(W, 64), f)
    BY <1>2 DEF Single
  <2>3. CASE f = g
    <3>1. Clean(FlipData(d, g), FlipCode(c, g), W)
      BY <2>2, <2>3, FlipTwice DEF Clean
    <3>. QED
      BY <3>1 DEF Holds
  <2>4. CASE f # g
    <3>1. Double(FlipData(d, g), FlipCode(c, g), W)
      BY <2>2, <2>4 DEF Double
    <3>2. k + 1 >= 2
      BY <1>2
    <3>. QED
      BY <2>1, <3>1, <3>2 DEF Holds
  <2>. QED
    BY <2>3, <2>4
<1>3. CASE hit /\ k >= 2
  <2>1. k + 1 > 2 /\ k + 1 >= 2
    BY <1>3
  <2>. QED
    BY <1>3, <2>1 DEF Holds
<1>. QED
  BY <1>1, <1>2, <1>3 DEF Holds

-----------------------------------------------------------------------------
(* The sealed buffer *)

\* G is what was sealed: the words the codes cover are its words.
WordsHold(G) ==
  \A w \in 0..(WordCountFor(eccLen) - 1) :
    Holds(LoadWord(buf, ProtectedLen(eccLen), w), ecc[w], LoadWord(G, ProtectedLen(eccLen), w),
          flips, doubleHit)

\* ... and it is what the client sent.
Matches(G) ==
  ~unsealedHit => \A p \in 0..(eccLen - 1) : G[p] = client.bytes[taken - eccLen + p + 1]

SealedInv == cfg.ecc => \E G \in [Offsets -> 0..255] : WordsHold(G) /\ Matches(G)

\* The preface that waits for more bytes.
PrefaceInv ==
  pc = "preface" /\ ~unsealedHit => \A p \in 0..(len - 1) : buf[p] = client.bytes[p + 1]

\* What the backend got.
DeliveredInv ==
  cfg.ecc /\ ~unsealedHit /\ (flips <= 2 \/ ~doubleHit) =>
    \A i \in 1..Len(sent) : sent[i] = client.bytes[i]

CInv == SealedInv /\ PrefaceInv /\ EccFailureJustified /\ DeliveredInv

LEMMA EccLenRange ==
  ASSUME TypeOK
  PROVE  eccLen \in 0..BufferSize
<1>1. eccLen \in 0..len /\ len \in 0..BufferSize /\ BufferSize \in Nat
  BY TypeFacts DEF TypeOK
<1>. QED
  BY <1>1

\* The offsets of a covered word.
LEMMA CoveredOffsets ==
  ASSUME NEW n \in 0..BufferSize, NEW w \in 0..(WordCountFor(n) - 1)
  PROVE  /\ w \in Words /\ w \in Nat
         /\ \A j \in 0..7 : 8 * w + j < ProtectedLen(n) =>
              8 * w + j \in Offsets /\ (8 * w + j) \div 8 = w /\ (8 * w + j) % 8 = j
<1>1. WordCountFor(n) \in 0..WordCount /\ ProtectedLen(n) \in n..BufferSize
  BY WordArithmetic
<1>2. BufferSize \in Nat /\ WordCount \in Nat
  BY DataPathAssumption DEF WordCount, WordBytes
<1>3. w \in Words /\ w \in Nat
  BY <1>1, <1>2 DEF Words
<1>4. ASSUME NEW j \in 0..7, 8 * w + j < ProtectedLen(n)
      PROVE  8 * w + j \in Offsets /\ (8 * w + j) \div 8 = w /\ (8 * w + j) % 8 = j
  <2>1. 8 * w + j \in Nat /\ (8 * w + j) \div 8 = w /\ (8 * w + j) % 8 = j
    BY <1>3, WordOffset
  <2>2. ProtectedLen(n) \in Nat /\ ProtectedLen(n) <= BufferSize
    BY <1>1, <1>2
  <2>. QED
    BY <1>2, <1>4, <2>1, <2>2 DEF Offsets
<1>. QED
  BY <1>3, <1>4

\* A repair, of the write loops or of the scrub, keeps what is sealed.
LEMMA RepairHolds ==
  ASSUME TypeOK, cfg.ecc, RepairBuffer(eccLen, RepairOutcomes(eccLen)),
         flips' = flips, doubleHit' = doubleHit,
         NEW G \in [Offsets -> 0..255], WordsHold(G)
  PROVE  WordsHold(G)'
<1>. DEFINE n == eccLen
            o == RepairOutcomes(n)
            pl == ProtectedLen(n)
<1>1. /\ buf' = RepairedBuf(n, o)
      /\ ecc' = [w \in Words |-> IF cfg.ecc /\ w \in CorrectedWords(o) THEN o[w].ecc ELSE ecc[w]]
      /\ eccLen' = eccLen
  BY DEF RepairBuffer
<1>2. n \in 0..BufferSize
  BY EccLenRange
<1>3. SUFFICES ASSUME NEW w \in 0..(WordCountFor(n) - 1)
               PROVE  Holds(LoadWord(buf', pl, w), ecc'[w], LoadWord(G, pl, w), flips, doubleHit)
  BY <1>1 DEF WordsHold
<1>. DEFINE W == LoadWord(G, pl, w)
            d == LoadWord(buf, pl, w)
<1>4. w \in Words /\ w \in Nat /\ W \in SUBSET (0..63)
  BY <1>2, CoveredOffsets, LoadWordType
<1>5. Holds(d, ecc[w], W, flips, doubleHit)
  BY DEF WordsHold
<1>6. o[w] = Repair(d, 64, ecc[w]) /\ DOMAIN o = 0..(WordCountFor(n) - 1)
  BY DEF RepairOutcomes
<1>7. ASSUME NEW j \in 0..7, 8 * w + j < pl
      PROVE  buf'[8 * w + j] = IF w \in CorrectedWords(o) THEN ByteOf(o[w].data, j) ELSE buf[8 * w + j]
  <2>1. 8 * w + j \in Offsets /\ (8 * w + j) \div 8 = w /\ (8 * w + j) % 8 = j
    BY <1>2, <1>7, CoveredOffsets
  <2>. HIDE DEF o
  <2>. QED
    BY <1>1, <1>7, <2>1 DEF RepairedBuf, WordBytes
<1>. HIDE DEF o, pl, n
<1>8. CASE w \in CorrectedWords(o)
  <2>1. o[w].status = "CORRECTED"
    BY <1>8 DEF CorrectedWords
  <2>2. ecc'[w] = o[w].ecc
    BY <1>1, <1>4, <1>8
  <2>3. CASE doubleHit /\ flips > 2
    <3>1. flips \in Nat
      BY TypeFacts
    <3>2. flips >= 2
      BY <2>3, <3>1
    <3>. QED
      BY <2>3, <3>2 DEF Holds
  <2>4. CASE o[w].data = W /\ o[w].ecc = Encode(W, 64)
    <3>1. ASSUME NEW j \in 0..7, 8 * w + j < pl PROVE buf'[8 * w + j] = G[8 * w + j]
      <4>1. 8 * w + j \in Offsets /\ (8 * w + j) \div 8 = w /\ (8 * w + j) % 8 = j
        BY <1>2, <3>1, CoveredOffsets DEF n, pl
      <4>2. 8 * w + j \in Nat /\ G[8 * w + j] \in 0..255
        BY <1>4, <4>1, WordOffset
      <4>3. ByteOf(LoadWord(G, pl, (8 * w + j) \div 8), (8 * w + j) % 8) = G[8 * w + j]
        BY <3>1, <4>2, ByteOfLoaded
      <4>4. buf'[8 * w + j] = ByteOf(o[w].data, j)
        BY <1>7, <1>8, <3>1
      <4>. QED
        BY <2>4, <4>1, <4>3, <4>4
    <3>2. LoadWord(buf', pl, w) = W
      BY <3>1, SameBytesSameWord
    <3>. QED
      BY <2>2, <2>4, <3>2 DEF Holds, Clean
  <2>. HIDE DEF W, d
  <2>5. \/ doubleHit /\ flips > 2
        \/ doubleHit /\ Repair(d, 64, ecc[w]).status = "UNCORRECTABLE"
        \/ /\ Repair(d, 64, ecc[w]).status = "CORRECTED"
           /\ Repair(d, 64, ecc[w]).data = W /\ Repair(d, 64, ecc[w]).ecc = Encode(W, 64)
        \/ Repair(d, 64, ecc[w]).status = "OK" /\ d = W
    BY <1>4, <1>5, HeldOutcome
  <2>6. Repair(d, 64, ecc[w]).status # "UNCORRECTABLE" /\ Repair(d, 64, ecc[w]).status # "OK"
    BY <1>6, <2>1
  <2>7. \/ doubleHit /\ flips > 2
        \/ o[w].data = W /\ o[w].ecc = Encode(W, 64)
    BY <1>6, <2>5, <2>6
  <2>. QED
    BY <2>3, <2>4, <2>7
<1>9. CASE w \notin CorrectedWords(o)
  <2>1. ecc'[w] = ecc[w]
    BY <1>1, <1>4, <1>9
  <2>2. LoadWord(buf', pl, w) = d
    <3>1. \A j \in 0..7 : 8 * w + j < pl => buf'[8 * w + j] = buf[8 * w + j]
      BY <1>7, <1>9
    <3>. QED
      BY <3>1, SameBytesSameWord
  <2>. QED
    BY <1>5, <2>1, <2>2
<1>. QED
  BY <1>8, <1>9

\* A seal starts from what is in the buffer.
LEMMA SealHolds ==
  ASSUME cfg.ecc, NEW b, NEW n \in 0..BufferSize, Seal(b, n)
  PROVE  WordsHold(ZeroPadding(b, n))'
<1>. DEFINE Z == ZeroPadding(b, n)
<1>1. buf' = Z /\ ecc' = SealedEcc(Z, n) /\ eccLen' = n
  BY DEF Seal
<1>. HIDE DEF Z
<1>2. SUFFICES ASSUME NEW w \in 0..(WordCountFor(n) - 1)
               PROVE  Clean(LoadWord(Z, ProtectedLen(n), w), ecc'[w], LoadWord(Z, ProtectedLen(n), w))
  <2>1. \A w \in 0..(WordCountFor(n) - 1) :
          Holds(LoadWord(Z, ProtectedLen(n), w), ecc'[w], LoadWord(Z, ProtectedLen(n), w),
                flips', doubleHit')
    BY <1>2 DEF Holds
  <2>2. WordsHold(Z)'
    BY <1>1, <2>1 DEF WordsHold
  <2>. QED
    BY <2>2 DEF Z
<1>3. w \in Words /\ w \in Nat
  BY CoveredOffsets
<1>4. w < WordCountFor(n)
  <2>1. WordCountFor(n) \in 0..WordCount /\ WordCount \in Nat
    BY WordArithmetic, DataPathAssumption DEF WordCount, WordBytes
  <2>. QED
    BY <2>1
<1>5. ecc'[w] = Encode(LoadWord(Z, ProtectedLen(n), w), 64)
  BY <1>1, <1>3, <1>4 DEF SealedEcc
<1>. QED
  BY <1>5 DEF Clean

LEMMA HoldsMore ==
  ASSUME NEW d, NEW c, NEW W, NEW k \in Nat, NEW hit, NEW hit2, Holds(d, c, W, k, hit), hit => hit2
  PROVE  Holds(d, c, W, k + 1, hit2)
<1>1. (k >= 1 => k + 1 >= 1) /\ (k >= 2 => k + 1 >= 2) /\ (k > 2 => k + 1 > 2)
  OBVIOUS
<1>. QED
  BY <1>1 DEF Holds

LEMMA CodeBit64 ==
  /\ \A d \in 0..63 : <<"data", d>> \in CodeBits(64)
  /\ \A i \in 0..7 : <<"ecc", i>> \in CodeBits(64)
BY WidthParityBits DEF CodeBits, OverallBit

\* A flip of a byte.
LEMMA DataFlipHolds ==
  ASSUME TypeOK, NEW f \in FlipBits, Flip(f), f[1] = "data",
         NEW G \in [Offsets -> 0..255], WordsHold(G)
  PROVE  WordsHold(G)'
<1>. DEFINE p == f[2]
            i == f[3]
            n == eccLen
            pl == ProtectedLen(n)
<1>1. p \in Offsets /\ i \in 0..7
  BY FlipBitsAre
<1>2. /\ flips < FlipMax /\ flips' = flips + 1 /\ eccLen' = eccLen /\ ecc' = ecc
      /\ doubleHit' = (doubleHit \/ (Covered(p \div 8) /\ FaultyWord(p \div 8)))
      /\ buf' = [buf EXCEPT ![p] = Value(SymDiff(BitsOf(@), {i}))]
  BY DEF Flip, WordBytes
<1>3. n \in 0..BufferSize /\ flips \in Nat /\ BufferSize \in Nat
  BY EccLenRange, TypeFacts
<1>4. p \in Nat
  BY <1>1, <1>3 DEF Offsets
<1>5. p < pl <=> p \div 8 < WordCountFor(n)
  BY <1>1, <1>3, WordArithmetic
<1>6. /\ buf'[p] = Value(SymDiff(BitsOf(buf[p]), {i}))
      /\ \A q \in Offsets : q # p => buf'[q] = buf[q]
  BY <1>1, <1>2 DEF TypeOK
<1>7. pl \in 0..BufferSize
  <2>1. pl \in n..BufferSize
    BY <1>3, WordArithmetic
  <2>. QED
    BY <1>3, <2>1
<1>8. \A q \in Nat : q # p /\ q < pl => buf'[q] = buf[q]
  BY <1>3, <1>6, <1>7 DEF Offsets
<1>. HIDE DEF p, i, n, pl
<1>9. SUFFICES ASSUME NEW w \in 0..(WordCountFor(n) - 1)
               PROVE  Holds(LoadWord(buf', pl, w), ecc[w], LoadWord(G, pl, w), flips + 1, doubleHit')
  BY <1>2 DEF WordsHold, n, pl
<1>. DEFINE W == LoadWord(G, pl, w)
            d == LoadWord(buf, pl, w)
<1>10. w \in Nat /\ w < WordCountFor(n)
  <2>1. WordCountFor(n) \in 0..WordCount /\ WordCount \in Nat
    BY <1>3, WordArithmetic, DataPathAssumption DEF WordCount, WordBytes
  <2>. QED
    BY <2>1
<1>11. Holds(d, ecc[w], W, flips, doubleHit) /\ W \in SUBSET (0..63) /\ d \in SUBSET (0..63)
  BY LoadWordType DEF WordsHold, n, pl
<1>12. CASE w = p \div 8
  <2>. DEFINE g == <<"data", 8 * (p % 8) + i>>
  <2>1. LoadWord(buf', pl, w) = SymDiff(d, {8 * (p % 8) + i})
    <3>1. p < pl
      BY <1>5, <1>10, <1>12
    <3>2. LoadWord(buf', pl, p \div 8) = SymDiff(LoadWord(buf, pl, p \div 8), {8 * (p % 8) + i})
      <4>1. ByteFlip(buf, buf', pl, p, i)
        BY <1>1, <1>4, <1>6, <1>8, <3>1 DEF ByteFlip
      <4>. QED
        BY <4>1, WordFlip
    <3>. QED
      BY <1>12, <3>2
  <2>2. 8 * (p % 8) + i \in 0..63
    BY <1>1, <1>4, OffsetSplit
  <2>3. g \in CodeBits(64) /\ FlipData(d, g) = LoadWord(buf', pl, w) /\ FlipCode(ecc[w], g) = ecc[w]
    BY <2>1, <2>2, CodeBit64 DEF FlipData, FlipCode
  <2>4. doubleHit => doubleHit'
    BY <1>2
  <2>5. ~IsValid(d, 64, ecc[w]) => doubleHit'
    BY <1>2, <1>10, <1>12 DEF Covered, FaultyWord, n, pl
  <2>. HIDE DEF g, W, d
  <2>6. Holds(FlipData(d, g), FlipCode(ecc[w], g), W, flips + 1, doubleHit')
    BY <1>2, <1>3, <1>11, <2>3, <2>4, <2>5, HeldFlip
  <2>. QED
    BY <2>3, <2>6 DEF W
<1>13. CASE w # p \div 8
  <2>1. LoadWord(buf', pl, w) = d
    <3>1. \A j \in 0..7 : 8 * w + j \in Nat /\ 8 * w + j # p
      BY <1>4, <1>10, <1>13, WordOffset
    <3>2. \A j \in 0..7 : 8 * w + j < pl => buf'[8 * w + j] = buf[8 * w + j]
      BY <1>8, <3>1
    <3>. QED
      BY <3>2, SameBytesSameWord
  <2>2. doubleHit => doubleHit'
    BY <1>2
  <2>. HIDE DEF W, d
  <2>3. Holds(d, ecc[w], W, flips + 1, doubleHit')
    BY <1>3, <1>11, <2>2, HoldsMore
  <2>. QED
    BY <2>1, <2>3 DEF W
<1>. QED
  BY <1>12, <1>13

\* A flip of a code.
LEMMA CodeFlipHolds ==
  ASSUME TypeOK, NEW f \in FlipBits, Flip(f), f[1] = "ecc",
         NEW G \in [Offsets -> 0..255], WordsHold(G)
  PROVE  WordsHold(G)'
<1>. DEFINE v == f[2]
            i == f[3]
            n == eccLen
            pl == ProtectedLen(n)
<1>1. v \in Words /\ i \in 0..7
  BY FlipBitsAre
<1>2. /\ flips < FlipMax /\ flips' = flips + 1 /\ eccLen' = eccLen /\ buf' = buf
      /\ doubleHit' = (doubleHit \/ (Covered(v) /\ FaultyWord(v)))
      /\ ecc' = [ecc EXCEPT ![v] = SymDiff(@, {i})]
  BY DEF Flip
<1>3. n \in 0..BufferSize /\ flips \in Nat
  BY EccLenRange, TypeFacts
<1>. HIDE DEF v, i, n, pl
<1>4. SUFFICES ASSUME NEW w \in 0..(WordCountFor(n) - 1)
               PROVE  Holds(LoadWord(buf, pl, w), ecc'[w], LoadWord(G, pl, w), flips + 1, doubleHit')
  BY <1>2 DEF WordsHold, n, pl
<1>. DEFINE W == LoadWord(G, pl, w)
            d == LoadWord(buf, pl, w)
<1>5. w \in Words /\ w < WordCountFor(n)
  <2>1. WordCountFor(n) \in 0..WordCount /\ WordCount \in Nat
    BY <1>3, WordArithmetic, DataPathAssumption DEF WordCount, WordBytes
  <2>. QED
    BY <1>3, <2>1, CoveredOffsets
<1>6. Holds(d, ecc[w], W, flips, doubleHit) /\ W \in SUBSET (0..63) /\ d \in SUBSET (0..63)
  BY LoadWordType DEF WordsHold, n, pl
<1>7. CASE w = v
  <2>. DEFINE g == <<"ecc", i>>
  <2>1. ecc'[w] = SymDiff(ecc[w], {i})
    BY <1>2, <1>5, <1>7 DEF TypeOK
  <2>2. g \in CodeBits(64) /\ FlipData(d, g) = d /\ FlipCode(ecc[w], g) = ecc'[w]
    BY <1>1, <2>1, CodeBit64 DEF FlipData, FlipCode
  <2>3. doubleHit => doubleHit'
    BY <1>2
  <2>4. ~IsValid(d, 64, ecc[w]) => doubleHit'
    BY <1>2, <1>5, <1>7 DEF Covered, FaultyWord, n, pl
  <2>. HIDE DEF g, W, d
  <2>5. Holds(FlipData(d, g), FlipCode(ecc[w], g), W, flips + 1, doubleHit')
    BY <1>2, <1>3, <1>6, <2>2, <2>3, <2>4, HeldFlip
  <2>. QED
    BY <2>2, <2>5 DEF W, d
<1>8. CASE w # v
  <2>1. ecc'[w] = ecc[w]
    BY <1>2, <1>5, <1>8 DEF TypeOK
  <2>2. doubleHit => doubleHit'
    BY <1>2
  <2>. HIDE DEF W, d
  <2>3. Holds(d, ecc[w], W, flips + 1, doubleHit')
    BY <1>3, <1>6, <2>2, HoldsMore
  <2>. QED
    BY <2>1, <2>3 DEF W, d
<1>. QED
  BY <1>7, <1>8

LEMMA FlipCInv ==
  ASSUME LInv, CInv, NEW f \in FlipBits, Flip(f)
  PROVE  CInv'
<1>0. TypeOK
  BY DEF LInv
<1>1. /\ cfg' = cfg /\ client' = client /\ taken' = taken /\ sent' = sent /\ pc' = pc
      /\ eccLen' = eccLen /\ len' = len /\ reason' = reason /\ failure' = failure
      /\ (unsealedHit => unsealedHit') /\ (doubleHit => doubleHit')
  BY DEF Flip, configVars, loopVars, endVars
<1>2. SealedInv'
  <2>1. SUFFICES ASSUME cfg.ecc
                 PROVE  \E G \in [Offsets -> 0..255] : WordsHold(G)' /\ Matches(G)'
    BY <1>1 DEF SealedInv
  <2>2. PICK G \in [Offsets -> 0..255] : WordsHold(G) /\ Matches(G)
    BY <2>1 DEF CInv, SealedInv
  <2>3. WordsHold(G)'
    BY <1>0, <2>2, DataFlipHolds, CodeFlipHolds, FlipBitsAre
  <2>4. Matches(G)'
    BY <1>1, <2>2 DEF Matches
  <2>. QED
    BY <2>3, <2>4
<1>3. PrefaceInv'
  <2>1. SUFFICES ASSUME pc = "preface", ~unsealedHit', NEW p \in 0..(len - 1)
                 PROVE  buf'[p] = client.bytes[p + 1]
    BY <1>1 DEF PrefaceInv
  <2>2. buf[p] = client.bytes[p + 1]
    BY <1>1, <2>1 DEF CInv, PrefaceInv
  <2>3. eccLen = 0
    BY <2>1 DEF LInv, EccLenInv
  <2>4. WordCountFor(eccLen) = 0 /\ BufferSize \in Nat /\ len \in 0..BufferSize
    <3>1. BufferSize \in Nat /\ len \in 0..BufferSize
      BY <1>0, TypeFacts DEF TypeOK
    <3>2. 0 \in 0..BufferSize
      BY <3>1
    <3>. QED
      BY <2>3, <3>1, <3>2, WordArithmetic
  <2>5. CASE f[1] = "data"
    <3>1. f[2] \in Offsets
      BY <2>5, FlipBitsAre
    <3>2. ~(f[2] < len /\ ~Covered(f[2] \div WordBytes))
      BY <2>1, <2>5 DEF Flip
    <3>3. f[2] \in Nat /\ ~(f[2] \div WordBytes < 0)
      BY <2>4, <3>1 DEF Offsets, WordBytes
    <3>4. ~(f[2] < len)
      BY <2>4, <3>2, <3>3 DEF Covered
    <3>5. p # f[2] /\ p \in Offsets
      BY <2>4, <3>3, <3>4 DEF Offsets
    <3>6. buf' = [buf EXCEPT ![f[2]] = Value(SymDiff(BitsOf(@), {f[3]}))]
      BY <2>5 DEF Flip
    <3>. QED
      BY <1>0, <2>2, <3>5, <3>6 DEF TypeOK
  <2>6. CASE f[1] # "data"
    BY <2>2, <2>6 DEF Flip
  <2>. QED
    BY <2>5, <2>6
<1>4. EccFailureJustified'
  BY <1>1 DEF CInv, EccFailureJustified
<1>5. DeliveredInv'
  <2>1. flips \in Nat /\ flips' = flips + 1
    BY <1>0, TypeFacts DEF Flip
  <2>2. flips' <= 2 => flips <= 2
    BY <2>1
  <2>. QED
    BY <1>1, <2>2 DEF CInv, DeliveredInv
<1>. QED
  BY <1>2, <1>3, <1>4, <1>5 DEF CInv

\* Where no code covers a byte, nothing is sealed.
LEMMA UnsealedHolds ==
  ASSUME eccLen' = 0
  PROVE  SealedInv'
<1>. DEFINE G == [p \in Offsets |-> 0]
<1>1. G \in [Offsets -> 0..255]
  OBVIOUS
<1>2. WordCountFor(0) = 0
  BY DataPathAssumption, WordArithmetic
<1>3. WordsHold(G)' /\ Matches(G)'
  BY <1>2 DEF WordsHold, Matches
<1>. HIDE DEF G
<1>. QED
  BY <1>1, <1>3 DEF SealedInv

\* A session that ends.
LEMMA FailCInv ==
  ASSUME CInv, NEW why, NEW mark, Fail(why, mark), UNCHANGED <<configVars, sent, faultVars>>,
         why = "payload_ecc" \/ mark = "PAYLOAD_ECC" => doubleHit
  PROVE  CInv'
<1>1. /\ pc' = "closed" /\ failure' = why /\ reason' = mark /\ eccLen' = 0 /\ sent' = sent
      /\ cfg' = cfg /\ client' = client
      /\ flips' = flips /\ unsealedHit' = unsealedHit /\ doubleHit' = doubleHit
  BY DEF Fail, configVars, faultVars
<1>2. SealedInv'
  BY <1>1, UnsealedHolds
<1>3. PrefaceInv' /\ EccFailureJustified'
  BY <1>1 DEF PrefaceInv, EccFailureJustified
<1>4. DeliveredInv'
  BY <1>1 DEF CInv, DeliveredInv
<1>. QED
  BY <1>2, <1>3, <1>4 DEF CInv

\* A mark the code leaves as it is.
LEMMA MarkJustified ==
  ASSUME CInv
  PROVE  /\ reason = "PAYLOAD_ECC" => doubleHit
         /\ PumpMark("CONTRACT_VIOLATION") = "PAYLOAD_ECC" => doubleHit
BY DEF CInv, EccFailureJustified, PumpMark

\* The steps that leave the buffer and what is sent alone.
LEMMA QuietCInv ==
  ASSUME LInv, CInv, UNCHANGED <<configVars, taken, sent, bufferVars, loopVars, endVars, faultVars>>,
         pc' = pc \/ pc' # "preface" \/ len = 0
  PROVE  CInv'
<1>1. /\ cfg' = cfg /\ client' = client /\ taken' = taken /\ sent' = sent
      /\ buf' = buf /\ ecc' = ecc /\ eccLen' = eccLen /\ len' = len
      /\ reason' = reason /\ failure' = failure
      /\ flips' = flips /\ unsealedHit' = unsealedHit /\ doubleHit' = doubleHit
  BY DEF configVars, bufferVars, loopVars, endVars, faultVars
<1>2. SealedInv'
  BY <1>1 DEF CInv, SealedInv, WordsHold, Matches
<1>3. PrefaceInv'
  <2>1. len = 0 => 0..(len - 1) = {}
    OBVIOUS
  <2>. QED
    BY <1>1, <2>1 DEF CInv, PrefaceInv
<1>4. EccFailureJustified' /\ DeliveredInv'
  BY <1>1 DEF CInv, EccFailureJustified, DeliveredInv
<1>. QED
  BY <1>2, <1>3, <1>4 DEF CInv

LEMMA ConnectCInv == LInv /\ CInv /\ Connect => CInv'
<1>. SUFFICES ASSUME LInv, CInv, Connect PROVE CInv'
  OBVIOUS
<1>1. CASE Fail("backend_connect", reason)
  BY <1>1, FailCInv, MarkJustified DEF Connect
<1>2. CASE pc' = (IF len = 0 THEN "read" ELSE "flush") /\ UNCHANGED <<bufferVars, loopVars, endVars>>
  <2>1. UNCHANGED <<configVars, taken, sent, bufferVars, loopVars, endVars, faultVars>>
    BY <1>2 DEF Connect
  <2>2. pc' # "preface"
    BY <1>2
  <2>. QED
    BY <2>1, <2>2, QuietCInv
<1>. QED
  BY <1>1, <1>2 DEF Connect

LEMMA LoadConfigCInv == LInv /\ CInv /\ LoadConfig => CInv'
<1>. SUFFICES ASSUME LInv, CInv, LoadConfig PROVE CInv'
  OBVIOUS
<1>1. CASE Fail("client_preface_config", reason)
  BY <1>1, FailCInv, MarkJustified DEF LoadConfig
<1>2. CASE pc' = (IF cfg.preface THEN "preface" ELSE "connect") /\ UNCHANGED <<bufferVars, loopVars, endVars>>
  <2>1. UNCHANGED <<configVars, taken, sent, bufferVars, loopVars, endVars, faultVars>>
    BY <1>2 DEF LoadConfig
  <2>2. len = 0
    BY DEF LoadConfig, LInv, CountInv
  <2>. QED
    BY <2>1, <2>2, QuietCInv
<1>. QED
  BY <1>1, <1>2 DEF LoadConfig

LEMMA QuietActionsCInv ==
  LInv /\ CInv /\ (Expire \/ PrefaceTimeout \/ PrefaceReadFails \/ PumpEof \/ PumpReadFails
             \/ PumpMetadataFault \/ UNCHANGED vars) => CInv'
<1>. SUFFICES ASSUME LInv, CInv PROVE
       (Expire \/ PrefaceTimeout \/ PrefaceReadFails \/ PumpEof \/ PumpReadFails
             \/ PumpMetadataFault \/ UNCHANGED vars) => CInv'
  OBVIOUS
<1>1. Expire => CInv'
  BY QuietCInv DEF Expire
<1>2. PrefaceTimeout => CInv'
  BY FailCInv DEF PrefaceTimeout
<1>3. PrefaceReadFails => CInv'
  BY FailCInv, MarkJustified DEF PrefaceReadFails
<1>4. PumpEof => CInv'
  <2>1. PumpEof => pc' # "preface"
    BY DEF PumpEof
  <2>. QED
    BY <2>1, QuietCInv DEF PumpEof
<1>5. PumpReadFails => CInv'
  BY FailCInv, MarkJustified DEF PumpReadFails
<1>6. PumpMetadataFault => CInv'
  BY FailCInv, MarkJustified DEF PumpMetadataFault
<1>7. UNCHANGED vars => CInv'
  BY QuietCInv DEF vars
<1>. QED
  BY <1>1, <1>2, <1>3, <1>4, <1>5, <1>6, <1>7

\* The first n bytes of b are the client's, those after its first t.
FromClient(b, n, t) == \A p \in 0..(n - 1) : b[p] = client.bytes[t + p + 1]

\* A seal of what was just read.
LEMMA SealCInv ==
  ASSUME TypeOK, CInv, NEW b \in [Offsets -> 0..255], NEW n \in 0..BufferSize, Seal(b, n),
         UNCHANGED <<configVars, sent, faultVars, endVars>>, pc' # "preface",
         ~unsealedHit => FromClient(b, n, taken' - n)
  PROVE  CInv'
<1>. DEFINE Z == ZeroPadding(b, n)
<1>1. /\ cfg' = cfg /\ client' = client /\ sent' = sent /\ reason' = reason /\ failure' = failure
      /\ flips' = flips /\ unsealedHit' = unsealedHit /\ doubleHit' = doubleHit
  BY DEF configVars, faultVars, endVars
<1>2. SealedInv'
  <2>1. SUFFICES ASSUME cfg.ecc PROVE \E G \in [Offsets -> 0..255] : WordsHold(G)' /\ Matches(G)'
    BY <1>1 DEF SealedInv
  <2>2. Z \in [Offsets -> 0..255]
    BY SealTypes
  <2>3. WordsHold(Z)'
    BY <2>1, SealHolds
  <2>4. eccLen' = n
    BY <2>1 DEF Seal
  <2>5. \A p \in 0..(n - 1) : Z[p] = b[p]
    <3>1. BufferSize \in Nat /\ n \in Nat /\ n <= BufferSize
      BY DataPathAssumption
    <3>2. \A p \in 0..(n - 1) : p \in Offsets /\ ~(p >= n)
      BY <3>1 DEF Offsets
    <3>. QED
      BY <3>2 DEF ZeroPadding
  <2>. HIDE DEF Z
  <2>6. Matches(Z)'
    BY <1>1, <2>4, <2>5 DEF Matches, FromClient
  <2>. QED
    BY <2>2, <2>3, <2>6
<1>3. PrefaceInv'
  BY DEF PrefaceInv
<1>4. EccFailureJustified' /\ DeliveredInv'
  BY <1>1 DEF CInv, EccFailureJustified, DeliveredInv
<1>. QED
  BY <1>2, <1>3, <1>4 DEF CInv

\* One more iteration of the preface loop, or its end.
LEMMA CycleCInv ==
  ASSUME LInv, CInv, pc = "preface", NEW b, NEW n, NextPrefaceCycle(b, n),
         UNCHANGED <<configVars, sent, faultVars>>,
         ~unsealedHit => \A p \in 0..(n - 1) : b[p] = client.bytes[p + 1]
  PROVE  CInv'
<1>1. CASE Fail("client_preface_retry", reason)
  BY <1>1, FailCInv, MarkJustified
<1>2. CASE buf' = b /\ len' = n /\ UNCHANGED <<pc, ecc, eccLen, off, retry, endVars>>
  <2>1. /\ cfg' = cfg /\ client' = client /\ sent' = sent /\ reason' = reason /\ failure' = failure
        /\ flips' = flips /\ unsealedHit' = unsealedHit /\ doubleHit' = doubleHit
        /\ eccLen' = eccLen /\ pc' = pc
    BY <1>2 DEF configVars, faultVars, endVars
  <2>2. SealedInv'
    BY <2>1, UnsealedHolds DEF LInv, EccLenInv
  <2>3. PrefaceInv'
    BY <1>2, <2>1 DEF PrefaceInv
  <2>4. EccFailureJustified' /\ DeliveredInv'
    BY <2>1 DEF CInv, EccFailureJustified, DeliveredInv
  <2>. QED
    BY <2>2, <2>3, <2>4 DEF CInv
<1>. QED
  BY <1>1, <1>2 DEF NextPrefaceCycle

LEMMA PrefaceAgainCInv == LInv /\ CInv /\ PrefaceAgain => CInv'
<1>. SUFFICES ASSUME LInv, CInv, PrefaceAgain PROVE CInv'
  OBVIOUS
<1>1. pc = "preface" /\ NextPrefaceCycle(buf, len) /\ UNCHANGED <<configVars, sent, faultVars>>
  BY DEF PrefaceAgain
<1>2. ~unsealedHit => \A p \in 0..(len - 1) : buf[p] = client.bytes[p + 1]
  BY <1>1 DEF CInv, PrefaceInv
<1>. QED
  BY <1>1, <1>2, CycleCInv

\* The bytes of the preface after a read.
LEMMA PrefaceBytes ==
  ASSUME LInv, CInv, NEW n \in 1..BufferSize, PrefaceRead(n)
  PROVE  /\ Placed(buf, len, n) \in [Offsets -> 0..255]
         /\ len + n \in 1..BufferSize /\ len + n <= Len(client.bytes) /\ taken' = len + n
         /\ ~unsealedHit => FromClient(Placed(buf, len, n), len + n, 0)
<1>. USE DEF LInv
<1>1. pc = "preface" /\ len < BufferSize /\ n \in ReadSizes(BufferSize - len) /\ taken' = taken + n
      /\ UNCHANGED <<configVars, sent, faultVars>>
  BY DEF PrefaceRead
<1>2. len \in 0..BufferSize /\ BufferSize \in Nat /\ len \in Nat /\ taken = len
  BY <1>1, TypeFacts DEF TypeOK, CountInv
<1>3. n \in 1..(BufferSize - len) /\ taken + n <= Len(client.bytes)
  <2>1. BufferSize - len \in Nat /\ BufferSize - len > 0
    BY <1>1, <1>2
  <2>. QED
    BY <1>1, <2>1, ReadSizesAre
<1>4. n \in Nat /\ n >= 1 /\ len + n \in 0..BufferSize
  BY <1>2, <1>3
<1>. DEFINE b == Placed(buf, len, n)
<1>5. b \in [Offsets -> 0..255]
  BY <1>2, <1>3, <1>4, PlacedType
<1>6. ~unsealedHit => \A p \in 0..(len + n - 1) : b[p] = client.bytes[p + 1]
  <2>. SUFFICES ASSUME ~unsealedHit, NEW p \in 0..(len + n - 1) PROVE b[p] = client.bytes[p + 1]
    OBVIOUS
  <2>1. p \in Offsets /\ p \in Nat
    BY <1>2, <1>4 DEF Offsets
  <2>2. CASE p \in len..(len + n - 1)
    <3>1. taken + p - len + 1 = p + 1
      BY <1>2, <2>1
    <3>. QED
      BY <2>1, <2>2, <3>1 DEF Placed
  <2>3. CASE p \notin len..(len + n - 1)
    <3>1. p \in 0..(len - 1)
      BY <1>2, <1>4, <2>1, <2>3
    <3>2. b[p] = buf[p]
      BY <2>1, <2>3 DEF Placed
    <3>. QED
      BY <1>1, <3>1, <3>2 DEF CInv, PrefaceInv
  <2>. QED
    BY <2>2, <2>3
<1>7. len + n \in 1..BufferSize /\ len + n <= Len(client.bytes) /\ taken' = len + n
  BY <1>1, <1>2, <1>3, <1>4
<1>. DEFINE m == len + n
<1>8. m \in Nat /\ (~unsealedHit => \A p \in 0..(m - 1) : b[p] = client.bytes[p + 1])
  BY <1>2, <1>4, <1>6
<1>. HIDE DEF b, m
<1>9. ~unsealedHit => FromClient(b, m, 0)
  <2>1. \A p \in 0..(m - 1) : 0 + p + 1 = p + 1
    BY <1>8
  <2>. QED
    BY <1>8, <2>1 DEF FromClient
<1>. QED
  BY <1>5, <1>7, <1>9 DEF b, m

LEMMA PrefaceReadCInv ==
  ASSUME LInv, CInv, NEW n \in 1..BufferSize, PrefaceRead(n)
  PROVE  CInv'
<1>. DEFINE b == Placed(buf, len, n)
            m == len + n
<1>1. pc = "preface" /\ UNCHANGED <<configVars, sent, faultVars>>
  BY DEF PrefaceRead
<1>2. /\ b \in [Offsets -> 0..255] /\ m \in 1..BufferSize /\ taken' = m
      /\ ~unsealedHit => FromClient(b, m, 0)
  BY PrefaceBytes
<1>3. \/ Seal(b, m) /\ pc' = "connect" /\ UNCHANGED endVars
      \/ NextPrefaceCycle(b, m)
      \/ Fail("protocol_handshake_invalid", "PROTOCOL_HANDSHAKE")
  BY DEF PrefaceRead
<1>. HIDE DEF b, m
<1>4. m \in 0..BufferSize /\ m \in Nat /\ taken' - m = 0
  BY <1>2, DataPathAssumption
<1>5. CASE Seal(b, m) /\ pc' = "connect" /\ UNCHANGED endVars
  <2>3. ~unsealedHit => FromClient(b, m, taken' - m)
    BY <1>2, <1>4
  <2>4. pc' # "preface"
    BY <1>5
  <2>5. UNCHANGED <<configVars, sent, faultVars, endVars>>
    BY <1>1, <1>5 DEF endVars
  <2>. QED
    BY <1>2, <1>4, <1>5, <2>3, <2>4, <2>5, SealCInv DEF LInv
<1>6. CASE NextPrefaceCycle(b, m)
  <2>1. \A p \in 0..(m - 1) : 0 + p + 1 = p + 1
    BY <1>4
  <2>2. ~unsealedHit => \A p \in 0..(m - 1) : b[p] = client.bytes[p + 1]
    BY <1>2, <2>1 DEF FromClient
  <2>. QED
    BY <1>1, <1>6, <2>2, CycleCInv
<1>7. CASE Fail("protocol_handshake_invalid", "PROTOCOL_HANDSHAKE")
  BY <1>1, <1>7, FailCInv
<1>. QED
  BY <1>3, <1>5, <1>6, <1>7

LEMMA PumpReadCInv ==
  ASSUME LInv, CInv, NEW n \in 1..BufferSize, PumpRead(n)
  PROVE  CInv'
<1>. USE DEF LInv
<1>1. /\ pc = "read" /\ n \in ReadSizes(BufferSize) /\ taken' = taken + n
      /\ Seal(Placed(buf, 0, n), n) /\ pc' = "write"
      /\ UNCHANGED <<configVars, sent, faultVars, endVars>>
  BY DEF PumpRead
<1>2. BufferSize \in Nat /\ BufferSize > 0 /\ taken \in Nat
  BY DataPathAssumption, TypeFacts
<1>3. taken + n <= Len(client.bytes) /\ n \in Nat /\ n >= 1 /\ n \in 0..BufferSize
  BY <1>1, <1>2, ReadSizesAre
<1>. DEFINE b == Placed(buf, 0, n)
<1>4. b \in [Offsets -> 0..255]
  <2>1. 0 \in 0..BufferSize
    BY <1>2
  <2>. QED
    BY <1>3, <2>1, PlacedType
<1>5. ASSUME NEW p \in 0..(n - 1) PROVE b[p] = client.bytes[taken' - n + p + 1]
  <2>1. p \in Offsets /\ p \in 0..(0 + n - 1) /\ taken + p - 0 + 1 = taken' - n + p + 1
    BY <1>1, <1>2, <1>3 DEF Offsets
  <2>. QED
    BY <2>1 DEF Placed
<1>. HIDE DEF b
<1>6. Seal(b, n) /\ pc' # "preface" /\ FromClient(b, n, taken' - n)
  BY <1>1, <1>5 DEF b, FromClient
<1>. QED
  BY <1>1, <1>3, <1>4, <1>6, SealCInv

\* A repair, of a write loop or of the scrub.
LEMMA RepairSealed ==
  ASSUME TypeOK, SealedInv, cfg.ecc => RepairBuffer(eccLen, RepairOutcomes(eccLen)),
         UNCHANGED <<configVars, taken, faultVars>>
  PROVE  SealedInv'
<1>1. /\ cfg' = cfg /\ client' = client /\ taken' = taken
      /\ flips' = flips /\ unsealedHit' = unsealedHit /\ doubleHit' = doubleHit
  BY DEF configVars, faultVars
<1>2. SUFFICES ASSUME cfg.ecc PROVE \E G \in [Offsets -> 0..255] : WordsHold(G)' /\ Matches(G)'
  BY <1>1 DEF SealedInv
<1>3. PICK G \in [Offsets -> 0..255] : WordsHold(G) /\ Matches(G)
  BY <1>2 DEF SealedInv
<1>4. eccLen' = eccLen
  BY <1>2 DEF RepairBuffer
<1>5. WordsHold(G)'
  BY <1>1, <1>2, <1>3, RepairHolds
<1>6. Matches(G)'
  BY <1>1, <1>3, <1>4 DEF Matches
<1>. QED
  BY <1>5, <1>6

\* What a repair makes of a word that was sealed.
LEMMA SealedOutcome ==
  ASSUME cfg.ecc, NEW G \in [Offsets -> 0..255], WordsHold(G),
         NEW w \in 0..(WordCountFor(eccLen) - 1)
  PROVE  \/ doubleHit /\ flips > 2
         \/ doubleHit /\ RepairOutcomes(eccLen)[w].status = "UNCORRECTABLE"
         \/ /\ RepairOutcomes(eccLen)[w].status = "CORRECTED"
            /\ RepairOutcomes(eccLen)[w].data = LoadWord(G, ProtectedLen(eccLen), w)
         \/ /\ RepairOutcomes(eccLen)[w].status = "OK"
            /\ LoadWord(buf, ProtectedLen(eccLen), w) = LoadWord(G, ProtectedLen(eccLen), w)
<1>. DEFINE pl == ProtectedLen(eccLen)
            W == LoadWord(G, pl, w)
            d == LoadWord(buf, pl, w)
<1>1. W \in SUBSET (0..63)
  BY LoadWordType
<1>2. Holds(d, ecc[w], W, flips, doubleHit)
  BY DEF WordsHold
<1>3. RepairOutcomes(eccLen)[w] = Repair(d, 64, ecc[w])
  BY DEF RepairOutcomes
<1>. HIDE DEF W, d
<1>4. \/ doubleHit /\ flips > 2
      \/ doubleHit /\ Repair(d, 64, ecc[w]).status = "UNCORRECTABLE"
      \/ /\ Repair(d, 64, ecc[w]).status = "CORRECTED"
         /\ Repair(d, 64, ecc[w]).data = W /\ Repair(d, 64, ecc[w]).ecc = Encode(W, 64)
      \/ Repair(d, 64, ecc[w]).status = "OK" /\ d = W
  BY <1>1, <1>2, HeldOutcome
<1>. QED
  BY <1>3, <1>4 DEF W, d

\* A repair that fails was hit twice.
LEMMA LostJustified ==
  ASSUME SealedInv, ~Repairable(RepairOutcomes(eccLen))
  PROVE  doubleHit
<1>1. cfg.ecc /\ LostWords(RepairOutcomes(eccLen)) # {}
  BY DEF Repairable
<1>2. PICK w \in 0..(WordCountFor(eccLen) - 1) : RepairOutcomes(eccLen)[w].status = "UNCORRECTABLE"
  BY <1>1 DEF LostWords, RepairOutcomes
<1>3. PICK G \in [Offsets -> 0..255] : WordsHold(G)
  BY <1>1 DEF SealedInv
<1>4. \/ doubleHit /\ flips > 2
      \/ doubleHit /\ RepairOutcomes(eccLen)[w].status = "UNCORRECTABLE"
      \/ /\ RepairOutcomes(eccLen)[w].status = "CORRECTED"
         /\ RepairOutcomes(eccLen)[w].data = LoadWord(G, ProtectedLen(eccLen), w)
      \/ /\ RepairOutcomes(eccLen)[w].status = "OK"
         /\ LoadWord(buf, ProtectedLen(eccLen), w) = LoadWord(G, ProtectedLen(eccLen), w)
  BY <1>1, <1>3, SealedOutcome
<1>. QED
  BY <1>2, <1>4

\* A repair that succeeds leaves what was sealed.
LEMMA RepairedBytes ==
  ASSUME TypeOK, cfg.ecc, NEW G \in [Offsets -> 0..255], WordsHold(G),
         Repairable(RepairOutcomes(eccLen)), flips <= 2 \/ ~doubleHit, NEW p \in 0..(eccLen - 1)
  PROVE  RepairedBuf(eccLen, RepairOutcomes(eccLen))[p] = G[p]
<1>. DEFINE n == eccLen
            o == RepairOutcomes(n)
            pl == ProtectedLen(n)
            w == p \div 8
<1>0. n \in 0..BufferSize /\ BufferSize \in Nat /\ flips \in Nat
  BY EccLenRange, TypeFacts
<1>1. p \in Offsets /\ p \in Nat /\ p < n
  BY <1>0 DEF Offsets
<1>2. pl \in n..BufferSize /\ (p < pl <=> w < WordCountFor(n)) /\ WordCountFor(n) \in 0..WordCount
  BY <1>0, <1>1, WordArithmetic
<1>3. p < pl /\ pl \in Nat /\ n \in Nat /\ WordCountFor(n) \in Nat
  <2>1. WordCount \in Nat
    BY DataPathAssumption DEF WordCount, WordBytes
  <2>. QED
    BY <1>0, <1>1, <1>2, <2>1
<1>4. w \in 0..(WordCountFor(n) - 1)
  <2>1. w \in Nat /\ w < WordCountFor(n)
    BY <1>1, <1>2, <1>3, OffsetSplit
  <2>. HIDE DEF w
  <2>. QED
    BY <1>3, <2>1
<1>5. LostWords(o) = {} /\ DOMAIN o = 0..(WordCountFor(n) - 1)
  BY DEF Repairable, RepairOutcomes
<1>6. RepairedBuf(n, o)[p] = IF w \in CorrectedWords(o) THEN ByteOf(o[w].data, p % 8) ELSE buf[p]
  <2>. HIDE DEF o
  <2>. QED
    BY <1>1, <1>3 DEF RepairedBuf, WordBytes
<1>7. buf[p] \in 0..255 /\ G[p] \in 0..255
  BY <1>1 DEF TypeOK
<1>8. ByteOf(LoadWord(buf, pl, w), p % 8) = buf[p] /\ ByteOf(LoadWord(G, pl, w), p % 8) = G[p]
  BY <1>1, <1>3, <1>7, ByteOfLoaded
<1>9. \/ doubleHit /\ flips > 2
      \/ doubleHit /\ o[w].status = "UNCORRECTABLE"
      \/ o[w].status = "CORRECTED" /\ o[w].data = LoadWord(G, pl, w)
      \/ o[w].status = "OK" /\ LoadWord(buf, pl, w) = LoadWord(G, pl, w)
  BY <1>4, SealedOutcome
<1>. HIDE DEF o, w, pl, n
<1>10. o[w].status # "UNCORRECTABLE"
  BY <1>4, <1>5 DEF LostWords
<1>11. ~(doubleHit /\ flips > 2)
  BY <1>0
<1>12. CASE o[w].status = "CORRECTED" /\ o[w].data = LoadWord(G, pl, w)
  <2>1. w \in CorrectedWords(o)
    BY <1>4, <1>5, <1>12 DEF CorrectedWords
  <2>. QED
    BY <1>6, <1>8, <1>12, <2>1 DEF o, n
<1>13. CASE o[w].status = "OK" /\ LoadWord(buf, pl, w) = LoadWord(G, pl, w)
  <2>1. w \notin CorrectedWords(o)
    BY <1>13 DEF CorrectedWords
  <2>. QED
    BY <1>6, <1>8, <1>13, <2>1 DEF o, n
<1>. QED
  BY <1>9, <1>10, <1>11, <1>12, <1>13

LEMMA ScrubCInv == LInv /\ CInv /\ Scrub => CInv'
<1>. SUFFICES ASSUME LInv, CInv, Scrub PROVE CInv'
  OBVIOUS
<1>. DEFINE o == RepairOutcomes(eccLen)
<1>1. /\ RepairBuffer(eccLen, o) /\ cfg.ecc
      /\ IF Repairable(o) THEN UNCHANGED <<reason, fds>> ELSE reason' = "PAYLOAD_ECC" /\ fds' = "shut"
      /\ UNCHANGED <<configVars, taken, sent, pc, expired, loopVars, failure, faultVars>>
  BY DEF Scrub
<1>2. TypeOK /\ SealedInv
  BY DEF LInv, CInv
<1>3. UNCHANGED <<configVars, taken, faultVars>>
  BY <1>1
<1>4. SealedInv'
  BY <1>1, <1>2, <1>3, RepairSealed
<1>5. /\ cfg' = cfg /\ client' = client /\ sent' = sent /\ pc' = pc /\ len' = len /\ failure' = failure
      /\ flips' = flips /\ unsealedHit' = unsealedHit /\ doubleHit' = doubleHit
  BY <1>1 DEF configVars, faultVars, loopVars
<1>6. EccFailureJustified'
  <2>1. CASE Repairable(o)
    BY <1>1, <1>5, <2>1 DEF CInv, EccFailureJustified
  <2>2. CASE ~Repairable(o)
    BY <1>2, <1>5, <2>2, LostJustified DEF EccFailureJustified
  <2>. QED
    BY <2>1, <2>2
<1>7. DeliveredInv'
  BY <1>5 DEF CInv, DeliveredInv
<1>8. PrefaceInv'
  <2>1. SUFFICES ASSUME pc = "preface", ~unsealedHit, NEW p \in 0..(len - 1)
                 PROVE  buf'[p] = client.bytes[p + 1]
    BY <1>5 DEF PrefaceInv
  <2>2. eccLen = 0 /\ WordCountFor(0) = 0
    BY <2>1, DataPathAssumption, WordArithmetic DEF LInv, EccLenInv
  <2>3. CorrectedWords(o) = {}
    BY <2>2 DEF CorrectedWords, RepairOutcomes
  <2>4. p \in Offsets
    <3>1. BufferSize \in Nat /\ len \in 0..BufferSize
      BY <1>2, DataPathAssumption DEF TypeOK
    <3>. QED
      BY <3>1 DEF Offsets
  <2>. HIDE DEF o
  <2>5. buf'[p] = buf[p]
    BY <1>1, <2>3, <2>4 DEF RepairBuffer, RepairedBuf
  <2>. QED
    BY <2>1, <2>5 DEF CInv, PrefaceInv
<1>. QED
  BY <1>4, <1>6, <1>7, <1>8 DEF CInv

\* An iteration of a write loop that goes on.
LEMMA NextWriteCInv ==
  ASSUME LInv, LInv', CInv, Writing, NEW at, NEW r, NextWriteStep(at, r, RepairOutcomes(len)),
         UNCHANGED <<configVars, taken, faultVars>>, DeliveredInv'
  PROVE  CInv'
<1>1. failure' # "write_steps"
  BY DEF LInv, LoopInv
<1>2. RepairBuffer(len, RepairOutcomes(len)) /\ reason' = reason /\ failure' = failure
      /\ pc' \in {"flush", "write", "read"}
  BY <1>1 DEF NextWriteStep, Fail, endVars, Writing
<1>3. doubleHit' = doubleHit
  BY DEF faultVars
<1>4. SealedInv'
  <2>1. cfg.ecc => len = eccLen
    BY DEF LInv, EccLenInv, Writing
  <2>2. cfg.ecc => RepairBuffer(eccLen, RepairOutcomes(eccLen))
    BY <1>2, <2>1
  <2>. QED
    BY <2>2, RepairSealed DEF LInv, CInv
<1>5. PrefaceInv'
  BY <1>2 DEF PrefaceInv
<1>6. EccFailureJustified'
  BY <1>2, <1>3 DEF CInv, EccFailureJustified
<1>. QED
  BY <1>4, <1>5, <1>6 DEF CInv

\* What a send delivers.
LEMMA SendDelivers ==
  ASSUME LInv, CInv, NEW n \in {1, len - off}, SendSome(n, RepairOutcomes(len))
  PROVE  DeliveredInv'
<1>. DEFINE o == RepairOutcomes(len)
<1>1. /\ Writing /\ Repairable(o) /\ UNCHANGED <<configVars, taken, faultVars>>
      /\ sent' = sent \o [i \in 1..n |-> RepairedBuf(len, o)[off + i - 1]]
  BY DEF SendSome
<1>2. /\ cfg' = cfg /\ client' = client
      /\ flips' = flips /\ unsealedHit' = unsealedHit /\ doubleHit' = doubleHit
  BY <1>1 DEF configVars, faultVars
<1>3. SUFFICES ASSUME cfg.ecc, ~unsealedHit, flips <= 2 \/ ~doubleHit, NEW k \in 1..Len(sent')
               PROVE  sent'[k] = client.bytes[k]
  BY <1>2 DEF DeliveredInv
<1>4. n \in 1..(len - off)
  BY <1>1, SendSizes
<1>5. /\ sent' \in Seq(0..255) /\ Len(sent') = Len(sent) + n
      /\ \A i \in 1..Len(sent) : sent'[i] = sent[i]
      /\ \A i \in 1..n : sent'[Len(sent) + i] = RepairedBuf(len, o)[off + i - 1]
  <2>. HIDE DEF o
  <2>. QED
    BY <1>1, <1>4, SentBytes
<1>6. eccLen = len /\ Len(sent) = taken - len + off
  BY <1>1, <1>3 DEF LInv, EccLenInv, CountInv, Writing
<1>7. len \in Nat /\ off \in Nat /\ taken \in Nat /\ n \in Nat /\ Len(sent) \in Nat
  <2>1. len \in Nat /\ off \in Nat /\ taken \in Nat
    BY TypeFacts DEF LInv
  <2>2. sent \in Seq(0..255)
    BY DEF LInv, CountInv
  <2>. QED
    BY <1>4, <2>1, <2>2
<1>8. CASE k \in 1..Len(sent)
  BY <1>3, <1>5, <1>8 DEF CInv, DeliveredInv
<1>9. CASE k \notin 1..Len(sent)
  <2>. DEFINE i == k - Len(sent)
              p == off + i - 1
  <2>1. i \in 1..n /\ k = Len(sent) + i /\ p \in 0..(eccLen - 1) /\ taken - eccLen + p + 1 = k
    <3>. DEFINE L == Len(sent)
    <3>1. Len(sent') = L + n
      BY <1>5
    <3>2. k \in Nat /\ k > L /\ k <= L + n
      BY <1>7, <1>9, <3>1
    <3>3. L = taken - len + off /\ eccLen = len /\ L \in Nat /\ n <= len - off
      BY <1>4, <1>6, <1>7
    <3>. HIDE DEF L
    <3>4. k - L \in 1..n /\ k = L + (k - L)
      BY <1>7, <3>2, <3>3
    <3>5. off + (k - L) - 1 \in 0..(eccLen - 1) /\ taken - eccLen + (off + (k - L) - 1) + 1 = k
      BY <1>7, <3>2, <3>3
    <3>. QED
      BY <3>4, <3>5 DEF L
  <2>2. PICK G \in [Offsets -> 0..255] : WordsHold(G) /\ Matches(G)
    BY <1>3 DEF CInv, SealedInv
  <2>3. G[p] = client.bytes[taken - eccLen + p + 1]
    BY <1>3, <2>1, <2>2 DEF Matches
  <2>4. sent'[k] = RepairedBuf(len, o)[p]
    BY <1>5, <2>1
  <2>5. TypeOK /\ Repairable(RepairOutcomes(eccLen))
    BY <1>1, <1>6 DEF LInv
  <2>. HIDE DEF p, i
  <2>6. RepairedBuf(eccLen, RepairOutcomes(eccLen))[p] = G[p]
    BY <1>3, <2>1, <2>2, <2>5, RepairedBytes
  <2>. QED
    BY <1>6, <2>1, <2>3, <2>4, <2>6
<1>. QED
  BY <1>8, <1>9

LEMMA WriteCInv == LInv /\ CInv /\ WriteStep => CInv'
<1>. SUFFICES ASSUME LInv, CInv, WriteStep PROVE CInv'
  OBVIOUS
<1>. DEFINE o == RepairOutcomes(len)
<1>0. LInv'
  BY WriteLInv
<1>1. \/ \E n \in {1, len - off} : SendSome(n, o)
      \/ SendAgain(o) \/ SendFails(o) \/ SendEccLost(o)
  BY DEF WriteStep
<1>2. ASSUME NEW n \in {1, len - off}, SendSome(n, o) PROVE CInv'
  <2>1. DeliveredInv'
    BY <1>2, SendDelivers
  <2>2. Writing /\ NextWriteStep(off + n, retry, o) /\ UNCHANGED <<configVars, taken, faultVars>>
    BY <1>2 DEF SendSome
  <2>. QED
    BY <1>0, <2>1, <2>2, NextWriteCInv
<1>3. ASSUME SendAgain(o) PROVE CInv'
  <2>1. Writing /\ UNCHANGED <<configVars, taken, sent, faultVars>>
    BY <1>3 DEF SendAgain
  <2>2. CASE NextWriteStep(off, retry + 1, o)
    <3>1. DeliveredInv'
      BY <2>1 DEF CInv, DeliveredInv, configVars, faultVars
    <3>. QED
      BY <1>0, <2>1, <2>2, <3>1, NextWriteCInv
  <2>3. CASE Fail("write_retry", PumpMark("CONTRACT_VIOLATION"))
    BY <2>1, <2>3, FailCInv, MarkJustified
  <2>. QED
    BY <1>3, <2>2, <2>3 DEF SendAgain
<1>4. ASSUME SendFails(o) PROVE CInv'
  BY <1>4, FailCInv, MarkJustified DEF SendFails
<1>5. ASSUME SendEccLost(o) PROVE CInv'
  <2>1. /\ Writing /\ ~Repairable(o) /\ Fail("payload_ecc", PumpMark("PAYLOAD_ECC"))
        /\ UNCHANGED <<configVars, sent, faultVars>>
    BY <1>5 DEF SendEccLost
  <2>2. len = eccLen
    BY <2>1 DEF Repairable, LInv, EccLenInv, Writing
  <2>3. ~Repairable(RepairOutcomes(eccLen))
    BY <2>1, <2>2
  <2>4. doubleHit
    BY <2>3, LostJustified DEF CInv
  <2>. QED
    BY <2>1, <2>4, FailCInv
<1>. QED
  BY <1>1, <1>2, <1>3, <1>4, <1>5

LEMMA InitCInv == Init => CInv
<1>. SUFFICES ASSUME Init PROVE CInv
  OBVIOUS
<1>1. SealedInv
  <2>. DEFINE G == [p \in Offsets |-> 0]
  <2>1. G \in [Offsets -> 0..255] /\ WordCountFor(0) = 0 /\ eccLen = 0
    BY DataPathAssumption, WordArithmetic DEF Init
  <2>2. WordsHold(G) /\ Matches(G)
    BY <2>1 DEF WordsHold, Matches
  <2>. HIDE DEF G
  <2>. QED
    BY <2>1, <2>2 DEF SealedInv
<1>2. PrefaceInv /\ EccFailureJustified /\ DeliveredInv
  BY DEF Init, PrefaceInv, EccFailureJustified, DeliveredInv
<1>. QED
  BY <1>1, <1>2 DEF CInv

LEMMA NextCInv == LInv /\ CInv /\ [Next]_vars => CInv'
<1>. SUFFICES ASSUME LInv, CInv, [Next]_vars PROVE CInv'
  OBVIOUS
<1>1. ASSUME NEW n \in 1..BufferSize, PrefaceRead(n) \/ PumpRead(n) PROVE CInv'
  BY <1>1, PrefaceReadCInv, PumpReadCInv
<1>2. ASSUME NEW f \in FlipBits, Flip(f) PROVE CInv'
  BY <1>2, FlipCInv
<1>. QED
  BY <1>1, <1>2, LoadConfigCInv, QuietActionsCInv, PrefaceAgainCInv, ConnectCInv, WriteCInv, ScrubCInv
  DEF Next, Terminated

LEMMA SpecCInv == Spec => []CInv
BY InitCInv, NextCInv, SpecLInv, PTL DEF Spec

\* No more is sent than was read.
SentInv == Len(sent) <= taken

LEMMA CountsSent ==
  ASSUME LInv, pc \notin {"eof", "closed"}
  PROVE  SentInv
<1>1. taken \in Nat /\ len \in Nat /\ off \in Nat /\ off <= len /\ pc \in Pcs
  <2>1. taken \in Nat /\ len \in Nat /\ off \in Nat
    BY TypeFacts DEF LInv
  <2>. QED
    BY <2>1 DEF LInv, TypeOK
<1>2. CASE pc \in {"load", "preface", "connect"}
  <2>1. sent = <<>>
    BY <1>2 DEF LInv, CountInv
  <2>. QED
    BY <1>1, <2>1 DEF SentInv
<1>3. CASE pc \in {"flush", "write"}
  BY <1>1, <1>3 DEF LInv, CountInv, SentInv
<1>4. CASE pc = "read"
  BY <1>1, <1>4 DEF LInv, CountInv, SentInv
<1>. QED
  BY <1>1, <1>2, <1>3, <1>4 DEF Pcs

\* A step that ends the session sends nothing.
LEMMA EndSendsNothing ==
  ASSUME LInv, Next, LInv', pc' \in {"eof", "closed"}
  PROVE  sent' = sent /\ taken' >= taken
<1>0. taken \in Nat /\ failure' # "write_steps"
  BY TypeFacts DEF LInv, LoopInv
<1>1. ASSUME NEW n \in 1..BufferSize, PrefaceRead(n) \/ PumpRead(n) PROVE sent' = sent /\ taken' >= taken
  <2>1. n \in Nat /\ taken' = taken + n /\ sent' = sent
    BY <1>1, DataPathAssumption DEF PrefaceRead, PumpRead
  <2>. QED
    BY <1>0, <2>1
<1>2. WriteStep => sent' = sent /\ taken' = taken
  <2>1. ASSUME NEW n, NEW o, SendSome(n, o) PROVE FALSE
    <3>1. Writing /\ NextWriteStep(off + n, retry, o)
      BY <2>1 DEF SendSome
    <3>. QED
      BY <1>0, <3>1 DEF NextWriteStep, Fail, Writing
  <2>. QED
    BY <2>1 DEF WriteStep, SendAgain, SendFails, SendEccLost
<1>3. ASSUME NEW f \in FlipBits, Flip(f) PROVE sent' = sent /\ taken' = taken
  BY <1>3 DEF Flip
<1>4. LoadConfig \/ Expire \/ PrefaceTimeout \/ PrefaceAgain \/ PrefaceReadFails \/ Connect
        \/ PumpEof \/ PumpReadFails \/ PumpMetadataFault \/ Scrub \/ Terminated
        => sent' = sent /\ taken' = taken
  BY DEF LoadConfig, Expire, PrefaceTimeout, PrefaceAgain, PrefaceReadFails, Connect, PumpEof,
         PumpReadFails, PumpMetadataFault, Scrub, Terminated, vars
<1>. QED
  BY <1>0, <1>1, <1>2, <1>3, <1>4 DEF Next

LEMMA SpecSentInv == Spec => []SentInv
<1>1. Init => SentInv
  BY DEF Init, SentInv
<1>2. LInv /\ ~Ended => SentInv
  BY CountsSent DEF Ended
<1>3. ASSUME LInv, SentInv, LInv', [Next]_vars, Ended' PROVE SentInv'
  <2>1. CASE UNCHANGED vars
    BY <1>3, <2>1 DEF vars, SentInv
  <2>2. CASE Next
    <3>1. sent' = sent /\ taken' >= taken
      BY <1>3, <2>2, EndSendsNothing DEF Ended
    <3>2. taken \in Nat /\ taken' \in Nat /\ Len(sent) \in Nat
      <4>1. taken \in Nat /\ sent \in Seq(0..255)
        BY <1>3, TypeFacts DEF LInv, CountInv
      <4>2. taken' \in Nat
        BY <1>3 DEF LInv, TypeOK
      <4>. QED
        BY <4>1, <4>2
    <3>. QED
      BY <1>3, <3>1, <3>2 DEF SentInv
  <2>. QED
    BY <1>3, <2>1, <2>2
<1>. QED
  BY <1>1, <1>2, <1>3, SpecLInv, PTL DEF Spec

\* A session ends for its payload ECC only after two flips in one word, for every
\* buffer size, client and number of flips: no single flip, seal, padding or
\* partial last word makes a repair fail.
THEOREM EccFailures == Spec => []EccFailureJustified
<1>1. CInv => EccFailureJustified
  BY DEF CInv
<1>. QED
  BY <1>1, SpecCInv, PTL

\* The backend gets a prefix of what the client sent, for every buffer size, client
\* and number of flips, under the conditions of DeliveredIntact.
THEOREM Delivery == Spec => []DeliveredIntact
<1>1. LInv /\ CInv /\ SentInv => DeliveredIntact
  <2>. SUFFICES ASSUME LInv, CInv, SentInv, cfg.ecc, ~unsealedHit, flips <= 2 \/ ~doubleHit
                PROVE  sent = SubSeq(client.bytes, 1, Len(sent))
    BY DEF DeliveredIntact
  <2>1. client.bytes \in Seq(0..255) /\ Len(client.bytes) \in Nat /\ taken \in Nat
    BY TypeFacts DEF LInv
  <2>2. sent \in Seq(0..255) /\ taken <= Len(client.bytes) /\ Len(sent) <= taken
    BY <2>1 DEF LInv, CountInv, TypeOK, SentInv
  <2>3. \A i \in 1..Len(sent) : sent[i] = client.bytes[i]
    BY DEF CInv, DeliveredInv
  <2>. DEFINE B == 0..255
              s == client.bytes
  <2>4. s \in Seq(B) /\ sent \in Seq(B) /\ Len(sent) \in 0..Len(s)
    BY <2>1, <2>2
  <2>. HIDE DEF B, s
  <2>5. SubSeq(s, 1, Len(sent)) \in Seq(B) /\ Len(SubSeq(s, 1, Len(sent))) = Len(sent)
        /\ \A i \in 1..Len(sent) : SubSeq(s, 1, Len(sent))[i] = s[i]
    BY <2>4
  <2>6. \A i \in 1..Len(sent) : sent[i] = s[i]
    BY <2>3 DEF s
  <2>7. sent = SubSeq(s, 1, Len(sent))
    BY <2>4, <2>5, <2>6
  <2>. QED
    BY <2>7 DEF s
<1>. QED
  BY <1>1, SpecLInv, SpecCInv, SpecSentInv, PTL

-----------------------------------------------------------------------------
(* The handshake, cut anywhere: varints *)

\* The groups of a varint at o that are there, and its last group.
Seen(b, n, o) == {i \in 0..4 : o + i < n /\ \A j \in 0..(i - 1) : Continues(b[o + j])}
EndsAt(b, n, o, i) == i \in Seen(b, n, o) /\ ~Continues(b[o + i])

\* What a varint with the groups 0..i is read as.
GroupTo(b, o, i, k) == IF k \in 0..i THEN Group(b[o + k]) ELSE 0
VarintAt(b, o, i) ==
  IF i = 4 /\ Group(b[o + 4]) > 15 THEN Failed(Invalid)
  ELSE IF i > 0 /\ b[o + i] = 0 THEN Failed(Invalid)
  ELSE Parsed(Valid, o + i + 1,
              GroupTo(b, o, i, 0) + 128 * GroupTo(b, o, i, 1) + 16384 * GroupTo(b, o, i, 2)
                + 2097152 * GroupTo(b, o, i, 3),
              GroupTo(b, o, i, 4))

\* The first n bytes of b and of g are the same.
SameBytes(b, g, n) == \A p \in Nat : p < n => b[p] = g[p]

LEMMA FailedIs ==
  ASSUME NEW s
  PROVE  Failed(s).st = s /\ Failed(s).off = 0 /\ Failed(s).low = 0 /\ Failed(s).high = 0
BY DEF Failed, Parsed

LEMMA SeenEnd ==
  ASSUME NEW b, NEW n \in Nat, NEW o \in Nat, NEW i, EndsAt(b, n, o, i)
  PROVE  i \in 0..4 /\ Seen(b, n, o) = 0..i
<1>1. i \in 0..4 /\ o + i < n /\ (\A j \in 0..(i - 1) : Continues(b[o + j])) /\ ~Continues(b[o + i])
  BY DEF EndsAt, Seen
<1>2. ASSUME NEW k \in Seen(b, n, o) PROVE k \in 0..i
  <2>1. k \in 0..4 /\ \A j \in 0..(k - 1) : Continues(b[o + j])
    BY DEF Seen
  <2>2. ~(i \in 0..(k - 1))
    BY <1>1, <2>1
  <2>. QED
    BY <1>1, <2>1, <2>2
<1>3. ASSUME NEW k \in 0..i PROVE k \in Seen(b, n, o)
  <2>1. k \in 0..4 /\ o + k < n
    BY <1>1
  <2>2. \A j \in 0..(k - 1) : j \in 0..(i - 1)
    BY <1>1
  <2>. QED
    BY <1>1, <2>1, <2>2 DEF Seen
<1>. QED
  BY <1>1, <1>2, <1>3

LEMMA VarintEnds ==
  ASSUME NEW b, NEW n \in Nat, NEW o \in Nat, NEW i, EndsAt(b, n, o, i)
  PROVE  ReadVarint(b, n, o) = VarintAt(b, o, i)
<1>. DEFINE seen == {k \in 0..4 : o + k < n /\ \A j \in 0..(k - 1) : Continues(b[o + j])}
            last == CHOOSE k \in seen : \A j \in seen : j <= k
            group(k) == IF k \in seen THEN Group(b[o + k]) ELSE 0
            value == group(0) + 128 * group(1) + 16384 * group(2) + 2097152 * group(3)
<1>1. i \in 0..4 /\ seen = 0..i /\ ~Continues(b[o + i])
  BY SeenEnd DEF Seen, EndsAt
<1>2. ReadVarint(b, n, o) =
        IF 4 \in seen /\ Group(b[o + 4]) > 15 THEN Failed(Invalid)
        ELSE IF seen = {} THEN Failed(NeedMore)
        ELSE IF Continues(b[o + last]) THEN Failed(IF last = 4 THEN Invalid ELSE NeedMore)
        ELSE IF last > 0 /\ b[o + last] = 0 THEN Failed(Invalid)
        ELSE Parsed(Valid, o + last + 1, value, group(4))
  BY DEF ReadVarint
<1>. HIDE DEF seen
<1>3. last = i
  <2>1. i \in seen /\ \A j \in seen : j <= i
    BY <1>1
  <2>2. last \in seen /\ \A j \in seen : j <= last
    BY <2>1
  <2>3. last <= i /\ i <= last /\ last \in 0..i
    BY <1>1, <2>1, <2>2
  <2>. HIDE DEF last
  <2>. QED
    BY <1>1, <2>3
<1>4. seen # {} /\ (4 \in seen <=> i = 4)
  <2>1. 0 \in 0..i /\ (4 \in 0..i <=> i = 4)
    BY <1>1
  <2>. QED
    BY <1>1, <2>1
<1>5. group(0) = GroupTo(b, o, i, 0) /\ group(1) = GroupTo(b, o, i, 1) /\ group(2) = GroupTo(b, o, i, 2)
      /\ group(3) = GroupTo(b, o, i, 3) /\ group(4) = GroupTo(b, o, i, 4)
  BY <1>1 DEF GroupTo
<1>6. VarintAt(b, o, i) = IF i = 4 /\ Group(b[o + 4]) > 15 THEN Failed(Invalid)
                         ELSE IF i > 0 /\ b[o + i] = 0 THEN Failed(Invalid)
                         ELSE Parsed(Valid, o + i + 1, value, group(4))
  <2>. HIDE DEF group
  <2>. QED
    BY <1>5 DEF VarintAt
<1>. HIDE DEF last, group, value
<1>7. ~Continues(b[o + last]) /\ (last > 0 <=> i > 0) /\ b[o + last] = b[o + i]
      /\ Parsed(Valid, o + last + 1, value, group(4)) = Parsed(Valid, o + i + 1, value, group(4))
  BY <1>1, <1>3
<1>. QED
  BY <1>2, <1>4, <1>6, <1>7

LEMMA VarintOpen ==
  ASSUME NEW b, NEW n \in Nat, NEW o \in Nat, \A i : ~EndsAt(b, n, o, i)
  PROVE  /\ 4 \in Seen(b, n, o) => ReadVarint(b, n, o) = Failed(Invalid)
         /\ 4 \notin Seen(b, n, o) => ReadVarint(b, n, o) = Failed(NeedMore)
<1>. DEFINE seen == {k \in 0..4 : o + k < n /\ \A j \in 0..(k - 1) : Continues(b[o + j])}
            last == CHOOSE k \in seen : \A j \in seen : j <= k
            group(k) == IF k \in seen THEN Group(b[o + k]) ELSE 0
<1>1. seen = Seen(b, n, o) /\ seen \subseteq 0..4
  BY DEF Seen
<1>2. ReadVarint(b, n, o) =
        IF 4 \in seen /\ Group(b[o + 4]) > 15 THEN Failed(Invalid)
        ELSE IF seen = {} THEN Failed(NeedMore)
        ELSE IF Continues(b[o + last]) THEN Failed(IF last = 4 THEN Invalid ELSE NeedMore)
        ELSE IF last > 0 /\ b[o + last] = 0 THEN Failed(Invalid)
        ELSE Parsed(Valid, o + last + 1,
                    group(0) + 128 * group(1) + 16384 * group(2) + 2097152 * group(3), group(4))
  BY DEF ReadVarint
<1>. HIDE DEF seen
<1>3. CASE seen = {}
  BY <1>1, <1>2, <1>3
<1>4. CASE seen # {}
  <2>1. \E k \in seen : \A j \in seen : j <= k
    <3>1. CASE 4 \in seen
      BY <1>1, <3>1
    <3>2. CASE 4 \notin seen /\ 3 \in seen
      BY <1>1, <3>2
    <3>3. CASE 4 \notin seen /\ 3 \notin seen /\ 2 \in seen
      BY <1>1, <3>3
    <3>4. CASE 4 \notin seen /\ 3 \notin seen /\ 2 \notin seen /\ 1 \in seen
      BY <1>1, <3>4
    <3>5. CASE 4 \notin seen /\ 3 \notin seen /\ 2 \notin seen /\ 1 \notin seen
      <4>1. \A j \in seen : j = 0
        BY <1>1, <3>5
      <4>. QED
        BY <1>4, <4>1
    <3>. QED
      BY <3>1, <3>2, <3>3, <3>4, <3>5
  <2>2. last \in seen /\ \A j \in seen : j <= last
    BY <2>1
  <2>. HIDE DEF last
  <2>3. Continues(b[o + last])
    BY <1>1, <2>2 DEF EndsAt
  <2>4. last = 4 <=> 4 \in seen
    BY <1>1, <2>2
  <2>. HIDE DEF group
  <2>5. CASE 4 \in seen
    BY <1>1, <1>2, <1>4, <2>3, <2>4, <2>5
  <2>6. CASE 4 \notin seen
    BY <1>1, <1>2, <1>4, <2>3, <2>4, <2>6
  <2>. QED
    BY <2>5, <2>6
<1>. QED
  BY <1>3, <1>4

\* More bytes: a group that is there stays.
LEMMA SeenGrows ==
  ASSUME NEW b, NEW g, NEW n \in Nat, NEW m \in Nat, NEW o \in Nat, SameBytes(b, g, n), n <= m,
         NEW i \in 0..4
  PROVE  /\ i \in Seen(b, n, o) => i \in Seen(g, m, o)
         /\ i \in Seen(g, m, o) /\ o + i < n => i \in Seen(b, n, o)
<1>1. ASSUME o + i < n PROVE \A j \in 0..(i - 1) : b[o + j] = g[o + j]
  <2>1. TAKE j \in 0..(i - 1)
  <2>2. o + j \in Nat /\ o + j < n
    BY <1>1
  <2>. QED
    BY <2>2 DEF SameBytes
<1>2. i \in Seen(b, n, o) => i \in Seen(g, m, o)
  BY <1>1 DEF Seen
<1>3. i \in Seen(g, m, o) /\ o + i < n => i \in Seen(b, n, o)
  BY <1>1 DEF Seen
<1>. QED
  BY <1>2, <1>3

LEMMA VarintAtSame ==
  ASSUME NEW b, NEW g, NEW o \in Nat, NEW i \in 0..4, NEW n \in Nat, o + i < n, SameBytes(b, g, n)
  PROVE  VarintAt(b, o, i) = VarintAt(g, o, i) /\ b[o + i] = g[o + i]
<1>1. \A k \in 0..i : b[o + k] = g[o + k]
  <2>1. TAKE k \in 0..i
  <2>2. o + k \in Nat /\ o + k < n
    OBVIOUS
  <2>. QED
    BY <2>2 DEF SameBytes
<1>2. \A k : GroupTo(b, o, i, k) = GroupTo(g, o, i, k)
  BY <1>1 DEF GroupTo
<1>3. b[o + i] = g[o + i] /\ (i = 4 => b[o + 4] = g[o + 4])
  BY <1>1
<1>. QED
  BY <1>2, <1>3 DEF VarintAt

\* Given more bytes, an answer stays what it is; where it was to wait, a varint
\* that is there now ends behind what was there before.
LEMMA VarintGrows ==
  ASSUME NEW b, NEW g, NEW n \in Nat, NEW m \in Nat, NEW o \in Nat, SameBytes(b, g, n), n <= m
  PROVE  \/ ReadVarint(g, m, o) = ReadVarint(b, n, o)
         \/ /\ ReadVarint(b, n, o) = Failed(NeedMore)
            /\ ReadVarint(g, m, o).st = Valid => ReadVarint(g, m, o).off > n
<1>1. CASE \E i : EndsAt(b, n, o, i)
  <2>1. PICK i : EndsAt(b, n, o, i)
    BY <1>1
  <2>2. i \in 0..4 /\ o + i < n /\ i \in Seen(b, n, o) /\ ~Continues(b[o + i])
    BY <2>1 DEF EndsAt, Seen
  <2>3. VarintAt(b, o, i) = VarintAt(g, o, i) /\ b[o + i] = g[o + i]
    BY <2>2, VarintAtSame
  <2>4. EndsAt(g, m, o, i)
    BY <2>2, <2>3, SeenGrows DEF EndsAt
  <2>. QED
    BY <2>1, <2>3, <2>4, VarintEnds
<1>2. CASE \A i : ~EndsAt(b, n, o, i)
  <2>1. ASSUME NEW i, EndsAt(g, m, o, i) PROVE i \in 0..4 /\ o + i >= n
    <3>1. i \in 0..4 /\ i \in Seen(g, m, o) /\ ~Continues(g[o + i])
      BY <2>1 DEF EndsAt, Seen
    <3>2. CASE o + i < n
      <4>1. i \in Seen(b, n, o)
        BY <3>1, <3>2, SeenGrows
      <4>2. b[o + i] = g[o + i]
        BY <3>1, <3>2, VarintAtSame
      <4>. QED
        BY <1>2, <3>1, <4>1, <4>2 DEF EndsAt
    <3>. QED
      BY <3>1, <3>2
  <2>2. CASE 4 \in Seen(b, n, o)
    <3>1. 4 \in Seen(g, m, o) /\ o + 4 < n
      <4>1. 4 \in 0..4 /\ o + 4 < n
        BY <2>2 DEF Seen
      <4>. QED
        BY <2>2, <4>1, SeenGrows
    <3>2. \A i : ~EndsAt(g, m, o, i)
      <4>1. SUFFICES ASSUME NEW i, EndsAt(g, m, o, i) PROVE FALSE
        OBVIOUS
      <4>2. i \in 0..4 /\ o + i >= n /\ Seen(g, m, o) = 0..i
        BY <2>1, <4>1, SeenEnd
      <4>. QED
        BY <3>1, <4>2
    <3>. QED
      BY <1>2, <2>2, <3>1, <3>2, VarintOpen
  <2>3. CASE 4 \notin Seen(b, n, o)
    <3>1. ReadVarint(b, n, o) = Failed(NeedMore)
      BY <1>2, <2>3, VarintOpen
    <3>2. ASSUME NEW i, EndsAt(g, m, o, i)
          PROVE  ReadVarint(g, m, o).st = Valid => ReadVarint(g, m, o).off > n
      <4>1. i \in 0..4 /\ o + i >= n /\ ReadVarint(g, m, o) = VarintAt(g, o, i)
        BY <2>1, <3>2, VarintEnds
      <4>2. VarintAt(g, o, i).st = Valid => VarintAt(g, o, i).off = o + i + 1
        BY DEF VarintAt, Failed, Parsed, Valid, Invalid
      <4>. QED
        BY <4>1, <4>2
    <3>3. ASSUME \A i : ~EndsAt(g, m, o, i) PROVE ReadVarint(g, m, o).st # Valid
      <4>1. ReadVarint(g, m, o) = Failed(Invalid) \/ ReadVarint(g, m, o) = Failed(NeedMore)
        BY <3>3, VarintOpen
      <4>. QED
        BY <4>1, FailedIs DEF Valid, Invalid, NeedMore
    <3>. QED
      BY <3>1, <3>2, <3>3
  <2>. QED
    BY <2>2, <2>3
<1>. QED
  BY <1>1, <1>2

\* The first n bytes of b are bytes.
AreBytes(b, n) == \A p \in Nat : p < n => b[p] \in 0..255

LEMMA VarintType ==
  ASSUME NEW b, NEW n \in Nat, NEW o \in Nat, AreBytes(b, n)
  PROVE  /\ ReadVarint(b, n, o).off \in Nat /\ ReadVarint(b, n, o).low \in Nat
         /\ ReadVarint(b, n, o).st = Valid => ReadVarint(b, n, o).off <= n
<1>1. ASSUME NEW i, EndsAt(b, n, o, i)
      PROVE  /\ VarintAt(b, o, i).off \in Nat /\ VarintAt(b, o, i).low \in Nat
             /\ VarintAt(b, o, i).st = Valid => VarintAt(b, o, i).off <= n
  <2>1. i \in 0..4 /\ o + i < n
    BY <1>1 DEF EndsAt, Seen
  <2>2. \A k : GroupTo(b, o, i, k) \in Nat
    <3>1. TAKE k
    <3>2. CASE k \in 0..i
      <4>1. o + k \in Nat /\ o + k < n
        BY <2>1, <3>2
      <4>2. b[o + k] \in 0..255
        BY <4>1 DEF AreBytes
      <4>. QED
        BY <3>2, <4>2 DEF GroupTo, Group
    <3>3. CASE k \notin 0..i
      BY <3>3 DEF GroupTo
    <3>. QED
      BY <3>2, <3>3
  <2>. DEFINE low == GroupTo(b, o, i, 0) + 128 * GroupTo(b, o, i, 1) + 16384 * GroupTo(b, o, i, 2)
                       + 2097152 * GroupTo(b, o, i, 3)
  <2>3. low \in Nat
    <3>1. GroupTo(b, o, i, 0) \in Nat /\ GroupTo(b, o, i, 1) \in Nat
          /\ GroupTo(b, o, i, 2) \in Nat /\ GroupTo(b, o, i, 3) \in Nat
      BY <2>2
    <3>. QED
      BY <3>1
  <2>4. \/ VarintAt(b, o, i) = Failed(Invalid)
        \/ VarintAt(b, o, i) = Parsed(Valid, o + i + 1, low, GroupTo(b, o, i, 4))
    BY DEF VarintAt
  <2>5. o + i + 1 \in Nat /\ o + i + 1 <= n
    BY <2>1
  <2>. HIDE DEF low
  <2>. QED
    BY <2>3, <2>4, <2>5, FailedIs DEF Parsed, Valid, Invalid
<1>2. CASE \E i : EndsAt(b, n, o, i)
  BY <1>1, <1>2, VarintEnds
<1>3. CASE \A i : ~EndsAt(b, n, o, i)
  <2>1. ReadVarint(b, n, o) = Failed(Invalid) \/ ReadVarint(b, n, o) = Failed(NeedMore)
    BY <1>3, VarintOpen
  <2>. QED
    BY <2>1, FailedIs DEF Valid, Invalid, NeedMore
<1>. QED
  BY <1>2, <1>3

LEMMA VarintSame ==
  ASSUME NEW b, NEW g, NEW n \in Nat, NEW o \in Nat, SameBytes(b, g, n), AreBytes(b, n)
  PROVE  ReadVarint(g, n, o) = ReadVarint(b, n, o)
<1>1. SameBytes(g, b, n) /\ AreBytes(g, n) /\ n <= n
  BY DEF SameBytes, AreBytes
<1>2. \/ ReadVarint(g, n, o) = ReadVarint(b, n, o)
      \/ ReadVarint(b, n, o) = Failed(NeedMore)
  BY <1>1, VarintGrows
<1>3. \/ ReadVarint(g, n, o) = ReadVarint(b, n, o)
      \/ ReadVarint(g, n, o) = Failed(NeedMore)
  BY <1>1, VarintGrows
<1>. QED
  BY <1>2, <1>3

-----------------------------------------------------------------------------
(* The handshake, cut anywhere: the packet *)

\* Given more bytes, an answer about the frame stays what it is; where it was to
\* wait, a packet that is there now ends behind what was there before.
LEMMA FrameGrows ==
  ASSUME NEW b, NEW g, NEW n \in Nat, NEW m \in Nat, SameBytes(b, g, n), n <= m,
         AreBytes(b, n), AreBytes(g, m)
  PROVE  \/ ReadPacketFrame(g, m) = ReadPacketFrame(b, n)
         \/ /\ ReadPacketFrame(b, n) = Failed(NeedMore)
            /\ ReadPacketFrame(g, m).st = Valid =>
                 ReadPacketFrame(g, m).off + ReadPacketFrame(g, m).low > n
<1>. DEFINE r == ReadVarint(b, n, 0)
            R == ReadVarint(g, m, 0)
<1>1. \/ R = r
      \/ r = Failed(NeedMore) /\ (R.st = Valid => R.off > n)
  BY VarintGrows
<1>2. r.off \in Nat /\ r.low \in Nat /\ R.off \in Nat /\ R.low \in Nat
  BY VarintType
<1>3. ReadPacketFrame(b, n) =
        IF r.st # Valid THEN r
        ELSE IF r.high # 0 \/ r.low = 0 \/ r.low > PacketBytesMax THEN Failed(Invalid)
        ELSE IF n < r.off + r.low THEN Failed(NeedMore)
        ELSE r
  BY DEF ReadPacketFrame
<1>4. ReadPacketFrame(g, m) =
        IF R.st # Valid THEN R
        ELSE IF R.high # 0 \/ R.low = 0 \/ R.low > PacketBytesMax THEN Failed(Invalid)
        ELSE IF m < R.off + R.low THEN Failed(NeedMore)
        ELSE R
  BY DEF ReadPacketFrame
<1>. HIDE DEF r, R
<1>5. CASE R = r
  <2>1. CASE r.st = Valid /\ ~(r.high # 0 \/ r.low = 0 \/ r.low > PacketBytesMax)
    <3>1. CASE n < r.off + r.low
      <4>1. ReadPacketFrame(b, n) = Failed(NeedMore)
        BY <1>3, <2>1, <3>1
      <4>2. ReadPacketFrame(g, m) = Failed(NeedMore) \/ ReadPacketFrame(g, m) = r
        BY <1>4, <1>5, <2>1
      <4>3. Failed(NeedMore).st # Valid
        BY FailedIs DEF NeedMore, Valid
      <4>4. r.off + r.low > n
        BY <1>2, <3>1
      <4>. QED
        BY <4>1, <4>2, <4>3, <4>4
    <3>2. CASE ~(n < r.off + r.low)
      <4>1. ~(m < r.off + r.low)
        BY <1>2, <3>2
      <4>. QED
        BY <1>3, <1>4, <1>5, <2>1, <3>2, <4>1
    <3>. QED
      BY <3>1, <3>2
  <2>2. CASE ~(r.st = Valid /\ ~(r.high # 0 \/ r.low = 0 \/ r.low > PacketBytesMax))
    BY <1>3, <1>4, <1>5, <2>2
  <2>. QED
    BY <2>1, <2>2
<1>6. CASE r = Failed(NeedMore) /\ (R.st = Valid => R.off > n)
  <2>1. Failed(NeedMore).st # Valid /\ Failed(Invalid).st # Valid
    BY FailedIs DEF NeedMore, Valid, Invalid
  <2>2. ReadPacketFrame(b, n) = Failed(NeedMore)
    BY <1>3, <1>6, <2>1
  <2>3. ReadPacketFrame(g, m).st = Valid => ReadPacketFrame(g, m) = R /\ R.st = Valid
    BY <1>4, <2>1
  <2>4. R.off > n => R.off + R.low > n
    BY <1>2
  <2>. QED
    BY <1>6, <2>2, <2>3, <2>4
<1>. QED
  BY <1>1, <1>5, <1>6

\* A frame that is there ends within what is there.
LEMMA FrameFits ==
  ASSUME NEW b, NEW n \in Nat, AreBytes(b, n), ReadPacketFrame(b, n).st = Valid
  PROVE  /\ ReadPacketFrame(b, n).off \in Nat /\ ReadPacketFrame(b, n).low \in Nat
         /\ ReadPacketFrame(b, n).off + ReadPacketFrame(b, n).low <= n
<1>. DEFINE r == ReadVarint(b, n, 0)
<1>1. r.off \in Nat /\ r.low \in Nat
  BY VarintType
<1>2. ReadPacketFrame(b, n) =
        IF r.st # Valid THEN r
        ELSE IF r.high # 0 \/ r.low = 0 \/ r.low > PacketBytesMax THEN Failed(Invalid)
        ELSE IF n < r.off + r.low THEN Failed(NeedMore)
        ELSE r
  BY DEF ReadPacketFrame
<1>3. Failed(NeedMore).st # Valid /\ Failed(Invalid).st # Valid
  BY FailedIs DEF NeedMore, Valid, Invalid
<1>. HIDE DEF r
<1>4. ReadPacketFrame(b, n) = r /\ ~(n < r.off + r.low)
  BY <1>2, <1>3
<1>. QED
  BY <1>1, <1>4

\* What the packet says depends on its bytes only.
LEMMA InsideSame ==
  ASSUME NEW b, NEW g, NEW e \in Nat, NEW o \in Nat, SameBytes(b, g, e), AreBytes(b, e)
  PROVE  /\ ReadPacketId(g, e, o) = ReadPacketId(b, e, o)
         /\ ReadProtocolVersion(g, e, o) = ReadProtocolVersion(b, e, o)
         /\ ReadNextState(g, e, o) = ReadNextState(b, e, o)
         /\ SkipServerAddress(g, e, o) = SkipServerAddress(b, e, o)
         /\ ReadPacketId(b, e, o).off \in Nat /\ ReadProtocolVersion(b, e, o).off \in Nat
         /\ SkipServerAddress(b, e, o).off \in Nat
<1>. DEFINE r == ReadVarint(b, e, o)
            R == ReadVarint(g, e, o)
            port == r.off + r.low
<1>1. R = r
  BY VarintSame
<1>2. r.off \in Nat /\ r.low \in Nat
  BY VarintType
<1>3. ReadPacketId(g, e, o) = ReadPacketId(b, e, o)
  BY <1>1 DEF ReadPacketId
<1>4. ReadProtocolVersion(g, e, o) = ReadProtocolVersion(b, e, o)
  BY <1>1 DEF ReadProtocolVersion
<1>5. ReadNextState(g, e, o) = ReadNextState(b, e, o)
  BY <1>1 DEF ReadNextState
<1>6. Failed(Invalid).off \in Nat
  BY FailedIs
<1>7. ReadPacketId(b, e, o).off \in Nat /\ ReadProtocolVersion(b, e, o).off \in Nat
  <2>1. ReadPacketId(b, e, o) = r \/ ReadPacketId(b, e, o) = Failed(Invalid)
    BY DEF ReadPacketId, Inside
  <2>2. ReadProtocolVersion(b, e, o) = r \/ ReadProtocolVersion(b, e, o) = Failed(Invalid)
    BY DEF ReadProtocolVersion, Inside
  <2>. HIDE DEF r
  <2>. QED
    BY <1>2, <1>6, <2>1, <2>2
<1>. DEFINE ok(x) == /\ r.st = Valid /\ r.high = 0 /\ r.low \in 1..AddrBytesMax /\ port + 3 <= e
                     /\ x[port] # 0 \/ x[port + 1] # 0
<1>8. /\ SkipServerAddress(b, e, o) = IF ok(b) THEN Parsed(Valid, port + 2, 0, 0) ELSE Failed(Invalid)
      /\ SkipServerAddress(g, e, o) = IF ok(g) THEN Parsed(Valid, port + 2, 0, 0) ELSE Failed(Invalid)
  BY <1>1 DEF SkipServerAddress
<1>9. port \in Nat /\ port + 1 \in Nat /\ port + 2 \in Nat
      /\ (port + 3 <= e => port < e /\ port + 1 < e)
  BY <1>2
<1>10. port + 3 <= e => b[port] = g[port] /\ b[port + 1] = g[port + 1]
  <2>. HIDE DEF port
  <2>. QED
    BY <1>9 DEF SameBytes
<1>11. ok(b) <=> ok(g)
  <2>. HIDE DEF port, r
  <2>. QED
    BY <1>10
<1>12. Parsed(Valid, port + 2, 0, 0).off \in Nat
  <2>. HIDE DEF port
  <2>. QED
    BY <1>9 DEF Parsed
<1>. HIDE DEF ok
<1>13. SkipServerAddress(g, e, o) = SkipServerAddress(b, e, o) /\ SkipServerAddress(b, e, o).off \in Nat
  BY <1>6, <1>8, <1>11, <1>12
<1>. QED
  BY <1>3, <1>4, <1>5, <1>7, <1>13

\* However a client's bytes are cut: a verdict on what is there is the verdict on
\* all, and a packet is waited for only while it is not all there.
LEMMA StatusGrows ==
  ASSUME NEW b, NEW g, NEW n \in Nat, NEW m \in Nat, SameBytes(b, g, n), n <= m,
         AreBytes(b, n), AreBytes(g, m)
  PROVE  \/ HandshakeStatus(g, m) = HandshakeStatus(b, n)
         \/ /\ HandshakeStatus(b, n) = NeedMore
            /\ HandshakeStatus(g, m) = Valid =>
                 ReadPacketFrame(g, m).off + ReadPacketFrame(g, m).low > n
<1>. DEFINE f == ReadPacketFrame(b, n)
            F == ReadPacketFrame(g, m)
            Rest(x, fr) ==
              LET end     == fr.off + fr.low
                  id      == ReadPacketId(x, end, fr.off)
                  version == ReadProtocolVersion(x, end, id.off)
                  address == SkipServerAddress(x, end, version.off)
                  next    == ReadNextState(x, end, address.off)
              IN  IF id.st # Valid THEN id.st
                  ELSE IF version.st # Valid THEN version.st
                  ELSE IF address.st # Valid THEN address.st
                  ELSE next.st
<1>1. /\ HandshakeStatus(b, n) = IF f.st # Valid THEN f.st ELSE Rest(b, f)
      /\ HandshakeStatus(g, m) = IF F.st # Valid THEN F.st ELSE Rest(g, F)
  BY DEF HandshakeStatus
<1>2. \/ F = f
      \/ f = Failed(NeedMore) /\ (F.st = Valid => F.off + F.low > n)
  BY FrameGrows
<1>3. ASSUME f.st = Valid PROVE Rest(g, f) = Rest(b, f)
  <2>. DEFINE e == f.off + f.low
  <2>1. f.off \in Nat /\ f.low \in Nat /\ e <= n /\ e \in Nat
    BY <1>3, FrameFits
  <2>2. SameBytes(b, g, e) /\ AreBytes(b, e)
    <3>. HIDE DEF e, f
    <3>1. \A p \in Nat : p < e => p < n
      BY <2>1
    <3>. QED
      BY <3>1 DEF SameBytes, AreBytes
  <2>. DEFINE id == ReadPacketId(b, e, f.off)
              version == ReadProtocolVersion(b, e, id.off)
              address == SkipServerAddress(b, e, version.off)
  <2>. HIDE DEF e, f
  <2>3. id = ReadPacketId(g, e, f.off) /\ id.off \in Nat
    BY <2>1, <2>2, InsideSame
  <2>. HIDE DEF id
  <2>4. version = ReadProtocolVersion(g, e, id.off) /\ version.off \in Nat
    BY <2>1, <2>2, <2>3, InsideSame
  <2>. HIDE DEF version
  <2>5. address = SkipServerAddress(g, e, version.off) /\ address.off \in Nat
    BY <2>1, <2>2, <2>4, InsideSame
  <2>. HIDE DEF address
  <2>6. ReadNextState(g, e, address.off) = ReadNextState(b, e, address.off)
    BY <2>1, <2>2, <2>5, InsideSame
  <2>7. Rest(b, f) = IF id.st # Valid THEN id.st
                     ELSE IF version.st # Valid THEN version.st
                     ELSE IF address.st # Valid THEN address.st
                     ELSE ReadNextState(b, e, address.off).st
    BY DEF e, id, version, address
  <2>8. Rest(g, f) = IF id.st # Valid THEN id.st
                     ELSE IF version.st # Valid THEN version.st
                     ELSE IF address.st # Valid THEN address.st
                     ELSE ReadNextState(g, e, address.off).st
    BY <2>3, <2>4, <2>5 DEF e
  <2>. QED
    BY <2>6, <2>7, <2>8
<1>. HIDE DEF f, F, Rest
<1>4. CASE F = f
  BY <1>1, <1>3, <1>4
<1>5. CASE f = Failed(NeedMore) /\ (F.st = Valid => F.off + F.low > n)
  <2>1. f.st = NeedMore /\ NeedMore # Valid
    BY <1>5, FailedIs DEF NeedMore, Valid
  <2>2. HandshakeStatus(b, n) = NeedMore
    BY <1>1, <2>1
  <2>3. HandshakeStatus(g, m) = Valid => F.st = Valid
    BY <1>1
  <2>4. HandshakeStatus(g, m) = Valid => F.off + F.low > n
    BY <1>5, <2>3
  <2>. QED
    BY <2>2, <2>4 DEF F
<1>. QED
  BY <1>2, <1>4, <1>5

-----------------------------------------------------------------------------
(* The gate *)

\* The connection is past the gate.
Through == pc \in {"connect", "flush", "read", "write", "eof"}

\* A gate reads a preface, and what it decided is right.
GateInv == (cfg.gate => cfg.preface) /\ GateVerdict

\* The steps that neither open the gate nor close it.
LEMMA GateKept ==
  ASSUME GateInv, cfg' = cfg, client' = client, unsealedHit => unsealedHit',
         cfg.gate /\ Through' => Through, sent' = sent \/ Through,
         reason' = reason \/ reason' # "PROTOCOL_HANDSHAKE"
  PROVE  GateInv'
BY DEF GateInv, GateVerdict, Through

LEMMA OtherGate ==
  ASSUME GateInv,
         LoadConfig \/ Expire \/ PrefaceTimeout \/ PrefaceAgain \/ PrefaceReadFails \/ Connect
           \/ PumpEof \/ PumpReadFails \/ PumpMetadataFault \/ Scrub \/ UNCHANGED vars
  PROVE  GateInv'
<1>. DEFINE Kept == cfg' = cfg /\ client' = client /\ unsealedHit' = unsealedHit /\ sent' = sent
<1>1. Kept
  BY DEF LoadConfig, Expire, PrefaceTimeout, PrefaceAgain, PrefaceReadFails, Connect, PumpEof,
         PumpReadFails, PumpMetadataFault, Scrub, vars, configVars, faultVars
<1>2. LoadConfig => (cfg.gate /\ Through' => Through) /\ reason' = reason
  BY DEF LoadConfig, Through, Fail, GateInv, endVars
<1>3. PrefaceAgain => (Through' => Through) /\ reason' = reason
  BY DEF PrefaceAgain, NextPrefaceCycle, Fail, Through, endVars
<1>4. Connect => (Through' => Through) /\ reason' = reason
  BY DEF Connect, Fail, Through, endVars
<1>5. PrefaceTimeout \/ PrefaceReadFails \/ PumpReadFails \/ PumpMetadataFault
        => ~Through' /\ (reason' = reason \/ reason' # "PROTOCOL_HANDSHAKE")
  BY DEF PrefaceTimeout, PrefaceReadFails, PumpReadFails, PumpMetadataFault, Fail, Through
<1>6. Expire \/ PumpEof \/ UNCHANGED vars => (Through' => Through) /\ reason' = reason
  BY DEF Expire, PumpEof, Through, vars, endVars
<1>7. Scrub => (Through' => Through) /\ (reason' = reason \/ reason' # "PROTOCOL_HANDSHAKE")
  BY DEF Scrub, Through
<1>8. (cfg.gate /\ Through' => Through) /\ (reason' = reason \/ reason' # "PROTOCOL_HANDSHAKE")
  BY <1>2, <1>3, <1>4, <1>5, <1>6, <1>7
<1>. QED
  BY <1>1, <1>8, GateKept

LEMMA FlipGate ==
  ASSUME GateInv, NEW f \in FlipBits, Flip(f)
  PROVE  GateInv'
<1>1. cfg' = cfg /\ client' = client /\ sent' = sent /\ pc' = pc /\ reason' = reason
      /\ (unsealedHit => unsealedHit')
  BY DEF Flip, configVars, endVars
<1>2. Through' => Through
  BY <1>1 DEF Through
<1>. QED
  BY <1>1, <1>2, GateKept

LEMMA PumpReadGate ==
  ASSUME GateInv, NEW n, PumpRead(n)
  PROVE  GateInv'
<1>1. cfg' = cfg /\ client' = client /\ sent' = sent /\ reason' = reason
      /\ unsealedHit' = unsealedHit /\ Through
  BY DEF PumpRead, configVars, endVars, faultVars, Through
<1>. QED
  BY <1>1, GateKept

LEMMA WriteGate ==
  ASSUME GateInv, WriteStep
  PROVE  GateInv'
<1>1. Through /\ cfg' = cfg /\ client' = client /\ unsealedHit' = unsealedHit
  BY DEF WriteStep, SendSome, SendAgain, SendFails, SendEccLost, Writing, Through, configVars, faultVars
<1>2. \A at, r, o : NextWriteStep(at, r, o) => reason' = reason \/ reason' # "PROTOCOL_HANDSHAKE"
  BY DEF NextWriteStep, Fail, PumpMark, endVars
<1>3. reason' = reason \/ reason' # "PROTOCOL_HANDSHAKE"
  BY <1>2 DEF WriteStep, SendSome, SendAgain, SendFails, SendEccLost, Fail, PumpMark
<1>. QED
  BY <1>1, <1>3, GateKept

LEMMA ClientBytes ==
  ASSUME TypeOK
  PROVE  /\ Len(client.bytes) \in Nat /\ AreBytes(Whole(client), Len(client.bytes))
         /\ \A p \in Nat : p < Len(client.bytes) => Whole(client)[p] = client.bytes[p + 1]
<1>1. Len(client.bytes) \in Nat /\ \A i \in 1..Len(client.bytes) : client.bytes[i] \in 0..255
  BY TypeFacts
<1>2. ASSUME NEW p \in Nat, p < Len(client.bytes)
      PROVE  Whole(client)[p] = client.bytes[p + 1] /\ client.bytes[p + 1] \in 0..255
  <2>1. p \in 0..(Len(client.bytes) - 1) /\ p + 1 \in 1..Len(client.bytes)
    BY <1>1, <1>2
  <2>. QED
    BY <1>1, <2>1 DEF Whole
<1>. QED
  BY <1>1, <1>2 DEF AreBytes

\* The verdict on a read is the verdict on all that the client sends.
LEMMA PrefaceReadGate ==
  ASSUME LInv, CInv, GateInv, NEW n \in 1..BufferSize, PrefaceRead(n)
  PROVE  GateInv'
<1>. DEFINE b == Placed(buf, len, n)
            m == len + n
            W == Whole(client)
            L == Len(client.bytes)
<1>1. cfg' = cfg /\ client' = client /\ unsealedHit' = unsealedHit /\ sent' = sent /\ pc = "preface"
  BY DEF PrefaceRead, configVars, faultVars
<1>2. CASE ~(cfg.gate /\ ~unsealedHit)
  BY <1>1, <1>2 DEF GateInv, GateVerdict
<1>3. CASE cfg.gate /\ ~unsealedHit
  <2>1. b \in [Offsets -> 0..255] /\ m \in 1..BufferSize /\ m <= L /\ FromClient(b, m, 0)
    BY <1>3, PrefaceBytes
  <2>2. \/ HandshakeStatus(b, m) = Valid /\ UNCHANGED endVars
        \/ NextPrefaceCycle(b, m)
        \/ /\ Fail("protocol_handshake_invalid", "PROTOCOL_HANDSHAKE")
           /\ HandshakeStatus(b, m) = Invalid \/ (HandshakeStatus(b, m) = NeedMore /\ m >= BufferSize)
    BY <1>3 DEF PrefaceRead
  <2>3. L \in Nat /\ AreBytes(W, L) /\ \A p \in Nat : p < L => W[p] = client.bytes[p + 1]
    BY ClientBytes DEF LInv
  <2>4. client \in Clients
    BY DEF LInv, TypeOK
  <2>5. (client.good <=> HandshakeStatus(W, L) = Valid)
        /\ (client.good => client.size = ReadPacketFrame(W, L).off + ReadPacketFrame(W, L).low)
    BY <2>4, ClientsAssumption
  <2>. HIDE DEF b, m, W, L
  <2>6. m \in Nat /\ BufferSize \in Nat /\ m <= BufferSize
    BY <2>1, DataPathAssumption
  <2>7. AreBytes(b, m) /\ SameBytes(b, W, m)
    <3>1. \A p \in Nat : p < m => p \in 0..(m - 1) /\ p \in Offsets /\ p < L
      BY <2>1, <2>3, <2>6 DEF Offsets
    <3>2. \A p \in Nat : p < m => b[p] = client.bytes[p + 1]
      <4>1. \A p \in Nat : 0 + p + 1 = p + 1
        OBVIOUS
      <4>. QED
        BY <2>1, <3>1, <4>1 DEF FromClient
    <3>3. \A p \in Nat : p < m => b[p] \in 0..255 /\ b[p] = W[p]
      BY <2>1, <2>3, <3>1, <3>2
    <3>. QED
      BY <3>3 DEF AreBytes, SameBytes
  <2>8. \/ HandshakeStatus(W, L) = HandshakeStatus(b, m)
        \/ /\ HandshakeStatus(b, m) = NeedMore
           /\ HandshakeStatus(W, L) = Valid => ReadPacketFrame(W, L).off + ReadPacketFrame(W, L).low > m
    BY <2>1, <2>3, <2>6, <2>7, StatusGrows
  <2>9. CASE HandshakeStatus(b, m) = Valid /\ UNCHANGED endVars
    <3>1. client.good /\ reason' = reason
      BY <2>5, <2>8, <2>9 DEF Valid, NeedMore, endVars
    <3>. QED
      BY <1>1, <1>3, <3>1 DEF GateInv, GateVerdict
  <2>10. CASE NextPrefaceCycle(b, m)
    <3>1. ~Through' /\ reason' = reason
      BY <1>1, <2>10 DEF NextPrefaceCycle, Fail, Through, endVars
    <3>. QED
      BY <1>1, <3>1, GateKept
  <2>11. CASE /\ Fail("protocol_handshake_invalid", "PROTOCOL_HANDSHAKE")
              /\ HandshakeStatus(b, m) = Invalid \/ (HandshakeStatus(b, m) = NeedMore /\ m >= BufferSize)
    <3>1. pc' = "closed"
      BY <2>11 DEF Fail
    <3>2. ~client.good \/ client.size > BufferSize
      <4>1. CASE HandshakeStatus(b, m) = Invalid
        BY <2>5, <2>8, <4>1 DEF Valid, Invalid, NeedMore
      <4>2. CASE HandshakeStatus(b, m) = NeedMore /\ m >= BufferSize
        <5>1. m = BufferSize
          BY <2>6, <4>2
        <5>. QED
          BY <2>5, <2>8, <4>2, <5>1 DEF Valid, NeedMore
      <4>. QED
        BY <2>11, <4>1, <4>2
    <3>. QED
      BY <1>1, <1>3, <3>1, <3>2 DEF GateInv, GateVerdict
  <2>. QED
    BY <2>2, <2>9, <2>10, <2>11
<1>. QED
  BY <1>2, <1>3

LEMMA SpecGateInv == Spec => []GateInv
<1>1. Init => GateInv
  BY DEF Init, GateInv, GateVerdict
<1>2. ASSUME LInv, CInv, GateInv, [Next]_vars PROVE GateInv'
  <2>1. ASSUME NEW n \in 1..BufferSize, PrefaceRead(n) \/ PumpRead(n) PROVE GateInv'
    BY <1>2, <2>1, PrefaceReadGate, PumpReadGate
  <2>2. ASSUME NEW f \in FlipBits, Flip(f) PROVE GateInv'
    BY <1>2, <2>2, FlipGate
  <2>3. CASE WriteStep
    BY <1>2, <2>3, WriteGate
  <2>4. CASE LoadConfig \/ Expire \/ PrefaceTimeout \/ PrefaceAgain \/ PrefaceReadFails \/ Connect
               \/ PumpEof \/ PumpReadFails \/ PumpMetadataFault \/ Scrub \/ UNCHANGED vars
    BY <1>2, <2>4, OtherGate
  <2>. QED
    BY <1>2, <2>1, <2>2, <2>3, <2>4 DEF Next, Terminated
<1>. QED
  BY <1>1, <1>2, SpecLInv, SpecCInv, PTL DEF Spec

\* However the preface is cut into reads, whatever the sizes of the packet and of
\* the buffer, the gate decides as it would on all the bytes the client sends.
THEOREM Gate == Spec => []GateVerdict
<1>1. GateInv => GateVerdict
  BY DEF GateInv
<1>. QED
  BY <1>1, SpecGateInv, PTL
=============================================================================
