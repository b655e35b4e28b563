------------------------------ MODULE Secded -------------------------------
(***************************************************************************)
(* The extended Hamming code of src/src/support/llps_secded.c.  A word is  *)
(* the set of its bits that are 1 (0 is the least significant), an ECC     *)
(* byte the set of its bits that are 1: bits 0..6 hold the Hamming parity, *)
(* bit 7 the overall parity.                                               *)
(***************************************************************************)
EXTENDS Integers, Sequences, FiniteSetsExt

Parity(S) == Cardinality(S) % 2
TwoTo(k) == <<1, 2, 4, 8, 16, 32, 64, 128, 256>>[k + 1]
\* The bits of a byte.
BitsOf(v) == {b \in 0..7 : (v \div TwoTo(b)) % 2 = 1}
\* The byte whose bits are S.
Value(S) ==
  LET bit(k) == IF k \in S THEN TwoTo(k) ELSE 0
  IN  bit(0) + bit(1) + bit(2) + bit(3) + bit(4) + bit(5) + bit(6) + bit(7)
IsPowerOfTwo(v) == \E k \in 0..7 : v = TwoTo(k)
OverallBit == 7

\* llps_secded_parity_bits_for_data_bits
ParityBits(n) ==
  CHOOSE p \in 1..8 :
    /\ p = 8 \/ TwoTo(p) >= n + p + 1
    /\ \A q \in 1..(p - 1) : TwoTo(q) < n + q + 1

\* The widths the program encodes.
Widths == {16, 32, 64}
ParityBitsOf == [n \in Widths |-> ParityBits(n)]

\* The code positions are 1 .. TotalPositions; the powers of two hold parity,
\* the others the data bits in order.
TotalPositions(n) == n + ParityBitsOf[n]
DataPositions(n) == {pos \in 1..TotalPositions(n) : ~IsPowerOfTwo(pos)}
\* llps_secded_data_index_for_position
DataIndex ==
  [n \in Widths |->
     [pos \in DataPositions(n) |-> Cardinality({q \in DataPositions(n) : q < pos})]]

\* The data bits that parity bit i covers.
CoveredBits ==
  [n \in Widths |->
     [i \in 0..6 |-> {DataIndex[n][pos] : pos \in {q \in DataPositions(n) : i \in BitsOf(q)}}]]

\* Mutant of ParityMasks: the last digit of the first mask is 0x9.
ParityMasksTypo ==
  <<<<171, 85, 85, 85, 86, 170, 173, 89>>,
    <<205, 153, 153, 153, 155, 51, 54, 109>>,
    <<241, 225, 225, 225, 227, 195, 199, 142>>,
    <<1, 254, 1, 254, 3, 252, 7, 240>>,
    <<1, 255, 254, 0, 3, 255, 248, 0>>,
    <<1, 255, 255, 255, 252, 0, 0, 0>>,
    <<254, 0, 0, 0, 0, 0, 0, 0>>>>

\* parity_masks of llps_secded_encode_u64_full, most significant byte first:
\* 0xab55555556aaad5b, 0xcd9999999b33366d, 0xf1e1e1e1e3c3c78e,
\* 0x01fe01fe03fc07f0, 0x01fffe0003fff800, 0x01fffffffc000000,
\* 0xfe00000000000000.
ParityMasks ==
  <<<<171, 85, 85, 85, 86, 170, 173, 91>>,
    <<205, 153, 153, 153, 155, 51, 54, 109>>,
    <<241, 225, 225, 225, 227, 195, 199, 142>>,
    <<1, 254, 1, 254, 3, 252, 7, 240>>,
    <<1, 255, 254, 0, 3, 255, 248, 0>>,
    <<1, 255, 255, 255, 252, 0, 0, 0>>,
    <<254, 0, 0, 0, 0, 0, 0, 0>>>>

ParityMaskBits ==
  [i \in 0..6 |->
     UNION {{8 * (8 - k) + b : b \in BitsOf(ParityMasks[i + 1][k])} : k \in 1..8}]

\* The ECC byte made of the Hamming bits and the parity of data and Hamming.
WithOverall(data, hamming) ==
  IF Parity(data) # Parity(hamming) THEN hamming \cup {OverallBit} ELSE hamming

\* llps_secded_encode_u64_full
EncodeFull(data) ==
  WithOverall(data, {i \in 0..6 : Parity(data \cap ParityMaskBits[i]) = 1})

\* The positional loop of llps_secded_encode_u64.
EncodePositional(data, n) ==
  WithOverall(data,
    {i \in 0..(ParityBitsOf[n] - 1) : Parity(data \cap CoveredBits[n][i]) = 1})

\* llps_secded_encode_u64
Encode(data, n) ==
  IF n = 64 THEN EncodeFull(data) ELSE EncodePositional(data \cap 0..(n - 1), n)

\* llps_secded_is_valid_u64
IsValid(data, n, ecc) == ecc = Encode(data, n)

Outcome(status, data, ecc) == [status |-> status, data |-> data, ecc |-> ecc]

\* llps_secded_apply_repair_u64
ApplyRepair(data, ecc, n, expected, syndrome, overallError) ==
  IF syndrome = 0 /\ ~overallError THEN Outcome("OK", data, ecc)
  ELSE IF syndrome = 0 THEN Outcome("CORRECTED", data, expected)
  ELSE IF ~overallError \/ syndrome > TotalPositions(n)
       THEN Outcome("UNCORRECTABLE", data, ecc)
  ELSE IF IsPowerOfTwo(syndrome) THEN Outcome("CORRECTED", data, expected)
  ELSE LET fixed == SymDiff(data, {DataIndex[n][syndrome]})
       IN  Outcome("CORRECTED", fixed, Encode(fixed, n))

\* llps_secded_repair_u64.  The ECC bits between the Hamming bits and the
\* overall bit (none at 64 data bits) are not looked at.
Repair(word, n, ecc) ==
  LET data     == word \cap 0..(n - 1)
      expected == Encode(data, n)
      hamming  == ecc \cap 0..(ParityBitsOf[n] - 1)
      wrong    == SymDiff(expected, hamming) \cap 0..(ParityBitsOf[n] - 1)
      syndrome == Value(wrong)
      overallError == (Parity(data) + Parity(hamming)
                        + (IF OverallBit \in ecc THEN 1 ELSE 0)) % 2 = 1
  IN  ApplyRepair(data, ecc, n, expected, syndrome, overallError)
============================================================================
