------------------------------ MODULE TmrVote ------------------------------
(***************************************************************************)
(* The fixed bank-pair selection shared by every triplicated record of     *)
(* LLPS (src/src/tmr/llps_tmr_vote.c).  A record is kept in three banks;   *)
(* a caller first decides which banks are valid (magic, bank id, inverse   *)
(* fields and CRC all agree), takes a snapshot of each valid bank and then *)
(* asks for two valid banks with equal snapshots.                          *)
(***************************************************************************)
EXTENDS Integers, FiniteSets

BankIds == 0..2

\* "No pair found": the function returned false and left its output alone.
NoPair == 3

\* Two banks support each other when both are valid and hold the same value.
Agree(valid, snap, i, j) == valid[i] /\ valid[j] /\ snap[i] = snap[j]

\* Mutant of FindMatchingPair: the pair 01 is not tried.
FindMatchingPairTail(valid, snap) ==
  IF Agree(valid, snap, 0, 2) THEN 0
  ELSE IF Agree(valid, snap, 1, 2) THEN 1
  ELSE NoPair

\* llps_tmr_vote_find_matching_pair: pairs are tried in the order 01, 02, 12
\* and the lower index of the first agreeing pair is the majority index.
FindMatchingPair(valid, snap) ==
  IF Agree(valid, snap, 0, 1) \/ Agree(valid, snap, 0, 2) THEN 0
  ELSE IF Agree(valid, snap, 1, 2) THEN 1
  ELSE NoPair

\* valid_count of the callers' loops.
ValidCount(valid) == Cardinality({b \in BankIds : valid[b]})

\* The two tests every reconcile makes before it trusts a majority:
\* valid_count >= 2 and a matching pair.
HasMajority(valid, snap) ==
  ValidCount(valid) >= 2 /\ FindMatchingPair(valid, snap) # NoPair

\* Mutant of Divergent: the repair rewrites all banks.
RepairsEveryBank(valid, snap, maj, b) == TRUE

\* The repair loops rewrite every bank that is invalid or differs from the
\* majority value.
Divergent(valid, snap, maj, b) == ~valid[b] \/ snap[b] # maj
=============================================================================
