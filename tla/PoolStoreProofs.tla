-------------------------- MODULE PoolStoreProofs --------------------------
(***************************************************************************)
(* The session pool on triplicated memory for every number of slots and    *)
(* every number of memory faults: it implements SlotPool, its banks hold   *)
(* lists of distinct slots without an owner, it is lost only when two      *)
(* banks of one record were bad at once, and no slot and no start of the   *)
(* server is lost without a fault that explains it.                        *)
(*                                                                         *)
(* The argument: a fault breaks a bank's seal and never its majority's     *)
(* value, and every write stores one value in all banks.  So all banks of  *)
(* a record carry the same value (Carries), a vote that succeeds finds     *)
(* that value, and it succeeds exactly if two seals are intact (Sound).    *)
(* What the canonical copies hold plays no part, except in the range test  *)
(* of llps_close_session (LossInv).                                        *)
(***************************************************************************)
EXTENDS PoolStore, TLAPS, FiniteSetTheorems, SequenceTheorems,
        WellFoundedInduction

\* Every bank carries v, whether its seal is intact or not.
Carries(bank, v) == bank \in [BankIds -> [ok : BOOLEAN, val : {v}]]

\* Two seals are intact; two are broken.
Sound(bank) == \E i, j \in BankIds : i # j /\ bank[i].ok /\ bank[j].ok
TwoBad(bank) == \E i, j \in BankIds : i # j /\ ~bank[i].ok /\ ~bank[j].ok

\* A list of distinct slots that belong to no connection, as sessions st say.
FreeList(l, h, st) ==
  /\ l \in Seq(Slots)
  /\ Len(l) <= MaxClients
  /\ \A i \in 1..Len(l) : l[i] \notin h /\ st[l[i]] # "active"
  /\ \A i, j \in 1..Len(l) : i # j => l[i] # l[j]

\* The list the banks carry.
L == listBank[0].val

SlotTypes ==
  /\ phase \in Phases
  /\ slot \in [Slots -> {"free", "active", "broken"}]
  /\ held \subseteq Slots
  /\ closing \subseteq held
  /\ slotHit \subseteq Slots

FaultTypes ==
  faults \in 0..FaultMax /\ dual \in BOOLEAN /\ cfgHit \in BOOLEAN

PoolInv ==
  /\ SlotTypes /\ FaultTypes
  /\ Carries(cfgBank, Cfg)
  /\ Carries(listBank, L)
  /\ FreeList(L, held, slot)
  /\ TwoBad(cfgBank) \/ TwoBad(listBank) => dual

-----------------------------------------------------------------------------
(* The vote on banks that carry one value *)

\* Two intact seals are the valid_count >= 2 of the vote.
LEMMA TwoValidCount ==
  ASSUME NEW valid \in [BankIds -> BOOLEAN],
         NEW i \in BankIds, NEW j \in BankIds, i # j, valid[i], valid[j]
  PROVE  ValidCount(valid) >= 2
<1>. DEFINE S == {b \in BankIds : valid[b]}
<1>1. IsFiniteSet(BankIds) /\ S \subseteq BankIds
  <2>1. 0 \in Int /\ 2 \in Int
    OBVIOUS
  <2>2. IsFiniteSet(0..2)
    BY <2>1, FS_Interval, ZenonT(30)
  <2>. QED
    BY <2>2, Zenon DEF BankIds
<1>2. IsFiniteSet(S)
  BY <1>1, FS_Subset
<1>3. IsFiniteSet({i}) /\ Cardinality({i}) = 1
  BY FS_Singleton
<1>4. j \notin {i} /\ {i} \cup {j} = {i, j}
  OBVIOUS
<1>5. Cardinality({i, j}) = 2
  BY <1>3, <1>4, FS_AddElement
<1>6. {i, j} \subseteq S
  OBVIOUS
<1>7. Cardinality({i, j}) <= Cardinality(S)
  BY <1>2, <1>6, FS_Subset
<1>8. Cardinality(S) \in Nat
  BY <1>2, FS_CardinalityType
<1>. QED
  BY <1>5, <1>7, <1>8 DEF ValidCount

\* A vote over banks that carry v succeeds exactly if two of them are valid,
\* and finds v.
LEMMA CarriedMajority ==
  ASSUME NEW v, NEW bank, Carries(bank, v), NEW valid \in [BankIds -> BOOLEAN]
  PROVE  /\ HasMajority(valid, Vals(bank)) <=>
              \E i, j \in BankIds : i # j /\ valid[i] /\ valid[j]
         /\ HasMajority(valid, Vals(bank)) => Majority(valid, bank) = v
<1>1. \A b \in BankIds : Vals(bank)[b] = v /\ bank[b].val = v
  BY DEF Carries, Vals
<1>2. ASSUME NEW i \in BankIds, NEW j \in BankIds, i # j, valid[i], valid[j]
      PROVE  HasMajority(valid, Vals(bank))
  <2>1. ValidCount(valid) >= 2
    BY <1>2, TwoValidCount
  <2>2. FindMatchingPair(valid, Vals(bank)) # NoPair
    BY <1>1, <1>2 DEF FindMatchingPair, Agree, NoPair, BankIds
  <2>. QED
    BY <2>1, <2>2 DEF HasMajority
<1>3. ASSUME HasMajority(valid, Vals(bank))
      PROVE  /\ \E i, j \in BankIds : i # j /\ valid[i] /\ valid[j]
             /\ FindMatchingPair(valid, Vals(bank)) \in BankIds
  BY <1>3 DEF HasMajority, FindMatchingPair, Agree, NoPair, BankIds
<1>. QED
  BY <1>1, <1>2, <1>3 DEF Majority

\* The repair after it leaves every bank sealed with v.
LEMMA CarriedRepair ==
  ASSUME NEW v, NEW bank, Carries(bank, v), NEW valid,
         valid = [b \in BankIds |-> bank[b].ok], HasMajority(valid, Vals(bank))
  PROVE  Repaired(valid, bank) = WriteAll(v)
<1>1. valid \in [BankIds -> BOOLEAN]
  BY DEF Carries
<1>2. Majority(valid, bank) = v
  BY <1>1, CarriedMajority
<1>3. \A b \in BankIds : Vals(bank)[b] = v
  BY DEF Carries, Vals
<1>4. ASSUME NEW b \in BankIds, bank[b].ok
      PROVE  bank[b] = Seal(v)
  <2>1. bank[b] \in [ok : BOOLEAN, val : {v}]
    BY DEF Carries
  <2>. QED
    BY <2>1, <1>4 DEF Seal
<1>. QED
  BY <1>2, <1>3, <1>4 DEF Repaired, WriteAll, Divergent

LEMMA Written ==
  ASSUME NEW v
  PROVE  Carries(WriteAll(v), v) /\ Sound(WriteAll(v)) /\ ~TwoBad(WriteAll(v))
BY DEF Carries, WriteAll, Seal, Sound, TwoBad, BankIds

\* Three banks: one of the two holds.
LEMMA SoundOrTwoBad ==
  ASSUME NEW bank
  PROVE  Sound(bank) \/ TwoBad(bank)
BY DEF Sound, TwoBad, BankIds

\* llps_runtime_cfg_reconcile on banks that carry the configuration.
LEMMA CfgVote ==
  ASSUME NEW cb, Carries(cb, Cfg)
  PROVE  /\ CfgFine(cb) <=> Sound(cb)
         /\ Sound(cb) => /\ CfgMajority(cb) = Cfg
                         /\ CfgMajority(cb).max_clients = MaxClients
                         /\ CfgRepaired(cb) = WriteAll(Cfg)
<1>1. CfgValid(cb) \in [BankIds -> BOOLEAN]
  BY DEF Carries, CfgValid
<1>2. CfgFine(cb) <=> Sound(cb)
  <2>1. \A b \in BankIds : CfgValid(cb)[b] = cb[b].ok
    BY DEF CfgValid
  <2>2. CfgFine(cb) <=> \E i, j \in BankIds : i # j /\ CfgValid(cb)[i] /\ CfgValid(cb)[j]
    BY <1>1, CarriedMajority DEF CfgFine
  <2>. QED
    BY <2>1, <2>2 DEF Sound
<1>3. CfgFine(cb) => CfgMajority(cb) = Cfg
  BY <1>1, CarriedMajority DEF CfgFine, CfgMajority
<1>4. CfgFine(cb) => CfgRepaired(cb) = WriteAll(Cfg)
  BY CarriedRepair DEF CfgFine, CfgRepaired, CfgValid
<1>5. Cfg.max_clients = MaxClients
  BY DEF Cfg
<1>. QED
  BY <1>2, <1>3, <1>4, <1>5

\* llps_free_list_vote on banks that carry a list that is not too long.
LEMMA ListVote ==
  ASSUME NEW l, Len(l) <= MaxClients, NEW lb, Carries(lb, l)
  PROVE  /\ ListFine(lb, MaxClients) <=> Sound(lb)
         /\ Sound(lb) => /\ ListMajority(lb, MaxClients) = l
                         /\ ListRepaired(lb, MaxClients) = WriteAll(l)
<1>. DEFINE valid == [b \in BankIds |-> lb[b].ok]
<1>1. ListValid(lb, MaxClients) = valid
  <2>1. \A b \in BankIds : lb[b].val = l /\ lb[b].ok \in BOOLEAN
    BY DEF Carries
  <2>2. \A b \in BankIds : (lb[b].ok /\ Len(lb[b].val) <= MaxClients) = lb[b].ok
    BY <2>1
  <2>. QED
    BY <2>2 DEF ListValid
<1>2. valid \in [BankIds -> BOOLEAN]
  BY DEF Carries
<1>3. ListFine(lb, MaxClients) <=> Sound(lb)
  <2>1. HasMajority(valid, Vals(lb)) <=> \E i, j \in BankIds : i # j /\ valid[i] /\ valid[j]
    BY <1>2, CarriedMajority
  <2>. QED
    BY <1>1, <2>1 DEF ListFine, Sound
<1>4. ListFine(lb, MaxClients) => ListMajority(lb, MaxClients) = l
  <2>1. HasMajority(valid, Vals(lb)) => Majority(valid, lb) = l
    BY <1>2, CarriedMajority
  <2>. QED
    BY <1>1, <2>1 DEF ListFine, ListMajority
<1>5. ListFine(lb, MaxClients) => ListRepaired(lb, MaxClients) = WriteAll(l)
  <2>1. HasMajority(valid, Vals(lb)) => Repaired(valid, lb) = WriteAll(l)
    BY CarriedRepair
  <2>. QED
    BY <1>1, <2>1 DEF ListFine, ListRepaired
<1>. QED
  BY <1>3, <1>4, <1>5

\* Both votes together, as every operation on the pool makes them.
LEMMA PoolVote ==
  ASSUME NEW cb, Carries(cb, Cfg), NEW l, Len(l) <= MaxClients, NEW lb, Carries(lb, l)
  PROVE  LET max == CfgMajority(cb).max_clients
         IN  /\ (CfgFine(cb) /\ ListFine(lb, max)) <=> (Sound(cb) /\ Sound(lb))
             /\ Sound(cb) /\ Sound(lb) =>
                  /\ max = MaxClients
                  /\ ListMajority(lb, max) = l
                  /\ ListRepaired(lb, max) = WriteAll(l)
BY CfgVote, ListVote

-----------------------------------------------------------------------------
(* What an operation leaves behind *)

\* The configuration's banks after llps_runtime_cfg_reconcile.
LEMMA CfgReconciled ==
  ASSUME Carries(cfgBank, Cfg), ReconcileCfg
  PROVE  /\ Carries(cfgBank', Cfg)
         /\ Sound(cfgBank') <=> Sound(cfgBank)
         /\ TwoBad(cfgBank') => TwoBad(cfgBank)
<1>1. CASE CfgFine(cfgBank)
  <2>1. Sound(cfgBank) /\ cfgBank' = WriteAll(Cfg)
    BY <1>1, CfgVote DEF ReconcileCfg
  <2>. QED
    BY <2>1, Written
<1>2. CASE ~CfgFine(cfgBank)
  BY <1>2 DEF ReconcileCfg, cfgVars
<1>. QED
  BY <1>1, <1>2

\* The list's banks carry l next, and the pool is up exactly if it was.
ListNext(l) ==
  /\ Carries(listBank', l)
  /\ L' = l
  /\ Sound(listBank') <=> Sound(listBank)
  /\ TwoBad(listBank') => TwoBad(listBank)

\* StoreList is used while the pool is up.
LEMMA ListStored ==
  ASSUME NEW l, Sound(listBank), StoreList(l)
  PROVE  ListNext(l)
<1>1. listBank' = WriteAll(l)
  BY DEF StoreList
<1>2. WriteAll(l)[0].val = l
  BY DEF WriteAll, Seal, BankIds
<1>. QED
  BY <1>1, <1>2, Written DEF ListNext, L

LEMMA ListUnchanged ==
  ASSUME Carries(listBank, L), listBank' = listBank
  PROVE  ListNext(L)
BY DEF ListNext, L

\* What the votes find now.
LEMMA VotedNow ==
  ASSUME PoolInv
  PROVE  /\ PoolUp <=> (Sound(cfgBank) /\ Sound(listBank))
         /\ PoolUp => /\ VotedMax = MaxClients
                      /\ VotedList = L
                      /\ ListRepaired(listBank, VotedMax) = WriteAll(L)
<1>1. Carries(cfgBank, Cfg) /\ Carries(listBank, L) /\ Len(L) <= MaxClients
  BY DEF PoolInv, FreeList
<1>. QED
  BY <1>1, PoolVote DEF PoolUp, VotedMax, VotedList

LEMMA ListReconciled ==
  ASSUME PoolInv, ReconcileList
  PROVE  ListNext(L)
<1>1. CASE PoolUp
  <2>1. StoreList(L) /\ Sound(listBank)
    BY <1>1, VotedNow DEF ReconcileList, StoreList
  <2>. QED
    BY <2>1, ListStored
<1>2. CASE ~PoolUp
  BY <1>2, ListUnchanged DEF ReconcileList, PoolInv, listVars
<1>. QED
  BY <1>1, <1>2

\* What SlotPool sees of the pool.
Free == IF PoolUp THEN Range1(VotedList) ELSE {}

\* The new state, from what became of the banks and the sessions.
LEMMA StepSeen ==
  ASSUME PoolInv, NEW l, ListNext(l), FreeList(l, held', slot'),
         Carries(cfgBank', Cfg), Sound(cfgBank') <=> Sound(cfgBank),
         TwoBad(cfgBank') => TwoBad(cfgBank),
         SlotTypes', FaultTypes', dual' = dual
  PROVE  /\ PoolInv'
         /\ PoolUp' <=> PoolUp
         /\ Free' = IF PoolUp THEN Range1(l) ELSE {}
<1>1. Carries(listBank', l) /\ L' = l /\ Len(l) <= MaxClients
  BY DEF ListNext, FreeList
<1>2. PoolInv'
  BY <1>1 DEF PoolInv, ListNext
<1>3. /\ PoolUp' <=> (Sound(cfgBank') /\ Sound(listBank'))
      /\ PoolUp' => VotedList' = l
  BY <1>1, PoolVote DEF PoolUp, VotedMax, VotedList
<1>4. PoolUp' <=> PoolUp
  BY <1>3, VotedNow DEF ListNext
<1>5. Free' = IF PoolUp THEN Range1(l) ELSE {}
  BY <1>3, <1>4 DEF Free
<1>. QED
  BY <1>2, <1>4, <1>5

LEMMA SeenNow ==
  ASSUME PoolInv
  PROVE  Free = IF PoolUp THEN Range1(L) ELSE {}
BY VotedNow DEF Free

-----------------------------------------------------------------------------
(* The list that a step leaves *)

\* The last position the search looks at exists.
LEMMA LastIn ==
  ASSUME NEW n \in Nat, NEW S, S \subseteq 1..n, S # {}
  PROVE  LastOf(S) \in S /\ \A j \in S : j <= LastOf(S)
<1>. DEFINE T == {m \in Nat : n - m \in S}
<1>1. T \subseteq Nat /\ T # {}
  <2>1. PICK i \in S : TRUE
    OBVIOUS
  <2>2. i \in 1..n /\ n - i \in Nat /\ n - (n - i) = i
    BY <2>1
  <2>. QED
    BY <2>1, <2>2
<1>2. PICK m \in T : \A c \in T : ~(<<c, m>> \in OpToRel(<, Nat))
  BY <1>1, NatLessThanWellFounded, WFMin
<1>3. m \in Nat /\ n - m \in S
  BY <1>2
<1>4. ASSUME NEW j \in S, ~(j <= n - m)
      PROVE  FALSE
  <2>1. j \in 1..n /\ n - j \in Nat /\ n - j < m /\ n - (n - j) = j
    BY <1>3, <1>4
  <2>2. n - j \in T
    BY <2>1, <1>4
  <2>3. <<n - j, m>> \in OpToRel(<, Nat)
    BY <2>1, <1>3 DEF OpToRel
  <2>. QED
    BY <2>2, <2>3, <1>2
<1>. QED
  BY <1>3, <1>4 DEF LastOf

\* What is left of a free list in front of position k, which is handed out.
LEMMA FrontFree ==
  ASSUME NEW l, NEW h, NEW st \in [Slots -> {"free", "active", "broken"}],
         FreeList(l, h, st), NEW k \in 1..Len(l)
  PROVE  LET f == SubSeq(l, 1, k - 1)
         IN  /\ FreeList(f, h \cup {l[k]}, [st EXCEPT ![l[k]] = "active"])
             /\ Range1(f) = Range1(l) \ ({l[i] : i \in (k + 1)..Len(l)} \cup {l[k]})
<1>. DEFINE f == SubSeq(l, 1, k - 1)
<1>1. /\ l \in Seq(Slots) /\ Len(l) \in Nat /\ MaxClients \in Nat /\ Len(l) <= MaxClients
      /\ \A i \in 1..Len(l) : l[i] \in Slots /\ l[i] \notin h /\ st[l[i]] # "active"
      /\ \A i, j \in 1..Len(l) : i # j => l[i] # l[j]
  BY PoolAssumption, ElementOfSeq, LenProperties DEF FreeList
<1>2. k \in Int /\ 1 <= k /\ k <= Len(l)
  BY <1>1
<1>3. f \in Seq(Slots) /\ Len(f) = k - 1 /\ \A i \in 1..(k - 1) : f[i] = l[i]
  BY <1>1, <1>2
<1>4. \A i \in 1..Len(f) : i \in 1..Len(l) /\ i # k /\ f[i] = l[i]
  BY <1>1, <1>2, <1>3
<1>. HIDE DEF f
<1>5. \A i \in 1..Len(f) : f[i] \in Slots /\ f[i] # l[k]
  BY <1>1, <1>4
<1>6. \A i \in 1..Len(f) : /\ f[i] \notin h \cup {l[k]}
                           /\ [st EXCEPT ![l[k]] = "active"][f[i]] # "active"
  BY <1>1, <1>4, <1>5
<1>7. \A i, j \in 1..Len(f) : i # j => f[i] # f[j]
  BY <1>1, <1>4
<1>8. Len(f) <= MaxClients
  BY <1>1, <1>2, <1>3
<1>9. Range1(f) = Range1(l) \ ({l[i] : i \in (k + 1)..Len(l)} \cup {l[k]})
  <2>1. ASSUME NEW x \in Range1(f)
        PROVE  x \in Range1(l) \ ({l[i] : i \in (k + 1)..Len(l)} \cup {l[k]})
    <3>1. PICK i \in 1..Len(f) : x = f[i]
      BY DEF Range1
    <3>2. i \in 1..Len(l) /\ x = l[i] /\ i < k
      BY <3>1, <1>2, <1>3, <1>4
    <3>3. \A j \in (k + 1)..Len(l) : j \in 1..Len(l) /\ j # i
      BY <3>2, <1>1, <1>2
    <3>. QED
      BY <3>2, <3>3, <1>1, <1>2 DEF Range1
  <2>2. ASSUME NEW x \in Range1(l), x \notin {l[i] : i \in (k + 1)..Len(l)} \cup {l[k]}
        PROVE  x \in Range1(f)
    <3>1. PICK i \in 1..Len(l) : x = l[i]
      BY DEF Range1
    <3>2. i # k /\ i \notin (k + 1)..Len(l)
      BY <3>1, <2>2
    <3>3. i \in 1..(k - 1)
      BY <3>1, <3>2, <1>1, <1>2
    <3>. QED
      BY <3>1, <3>3, <1>3 DEF Range1
  <2>. QED
    BY <2>1, <2>2
<1>. QED
  BY <1>3, <1>6, <1>7, <1>8, <1>9 DEF FreeList, f

\* A list without an owned slot has room: it cannot hold all slots.
LEMMA HasRoom ==
  ASSUME NEW l, NEW h, NEW st, FreeList(l, h, st), NEW s \in h, h \subseteq Slots
  PROVE  Len(l) < MaxClients
<1>1. MaxClients \in Nat /\ 0 \in Int /\ MaxClients - 1 \in Int /\ 1 \in Int
  BY PoolAssumption
<1>2. /\ l \in Seq(Slots) /\ Len(l) \in Nat /\ Len(l) <= MaxClients
      /\ \A i \in 1..Len(l) : l[i] \in Slots \ {s}
      /\ \A i, j \in 1..Len(l) : i # j => l[i] # l[j]
  BY ElementOfSeq, LenProperties DEF FreeList
<1>3. IsFiniteSet(Slots) /\ Cardinality(Slots) = MaxClients
  <2>1. IsFiniteSet(0..(MaxClients - 1))
    BY <1>1, FS_Interval, ZenonT(30)
  <2>2. Cardinality(0..(MaxClients - 1)) =
          IF 0 > MaxClients - 1 THEN 0 ELSE (MaxClients - 1) - 0 + 1
    BY <1>1, FS_Interval, ZenonT(30)
  <2>. QED
    BY <2>1, <2>2, <1>1, PoolAssumption DEF Slots
<1>4. IsFiniteSet(Slots \ {s}) /\ Cardinality(Slots \ {s}) = MaxClients - 1
  BY <1>3, FS_RemoveElement
<1>. DEFINE f == [i \in 1..Len(l) |-> l[i]]
<1>5. f \in Injection(1..Len(l), Slots \ {s})
  BY <1>2 DEF Injection, IsInjective
<1>6. Cardinality(1..Len(l)) <= Cardinality(Slots \ {s})
  BY <1>4, <1>5, FS_Injection
<1>7. Cardinality(1..Len(l)) = Len(l)
  <2>1. Len(l) \in Int
    BY <1>2
  <2>2. Cardinality(1..Len(l)) = IF 1 > Len(l) THEN 0 ELSE Len(l) - 1 + 1
    BY <1>1, <2>1, FS_Interval, ZenonT(30)
  <2>. QED
    BY <2>2, <1>2
<1>. QED
  BY <1>1, <1>2, <1>4, <1>6, <1>7

\* The slot of a closed connection is put at the end.
LEMMA BackFree ==
  ASSUME NEW l, NEW h, NEW st \in [Slots -> {"free", "active", "broken"}],
         FreeList(l, h, st), h \subseteq Slots, NEW s \in h
  PROVE  /\ FreeList(Append(l, s), h \ {s}, [st EXCEPT ![s] = "free"])
         /\ Range1(Append(l, s)) = Range1(l) \cup {s}
         /\ ~\E i \in 1..Len(l) : l[i] = s
<1>. DEFINE f == Append(l, s)
            n == Len(l)
<1>1. /\ l \in Seq(Slots) /\ n \in Nat /\ MaxClients \in Nat /\ n < MaxClients
      /\ \A i \in 1..n : l[i] \in Slots /\ l[i] \notin h /\ st[l[i]] # "active"
      /\ \A i, j \in 1..n : i # j => l[i] # l[j]
  BY PoolAssumption, HasRoom, ElementOfSeq, LenProperties DEF FreeList
<1>2. f \in Seq(Slots) /\ Len(f) = n + 1 /\ f[n + 1] = s /\ \A i \in 1..n : f[i] = l[i]
  BY <1>1, AppendProperties
<1>3. \A i \in 1..n : l[i] # s
  BY <1>1
<1>4. \A i \in 1..(n + 1) : i \in 1..n \/ i = n + 1
  BY <1>1
<1>. HIDE DEF f, n
<1>5. \A i \in 1..(n + 1) : f[i] \notin h \ {s} /\ [st EXCEPT ![s] = "free"][f[i]] # "active"
  BY <1>1, <1>2, <1>3, <1>4
<1>6. \A i, j \in 1..(n + 1) : i # j => f[i] # f[j]
  BY <1>1, <1>2, <1>3, <1>4
<1>7. Len(f) <= MaxClients
  BY <1>1, <1>2
<1>8. Range1(f) = Range1(l) \cup {s}
  <2>1. n + 1 \in 1..(n + 1) /\ \A i \in 1..n : i \in 1..(n + 1)
    BY <1>1
  <2>2. Range1(f) = {f[i] : i \in 1..(n + 1)} /\ Range1(l) = {l[i] : i \in 1..n}
    BY <1>2 DEF Range1, n
  <2>. QED
    BY <2>1, <2>2, <1>2, <1>4
<1>. QED
  BY <1>2, <1>3, <1>5, <1>6, <1>7, <1>8 DEF FreeList, f, n

-----------------------------------------------------------------------------
(* The operations *)

SlotPoolStep == [Pool!Next]_(Pool!vars)

\* A step that SlotPool does not see.
LEMMA Unseen ==
  ASSUME Free' = Free, held' = held, Broken' = Broken, PoolUp' <=> PoolUp
  PROVE  SlotPoolStep
<1>1. PoolUp' = PoolUp
  BY DEF PoolUp
<1>. QED
  BY <1>1 DEF SlotPoolStep, Pool!vars, Free

\* llps_session_tmr_scrub_all
LEMMA ScrubStep ==
  ASSUME PoolInv, Scrub
  PROVE  PoolInv' /\ SlotPoolStep
<1>1. /\ ListNext(L) /\ Carries(cfgBank', Cfg)
      /\ Sound(cfgBank') <=> Sound(cfgBank)
      /\ TwoBad(cfgBank') => TwoBad(cfgBank)
  BY ListReconciled, CfgReconciled DEF Scrub, PoolInv
<1>2. /\ held' = held /\ closing' = closing
      /\ faults' = faults /\ dual' = dual /\ cfgHit' = cfgHit /\ slotHit' = slotHit
  BY DEF Scrub, faultVars
<1>3. slot' \in [Slots -> {"free", "active", "broken"}]
  BY DEF Scrub, PoolInv, SlotTypes
<1>4. SlotTypes' /\ FaultTypes'
  <2>1. phase' \in Phases
    BY DEF Scrub, Phases
  <2>2. SlotTypes'
    BY <2>1, <1>2, <1>3 DEF PoolInv, SlotTypes
  <2>. QED
    BY <2>2, <1>2 DEF PoolInv, FaultTypes
<1>5. FreeList(L, held', slot')
  <2>1. \A i \in 1..Len(L) : L[i] \in Slots
    BY ElementOfSeq DEF PoolInv, FreeList
  <2>2. \A i \in 1..Len(L) : slot'[L[i]] # "active"
    BY <2>1 DEF Scrub, PoolInv, FreeList, SlotTypes
  <2>. QED
    BY <2>2, <1>2 DEF PoolInv, FreeList
<1>6. PoolInv' /\ (PoolUp' <=> PoolUp) /\ Free' = Free
  BY <1>1, <1>2, <1>4, <1>5, StepSeen, SeenNow
<1>7. CASE PoolUp
  <2>1. Broken' = {}
    BY <1>7 DEF Scrub, Broken
  <2>2. PoolUp' = PoolUp
    BY <1>6 DEF PoolUp
  <2>3. Pool!Heal
    BY <2>1, <2>2, <1>2, <1>6 DEF Pool!Heal, Free
  <2>. QED
    BY <2>3, <1>6 DEF SlotPoolStep, Pool!Next
<1>8. CASE ~PoolUp
  <2>1. Broken' = Broken
    BY <1>8 DEF Scrub, Broken
  <2>. QED
    BY <2>1, <1>2, <1>6, Unseen
<1>. QED
  BY <1>7, <1>8

\* Operations that change neither sessions nor the content of the list: the
\* self test, a search that fails, the first half of llps_close_session.
LEMMA ReconcileStep ==
  ASSUME PoolInv, ListNext(L),
         ReconcileCfg \/ cfgBank' = cfgBank,
         slot' = slot, held' = held, closing' \subseteq held, phase' \in Phases,
         UNCHANGED faultVars
  PROVE  PoolInv' /\ SlotPoolStep
<1>1. /\ Carries(cfgBank', Cfg)
      /\ Sound(cfgBank') <=> Sound(cfgBank)
      /\ TwoBad(cfgBank') => TwoBad(cfgBank)
  BY CfgReconciled DEF PoolInv
<1>2. dual' = dual /\ SlotTypes' /\ FaultTypes' /\ FreeList(L, held', slot')
  BY DEF PoolInv, SlotTypes, FaultTypes, faultVars
<1>3. PoolInv' /\ (PoolUp' <=> PoolUp) /\ Free' = Free
  BY <1>1, <1>2, StepSeen, SeenNow
<1>4. Broken' = Broken
  BY DEF Broken
<1>. QED
  BY <1>3, <1>4, Unseen

LEMMA SelfTestStep ==
  ASSUME PoolInv, SelfTest
  PROVE  PoolInv' /\ SlotPoolStep
<1>1. /\ listBank' = listBank /\ cfgBank' = cfgBank /\ slot' = slot /\ held' = held
      /\ closing' = closing /\ UNCHANGED faultVars /\ phase' \in Phases
  BY DEF SelfTest, cfgVars, listVars, slotVars, Phases
<1>2. ListNext(L)
  BY <1>1, ListUnchanged DEF PoolInv
<1>3. closing' \subseteq held
  BY <1>1 DEF PoolInv, SlotTypes
<1>. QED
  BY <1>1, <1>2, <1>3, ReconcileStep

LEMMA FindFreeFailsStep ==
  ASSUME PoolInv, FindFreeFails
  PROVE  PoolInv' /\ SlotPoolStep
<1>1. /\ listBank' = listBank /\ ReconcileCfg /\ slot' = slot /\ held' = held
      /\ closing' = closing /\ UNCHANGED faultVars /\ phase' = phase
  BY DEF FindFreeFails, listVars, slotVars
<1>2. ListNext(L)
  BY <1>1, ListUnchanged DEF PoolInv
<1>3. closing' \subseteq held /\ phase' \in Phases
  BY <1>1 DEF PoolInv, SlotTypes
<1>. QED
  BY <1>1, <1>2, <1>3, ReconcileStep

LEMMA CloseBeginStep ==
  ASSUME PoolInv, NEW s \in held, CloseBegin(s)
  PROVE  PoolInv' /\ SlotPoolStep
<1>1. /\ listBank' = listBank /\ ReconcileCfg /\ slot' = slot /\ held' = held
      /\ closing' = closing \cup {s} /\ UNCHANGED faultVars /\ phase' = phase
  BY DEF CloseBegin, listVars
<1>2. ListNext(L)
  BY <1>1, ListUnchanged DEF PoolInv
<1>3. closing' \subseteq held /\ phase' \in Phases
  BY <1>1 DEF PoolInv, SlotTypes
<1>. QED
  BY <1>1, <1>2, <1>3, ReconcileStep

\* llps_find_free_session hands out the last slot with a good free record and
\* drops the broken ones behind it.
LEMMA FindFreeStep ==
  ASSUME PoolInv, FindFree
  PROVE  PoolInv' /\ SlotPoolStep
<1>. DEFINE k == LastOf(FreeAt(L))
            s == L[k]
            f == SubSeq(L, 1, k - 1)
            dropped == {L[i] : i \in (k + 1)..Len(L)}
<1>1. /\ PoolUp /\ VotedMax = MaxClients /\ VotedList = L
      /\ Sound(listBank) /\ FreeList(L, held, slot) /\ L \in Seq(Slots) /\ Len(L) \in Nat
      /\ slot \in [Slots -> {"free", "active", "broken"}] /\ MaxClients \in Nat
  BY VotedNow, PoolAssumption, LenProperties DEF FindFree, PoolInv, FreeList, SlotTypes
<1>2. /\ FreeAt(L) # {} /\ ReconcileCfg /\ StoreList(f)
      /\ held' = held \cup {s} /\ slot' = [slot EXCEPT ![s] = "active"]
      /\ phase' = phase /\ closing' = closing /\ UNCHANGED faultVars
  BY <1>1 DEF FindFree
<1>3. k \in FreeAt(L) /\ \A j \in FreeAt(L) : j <= k
  <2>1. FreeAt(L) \subseteq 1..Len(L)
    BY DEF FreeAt
  <2>. QED
    BY <2>1, <1>1, <1>2, LastIn
<1>4. k \in 1..Len(L) /\ slot[s] = "free"
  BY <1>3 DEF FreeAt
<1>5. \A i \in 1..Len(L) : L[i] \in Slots /\ slot[L[i]] # "active" /\ L[i] \notin held
  BY <1>1, ElementOfSeq DEF FreeList
<1>. HIDE DEF k
<1>6. /\ FreeList(f, held', slot')
      /\ Range1(f) = Range1(L) \ (dropped \cup {s})
  BY <1>1, <1>2, <1>4, FrontFree
<1>. HIDE DEF f
<1>7. ListNext(f)
  BY <1>1, <1>2, ListStored
<1>8. /\ Carries(cfgBank', Cfg)
      /\ Sound(cfgBank') <=> Sound(cfgBank)
      /\ TwoBad(cfgBank') => TwoBad(cfgBank)
  BY <1>2, CfgReconciled DEF PoolInv
<1>9. dual' = dual /\ SlotTypes' /\ FaultTypes'
  BY <1>2, <1>4, <1>5 DEF PoolInv, SlotTypes, FaultTypes, faultVars
<1>10. PoolInv' /\ (PoolUp' <=> PoolUp) /\ Free' = Range1(f)
  BY <1>1, <1>6, <1>7, <1>8, <1>9, StepSeen
<1>11. Free = Range1(L)
  BY <1>1, SeenNow
<1>12. Broken' = Broken
  <2>1. s \in Slots
    BY <1>4, <1>5
  <2>2. \A x \in Slots : slot'[x] = "broken" <=> slot[x] = "broken"
    BY <2>1, <1>1, <1>2, <1>4
  <2>. QED
    BY <2>2 DEF Broken
<1>13. s \in Free \ Broken
  BY <1>4, <1>11 DEF Range1, Broken
<1>14. dropped \subseteq Free \cap Broken
  <2>. SUFFICES ASSUME NEW i \in (k + 1)..Len(L)
                PROVE  L[i] \in Free \cap Broken
    OBVIOUS
  <2>1. i \in 1..Len(L) /\ ~(i <= k)
    BY <1>1, <1>4
  <2>2. i \notin FreeAt(L)
    BY <2>1, <1>3
  <2>3. L[i] < MaxClients
    BY <2>1, <1>5, <1>1 DEF Slots
  <2>4. slot[L[i]] # "free"
    BY <2>1, <2>2, <2>3, <1>1 DEF FreeAt
  <2>5. slot[L[i]] = "broken"
    BY <2>1, <2>4, <1>1, <1>5
  <2>. QED
    BY <2>1, <2>5, <1>5, <1>11 DEF Range1, Broken
<1>15. Pool!Acquire(s, dropped)
  <2>1. PoolUp' = PoolUp
    BY <1>10 DEF PoolUp
  <2>2. Free' = Free \ (dropped \cup {s})
    BY <1>6, <1>10, <1>11
  <2>. HIDE DEF s, dropped
  <2>. QED
    BY <2>1, <2>2, <1>1, <1>2, <1>12, <1>13, <1>14 DEF Pool!Acquire, Free
<1>16. s \in Free /\ dropped \in SUBSET Free
  BY <1>13, <1>14
<1>. HIDE DEF s, dropped
<1>17. Pool!Next
  BY <1>15, <1>16 DEF Pool!Next, Free
<1>. QED
  BY <1>10, <1>17 DEF SlotPoolStep

\* A search that meets broken slots only empties the list.
LEMMA FindFreeEmptyStep ==
  ASSUME PoolInv, FindFreeEmpty
  PROVE  PoolInv' /\ SlotPoolStep
<1>1. /\ PoolUp /\ VotedMax = MaxClients /\ VotedList = L
      /\ Sound(listBank) /\ FreeList(L, held, slot)
      /\ slot \in [Slots -> {"free", "active", "broken"}] /\ MaxClients \in Nat
  BY VotedNow, PoolAssumption DEF FindFreeEmpty, PoolInv, SlotTypes
<1>2. /\ FreeAt(L) = {} /\ ReconcileCfg
      /\ IF L = <<>> THEN ReconcileList ELSE StoreList(<<>>)
      /\ held' = held /\ slot' = slot /\ phase' = phase /\ closing' = closing
      /\ UNCHANGED faultVars
  BY <1>1 DEF FindFreeEmpty, slotVars
<1>3. ListNext(<<>>)
  BY <1>1, <1>2, ListReconciled, ListStored
<1>4. /\ Carries(cfgBank', Cfg)
      /\ Sound(cfgBank') <=> Sound(cfgBank)
      /\ TwoBad(cfgBank') => TwoBad(cfgBank)
  BY <1>2, CfgReconciled DEF PoolInv
<1>5. dual' = dual /\ SlotTypes' /\ FaultTypes'
  BY <1>2 DEF PoolInv, SlotTypes, FaultTypes, faultVars
<1>6. FreeList(<<>>, held', slot') /\ Range1(<<>>) = {}
  <2>1. <<>> \in Seq(Slots) /\ Len(<<>>) = 0
    OBVIOUS
  <2>2. 1..Len(<<>>) = {}
    BY <2>1
  <2>. QED
    BY <2>1, <2>2, <1>1 DEF FreeList, Range1
<1>7. PoolInv' /\ (PoolUp' <=> PoolUp) /\ Free' = {}
  BY <1>1, <1>3, <1>4, <1>5, <1>6, StepSeen
<1>8. Free \subseteq Broken
  <2>1. Free = Range1(L)
    BY <1>1, SeenNow
  <2>. SUFFICES ASSUME NEW i \in 1..Len(L)
                PROVE  L[i] \in Broken
    BY <2>1 DEF Range1
  <2>2. L[i] \in Slots /\ slot[L[i]] # "active"
    BY <1>1, ElementOfSeq DEF FreeList
  <2>3. L[i] < MaxClients
    BY <2>2, <1>1 DEF Slots
  <2>4. slot[L[i]] # "free"
    BY <2>3, <1>1, <1>2 DEF FreeAt
  <2>. QED
    BY <2>2, <2>4, <1>1 DEF Broken
<1>9. Pool!Exhaust
  <2>1. PoolUp' = PoolUp
    BY <1>7 DEF PoolUp
  <2>2. Broken' = Broken
    BY <1>2 DEF Broken
  <2>. QED
    BY <2>1, <2>2, <1>1, <1>2, <1>7, <1>8 DEF Pool!Exhaust, Free
<1>. QED
  BY <1>7, <1>9 DEF SlotPoolStep, Pool!Next

\* The second half of llps_close_session.  A slot that the range test refuses
\* is abandoned; any other one is released.
LEMMA CloseEndStep ==
  ASSUME PoolInv, NEW s \in held, CloseEnd(s)
  PROVE  /\ PoolInv' /\ SlotPoolStep
         /\ ~(s >= cfg.max_clients) => Pool!Release(s)
<1>1. /\ held' = held \ {s} /\ closing' = closing \ {s} /\ phase' = phase
      /\ faults' = faults /\ dual' = dual /\ cfgHit' = cfgHit /\ slotHit' = slotHit
  BY DEF CloseEnd, faultVars
<1>2. /\ FreeList(L, held, slot) /\ held \subseteq Slots /\ s \in Slots
      /\ slot \in [Slots -> {"free", "active", "broken"}] /\ MaxClients \in Nat
      /\ Carries(cfgBank, Cfg) /\ Carries(listBank, L) /\ FaultTypes'
  BY <1>1, PoolAssumption DEF PoolInv, SlotTypes, FaultTypes
<1>3. CASE s >= cfg.max_clients
  <2>1. cfgBank' = cfgBank /\ listBank' = listBank /\ slot' = slot
    BY <1>3 DEF CloseEnd, cfgVars, listVars
  <2>2. SlotTypes' /\ FreeList(L, held', slot')
    BY <2>1, <1>1 DEF PoolInv, SlotTypes, FreeList
  <2>3. ListNext(L)
    BY <2>1, <1>2, ListUnchanged
  <2>4. PoolInv' /\ (PoolUp' <=> PoolUp) /\ Free' = Free
    BY <2>1, <2>2, <2>3, <1>1, <1>2, StepSeen, SeenNow
  <2>5. PoolUp' = PoolUp /\ Broken' = Broken
    BY <2>1, <2>4 DEF PoolUp, Broken
  <2>6. Pool!Abandon(s)
    BY <2>4, <2>5, <1>1 DEF Pool!Abandon, Free
  <2>. QED
    BY <2>4, <2>6, <1>3 DEF SlotPoolStep, Pool!Next
<1>4. CASE ~(s >= cfg.max_clients)
  <2>1. ReconcileCfg /\ slot' = [slot EXCEPT ![s] = "free"] /\ ReturnSession(s)
    BY <1>4 DEF CloseEnd
  <2>2. /\ Carries(cfgBank', Cfg)
        /\ Sound(cfgBank') <=> Sound(cfgBank)
        /\ TwoBad(cfgBank') => TwoBad(cfgBank)
    BY <2>1, <1>2, CfgReconciled
  <2>3. SlotTypes'
    BY <2>1, <1>1, <1>2 DEF PoolInv, SlotTypes
  <2>4. Broken' = Broken \ {s}
    BY <2>1, <1>2 DEF Broken
  <2>5. CASE PoolUp
    <3>1. VotedMax = MaxClients /\ VotedList = L /\ Sound(listBank)
      BY <2>5, VotedNow
    <3>2. /\ FreeList(Append(L, s), held', slot')
          /\ Range1(Append(L, s)) = Range1(L) \cup {s}
          /\ ~\E i \in 1..Len(L) : L[i] = s
      BY <2>1, <1>1, <1>2, BackFree
    <3>3. Len(L) < MaxClients
      BY <1>2, HasRoom
    <3>4. ~(Len(L) >= MaxClients) /\ ~(s >= MaxClients)
      <4>1. Len(L) \in Nat
        BY <1>2, LenProperties DEF FreeList
      <4>. QED
        BY <4>1, <3>3, <1>2 DEF Slots
    <3>5. StoreList(Append(L, s))
      BY <2>1, <2>5, <3>1, <3>2, <3>4 DEF ReturnSession, Returned
    <3>6. ListNext(Append(L, s))
      BY <3>1, <3>5, ListStored
    <3>7. PoolInv' /\ (PoolUp' <=> PoolUp) /\ Free' = Range1(L) \cup {s}
      BY <2>2, <2>3, <2>5, <3>2, <3>6, <1>1, <1>2, StepSeen
    <3>8. Free' = Free \cup {s} /\ PoolUp' = PoolUp
      BY <2>5, <3>7, SeenNow DEF PoolUp
    <3>9. Pool!Release(s)
      BY <2>4, <2>5, <3>8, <1>1 DEF Pool!Release, Free
    <3>. QED
      BY <3>7, <3>9 DEF SlotPoolStep, Pool!Next
  <2>6. CASE ~PoolUp
    <3>1. listBank' = listBank
      BY <2>1, <2>6 DEF ReturnSession, listVars
    <3>2. ListNext(L)
      BY <3>1, <1>2, ListUnchanged
    <3>3. FreeList(L, held', slot')
      <4>1. \A i \in 1..Len(L) : L[i] \in Slots
        BY <1>2, ElementOfSeq DEF FreeList
      <4>2. \A i \in 1..Len(L) : L[i] \notin held' /\ slot'[L[i]] # "active"
        BY <4>1, <2>1, <1>1, <1>2 DEF FreeList
      <4>. QED
        BY <4>2, <1>2 DEF FreeList
    <3>4. PoolInv' /\ (PoolUp' <=> PoolUp) /\ Free' = Free
      BY <2>2, <2>3, <3>2, <3>3, <1>1, <1>2, StepSeen, SeenNow
    <3>5. PoolUp' = PoolUp
      BY <3>4 DEF PoolUp
    <3>6. Pool!Release(s)
      BY <2>4, <2>6, <3>4, <3>5, <1>1 DEF Pool!Release, Free
    <3>. QED
      BY <3>4, <3>6 DEF SlotPoolStep, Pool!Next
  <2>. QED
    BY <2>5, <2>6
<1>. QED
  BY <1>3, <1>4

-----------------------------------------------------------------------------
(* Memory faults *)

\* A fault in bank b breaks a seal, changes no value and can make a sound
\* record unsound, never the reverse.
LEMMA Corruption ==
  ASSUME NEW v, NEW bank, Carries(bank, v), NEW b \in BankIds
  PROVE  LET hurt == Corrupted(bank, {b})
         IN  /\ Carries(hurt, v) /\ hurt[0].val = v
             /\ Sound(hurt) => Sound(bank)
             /\ TwoBad(hurt) => TwoBad(bank) \/ AnotherBad(bank, b)
<1>. DEFINE hurt == Corrupted(bank, {b})
<1>1. /\ \A c \in BankIds : bank[c] \in [ok : BOOLEAN, val : {v}]
      /\ hurt = [c \in BankIds |-> IF c = b THEN [bank[c] EXCEPT !.ok = FALSE] ELSE bank[c]]
  BY DEF Carries, Corrupted
<1>2. /\ \A c \in BankIds : hurt[c] \in [ok : BOOLEAN, val : {v}]
      /\ \A c \in BankIds : hurt[c].ok = (c # b /\ bank[c].ok)
  BY <1>1
<1>3. Carries(hurt, v) /\ hurt[0].val = v
  BY <1>1, <1>2 DEF Carries, BankIds
<1>. HIDE DEF hurt
<1>4. Sound(hurt) => Sound(bank)
  BY <1>2 DEF Sound
<1>5. TwoBad(hurt) => TwoBad(bank) \/ AnotherBad(bank, b)
  BY <1>2 DEF TwoBad, AnotherBad
<1>. QED
  BY <1>3, <1>4, <1>5 DEF hurt

\* What a fault in some bank leaves, from the banks alone.
LEMMA BankFaultStep ==
  ASSUME PoolInv, Carries(cfgBank', Cfg), Carries(listBank', L), L' = L,
         Sound(cfgBank') => Sound(cfgBank), Sound(listBank') => Sound(listBank),
         TwoBad(cfgBank') \/ TwoBad(listBank') => dual', FaultTypes',
         slot' = slot, held' = held, closing' = closing, phase' = phase,
         slotHit' = slotHit
  PROVE  PoolInv' /\ SlotPoolStep
<1>1. FreeList(L, held', slot') /\ SlotTypes'
  BY DEF PoolInv, SlotTypes
<1>2. PoolInv'
  BY <1>1 DEF PoolInv
<1>3. /\ PoolUp' <=> (Sound(cfgBank') /\ Sound(listBank'))
      /\ PoolUp' => VotedList' = L
  BY <1>1, PoolVote DEF PoolUp, VotedMax, VotedList, FreeList
<1>4. Broken' = Broken
  BY DEF Broken
<1>5. CASE PoolUp'
  <2>1. PoolUp /\ Free' = Range1(L) /\ Free = Range1(L)
    BY <1>3, <1>5, VotedNow DEF Free
  <2>. QED
    BY <2>1, <1>2, <1>4, <1>5, Unseen
<1>6. CASE ~PoolUp'
  <2>1. PoolUp' = FALSE /\ Free' = {}
    BY <1>6 DEF Free, PoolUp
  <2>2. Pool!Lose
    BY <2>1, <1>4 DEF Pool!Lose, Free
  <2>. QED
    BY <2>2, <1>2 DEF SlotPoolStep, Pool!Next
<1>. QED
  BY <1>5, <1>6

LEMMA CfgBankFaultStep ==
  ASSUME PoolInv, NEW b \in BankIds, CfgBankFault(b)
  PROVE  PoolInv' /\ SlotPoolStep
<1>1. /\ cfgBank' = Corrupted(cfgBank, {b}) /\ dual' = (dual \/ AnotherBad(cfgBank, b))
      /\ listBank' = listBank /\ slot' = slot /\ held' = held /\ closing' = closing
      /\ phase' = phase /\ slotHit' = slotHit /\ cfgHit' = cfgHit
      /\ faults < FaultMax /\ faults' = faults + 1
  BY DEF CfgBankFault, Strike, listVars, slotVars
<1>2. FaultTypes'
  BY <1>1, PoolAssumption DEF PoolInv, FaultTypes
<1>3. Carries(listBank', L) /\ L' = L
  BY <1>1 DEF PoolInv, L
<1>4. /\ Carries(cfgBank', Cfg) /\ (Sound(cfgBank') => Sound(cfgBank))
      /\ TwoBad(cfgBank') => TwoBad(cfgBank) \/ AnotherBad(cfgBank, b)
  BY <1>1, Corruption DEF PoolInv
<1>5. TwoBad(cfgBank') \/ TwoBad(listBank') => dual'
  BY <1>1, <1>4 DEF PoolInv
<1>. QED
  BY <1>1, <1>2, <1>3, <1>4, <1>5, BankFaultStep

LEMMA ListBankFaultStep ==
  ASSUME PoolInv, NEW b \in BankIds, ListBankFault(b)
  PROVE  PoolInv' /\ SlotPoolStep
<1>1. /\ listBank' = Corrupted(listBank, {b}) /\ dual' = (dual \/ AnotherBad(listBank, b))
      /\ cfgBank' = cfgBank /\ slot' = slot /\ held' = held /\ closing' = closing
      /\ phase' = phase /\ slotHit' = slotHit /\ cfgHit' = cfgHit
      /\ faults < FaultMax /\ faults' = faults + 1
  BY DEF ListBankFault, Strike, cfgVars, slotVars
<1>2. FaultTypes'
  BY <1>1, PoolAssumption DEF PoolInv, FaultTypes
<1>3. /\ Carries(listBank', L) /\ listBank'[0].val = L
      /\ Sound(listBank') => Sound(listBank)
      /\ TwoBad(listBank') => TwoBad(listBank) \/ AnotherBad(listBank, b)
  BY <1>1, Corruption DEF PoolInv
<1>4. L' = L
  BY <1>3 DEF L
<1>5. TwoBad(cfgBank') \/ TwoBad(listBank') => dual'
  BY <1>1, <1>3 DEF PoolInv
<1>6. Carries(cfgBank', Cfg)
  BY <1>1 DEF PoolInv
<1>. QED
  BY <1>1, <1>2, <1>3, <1>4, <1>5, <1>6, BankFaultStep

\* A fault in a canonical copy is not seen: every operation votes first.
LEMMA CanonicalFaultStep ==
  ASSUME PoolInv, CfgFault \/ ListFault
  PROVE  PoolInv' /\ SlotPoolStep
<1>1. /\ listBank' = listBank /\ cfgBank' = cfgBank /\ slot' = slot /\ held' = held
      /\ closing' = closing /\ phase' = phase /\ slotHit' = slotHit /\ dual' = dual
      /\ cfgHit' \in BOOLEAN /\ faults < FaultMax /\ faults' = faults + 1
  BY DEF CfgFault, ListFault, Strike, listVars, cfgVars, slotVars, PoolInv, FaultTypes
<1>2. FaultTypes'
  BY <1>1, PoolAssumption DEF PoolInv, FaultTypes
<1>3. L' = L /\ Carries(listBank', L) /\ Carries(cfgBank', Cfg)
  BY <1>1 DEF PoolInv, L
<1>4. TwoBad(cfgBank') \/ TwoBad(listBank') => dual'
  BY <1>1 DEF PoolInv
<1>. QED
  BY <1>1, <1>2, <1>3, <1>4, BankFaultStep

LEMMA SlotBreaksStep ==
  ASSUME PoolInv, NEW s \in Slots, SlotBreaks(s)
  PROVE  PoolInv' /\ SlotPoolStep
<1>1. /\ listBank' = listBank /\ cfgBank' = cfgBank /\ held' = held /\ closing' = closing
      /\ phase' = phase /\ dual' = dual /\ cfgHit' = cfgHit
      /\ slot' = [slot EXCEPT ![s] = "broken"] /\ slotHit' = slotHit \cup {s}
      /\ faults < FaultMax /\ faults' = faults + 1
  BY DEF SlotBreaks, Strike, listVars, cfgVars
<1>2. FaultTypes' /\ SlotTypes'
  BY <1>1, PoolAssumption DEF PoolInv, FaultTypes, SlotTypes
<1>3. FreeList(L, held', slot')
  <2>1. \A i \in 1..Len(L) : L[i] \in Slots
    BY ElementOfSeq DEF PoolInv, FreeList
  <2>2. \A i \in 1..Len(L) : slot'[L[i]] # "active"
    BY <2>1, <1>1 DEF PoolInv, FreeList, SlotTypes
  <2>. QED
    BY <2>2, <1>1 DEF PoolInv, FreeList
<1>4. ListNext(L) /\ Carries(cfgBank', Cfg)
  BY <1>1, ListUnchanged DEF PoolInv
<1>5. PoolInv' /\ (PoolUp' <=> PoolUp) /\ Free' = Free
  BY <1>1, <1>2, <1>3, <1>4, StepSeen, SeenNow
<1>6. PoolUp' = PoolUp
  BY <1>5 DEF PoolUp
<1>7. Broken' = Broken \cup {s}
  BY <1>1 DEF PoolInv, SlotTypes, Broken
<1>8. Pool!Break(s)
  BY <1>1, <1>5, <1>6, <1>7 DEF Pool!Break, Free
<1>. QED
  BY <1>5, <1>8 DEF SlotPoolStep, Pool!Next

-----------------------------------------------------------------------------
(* The theorems *)

LEMMA InitStep ==
  ASSUME Init
  PROVE  PoolInv /\ Pool!Init
<1>. DEFINE all == [i \in 1..MaxClients |-> MaxClients - i]
<1>1. MaxClients \in Nat /\ FaultMax \in Nat
  BY PoolAssumption
<1>2. \A i \in 1..MaxClients : MaxClients - i \in Slots
  BY <1>1 DEF Slots
<1>3. all \in Seq(Slots) /\ Len(all) = MaxClients
  <2>1. all \in [1..MaxClients -> Slots]
    BY <1>2
  <2>2. all \in Seq(Slots)
    BY <2>1, <1>1, SeqDef
  <2>3. DOMAIN all = 1..MaxClients
    OBVIOUS
  <2>. QED
    BY <2>2, <2>3, <1>1, LenProperties
<1>4. Range1(all) = Slots
  <2>1. \A s \in Slots : MaxClients - s \in 1..MaxClients /\ MaxClients - (MaxClients - s) = s
    BY <1>1 DEF Slots
  <2>2. Range1(all) = {MaxClients - i : i \in 1..MaxClients}
    BY <1>3 DEF Range1
  <2>. QED
    BY <2>1, <2>2, <1>2
<1>5. /\ cfgBank = WriteAll(Cfg) /\ listBank = WriteAll(all)
      /\ slot = [s \in Slots |-> "free"] /\ held = {} /\ closing = {}
      /\ faults = 0 /\ dual = FALSE /\ cfgHit = FALSE /\ slotHit = {} /\ phase = "boot"
  BY DEF Init
<1>6. FreeList(all, held, slot)
  <2>1. \A i \in 1..Len(all) : all[i] \notin held /\ slot[all[i]] # "active"
    BY <1>2, <1>3, <1>5
  <2>2. \A i, j \in 1..Len(all) : i # j => all[i] # all[j]
    BY <1>1, <1>3
  <2>. QED
    BY <2>1, <2>2, <1>1, <1>3 DEF FreeList
<1>. HIDE DEF all
<1>7. L = all
  BY <1>5 DEF L, WriteAll, Seal, BankIds
<1>8. SlotTypes /\ FaultTypes
  <2>1. slot \in [Slots -> {"free", "active", "broken"}] /\ phase \in Phases
    BY <1>5 DEF Phases
  <2>2. held \subseteq Slots /\ closing \subseteq held /\ slotHit \subseteq Slots
    BY <1>5
  <2>3. faults \in 0..FaultMax
    BY <1>1, <1>5
  <2>4. dual \in BOOLEAN /\ cfgHit \in BOOLEAN
    BY <1>5
  <2>. QED
    BY <2>1, <2>2, <2>3, <2>4 DEF SlotTypes, FaultTypes
<1>9. PoolInv
  BY <1>5, <1>6, <1>7, <1>8, Written DEF PoolInv
<1>10. PoolUp = TRUE /\ Free = Slots
  <2>1. PoolUp
    BY <1>5, <1>9, Written, VotedNow
  <2>2. PoolUp = TRUE
    BY <2>1 DEF PoolUp
  <2>. QED
    BY <2>1, <2>2, <1>4, <1>7, <1>9, SeenNow
<1>11. Broken = {}
  BY <1>5 DEF Broken
<1>12. Pool!Init
  BY <1>5, <1>10, <1>11 DEF Pool!Init, Free
<1>. QED
  BY <1>9, <1>12

LEMMA NextStep ==
  ASSUME PoolInv, [Next]_vars
  PROVE  PoolInv' /\ SlotPoolStep
<1>1. CASE Operation
  BY <1>1, SelfTestStep, ScrubStep, FindFreeStep, FindFreeEmptyStep, FindFreeFailsStep,
     CloseBeginStep, CloseEndStep DEF Operation
<1>2. CASE Fault
  BY <1>2, CfgBankFaultStep, ListBankFaultStep, CanonicalFaultStep, SlotBreaksStep
     DEF Fault
<1>3. CASE UNCHANGED vars
  <2>1. /\ listBank' = listBank /\ cfgBank' = cfgBank /\ slot' = slot /\ held' = held
        /\ closing' = closing /\ phase' = phase /\ UNCHANGED faultVars
    BY <1>3 DEF vars, listVars, cfgVars, slotVars
  <2>2. ListNext(L) /\ closing' \subseteq held /\ phase' \in Phases
    BY <2>1, ListUnchanged DEF PoolInv, SlotTypes
  <2>. QED
    BY <2>1, <2>2, ReconcileStep
<1>. QED
  BY <1>1, <1>2, <1>3 DEF Next

LEMMA PoolInvariant == Spec => []PoolInv
<1>1. Init => PoolInv
  BY InitStep
<1>2. PoolInv /\ [Next]_vars => PoolInv'
  BY NextStep
<1>. QED
  BY <1>1, <1>2, PTL DEF Spec

\* Whatever faults strike, the free list that an intact bank holds is a list
\* of distinct slots of the pool none of which belongs to a connection: what
\* llps_find_free_session pops is never handed to two connections.
THEOREM PoolTypeCorrect == Spec => []TypeOK
<1>1. PoolInv => TypeOK
  <2>. SUFFICES ASSUME PoolInv PROVE TypeOK
    OBVIOUS
  <2>1. \A b \in BankIds : listBank[b].val = L
    BY DEF PoolInv, Carries
  <2>2. /\ Len(L) <= MaxClients
        /\ \A i \in 1..Len(L) : L[i] \in Slots \ held
        /\ \A i, j \in 1..Len(L) : i # j => L[i] # L[j]
    BY ElementOfSeq DEF PoolInv, FreeList
  <2>. QED
    BY <2>1, <2>2 DEF TypeOK, PoolInv, SlotTypes, FaultTypes
<1>. QED
  BY <1>1, PoolInvariant, PTL

\* Every operation of the pool votes and repairs before it uses a record, so
\* the votes of llps_runtime_cfg_reconcile and llps_free_list_vote fail only
\* after two banks of one record were bad at the same time.
THEOREM SingleFaultNeverLosesPool == Spec => []SingleFaultMasked
<1>1. PoolInv => SingleFaultMasked
  BY VotedNow, SoundOrTwoBad DEF PoolInv, SingleFaultMasked
<1>. QED
  BY <1>1, PoolInvariant, PTL

\* The pool on triplicated memory implements the perfect one: a pop of
\* llps_find_free_session is Acquire, llps_close_session is Release or, when
\* it refuses the slot, Abandon, and a fault is Lose, Break or not seen.
THEOREM PoolImplementsSlotPool == Spec => PoolRefined
<1>1. Init => Pool!Init
  BY InitStep
<1>2. PoolInv /\ [Next]_vars => [Pool!Next]_(Pool!vars)
  BY NextStep DEF SlotPoolStep
<1>. QED
  BY <1>1, <1>2, PoolInvariant, PTL DEF Spec, PoolRefined, Pool!Spec

-----------------------------------------------------------------------------
(* What a loss is due to *)

\* The list llps_init builds, and the two records as it leaves them.
AllSlots == [i \in 1..MaxClients |-> MaxClients - i]

Fresh ==
  /\ cfg = Cfg /\ cfgBank = WriteAll(Cfg)
  /\ list = AllSlots /\ listBank = WriteAll(AllSlots)

\* Every slot is accounted for; without a fault nothing has changed since
\* llps_init; the canonical configuration is wrong only if it was hit itself.
LossInv ==
  /\ Broken \subseteq slotHit
  /\ ~cfgHit => cfg = Cfg
  /\ PoolUp /\ ~cfgHit => Slots \subseteq held \cup Free \cup slotHit
  /\ faults = 0 => ~dual /\ slotHit = {}
  /\ phase = "boot" => held = {} /\ (faults = 0 => Fresh)
  /\ phase = "failed" => faults > 0 \/ MaxClients < 2

\* What a step of SlotPool does to the slots in play, unless it loses the pool.
LEMMA FreeAfter ==
  ASSUME SlotPoolStep, PoolUp'
  PROVE  PoolUp /\ Free \subseteq Free' \cup held' \cup Broken
<1>1. CASE UNCHANGED Pool!vars
  <2>1. Free' = Free /\ PoolUp' = PoolUp
    BY <1>1 DEF Pool!vars, Free
  <2>. QED
    BY <2>1
<1>2. ASSUME NEW s \in Free, NEW dropped \in SUBSET Free, Pool!Acquire(s, dropped)
      PROVE  PoolUp /\ Free \subseteq Free' \cup held' \cup Broken
  <2>1. /\ PoolUp /\ dropped \subseteq Broken /\ Free' = Free \ (dropped \cup {s})
        /\ held' = held \cup {s}
    BY <1>2 DEF Pool!Acquire, Free
  <2>. QED
    BY <2>1
<1>3. CASE Pool!Exhaust
  <2>1. PoolUp /\ Free \subseteq Broken
    BY <1>3 DEF Pool!Exhaust, Free
  <2>. QED
    BY <2>1
<1>4. ASSUME NEW s \in held, Pool!Release(s)
      PROVE  PoolUp /\ Free \subseteq Free'
  <2>1. PoolUp' = PoolUp /\ Free' = IF PoolUp THEN Free \cup {s} ELSE Free
    BY <1>4 DEF Pool!Release, Free
  <2>. QED
    BY <2>1
<1>5. ASSUME NEW s \in held, Pool!Abandon(s)
      PROVE  PoolUp /\ Free' = Free
  BY <1>5 DEF Pool!Abandon, Free
<1>6. CASE Pool!Lose
  <2>1. PoolUp' = FALSE
    BY <1>6 DEF Pool!Lose
  <2>. QED
    BY <2>1
<1>7. ASSUME NEW s \in Slots, Pool!Break(s)
      PROVE  PoolUp /\ Free' = Free
  BY <1>7 DEF Pool!Break, Free
<1>8. CASE Pool!Heal
  <2>1. PoolUp' = PoolUp /\ Free' = Free
    BY <1>8 DEF Pool!Heal, Free
  <2>. QED
    BY <2>1
<1>9. CASE Pool!Next
  <2>1. \/ \E s \in Free : \E dropped \in SUBSET Free : Pool!Acquire(s, dropped)
        \/ Pool!Exhaust
        \/ \E s \in held : Pool!Release(s) \/ Pool!Abandon(s)
        \/ Pool!Lose
        \/ \E s \in Slots : Pool!Break(s)
        \/ Pool!Heal
    BY <1>9 DEF Pool!Next, Free
  <2>. QED
    BY <2>1, <1>2, <1>3, <1>4, <1>5, <1>6, <1>7, <1>8
<1>. QED
  BY <1>1, <1>9 DEF SlotPoolStep

\* A vote on the configuration never brings a hit into the canonical copy.
LEMMA CfgStays ==
  ASSUME PoolInv, ReconcileCfg \/ UNCHANGED cfgVars, cfg = Cfg
  PROVE  cfg' = Cfg
BY CfgVote DEF ReconcileCfg, cfgVars, PoolInv

\* What the steps do to the histories and to the canonical configuration.
LEMMA HistoryStep ==
  ASSUME PoolInv, [Next]_vars
  PROVE  /\ (~cfgHit' => ~cfgHit) /\ slotHit \subseteq slotHit'
         /\ Broken' \subseteq Broken \cup slotHit'
         /\ (~cfgHit' /\ cfg = Cfg => cfg' = Cfg)
         /\ \/ faults' > 0
            \/ faults' = faults /\ dual' = dual /\ slotHit' = slotHit
<1>1. CASE Operation
  <2>1. /\ faults' = faults /\ dual' = dual /\ slotHit' = slotHit /\ cfgHit' = cfgHit
        /\ ReconcileCfg \/ UNCHANGED cfgVars
    BY <1>1 DEF Operation, SelfTest, Scrub, FindFree, FindFreeEmpty, FindFreeFails,
                CloseBegin, CloseEnd, faultVars
  <2>2. \A s \in Slots : slot'[s] = "broken" => slot[s] = "broken"
    <3>1. slot \in [Slots -> {"free", "active", "broken"}]
      BY DEF PoolInv, SlotTypes
    <3>2. CASE Scrub
      BY <3>1, <3>2 DEF Scrub
    <3>3. CASE FindFree
      <4>1. PICK s : slot' = [slot EXCEPT ![s] = "active"]
        BY <3>3 DEF FindFree
      <4>. QED
        BY <3>1, <4>1
    <3>4. CASE SelfTest \/ FindFreeEmpty \/ FindFreeFails \/ \E s \in held : CloseBegin(s)
      BY <3>4 DEF SelfTest, FindFreeEmpty, FindFreeFails, CloseBegin, slotVars
    <3>5. CASE \E s \in held : CloseEnd(s)
      <4>1. PICK s : slot' = slot \/ slot' = [slot EXCEPT ![s] = "free"]
        BY <3>5 DEF CloseEnd
      <4>. QED
        BY <3>1, <4>1
    <3>. QED
      BY <1>1, <3>2, <3>3, <3>4, <3>5 DEF Operation
  <2>3. cfg = Cfg => cfg' = Cfg
    BY <2>1, CfgStays
  <2>. QED
    BY <2>1, <2>2, <2>3 DEF Broken
<1>2. CASE Fault
  <2>1. faults' > 0
    <3>1. faults' = faults + 1
      BY <1>2 DEF Fault, CfgBankFault, ListBankFault, CfgFault, ListFault, SlotBreaks, Strike
    <3>2. faults \in Nat
      BY DEF PoolInv, FaultTypes
    <3>. QED
      BY <3>1, <3>2
  <2>2. CASE \E s \in Slots : SlotBreaks(s)
    <3>1. PICK s \in Slots : /\ slot' = [slot EXCEPT ![s] = "broken"]
                             /\ slotHit' = slotHit \cup {s} /\ cfg' = cfg /\ cfgHit' = cfgHit
      BY <2>2 DEF SlotBreaks, cfgVars
    <3>. QED
      BY <2>1, <3>1 DEF Broken, PoolInv, SlotTypes
  <2>3. CASE (\E b \in BankIds : CfgBankFault(b) \/ ListBankFault(b)) \/ ListFault \/ CfgFault
    <3>1. slot' = slot /\ slotHit' = slotHit
      BY <2>3 DEF CfgBankFault, ListBankFault, ListFault, CfgFault, slotVars
    <3>2. cfgHit' \/ (cfgHit' = cfgHit /\ cfg' = cfg)
      BY <2>3 DEF CfgBankFault, ListBankFault, ListFault, CfgFault, cfgVars
    <3>. QED
      BY <2>1, <3>1, <3>2 DEF Broken
  <2>. QED
    BY <1>2, <2>2, <2>3 DEF Fault
<1>3. CASE UNCHANGED vars
  BY <1>3 DEF vars, faultVars, slotVars, cfgVars, Broken
<1>. QED
  BY <1>1, <1>2, <1>3 DEF Next

\* A connection gives its slot up in llps_close_session only, and with a good
\* canonical configuration the slot goes back to the pool.
LEMMA GivenBack ==
  ASSUME PoolInv, [Next]_vars, cfg = Cfg, PoolUp, NEW s \in held, s \notin held'
  PROVE  s \in Free'
<1>1. PICK t \in held : CloseEnd(t)
  BY DEF Next, Operation, Fault, SelfTest, Scrub, FindFree, FindFreeEmpty, FindFreeFails,
         CloseBegin, CfgBankFault, ListBankFault, CfgFault, ListFault, SlotBreaks, vars, slotVars
<1>2. held' = held \ {t}
  BY <1>1 DEF CloseEnd
<1>3. s = t
  BY <1>2
<1>4. ~(s >= cfg.max_clients)
  BY PoolAssumption DEF PoolInv, SlotTypes, Slots, Cfg
<1>5. Pool!Release(s)
  BY <1>1, <1>3, <1>4, CloseEndStep
<1>. QED
  BY <1>5 DEF Pool!Release, Free

LEMMA AccountedStep ==
  ASSUME PoolInv, LossInv, [Next]_vars, PoolUp', ~cfgHit'
  PROVE  Slots \subseteq held' \cup Free' \cup slotHit'
<1>1. PoolUp /\ Free \subseteq Free' \cup held' \cup Broken
  BY NextStep, FreeAfter
<1>2. ~cfgHit /\ cfg = Cfg /\ slotHit \subseteq slotHit' /\ Broken \subseteq slotHit
  BY HistoryStep DEF LossInv
<1>3. held \subseteq held' \cup Free'
  BY <1>1, <1>2, GivenBack
<1>4. Slots \subseteq held \cup Free \cup slotHit
  BY <1>1, <1>2 DEF LossInv
<1>. QED
  BY <1>1, <1>2, <1>3, <1>4

-----------------------------------------------------------------------------
(* The start-up self tests on records nobody has hit *)

\* One broken seal is repaired, two are refused.
LEMMA TestBanks ==
  ASSUME NEW v
  PROVE  /\ Carries(Corrupted(WriteAll(v), {0}), v) /\ Sound(Corrupted(WriteAll(v), {0}))
         /\ Carries(Corrupted(WriteAll(v), {0, 1}), v)
         /\ ~Sound(Corrupted(WriteAll(v), {0, 1}))
         /\ WriteAll(v)[0].ok
<1>1. \A b \in BankIds : /\ WriteAll(v)[b] = [ok |-> TRUE, val |-> v]
                         /\ WriteAll(v)[b] \in [ok : BOOLEAN, val : {v}]
  BY DEF WriteAll, Seal
<1>2. ASSUME NEW bad, NEW hurt, hurt = Corrupted(WriteAll(v), bad)
      PROVE  /\ Carries(hurt, v)
             /\ \A b \in BankIds : hurt[b].ok <=> b \notin bad
  <2>1. hurt = [b \in BankIds |-> IF b \in bad THEN [WriteAll(v)[b] EXCEPT !.ok = FALSE]
                                                ELSE WriteAll(v)[b]]
    BY <1>2 DEF Corrupted
  <2>2. ASSUME NEW b \in BankIds
        PROVE  hurt[b] \in [ok : BOOLEAN, val : {v}] /\ (hurt[b].ok <=> b \notin bad)
    <3>1. CASE b \in bad
      <4>1. hurt[b] = [WriteAll(v)[b] EXCEPT !.ok = FALSE]
        BY <2>1, <3>1
      <4>. QED
        BY <4>1, <3>1, <1>1
    <3>2. CASE b \notin bad
      <4>1. hurt[b] = WriteAll(v)[b]
        BY <2>1, <3>2
      <4>. QED
        BY <4>1, <3>2, <1>1
    <3>. QED
      BY <3>1, <3>2
  <2>3. hurt = [b \in BankIds |-> hurt[b]]
    BY <2>1
  <2>. QED
    BY <2>2, <2>3 DEF Carries
<1>3. /\ Carries(Corrupted(WriteAll(v), {0}), v)
      /\ \A b \in BankIds : Corrupted(WriteAll(v), {0})[b].ok <=> b \notin {0}
  BY <1>2, Zenon
<1>4. /\ Carries(Corrupted(WriteAll(v), {0, 1}), v)
      /\ \A b \in BankIds : Corrupted(WriteAll(v), {0, 1})[b].ok <=> b \notin {0, 1}
  <2>. DEFINE two == {0, 1}
  <2>. HIDE DEF two
  <2>1. /\ Carries(Corrupted(WriteAll(v), two), v)
        /\ \A b \in BankIds : Corrupted(WriteAll(v), two)[b].ok <=> b \notin two
    BY <1>2, Zenon
  <2>. QED
    BY <2>1 DEF two
<1>5. Sound(Corrupted(WriteAll(v), {0}))
  <2>1. 1 \in BankIds /\ 2 \in BankIds /\ 1 # 2 /\ 1 \notin {0} /\ 2 \notin {0}
    BY DEF BankIds
  <2>. QED
    BY <2>1, <1>3, Zenon DEF Sound
<1>6. ~Sound(Corrupted(WriteAll(v), {0, 1}))
  <2>1. \A b \in BankIds : b \notin {0, 1} => b = 2
    BY DEF BankIds
  <2>. QED
    BY <2>1, <1>4, Zenon DEF Sound
<1>7. WriteAll(v)[0].ok
  BY <1>1 DEF BankIds
<1>. QED
  BY <1>3, <1>4, <1>5, <1>6, <1>7, Zenon

\* Three banks that differ pairwise have no majority.
LEMMA AllDiffer ==
  ASSUME NEW valid, NEW bank,
         bank[0].val # bank[1].val, bank[0].val # bank[2].val, bank[1].val # bank[2].val
  PROVE  ~HasMajority(valid, Vals(bank))
<1>1. Vals(bank)[0] = bank[0].val /\ Vals(bank)[1] = bank[1].val /\ Vals(bank)[2] = bank[2].val
  BY DEF Vals, BankIds
<1>. QED
  BY <1>1 DEF HasMajority, FindMatchingPair, Agree

LEMMA FreshCfgPasses ==
  ASSUME Fresh
  PROVE  CfgSelfTest
<1>. DEFINE hurt == Corrupted(CfgRepaired(cfgBank), {0})
            ports == [b \in BankIds |->
                        Seal([cfg EXCEPT !.target_port = cfg.target_port + b])]
<1>1. /\ cfg = Cfg /\ cfgBank = WriteAll(Cfg)
      /\ Carries(cfgBank, Cfg) /\ Sound(cfgBank)
  BY Written DEF Fresh
<1>2. CfgFine(cfgBank) /\ CfgMajority(cfgBank) = cfg /\ CfgRepaired(cfgBank) = WriteAll(Cfg)
  BY <1>1, CfgVote
<1>3. Carries(hurt, Cfg) /\ Sound(hurt)
  BY <1>2, TestBanks
<1>4. CfgFine(hurt) /\ CfgMajority(hurt) = cfg /\ CfgRepaired(hurt)[0].ok
  <2>1. CfgFine(hurt) /\ CfgMajority(hurt) = Cfg /\ CfgRepaired(hurt) = WriteAll(Cfg)
    BY <1>3, CfgVote
  <2>. QED
    BY <2>1, <1>1, TestBanks
<1>5. ~CfgFine(ports)
  <2>1. \A b \in BankIds : ports[b].val.target_port = 1 + b
    BY <1>1 DEF Seal, Cfg, BankIds
  <2>2. /\ ports[0].val # ports[1].val /\ ports[0].val # ports[2].val
        /\ ports[1].val # ports[2].val
    BY <2>1 DEF BankIds
  <2>. HIDE DEF ports
  <2>. QED
    BY <2>2, AllDiffer DEF CfgFine
<1>6. ~CfgFine(Corrupted(WriteAll(cfg), {0, 1}))
  BY <1>1, TestBanks, CfgVote
<1>. QED
  BY <1>2, <1>4, <1>5, <1>6 DEF CfgSelfTest

LEMMA FreshListPasses ==
  ASSUME Fresh, MaxClients >= 2
  PROVE  ListSelfTest(MaxClients)
<1>. DEFINE hurt == Corrupted(ListRepaired(listBank, MaxClients), {0})
            lists == [b \in BankIds |->
                        Seal(CASE b = 0 -> [list EXCEPT ![1] = @ + 1]
                               [] b = 1 -> [list EXCEPT ![2] = @ + 1]
                               [] b = 2 -> OneBitOff(list))]
<1>1. /\ list \in Seq(Nat) /\ Len(list) = MaxClients /\ MaxClients \in Nat
      /\ DOMAIN list = 1..MaxClients
      /\ \A i \in 1..MaxClients : list[i] = MaxClients - i
  <2>1. MaxClients \in Nat /\ list = [i \in 1..MaxClients |-> MaxClients - i]
    BY PoolAssumption DEF Fresh, AllSlots
  <2>2. \A i \in 1..MaxClients : MaxClients - i \in Nat
    BY <2>1
  <2>3. list \in [1..MaxClients -> Nat]
    BY <2>1, <2>2
  <2>4. list \in Seq(Nat)
    BY <2>3, <2>1, SeqDef
  <2>5. DOMAIN list = 1..MaxClients
    BY <2>1
  <2>6. \A i \in 1..MaxClients : list[i] = MaxClients - i
    BY <2>1
  <2>. QED
    BY <2>1, <2>4, <2>5, <2>6, LenProperties
<1>2. /\ listBank = WriteAll(list) /\ Carries(listBank, list) /\ Sound(listBank)
      /\ Len(list) <= MaxClients
  BY <1>1, Written DEF Fresh
<1>3. ListFine(listBank, MaxClients) /\ ListRepaired(listBank, MaxClients) = WriteAll(list)
  BY <1>2, ListVote
<1>4. Carries(hurt, list) /\ Sound(hurt)
  BY <1>3, TestBanks
<1>5. /\ ListFine(hurt, MaxClients) /\ ListMajority(hurt, MaxClients) = list
      /\ ListRepaired(hurt, MaxClients)[0].ok
  <2>1. /\ ListFine(hurt, MaxClients) /\ ListMajority(hurt, MaxClients) = list
        /\ ListRepaired(hurt, MaxClients) = WriteAll(list)
    BY <1>2, <1>4, ListVote
  <2>. QED
    BY <2>1, TestBanks
<1>6. ~ListFine(lists, MaxClients)
  <2>1. /\ lists[0].val = [list EXCEPT ![1] = @ + 1] /\ lists[1].val = [list EXCEPT ![2] = @ + 1]
        /\ lists[2].val = OneBitOff(list)
    <3>1. /\ lists[0] = Seal([list EXCEPT ![1] = @ + 1])
          /\ lists[1] = Seal([list EXCEPT ![2] = @ + 1])
          /\ lists[2] = Seal(OneBitOff(list))
      <4>1. 0 \in BankIds /\ 1 \in BankIds /\ 2 \in BankIds
        BY DEF BankIds
      <4>. HIDE DEF Seal, OneBitOff
      <4>. QED
        BY <4>1
    <3>. HIDE DEF lists
    <3>. QED
      BY <3>1 DEF Seal
  <2>2. lists[0].val[1] = MaxClients /\ lists[1].val[1] = MaxClients - 1
    <3>. HIDE DEF lists
    <3>1. 1 \in DOMAIN list /\ 2 \in DOMAIN list /\ list[1] = MaxClients - 1
      BY <1>1
    <3>. QED
      BY <2>1, <3>1, <1>1
  <2>3. DOMAIN lists[0].val = 1..MaxClients /\ DOMAIN lists[1].val = 1..MaxClients
    BY <2>1, <1>1
  <2>4. DOMAIN lists[2].val # 1..MaxClients
    <3>1. CASE MaxClients % 2 = 0
      <4>1. OneBitOff(list) = Append(list, 0)
        BY <3>1, <1>1 DEF OneBitOff
      <4>2. Append(list, 0) \in Seq(Nat) /\ Len(Append(list, 0)) = MaxClients + 1
        BY <1>1
      <4>3. DOMAIN Append(list, 0) = 1..(MaxClients + 1)
        BY <4>2, LenProperties
      <4>4. MaxClients + 1 \in 1..(MaxClients + 1) /\ MaxClients + 1 \notin 1..MaxClients
        BY <1>1
      <4>. QED
        BY <4>1, <4>3, <4>4, <2>1
    <3>2. CASE MaxClients % 2 # 0
      <4>1. OneBitOff(list) = SubSeq(list, 1, MaxClients - 1)
        BY <3>2, <1>1 DEF OneBitOff
      <4>2. /\ SubSeq(list, 1, MaxClients - 1) \in Seq(Nat)
            /\ Len(SubSeq(list, 1, MaxClients - 1)) = MaxClients - 1
        BY <1>1
      <4>3. DOMAIN SubSeq(list, 1, MaxClients - 1) = 1..(MaxClients - 1)
        BY <4>2, LenProperties
      <4>4. MaxClients \in 1..MaxClients /\ MaxClients \notin 1..(MaxClients - 1)
        BY <1>1
      <4>. QED
        BY <4>1, <4>3, <4>4, <2>1
    <3>. QED
      BY <3>1, <3>2
  <2>5. /\ lists[0].val # lists[1].val /\ lists[0].val # lists[2].val
        /\ lists[1].val # lists[2].val
    <3>. HIDE DEF lists
    <3>1. lists[0].val # lists[1].val
      BY <2>2, <1>1
    <3>. QED
      BY <3>1, <2>3, <2>4
  <2>. HIDE DEF lists
  <2>. QED
    BY <2>5, AllDiffer DEF ListFine
<1>7. ~ListFine(Corrupted(WriteAll(list), {0, 1}), MaxClients)
  BY <1>2, TestBanks, ListVote
<1>8. Len(list) >= 2
  BY <1>1
<1>. QED
  BY <1>3, <1>5, <1>6, <1>7, <1>8 DEF ListSelfTest

-----------------------------------------------------------------------------
(* Every loss has its cause *)

LEMMA LossInit ==
  ASSUME Init
  PROVE  LossInv
<1>1. Fresh /\ phase = "boot" /\ held = {} /\ slotHit = {} /\ dual = FALSE /\ cfgHit = FALSE
  BY DEF Init, Fresh, AllSlots
<1>2. Broken = {}
  BY DEF Init, Broken
<1>3. PoolUp = TRUE /\ Free = Slots
  BY InitStep DEF Pool!Init, Free
<1>. QED
  BY <1>1, <1>2, <1>3 DEF LossInv, Fresh

\* llps_init gives up in one of its two self tests or in the first scrub.
LEMMA FailedStep ==
  ASSUME PoolInv, LossInv, [Next]_vars, phase' = "failed", phase # "failed"
  PROVE  faults' > 0 \/ MaxClients < 2
<1>. SUFFICES ASSUME ~(faults' > 0), ~(MaxClients < 2)
              PROVE  FALSE
  OBVIOUS
<1>1. CASE SelfTest
  <2>1. faults' = faults /\ phase = "boot" /\ faults \in Nat
    BY <1>1 DEF SelfTest, faultVars, PoolInv, FaultTypes
  <2>2. Fresh /\ MaxClients >= 2
    BY <2>1, PoolAssumption DEF LossInv
  <2>3. CfgSelfTest /\ ListSelfTest(cfg.max_clients)
    BY <2>2, FreshCfgPasses, FreshListPasses DEF Fresh, Cfg
  <2>. QED
    BY <1>1, <2>3 DEF SelfTest
<1>2. CASE Scrub
  <2>1. faults' = faults /\ faults \in Nat
    BY <1>2 DEF Scrub, faultVars, PoolInv, FaultTypes
  <2>2. ~dual /\ slotHit = {}
    BY <2>1 DEF LossInv
  <2>3. PoolUp /\ Broken = {}
    BY <2>2, VotedNow, SoundOrTwoBad DEF LossInv, PoolInv
  <2>. QED
    BY <1>2, <2>3 DEF Scrub
<1>3. CASE ~SelfTest /\ ~Scrub
  BY <1>3 DEF Next, Operation, Fault, FindFree, FindFreeEmpty, FindFreeFails, CloseBegin,
         CloseEnd, CfgBankFault, ListBankFault, CfgFault, ListFault, SlotBreaks, vars
<1>. QED
  BY <1>1, <1>2, <1>3

LEMMA LossStep ==
  ASSUME PoolInv, LossInv, [Next]_vars
  PROVE  LossInv'
<1>1. /\ (~cfgHit' => ~cfgHit) /\ slotHit \subseteq slotHit'
      /\ Broken' \subseteq Broken \cup slotHit'
      /\ (~cfgHit' /\ cfg = Cfg => cfg' = Cfg)
      /\ \/ faults' > 0
         \/ faults' = faults /\ dual' = dual /\ slotHit' = slotHit
  BY HistoryStep
<1>2. Broken' \subseteq slotHit' /\ (~cfgHit' => cfg' = Cfg)
  BY <1>1 DEF LossInv
<1>3. faults' = 0 => ~dual' /\ slotHit' = {}
  BY <1>1 DEF LossInv
<1>4. phase' = "boot" => held' = {} /\ (faults' = 0 => Fresh')
  <2>. SUFFICES ASSUME phase' = "boot"
                PROVE  held' = {} /\ (faults' = 0 => Fresh')
    OBVIOUS
  <2>1. CASE Operation
    BY <2>1 DEF Operation, SelfTest, Scrub, FindFree, FindFreeEmpty, FindFreeFails,
                CloseBegin, CloseEnd, LossInv
  <2>2. CASE Fault
    <3>1. faults' = faults + 1 /\ phase' = phase /\ held' = held
      BY <2>2 DEF Fault, CfgBankFault, ListBankFault, CfgFault, ListFault, SlotBreaks, Strike,
                  slotVars
    <3>2. faults \in Nat
      BY DEF PoolInv, FaultTypes
    <3>. QED
      BY <3>1, <3>2 DEF LossInv
  <2>3. CASE UNCHANGED vars
    BY <2>3 DEF vars, cfgVars, listVars, slotVars, faultVars, LossInv, Fresh
  <2>. QED
    BY <2>1, <2>2, <2>3 DEF Next
<1>5. phase' = "failed" => faults' > 0 \/ MaxClients < 2
  <2>1. faults > 0 => faults' > 0
    BY <1>1
  <2>. QED
    BY <2>1, FailedStep DEF LossInv
<1>6. PoolUp' /\ ~cfgHit' => Slots \subseteq held' \cup Free' \cup slotHit'
  BY AccountedStep
<1>. QED
  BY <1>2, <1>3, <1>4, <1>5, <1>6 DEF LossInv

\* Without a memory fault a pool of two slots or more always starts, and no
\* slot leaves the pool unless its own session record broke or the canonical
\* configuration, which llps_close_session reads without a vote, was hit.
THEOREM EveryLossJustified == Spec => []LossesJustified
<1>1. Init => LossInv
  BY LossInit
<1>2. PoolInv /\ LossInv /\ [Next]_vars => LossInv'
  BY LossStep
<1>3. PoolInv /\ LossInv => LossesJustified
  <2>. SUFFICES ASSUME PoolInv, LossInv PROVE LossesJustified
    OBVIOUS
  <2>1. ASSUME PoolUp, ~cfgHit
        PROVE  Slots = held \cup Range1(VotedList) \cup slotHit
    <3>1. Free = Range1(VotedList) /\ VotedList = L
      BY <2>1, VotedNow DEF Free
    <3>2. \A i \in 1..Len(L) : L[i] \in Slots
      BY ElementOfSeq DEF PoolInv, FreeList
    <3>3. Range1(VotedList) \subseteq Slots
      BY <3>1, <3>2 DEF Range1
    <3>4. held \subseteq Slots /\ slotHit \subseteq Slots
      BY DEF PoolInv, SlotTypes
    <3>. QED
      BY <2>1, <3>1, <3>3, <3>4 DEF LossInv
  <2>. QED
    BY <2>1 DEF LossInv, LossesJustified
<1>. QED
  BY <1>1, <1>2, <1>3, PoolInvariant, PTL DEF Spec
=============================================================================
