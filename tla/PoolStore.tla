----------------------------- MODULE PoolStore -----------------------------
(***************************************************************************)
(* The session pool on triplicated memory: the runtime configuration       *)
(* (src/src/session/llps_runtime_cfg_tmr.c) and the free list              *)
(* (src/src/session/llps_free_list_tmr.c), each a canonical copy and three *)
(* banks, and the operations of src/src/core/llps_state.c that vote,       *)
(* repair, pop and push.  An operation runs without suspension, except     *)
(* llps_close_session, which writes an audit record in its middle.  Memory *)
(* faults strike between steps, in a bank or in a canonical copy.          *)
(*                                                                         *)
(* A bank is a value and a flag: ok stands for magic words, bank id,       *)
(* inverse fields and CRC that all agree.  A fault never forges all of     *)
(* them, so it makes a bank not ok; a fault in a canonical copy, which has *)
(* no redundancy of its own, gives it any value.                           *)
(***************************************************************************)
EXTENDS TmrVote, Sequences

CONSTANTS
  MaxClients,  \* max_clients of the configuration
  CfgJunk,     \* what a fault can make of the canonical configuration
  ListJunk,    \* what a fault can make of the canonical free list
  FaultMax     \* number of memory faults in a behaviour

Slots == 0..(MaxClients - 1)

\* The configuration, by the two fields the pool and its self test look at.
Cfg == [max_clients |-> MaxClients, target_port |-> 1]

ASSUME PoolAssumption ==
  /\ MaxClients \in Nat \ {0}
  /\ \A c \in CfgJunk : c.max_clients \in Nat
  /\ FaultMax \in Nat

VARIABLES
  phase,     \* "boot", "tested", "up", "stopping", "failed"
  cfg,       \* g_runtime_cfg
  cfgBank,   \* the banks of the configuration
  list,      \* g_free_sessions[0 .. g_free_sessions_count - 1]
  listBank,  \* the banks of the free list
  slot,      \* what the session store says of a slot: "free", "active", "broken"
  held,      \* slots that belong to a connection
  faults,    \* number of faults so far
  closing,   \* slots of which llps_close_session waits for its audit record
  dual,      \* history: two banks of one record were bad at the same time
  cfgHit,    \* history: a fault struck the canonical configuration
  slotHit    \* history: slots whose session record broke at some time

cfgVars == <<cfg, cfgBank>>
listVars == <<list, listBank>>
slotVars == <<slot, held, closing>>
faultVars == <<faults, dual, cfgHit, slotHit>>
vars == <<phase, cfgVars, listVars, slotVars, faultVars>>

-----------------------------------------------------------------------------
(* Banks *)

Seal(v) == [ok |-> TRUE, val |-> v]
Vals(bank) == [b \in BankIds |-> bank[b].val]

\* llps_runtime_cfg_write_all, llps_free_list_write_all_from_snapshot
WriteAll(v) == [b \in BankIds |-> Seal(v)]

Majority(valid, bank) == bank[FindMatchingPair(valid, Vals(bank))].val

\* llps_runtime_cfg_repair_divergent_banks, llps_free_list_repair_divergent_banks
Repaired(valid, bank) ==
  [b \in BankIds |->
     IF Divergent(valid, Vals(bank), Majority(valid, bank), b)
     THEN Seal(Majority(valid, bank)) ELSE bank[b]]

\* llps_runtime_cfg_bank_is_valid
CfgValid(bank) == [b \in BankIds |-> bank[b].ok]

\* llps_free_list_bank_is_valid
ListValid(bank, max) ==
  [b \in BankIds |-> bank[b].ok /\ Len(bank[b].val) <= max]

\* The two halves of llps_runtime_cfg_reconcile: is there a majority, and which.
CfgFine(bank) == HasMajority(CfgValid(bank), Vals(bank))
CfgMajority(bank) == Majority(CfgValid(bank), bank)
CfgRepaired(bank) == Repaired(CfgValid(bank), bank)

\* llps_free_list_vote, after the configuration was reconciled.
ListFine(bank, max) == HasMajority(ListValid(bank, max), Vals(bank))
ListMajority(bank, max) == Majority(ListValid(bank, max), bank)
ListRepaired(bank, max) == Repaired(ListValid(bank, max), bank)

\* What the votes find now.
VotedMax == CfgMajority(cfgBank).max_clients
PoolUp == CfgFine(cfgBank) /\ ListFine(listBank, VotedMax)
VotedList == ListMajority(listBank, VotedMax)

\* llps_runtime_cfg_reconcile leaves everything alone when there is no majority.
ReconcileCfg ==
  IF CfgFine(cfgBank)
  THEN /\ cfg' = CfgMajority(cfgBank)
       /\ cfgBank' = CfgRepaired(cfgBank)
  ELSE UNCHANGED cfgVars

StoreList(l) ==
  /\ list' = l
  /\ listBank' = WriteAll(l)

\* llps_free_list_reconcile
ReconcileList ==
  IF PoolUp
  THEN /\ list' = VotedList
       /\ listBank' = ListRepaired(listBank, VotedMax)
  ELSE UNCHANGED listVars

-----------------------------------------------------------------------------
(* The start-up self tests.  Both put the canonical copy and the banks back *)
(* as they found them, so only the verdict is left.                         *)

Corrupted(bank, bad) ==
  [b \in BankIds |-> IF b \in bad THEN [bank[b] EXCEPT !.ok = FALSE]
                                  ELSE bank[b]]

\* llps_runtime_cfg_tmr_startup_self_test: the banks vote for the canonical
\* copy; one corrupt bank is repaired; three different target ports and two
\* corrupt banks are refused.
CfgSelfTest ==
  LET hurt == Corrupted(CfgRepaired(cfgBank), {0})
      ports == [b \in BankIds |->
                  Seal([cfg EXCEPT !.target_port = cfg.target_port + b])]
  IN /\ CfgFine(cfgBank) /\ CfgMajority(cfgBank) = cfg
     /\ CfgFine(hurt) /\ CfgMajority(hurt) = cfg /\ CfgRepaired(hurt)[0].ok
     /\ ~CfgFine(ports)
     /\ ~CfgFine(Corrupted(WriteAll(cfg), {0, 1}))

\* count ^ 1
OneBitOff(l) ==
  IF Len(l) % 2 = 0 THEN Append(l, 0) ELSE SubSeq(l, 1, Len(l) - 1)

\* llps_free_list_tmr_startup_self_test; the three different lists need two
\* entries to differ in.
ListSelfTest(max) ==
  LET hurt == Corrupted(ListRepaired(listBank, max), {0})
      lists == [b \in BankIds |->
                  Seal(CASE b = 0 -> [list EXCEPT ![1] = @ + 1]
                         [] b = 1 -> [list EXCEPT ![2] = @ + 1]
                         [] b = 2 -> OneBitOff(list))]
  IN /\ ListFine(listBank, max)
     /\ ListFine(hurt, max) /\ ListMajority(hurt, max) = list
     /\ ListRepaired(hurt, max)[0].ok
     /\ Len(list) >= 2
     /\ ~ListFine(lists, max)
     /\ ~ListFine(Corrupted(WriteAll(list), {0, 1}), max)

\* llps_tmr_startup_self_test as far as the two records go.
SelfTest ==
  /\ phase = "boot"
  /\ phase' = IF CfgSelfTest /\ ListSelfTest(cfg.max_clients)
              THEN "tested" ELSE "failed"
  /\ UNCHANGED <<cfgVars, listVars, slotVars, faultVars>>

-----------------------------------------------------------------------------
(* Operations of llps_state.c *)

Broken == {s \in Slots : slot[s] = "broken"}

\* llps_session_tmr_scrub_all.  A failed vote stops the server (or llps_init);
\* a session without a majority is marked METADATA_FAULT, which writes its
\* banks anew from the canonical session.
Scrub ==
  /\ phase \in {"tested", "up"}
  /\ ReconcileCfg
  /\ ReconcileList
  /\ phase' = IF PoolUp /\ Broken = {} THEN "up"
              ELSE IF phase = "tested" THEN "failed" ELSE "stopping"
  /\ slot' = IF PoolUp
             THEN [s \in Slots |-> IF slot[s] # "broken" THEN slot[s]
                                   ELSE IF s \in held THEN "active" ELSE "free"]
             ELSE slot
  /\ UNCHANGED <<held, closing, faultVars>>

\* Positions of the list that hold a slot the search accepts.
FreeAt(l) == {i \in 1..Len(l) : l[i] < VotedMax /\ slot[l[i]] = "free"}
LastOf(S) == CHOOSE i \in S : \A j \in S : j <= i

\* Mutant of FindFree: a pop is written to the canonical list only.
FindFreeUnwritten ==
  /\ phase = "up"
  /\ PoolUp
  /\ ReconcileCfg
  /\ FreeAt(VotedList) # {}
  /\ LET k == LastOf(FreeAt(VotedList))
         s == VotedList[k]
     IN /\ list' = SubSeq(VotedList, 1, k - 1)
        /\ listBank' = ListRepaired(listBank, VotedMax)
        /\ held' = held \cup {s}
        /\ slot' = [slot EXCEPT ![s] = "active"]
  /\ UNCHANGED <<phase, closing, faultVars>>

\* llps_find_free_session pops from the end, writing every pop to all banks,
\* until it meets a slot whose session record is good and free; the caller
\* prepares that session before it can be suspended.
FindFree ==
  /\ phase = "up"
  /\ PoolUp
  /\ ReconcileCfg
  /\ FreeAt(VotedList) # {}
  /\ LET k == LastOf(FreeAt(VotedList))
         s == VotedList[k]
     IN /\ StoreList(SubSeq(VotedList, 1, k - 1))
        /\ held' = held \cup {s}
        /\ slot' = [slot EXCEPT ![s] = "active"]
  /\ UNCHANGED <<phase, closing, faultVars>>

\* The list ends before a free slot is met.
FindFreeEmpty ==
  /\ phase = "up"
  /\ PoolUp
  /\ ReconcileCfg
  /\ FreeAt(VotedList) = {}
  /\ IF VotedList = <<>> THEN ReconcileList ELSE StoreList(<<>>)
  /\ UNCHANGED <<phase, slotVars, faultVars>>

\* LLPS_E_STATE: a record has no majority.  The client is dropped.
FindFreeFails ==
  /\ phase = "up"
  /\ ~PoolUp
  /\ ReconcileCfg
  /\ UNCHANGED <<phase, listVars, slotVars, faultVars>>

\* llps_return_session_to_freelist: the reconciled list without room, or with
\* the slot already in it, stays as it is.
Returned(s) ==
  IF \/ s >= VotedMax
     \/ \E i \in 1..Len(VotedList) : VotedList[i] = s
     \/ Len(VotedList) >= VotedMax
  THEN ReconcileList
  ELSE StoreList(Append(VotedList, s))

\* Mutant of ReturnSession: the push works on the canonical list without a vote.
ReturnUnvoted(s) == StoreList(Append(list, s))

ReturnSession(s) == IF PoolUp THEN Returned(s) ELSE UNCHANGED listVars

\* llps_close_session of a connection's slot, up to the CLOSE audit record:
\* asking for the session's state reconciles the configuration.
CloseBegin(s) ==
  /\ phase \in {"up", "stopping"}
  /\ s \in held \ closing
  /\ ReconcileCfg
  /\ closing' = closing \cup {s}
  /\ UNCHANGED <<phase, listVars, slot, held, faultVars>>

\* Mutant of CloseEnd: the range test is off by one.
CloseEndOffByOne(s) ==
  /\ s \in closing
  /\ closing' = closing \ {s}
  /\ held' = held \ {s}
  /\ IF s + 1 >= cfg.max_clients
     THEN UNCHANGED <<cfgVars, listVars, slot>>
     ELSE /\ ReconcileCfg
          /\ slot' = [slot EXCEPT ![s] = "free"]
          /\ ReturnSession(s)
  /\ UNCHANGED <<phase, faultVars>>

\* ... and after it.  The range test reads g_runtime_cfg without a vote; a
\* slot it refuses is neither reset nor returned.
CloseEnd(s) ==
  /\ s \in closing
  /\ closing' = closing \ {s}
  /\ held' = held \ {s}
  /\ IF s >= cfg.max_clients
     THEN UNCHANGED <<cfgVars, listVars, slot>>
     ELSE /\ ReconcileCfg
          /\ slot' = [slot EXCEPT ![s] = "free"]
          /\ ReturnSession(s)
  /\ UNCHANGED <<phase, faultVars>>

-----------------------------------------------------------------------------
(* Memory faults *)

Strike == faults < FaultMax /\ faults' = faults + 1

AnotherBad(bank, b) == \E c \in BankIds \ {b} : ~bank[c].ok

CfgBankFault(b) ==
  /\ Strike
  /\ cfgBank[b].ok
  /\ cfgBank' = Corrupted(cfgBank, {b})
  /\ dual' = (dual \/ AnotherBad(cfgBank, b))
  /\ UNCHANGED <<phase, cfg, listVars, slotVars, cfgHit, slotHit>>

ListBankFault(b) ==
  /\ Strike
  /\ listBank[b].ok
  /\ listBank' = Corrupted(listBank, {b})
  /\ dual' = (dual \/ AnotherBad(listBank, b))
  /\ UNCHANGED <<phase, cfgVars, list, slotVars, cfgHit, slotHit>>

CfgFault ==
  /\ Strike
  /\ \E c \in CfgJunk : cfg' = c
  /\ cfgHit' = TRUE
  /\ UNCHANGED <<phase, cfgBank, listVars, slotVars, dual, slotHit>>

ListFault ==
  /\ Strike
  /\ \E l \in ListJunk : list' = l
  /\ UNCHANGED <<phase, cfgVars, listBank, slotVars, dual, cfgHit, slotHit>>

\* The banks of a session lose their majority (module SessionStore).
SlotBreaks(s) ==
  /\ Strike
  /\ slot[s] # "broken"
  /\ slot' = [slot EXCEPT ![s] = "broken"]
  /\ slotHit' = slotHit \cup {s}
  /\ UNCHANGED <<phase, cfgVars, listVars, held, closing, dual, cfgHit>>

\* llps_init has published the configuration and built the pool.
Init ==
  /\ phase = "boot"
  /\ cfg = Cfg /\ cfgBank = WriteAll(Cfg)
  /\ list = [i \in 1..MaxClients |-> MaxClients - i]
  /\ listBank = WriteAll([i \in 1..MaxClients |-> MaxClients - i])
  /\ slot = [s \in Slots |-> "free"]
  /\ held = {} /\ closing = {}
  /\ faults = 0 /\ dual = FALSE /\ cfgHit = FALSE /\ slotHit = {}

Operation ==
  \/ SelfTest \/ Scrub \/ FindFree \/ FindFreeEmpty \/ FindFreeFails
  \/ \E s \in held : CloseBegin(s) \/ CloseEnd(s)

Fault ==
  \/ \E b \in BankIds : CfgBankFault(b) \/ ListBankFault(b)
  \/ CfgFault \/ ListFault
  \/ \E s \in Slots : SlotBreaks(s)

Next == Operation \/ Fault

Spec == Init /\ [][Next]_vars

-----------------------------------------------------------------------------
Phases == {"boot", "tested", "up", "stopping", "failed"}

\* Every bank of the free list holds a list of distinct slots none of which
\* belongs to a connection, as long as its seal is intact.
TypeOK ==
  /\ phase \in Phases
  /\ slot \in [Slots -> {"free", "active", "broken"}]
  /\ held \subseteq Slots
  /\ closing \subseteq held
  /\ \A b \in BankIds :
       listBank[b].ok =>
         LET l == listBank[b].val
         IN /\ Len(l) <= MaxClients
            /\ \A i \in 1..Len(l) : l[i] \in Slots \ held
            /\ \A i, j \in 1..Len(l) : i # j => l[i] # l[j]
  /\ faults \in 0..FaultMax
  /\ dual \in BOOLEAN /\ cfgHit \in BOOLEAN /\ slotHit \subseteq Slots

Range1(l) == {l[i] : i \in 1..Len(l)}

Pool == INSTANCE SlotPool
          WITH free <- IF PoolUp THEN Range1(VotedList) ELSE {},
               broken <- Broken,
               up <- PoolUp

\* Whatever memory does short of forging a seal, the pool behaves like one perfect set of
\* free slots that may be lost as a whole: no slot is handed to two
\* connections, a returned slot is there again, a corrupt canonical list or
\* configuration never reaches the banks.
PoolRefined == Pool!Spec

\* The pool is lost only when two banks of one record were bad at once: a
\* single bad bank is repaired before the next one goes bad, whoever votes next.
SingleFaultMasked == ~PoolUp => dual

\* llps_init fails only on a memory fault, or on a pool too small for the
\* free-list self test; and a slot leaves the pool for good only when its
\* session record broke (llps_find_free_session skips it) or the canonical
\* configuration was hit (llps_close_session tests the slot against it after
\* the audit record).
LossesJustified ==
  /\ phase = "failed" => faults > 0 \/ MaxClients < 2
  /\ PoolUp /\ ~cfgHit => Slots = held \cup Range1(VotedList) \cup slotHit
=============================================================================
