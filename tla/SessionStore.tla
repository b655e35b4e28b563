---------------------------- MODULE SessionStore ----------------------------
(***************************************************************************)
(* One session slot and its protection: the canonical session with SECDED  *)
(* codes, inverse fields and a CRC                                         *)
(* (src/src/session/llps_session_integrity.c), its records in three        *)
(* guarded regions (src/src/session/llps_session_tmr.c), and the           *)
(* operations of src/src/core/llps_state.c that write, vote and reconcile. *)
(* No operation suspends; memory faults strike between operations.         *)
(*                                                                         *)
(* Three fields stand for all: state and close_reason have an inverse in   *)
(* the canonical session (as request_no, client_port and the ecc lengths   *)
(* do); client_fd has none (as backend_fd, last_activity_ns, client_ip).   *)
(* The pump arguments are covered by the session CRC only and are not in   *)
(* the banks.  A CRC is the tuple of what it covers: no two contents       *)
(* collide.                                                                *)
(***************************************************************************)
EXTENDS TmrVote

CONSTANTS
  Junk,        \* what a corrupt value word reads as
  JunkInverse, \* what a corrupt inverse word reads as: never its complement
  FaultMax     \* number of memory faults in a behaviour

\* A word that was miscorrected reads as a value the program never writes.
ASSUME SessionAssumption ==
  /\ FaultMax \in Nat
  /\ Junk # JunkInverse /\ Junk \notin 0..2

Fields == {"state", "close_reason", "client_fd"}
Guarded == {"state", "close_reason"}
FREE == 0
ACTIVE == 1

VARIABLES
  sess,     \* the canonical session: magic, words, inverses, pump args, CRC
  rec,      \* the record of the slot in each bank
  guard,    \* llps_session_tmr_region_guard_is_valid of each bank
  phase,    \* "boot", "up", "stopping", "failed"
  answer,   \* what the last llps_session_reconcile_integrity returned
  want,     \* history: what the operations assigned to the fields
  written,  \* history: the snapshot last written to the banks
  faults,   \* number of faults so far
  hitBanks, \* history: banks struck since they were last all known good
  hitSess,  \* history: the canonical session was struck since then
  tainted   \* history: a struck canonical session was copied to the banks

faultVars == <<faults, hitBanks, hitSess, tainted>>
vars == <<sess, rec, guard, phase, answer, want, written, faultVars>>

-----------------------------------------------------------------------------
(* Words: a value with its SECDED code and the number of bits flipped since *)
(* it was encoded; 3 stands for flips that look like a single one.          *)

Encode(v) == [v |-> v, flips |-> 0]
Read(w, junk) == IF w.flips = 0 THEN w.v ELSE junk

\* llps_secded_repair_u32 and _u64
Repair(w, junk) ==
  CASE w.flips = 1 -> Encode(w.v)
    [] w.flips = 3 -> Encode(junk)
    [] OTHER -> w

\* llps_session_tmr_repair_status_ok, llps_session_repair_status_ok
Uncorrectable(w) == w.flips = 2
Corrected(w) == w.flips \in {1, 3}

Reads(ws) == [f \in DOMAIN ws |-> Read(ws[f], Junk)]
ReadsInverse(ws) == [f \in DOMAIN ws |-> Read(ws[f], JunkInverse)]
EncodeAll(vs) == [f \in DOMAIN vs |-> Encode(vs[f])]
RepairAll(ws, junk) == [f \in DOMAIN ws |-> Repair(ws[f], junk)]
Some(P(_), ws) == \E f \in DOMAIN ws : P(ws[f])
Clean(ws) == \A f \in DOMAIN ws : ws[f].flips = 0

-----------------------------------------------------------------------------
(* The canonical session *)

\* llps_session_compute_crc
SessionCrc(s) ==
  [magic |-> s.magic, words |-> Reads(s.word), inverses |-> ReadsInverse(s.inv),
   pump |-> s.pump]

\* llps_session_refresh_secded
RefreshSecded(s) ==
  [s EXCEPT !.word = EncodeAll(Reads(@)), !.inv = EncodeAll(ReadsInverse(@))]

\* llps_session_repair_secded; no CRC is computed here
RepairSession(s) ==
  [s EXCEPT !.word = RepairAll(@, Junk), !.inv = RepairAll(@, JunkInverse)]

SecdedOk(s) == ~Some(Uncorrectable, s.word) /\ ~Some(Uncorrectable, s.inv)

\* llps_session_local_integrity_is_valid
LocalIntegrity(s) ==
  /\ Clean(s.word) /\ Clean(s.inv)
  /\ s.word["state"].v \in {FREE, ACTIVE}
  /\ s.magic = s.word["state"].v
  /\ s.word["close_reason"].v # Junk
  /\ \A f \in Guarded : s.inv[f].v = s.word[f].v
  /\ s.crc = SessionCrc(s)

\* The words, inverses and magic of a session with these field values.
FieldsOf(v) ==
  [magic |-> v["state"], word |-> EncodeAll(v),
   inv |-> [f \in Guarded |-> Encode(v[f])]]

\* llps_session_apply_tmr_snapshot
Apply(s, snap) ==
  LET n == FieldsOf(snap.val)
  IN [s EXCEPT !.magic = n.magic, !.word = n.word, !.inv = n.inv]

\* llps_session_snapshot_differs
Differs(s, snap) ==
  \/ ~SecdedOk(s)
  \/ s.magic # snap.val["state"]
  \/ Reads(s.word) # snap.val
  \/ \E f \in Guarded : Read(s.inv[f], JunkInverse) # snap.val[f]

\* llps_session_tmr_snapshot_from_session
SnapshotOf(s) == [val |-> Reads(s.word), crc |-> s.crc]

-----------------------------------------------------------------------------
(* Bank records *)

\* llps_session_tmr_record_compute_crc
RecordCrc(r) ==
  [words |-> Reads(r.word), inverses |-> ReadsInverse(r.inv),
   sess |-> <<Read(r.sessCrc, Junk), Read(r.sessCrcInv, JunkInverse)>>]

\* llps_session_tmr_record_from_snapshot
RecordOf(snap) ==
  LET r == [magic |-> TRUE, word |-> EncodeAll(snap.val),
            inv |-> EncodeAll(snap.val), sessCrc |-> Encode(snap.crc),
            sessCrcInv |-> Encode(snap.crc), crc |-> Junk]
  IN [r EXCEPT !.crc = RecordCrc(r)]

\* llps_session_tmr_record_repair_secded: when nothing was uncorrectable and
\* something was corrected, the record CRC is computed anew.
RecordSecdedOk(r) ==
  /\ ~Some(Uncorrectable, r.word) /\ ~Some(Uncorrectable, r.inv)
  /\ ~Uncorrectable(r.sessCrc) /\ ~Uncorrectable(r.sessCrcInv)

RecordCorrected(r) ==
  \/ Some(Corrected, r.word) \/ Some(Corrected, r.inv)
  \/ Corrected(r.sessCrc) \/ Corrected(r.sessCrcInv)

RepairRecord(r) ==
  LET n == [r EXCEPT !.word = RepairAll(@, Junk),
                     !.inv = RepairAll(@, JunkInverse),
                     !.sessCrc = Repair(@, Junk),
                     !.sessCrcInv = Repair(@, JunkInverse)]
  IN IF RecordSecdedOk(r) /\ RecordCorrected(r)
     THEN [n EXCEPT !.crc = RecordCrc(n)] ELSE n

\* Mutant of RecordValid: the inverse fields are not compared.
RecordValidNoInverse(r) ==
  /\ r.magic
  /\ Clean(r.word) /\ Clean(r.inv)
  /\ r.sessCrc.flips = 0 /\ r.sessCrcInv.flips = 0
  /\ r.word["state"].v \in {FREE, ACTIVE}
  /\ r.word["close_reason"].v # Junk
  /\ r.crc = RecordCrc(r)

\* llps_session_tmr_record_is_valid
RecordValid(r) ==
  /\ r.magic
  /\ Clean(r.word) /\ Clean(r.inv)
  /\ r.sessCrc.flips = 0 /\ r.sessCrcInv.flips = 0
  /\ r.inv = r.word
  /\ r.sessCrcInv = r.sessCrc
  /\ r.word["state"].v \in {FREE, ACTIVE}
  /\ r.word["close_reason"].v # Junk
  /\ r.crc = RecordCrc(r)

\* llps_session_tmr_record_to_snapshot
RecordSnapshot(r) == [val |-> Reads(r.word), crc |-> Read(r.sessCrc, Junk)]

-----------------------------------------------------------------------------
(* llps_session_tmr_vote *)

NoSnapshot == [val |-> [f \in Fields |-> 0], crc |-> Junk]

\* A record behind a broken region guard is not looked at.
RepairedRecords ==
  [b \in BankIds |-> IF guard[b] THEN RepairRecord(rec[b]) ELSE rec[b]]

ValidBanks ==
  [b \in BankIds |-> /\ guard[b]
                     /\ RecordSecdedOk(rec[b])
                     /\ RecordValid(RepairedRecords[b])]

Snapshots ==
  [b \in BankIds |-> IF ValidBanks[b] THEN RecordSnapshot(RepairedRecords[b])
                     ELSE NoSnapshot]

VoteOk == HasMajority(ValidBanks, Snapshots)
Voted == Snapshots[FindMatchingPair(ValidBanks, Snapshots)]
Diverges(b) == Divergent(ValidBanks, Snapshots, Voted, b)

\* The words that SECDED corrected stay corrected also when the vote fails.
\* llps_session_tmr_repair_divergent_banks writes a bank's guard anew if needed.
Vote ==
  IF VoteOk
  THEN /\ rec' = [b \in BankIds |-> IF Diverges(b) THEN RecordOf(Voted)
                                    ELSE RepairedRecords[b]]
       /\ guard' = [b \in BankIds |-> guard[b] \/ Diverges(b)]
       /\ hitBanks' = {}
  ELSE /\ rec' = RepairedRecords
       /\ UNCHANGED <<guard, hitBanks>>

\* llps_session_tmr_write_all
WriteAll(snap) ==
  /\ rec' = [b \in BankIds |-> RecordOf(snap)]
  /\ guard' = [b \in BankIds |-> TRUE]
  /\ written' = snap
  /\ hitBanks' = {}

-----------------------------------------------------------------------------
(* Operations of llps_state.c *)

\* llps_session_refresh_crc: SECDED codes and CRC are computed over whatever
\* the canonical session holds, and the banks get the same.
Refreshed(s) ==
  LET n == RefreshSecded(s) IN [n EXCEPT !.crc = SessionCrc(n)]

RefreshCrc(s) ==
  /\ sess' = Refreshed(s)
  /\ WriteAll(SnapshotOf(Refreshed(s)))

\* The canonical session after the vote of llps_session_reconcile_integrity,
\* with SECDED repaired and the snapshot applied where it differs.
Reconciled ==
  LET s == RepairSession(sess)
      n == IF SecdedOk(sess) /\ ~Differs(s, Voted) THEN s ELSE Apply(s, Voted)
  IN RefreshSecded(n)

\* Mutant of ReconcileOk: the CRC of the banks is not compared.
ReconcileOkNoCrc ==
  LET s == [Reconciled EXCEPT !.crc = SessionCrc(Reconciled)]
  IN VoteOk /\ LocalIntegrity(s)

ReconcileOk ==
  LET s == [Reconciled EXCEPT !.crc = SessionCrc(Reconciled)]
  IN VoteOk /\ s.crc = Voted.crc /\ LocalIntegrity(s)

\* llps_session_reconcile_integrity (llps_session_is_active, _is_free)
Reconcile ==
  /\ phase \in {"up", "stopping"}
  /\ Vote
  /\ sess' = IF ~VoteOk THEN sess
             ELSE IF SessionCrc(Reconciled) = Voted.crc
                  THEN [Reconciled EXCEPT !.crc = SessionCrc(Reconciled)]
                  ELSE Reconciled
  /\ answer' = IF ReconcileOk THEN "ok" ELSE "fail"
  /\ hitSess' = (hitSess /\ ~ReconcileOk)
  /\ UNCHANGED <<phase, want, written, faults, tainted>>

\* A write of some fields: each gets its value and, if it has one, its inverse.
Assign(s, fs, vals) ==
  [s EXCEPT !.magic = IF "state" \in fs THEN vals["state"] ELSE @,
            !.word = [f \in Fields |-> IF f \in fs THEN Encode(vals[f])
                                       ELSE s.word[f]],
            !.inv = [f \in Guarded |-> IF f \in fs THEN Encode(vals[f])
                                       ELSE s.inv[f]]]

\* llps_session_reset_free and llps_session_prepare_active_with_peer write
\* every field and reset the pump arguments.
WriteWhole(vals) ==
  /\ RefreshCrc([Assign(sess, Fields, vals) EXCEPT !.pump = 0])
  /\ want' = [val |-> vals, pump |-> 0]
  /\ hitSess' = FALSE /\ tainted' = FALSE
  /\ answer' = "none"
  /\ UNCHANGED <<phase, faults>>

FreeFields == [f \in Fields |-> 0]
ActiveFields == [f \in Fields |-> IF f = "close_reason" THEN 0 ELSE 1]

\* llps_find_free_session accepts a slot that reconciles and is free.
Prepare ==
  /\ phase = "up"
  /\ answer = "ok" /\ sess.word["state"].v = FREE
  /\ WriteWhole(ActiveFields)

\* llps_close_session
Close ==
  /\ phase \in {"up", "stopping"}
  /\ want.val["state"] = ACTIVE
  /\ WriteWhole(FreeFields)

\* llps_session_touch, the ecc length of llps_payload_ecc_set_len_for_pump, the
\* backend fd: one field and a refresh.  Nothing is voted first.
WriteField(f, v) ==
  /\ RefreshCrc(Assign(sess, {f}, [g \in Fields |-> v]))
  /\ want' = [want EXCEPT !.val[f] = v]
  /\ tainted' = (tainted \/ hitSess)
  /\ answer' = "none"
  /\ UNCHANGED <<faults, hitSess>>

Touch ==
  /\ phase = "up"
  /\ want.val["state"] = ACTIVE
  /\ \E v \in {1, 2} : WriteField("client_fd", v)
  /\ UNCHANGED phase

\* llps_session_mark_close_reason of an active session
MarkCloseReason ==
  /\ phase = "up"
  /\ want.val["state"] = ACTIVE
  /\ WriteField("close_reason", 1)
  /\ UNCHANGED phase

\* llps_connection_prepare_pump_args
SetPumps ==
  /\ phase = "up"
  /\ want.val["state"] = ACTIVE
  /\ RefreshCrc([sess EXCEPT !.pump = 1])
  /\ want' = [want EXCEPT !.pump = 1]
  /\ tainted' = (tainted \/ hitSess)
  /\ answer' = "none"
  /\ UNCHANGED <<phase, faults, hitSess>>

\* llps_session_tmr_scrub_all for this slot: a vote without reconciling the
\* canonical session; a failed one marks METADATA_FAULT and stops the server.
Scrub ==
  /\ phase = "up"
  /\ IF VoteOk
     THEN /\ Vote
          /\ answer' = "none"
          /\ UNCHANGED <<sess, phase, want, written, faults, hitSess, tainted>>
     ELSE /\ WriteField("close_reason", 1)
          /\ phase' = "stopping"

-----------------------------------------------------------------------------
(* llps_session_tmr_startup_self_test: the verdict; records are put back *)

Spoil(r) == [r EXCEPT !.magic = FALSE]
ValidOf(rs) == [b \in BankIds |-> RecordValid(rs[b])]
SnapsOf(rs) == [b \in BankIds |-> RecordSnapshot(rs[b])]
Wins(rs) == HasMajority(ValidOf(rs), SnapsOf(rs))

SelfTestPasses ==
  LET good == [b \in BankIds |-> RecordOf(Voted)]
      hurt == [good EXCEPT ![0] = Spoil(@)]
      torn == [b \in BankIds |->
                 RecordOf([Voted EXCEPT !.val["client_fd"] = b])]
  IN /\ VoteOk
     /\ Wins(hurt) /\ SnapsOf(hurt)[FindMatchingPair(ValidOf(hurt),
                                                     SnapsOf(hurt))] = Voted
     /\ ~Wins(torn)
     /\ ~Wins([hurt EXCEPT ![1] = Spoil(@)])

\* The vote inside the test restores a broken region guard for good.
SelfTest ==
  /\ phase = "boot"
  /\ phase' = IF SelfTestPasses THEN "up" ELSE "failed"
  /\ guard' = IF VoteOk THEN [b \in BankIds |-> guard[b] \/ Diverges(b)] ELSE guard
  /\ UNCHANGED <<sess, rec, answer, want, written, faultVars>>

-----------------------------------------------------------------------------
(* Memory faults *)

Strike == faults < FaultMax /\ faults' = faults + 1
Flips == 1..3
Hit(w, n) == [w EXCEPT !.flips = n]

\* A word that has not been hit since it was encoded.
Fresh(w) == w.flips = 0

SessionHits ==
  {[sess EXCEPT !.word[f] = Hit(@, n)] :
     f \in {g \in Fields : Fresh(sess.word[g])}, n \in Flips}
  \cup {[sess EXCEPT !.inv[f] = Hit(@, n)] :
          f \in {g \in Guarded : Fresh(sess.inv[g])}, n \in Flips}
  \cup {[sess EXCEPT !.magic = Junk], [sess EXCEPT !.crc = Junk]}

SessionFault ==
  /\ Strike
  /\ \E s \in SessionHits : sess' = s
  /\ hitSess' = TRUE
  /\ answer' = "none"
  /\ UNCHANGED <<rec, guard, phase, want, written, hitBanks, tainted>>

PumpFault ==
  /\ Strike
  /\ sess' = [sess EXCEPT !.pump = Junk]
  /\ hitSess' = TRUE
  /\ answer' = "none"
  /\ UNCHANGED <<rec, guard, phase, want, written, hitBanks, tainted>>

RecordHits(r) ==
  {[r EXCEPT !.word[f] = Hit(@, n)] : f \in {g \in Fields : Fresh(r.word[g])}, n \in Flips}
  \cup {[r EXCEPT !.inv[f] = Hit(@, n)] : f \in {g \in Fields : Fresh(r.inv[g])}, n \in Flips}
  \cup {[r EXCEPT !.sessCrc = Hit(@, n)] : n \in Flips}
  \cup {[r EXCEPT !.magic = FALSE], [r EXCEPT !.crc = Junk]}

RecordFault(b) ==
  /\ Strike
  /\ \E r \in RecordHits(rec[b]) : rec' = [rec EXCEPT ![b] = r]
  /\ hitBanks' = hitBanks \cup {b}
  /\ answer' = "none"
  /\ UNCHANGED <<sess, guard, phase, want, written, hitSess, tainted>>

GuardFault(b) ==
  /\ Strike
  /\ guard' = [guard EXCEPT ![b] = FALSE]
  /\ hitBanks' = hitBanks \cup {b}
  /\ answer' = "none"
  /\ UNCHANGED <<sess, rec, phase, want, written, hitSess, tainted>>

\* llps_init has written the region guards and reset the slot.
InitSession ==
  Refreshed([magic |-> FREE, word |-> EncodeAll(FreeFields),
             inv |-> [f \in Guarded |-> Encode(0)], pump |-> 0, crc |-> Junk])

Init ==
  /\ sess = InitSession
  /\ rec = [b \in BankIds |-> RecordOf(SnapshotOf(InitSession))]
  /\ guard = [b \in BankIds |-> TRUE]
  /\ phase = "boot" /\ answer = "none"
  /\ want = [val |-> FreeFields, pump |-> 0]
  /\ written = SnapshotOf(InitSession)
  /\ faults = 0 /\ hitBanks = {} /\ hitSess = FALSE /\ tainted = FALSE

Operation ==
  \/ SelfTest \/ Reconcile \/ Prepare \/ Close
  \/ Touch \/ MarkCloseReason \/ SetPumps \/ Scrub

Fault ==
  \/ SessionFault \/ PumpFault
  \/ \E b \in BankIds : RecordFault(b) \/ GuardFault(b)

Next == Operation \/ Fault

Spec == Init /\ [][Next]_vars

-----------------------------------------------------------------------------
WordOk(w) == w.flips \in 0..3

\* Words, records, guards and histories keep their shape.
TypeOK ==
  /\ DOMAIN sess.word = Fields /\ DOMAIN sess.inv = Guarded
  /\ \A f \in Fields : WordOk(sess.word[f])
  /\ \A b \in BankIds, f \in Fields :
       WordOk(rec[b].word[f]) /\ WordOk(rec[b].inv[f])
  /\ guard \in [BankIds -> BOOLEAN]
  /\ phase \in {"boot", "up", "stopping", "failed"}
  /\ answer \in {"none", "ok", "fail"}
  /\ hitBanks \subseteq BankIds
  /\ faults \in 0..FaultMax

\* When reconciling a session succeeds, every field with an inverse is what the
\* program last assigned to it, even if a fault was copied into all three
\* banks by an unvoted refresh in between; and as long as no struck session
\* was copied, every field and the pump arguments are.
AnswerTrue ==
  answer = "ok" =>
    /\ \A f \in Guarded : Reads(sess.word)[f] = want.val[f]
    /\ ~tainted => Reads(sess.word) = want.val /\ sess.pump = want.pump

\* A bank that passes validation after its SECDED repair, record CRC
\* recomputed or not, holds what was last written to it: a miscorrected word
\* never gets a seal.
NoForgedBank ==
  \A b \in BankIds : ValidBanks[b] => Snapshots[b] = written

\* With the shape of words, records and guards.
BanksSound == TypeOK /\ NoForgedBank

\* A session is given up only for two struck banks, struck pump arguments, or
\* a struck canonical session that a refresh had copied to the banks.
FailJustified ==
  answer = "fail" =>
    Cardinality(hitBanks) >= 2 \/ tainted \/ sess.pump # want.pump
=============================================================================
