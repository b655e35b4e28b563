-------------------------- MODULE SessionStoreProofs --------------------------
(***************************************************************************)
(* The session records on triplicated memory for any number of memory      *)
(* faults: no bank that passes validation is forged, a successful          *)
(* reconcile tells the truth, and a session is given up only for a reason. *)
(*                                                                         *)
(* The argument: every word of a bank is the one last written or junk      *)
(* (BankKept), and its inverse the one last written or another junk, so a  *)
(* bank whose words and inverses agree is the one last written; a bank     *)
(* that was not struck is it exactly.  Every word of the canonical session *)
(* is what the program assigned or junk (SessKept).  As long as no struck  *)
(* session was copied to the banks, they hold what the program assigned,   *)
(* and a session that was not struck is exact (Histories).  A vote that    *)
(* succeeds yields what was last written (VoteIsWritten), and reconciling  *)
(* makes the session read like it (ReconciledIs).                          *)
(***************************************************************************)
EXTENDS SessionStore, TLAPS, FiniteSetTheorems

-----------------------------------------------------------------------------
(* The inductive invariant *)

\* A word that was encoded from v, or repaired into junk, and perhaps hit.
Word(v, junk) == [v : {v, junk}, flips : 0..3]

\* A bank's record was written from snap and hit and repaired since.
BankKept(r, snap) ==
  /\ r = [magic |-> r.magic, word |-> r.word, inv |-> r.inv, sessCrc |-> r.sessCrc,
          sessCrcInv |-> r.sessCrcInv, crc |-> r.crc]
  /\ r.word = [f \in Fields |-> r.word[f]]
  /\ r.inv = [f \in Fields |-> r.inv[f]]
  /\ \A f \in Fields : /\ r.word[f] \in Word(snap.val[f], Junk)
                       /\ r.inv[f] \in Word(snap.val[f], JunkInverse)
  /\ r.sessCrc \in Word(snap.crc, Junk)
  /\ r.sessCrcInv \in Word(snap.crc, JunkInverse)

\* The canonical session holds what the program wants, or junk.
SessKept(s, vals) ==
  /\ s = [magic |-> s.magic, word |-> s.word, inv |-> s.inv, pump |-> s.pump, crc |-> s.crc]
  /\ s.word = [f \in Fields |-> s.word[f]]
  /\ s.inv = [f \in Guarded |-> s.inv[f]]
  /\ \A f \in Fields : s.word[f] \in Word(vals[f], Junk)
  /\ \A f \in Guarded : s.inv[f] = [v |-> s.inv[f].v, flips |-> s.inv[f].flips]

\* The CRC of a session that holds exactly w, and that session.
CrcOf(w) ==
  [magic |-> w.val["state"], words |-> w.val,
   inverses |-> [f \in Guarded |-> w.val[f]], pump |-> w.pump]

Exact(w) ==
  [magic |-> w.val["state"], word |-> [f \in Fields |-> Encode(w.val[f])],
   inv |-> [f \in Guarded |-> Encode(w.val[f])], pump |-> w.pump, crc |-> CrcOf(w)]

\* What the program may want of a session.
WantOk(w) ==
  /\ w = [val |-> w.val, pump |-> w.pump]
  /\ w.val \in [Fields -> 0..2]
  /\ w.val["state"] \in {FREE, ACTIVE}

Shapes ==
  /\ guard \in [BankIds -> BOOLEAN]
  /\ rec = [b \in BankIds |-> rec[b]]
  /\ phase \in {"boot", "up", "stopping", "failed"}
  /\ answer \in {"none", "ok", "fail"}
  /\ hitBanks \subseteq BankIds
  /\ faults \in 0..FaultMax
  /\ hitSess \in BOOLEAN /\ tainted \in BOOLEAN
  /\ WantOk(want)
  /\ written = [val |-> written.val, crc |-> written.crc]
  /\ written.val = [f \in Fields |-> written.val[f]]
  /\ \A f \in Fields : written.val[f] \in {want.val[f], Junk}

Banks ==
  \A b \in BankIds :
    /\ BankKept(rec[b], written)
    /\ b \notin hitBanks => guard[b] /\ rec[b] = RecordOf(written)

Histories ==
  /\ ~tainted => written = [val |-> want.val, crc |-> CrcOf(want)]
  /\ ~tainted /\ ~hitSess => sess = Exact(want)

SessInv == /\ Shapes /\ Banks /\ SessKept(sess, want.val) /\ Histories
           /\ AnswerTrue /\ FailJustified

-----------------------------------------------------------------------------
(* Words *)

LEMMA Encoded ==
  ASSUME NEW v, NEW junk
  PROVE  /\ Encode(v) \in Word(v, junk)
         /\ Encode(v).v = v /\ Encode(v).flips = 0
         /\ Read(Encode(v), junk) = v /\ Repair(Encode(v), junk) = Encode(v)
         /\ ~Uncorrectable(Encode(v)) /\ ~Corrected(Encode(v))
BY DEF Encode, Word, Read, Repair, Uncorrectable, Corrected

\* llps_secded_repair_u32 turns a word into itself or into junk.
LEMMA Kept ==
  ASSUME NEW v, NEW junk, NEW w \in Word(v, junk)
  PROVE  /\ Repair(w, junk) \in Word(v, junk)
         /\ Read(w, junk) \in {v, junk}
         /\ \A n \in Flips : Hit(w, n) \in Word(v, junk)
         /\ w.flips = 0 => w = Encode(w.v) /\ w.v \in {v, junk}
         /\ w.flips \in 0..3
<1>1. w = [v |-> w.v, flips |-> w.flips] /\ w.v \in {v, junk} /\ w.flips \in 0..3
  BY DEF Word
<1>2. Encode(w.v) \in Word(v, junk) /\ Encode(junk) \in Word(v, junk)
  BY <1>1 DEF Encode, Word
<1>3. Repair(w, junk) \in Word(v, junk)
  <2>1. CASE w.flips = 1
    BY <2>1, <1>2 DEF Repair
  <2>2. CASE w.flips = 3
    BY <2>2, <1>2 DEF Repair
  <2>3. CASE w.flips \notin {1, 3}
    BY <2>3 DEF Repair
  <2>. QED
    BY <2>1, <2>2, <2>3
<1>4. \A n \in Flips : Hit(w, n) \in Word(v, junk)
  BY <1>1 DEF Hit, Word, Flips
<1>5. w.flips = 0 => w = Encode(w.v)
  BY <1>1 DEF Encode
<1>. QED
  BY <1>1, <1>3, <1>4, <1>5 DEF Read

\* A word and its inverse that read alike are the ones written: the junk of the
\* one is never the complement of the junk of the other.
LEMMA Agreeing ==
  ASSUME NEW v, NEW w \in Word(v, Junk), NEW x \in Word(v, JunkInverse), w = x, w.flips = 0
  PROVE  w = Encode(v)
<1>1. w = Encode(w.v) /\ w.v \in {v, Junk} /\ w.v \in {v, JunkInverse}
  BY Kept
<1>. QED
  BY <1>1, SessionAssumption

-----------------------------------------------------------------------------
(* Bank records *)

\* The shape of a snapshot.
Snapshot(snap) ==
  /\ snap = [val |-> snap.val, crc |-> snap.crc]
  /\ snap.val = [f \in Fields |-> snap.val[f]]

\* llps_session_tmr_record_from_snapshot, spelled out.
Sealed(snap) ==
  [magic |-> TRUE, word |-> [f \in Fields |-> Encode(snap.val[f])],
   inv |-> [f \in Fields |-> Encode(snap.val[f])], sessCrc |-> Encode(snap.crc),
   sessCrcInv |-> Encode(snap.crc),
   crc |-> [words |-> snap.val, inverses |-> snap.val, sess |-> <<snap.crc, snap.crc>>]]

LEMMA EncodedReads ==
  ASSUME NEW D, NEW val, val = [f \in D |-> val[f]], NEW ws, ws = [f \in D |-> Encode(val[f])]
  PROVE  /\ EncodeAll(val) = ws /\ DOMAIN ws = D
         /\ Reads(ws) = val /\ ReadsInverse(ws) = val
         /\ RepairAll(ws, Junk) = ws /\ RepairAll(ws, JunkInverse) = ws
         /\ Clean(ws) /\ ~Some(Uncorrectable, ws) /\ ~Some(Corrected, ws)
<1>1. DOMAIN val = D /\ DOMAIN ws = D /\ \A f \in D : ws[f] = Encode(val[f])
  OBVIOUS
<1>2. \A f \in D : /\ Read(ws[f], Junk) = val[f] /\ Read(ws[f], JunkInverse) = val[f]
                   /\ Repair(ws[f], Junk) = ws[f] /\ Repair(ws[f], JunkInverse) = ws[f]
                   /\ ws[f].flips = 0 /\ ~Uncorrectable(ws[f]) /\ ~Corrected(ws[f])
  BY <1>1, Encoded
<1>3. EncodeAll(val) = ws
  BY <1>1 DEF EncodeAll
<1>4. Reads(ws) = val /\ ReadsInverse(ws) = val
  BY <1>1, <1>2 DEF Reads, ReadsInverse
<1>5. RepairAll(ws, Junk) = ws /\ RepairAll(ws, JunkInverse) = ws
  BY <1>1, <1>2 DEF RepairAll
<1>6. Clean(ws) /\ ~Some(Uncorrectable, ws) /\ ~Some(Corrected, ws)
  BY <1>1, <1>2 DEF Clean, Some
<1>. QED
  BY <1>1, <1>3, <1>4, <1>5, <1>6

LEMMA RecordSealed ==
  ASSUME NEW snap, Snapshot(snap)
  PROVE  RecordOf(snap) = Sealed(snap)
<1>. DEFINE ws == [f \in Fields |-> Encode(snap.val[f])]
            r == [magic |-> TRUE, word |-> ws, inv |-> ws, sessCrc |-> Encode(snap.crc),
                  sessCrcInv |-> Encode(snap.crc), crc |-> Junk]
<1>1. EncodeAll(snap.val) = ws /\ Reads(ws) = snap.val /\ ReadsInverse(ws) = snap.val
  BY EncodedReads DEF Snapshot
<1>2. RecordOf(snap) = [r EXCEPT !.crc = RecordCrc(r)]
  BY <1>1 DEF RecordOf
<1>. HIDE DEF ws
<1>3. RecordCrc(r) = [words |-> snap.val, inverses |-> snap.val, sess |-> <<snap.crc, snap.crc>>]
  BY <1>1, Encoded DEF RecordCrc
<1>4. RecordOf(snap) = [magic |-> TRUE, word |-> ws, inv |-> ws, sessCrc |-> Encode(snap.crc),
                        sessCrcInv |-> Encode(snap.crc), crc |-> RecordCrc(r)]
  BY <1>2
<1>. QED
  BY <1>3, <1>4 DEF Sealed, ws

RecordShape(r) ==
  r = [magic |-> r.magic, word |-> r.word, inv |-> r.inv, sessCrc |-> r.sessCrc,
       sessCrcInv |-> r.sessCrcInv, crc |-> r.crc]

\* llps_session_tmr_record_repair_secded before it looks at the CRC.
Mended(r) ==
  [magic |-> r.magic, word |-> RepairAll(r.word, Junk), inv |-> RepairAll(r.inv, JunkInverse),
   sessCrc |-> Repair(r.sessCrc, Junk), sessCrcInv |-> Repair(r.sessCrcInv, JunkInverse),
   crc |-> r.crc]

LEMMA RepairsRecord ==
  ASSUME NEW r, RecordShape(r)
  PROVE  /\ RecordShape(Mended(r))
         /\ RepairRecord(r) = IF RecordSecdedOk(r) /\ RecordCorrected(r)
                              THEN [Mended(r) EXCEPT !.crc = RecordCrc(Mended(r))]
                              ELSE Mended(r)
<1>. DEFINE word == RepairAll(r.word, Junk)
            inv == RepairAll(r.inv, JunkInverse)
            sessCrc == Repair(r.sessCrc, Junk)
            sessCrcInv == Repair(r.sessCrcInv, JunkInverse)
            n == [r EXCEPT !.word = RepairAll(@, Junk), !.inv = RepairAll(@, JunkInverse),
                           !.sessCrc = Repair(@, Junk), !.sessCrcInv = Repair(@, JunkInverse)]
<1>1. RepairRecord(r) = IF RecordSecdedOk(r) /\ RecordCorrected(r)
                        THEN [n EXCEPT !.crc = RecordCrc(n)] ELSE n
  BY DEF RepairRecord
<1>2. n = [r EXCEPT !.word = word, !.inv = inv, !.sessCrc = sessCrc, !.sessCrcInv = sessCrcInv]
  OBVIOUS
<1>3. Mended(r) = [magic |-> r.magic, word |-> word, inv |-> inv, sessCrc |-> sessCrc,
                   sessCrcInv |-> sessCrcInv, crc |-> r.crc]
  BY DEF Mended
<1>. HIDE DEF word, inv, sessCrc, sessCrcInv, n
<1>. DEFINE n1 == [r EXCEPT !.word = word]
            n2 == [n1 EXCEPT !.inv = inv]
            n3 == [n2 EXCEPT !.sessCrc = sessCrc]
            n4 == [n3 EXCEPT !.sessCrcInv = sessCrcInv]
<1>4. n = n4
  BY <1>2
<1>5. n1 = [magic |-> r.magic, word |-> word, inv |-> r.inv, sessCrc |-> r.sessCrc,
            sessCrcInv |-> r.sessCrcInv, crc |-> r.crc]
  BY DEF RecordShape
<1>. HIDE DEF n1
<1>6. n2 = [magic |-> r.magic, word |-> word, inv |-> inv, sessCrc |-> r.sessCrc,
            sessCrcInv |-> r.sessCrcInv, crc |-> r.crc]
  BY <1>5
<1>. HIDE DEF n2
<1>7. n3 = [magic |-> r.magic, word |-> word, inv |-> inv, sessCrc |-> sessCrc,
            sessCrcInv |-> r.sessCrcInv, crc |-> r.crc]
  BY <1>6
<1>. HIDE DEF n3
<1>8. n4 = [magic |-> r.magic, word |-> word, inv |-> inv, sessCrc |-> sessCrc,
            sessCrcInv |-> sessCrcInv, crc |-> r.crc]
  BY <1>7
<1>. HIDE DEF n4
<1>9. n = Mended(r)
  BY <1>3, <1>4, <1>8
<1>10. RecordShape(Mended(r))
  BY <1>3 DEF RecordShape
<1>. QED
  BY <1>1, <1>9, <1>10

\* A record as it was written: kept, without anything to repair, and worth its
\* snapshot in the vote if the two guarded fields are in range.
LEMMA SealedFacts ==
  ASSUME NEW snap, Snapshot(snap), NEW r, r = RecordOf(snap)
  PROVE  /\ BankKept(r, snap)
         /\ RecordSecdedOk(r) /\ RepairRecord(r) = r
         /\ RecordSnapshot(r) = snap
         /\ snap.val["state"] \in {FREE, ACTIVE} /\ snap.val["close_reason"] # Junk =>
              RecordValid(r)
<1>. DEFINE ws == [f \in Fields |-> Encode(snap.val[f])]
<1>1. /\ Reads(ws) = snap.val /\ ReadsInverse(ws) = snap.val
      /\ RepairAll(ws, Junk) = ws /\ RepairAll(ws, JunkInverse) = ws
      /\ Clean(ws) /\ ~Some(Uncorrectable, ws) /\ ~Some(Corrected, ws)
  BY EncodedReads DEF Snapshot
<1>2. \A f \in Fields : ws[f] = Encode(snap.val[f])
  OBVIOUS
<1>3. ws = [f \in Fields |-> ws[f]]
  OBVIOUS
<1>4. r = [magic |-> TRUE, word |-> ws, inv |-> ws, sessCrc |-> Encode(snap.crc),
           sessCrcInv |-> Encode(snap.crc),
           crc |-> [words |-> snap.val, inverses |-> snap.val, sess |-> <<snap.crc, snap.crc>>]]
  BY RecordSealed DEF Sealed
<1>. HIDE DEF ws
<1>5. /\ r.magic = TRUE /\ r.word = ws /\ r.inv = ws /\ r.sessCrc = Encode(snap.crc)
      /\ r.sessCrcInv = Encode(snap.crc)
      /\ r.crc = [words |-> snap.val, inverses |-> snap.val, sess |-> <<snap.crc, snap.crc>>]
      /\ r = [magic |-> r.magic, word |-> r.word, inv |-> r.inv, sessCrc |-> r.sessCrc,
              sessCrcInv |-> r.sessCrcInv, crc |-> r.crc]
  BY <1>4
<1>6. BankKept(r, snap)
  <2>1. \A f \in Fields : ws[f] \in Word(snap.val[f], Junk) /\ ws[f] \in Word(snap.val[f], JunkInverse)
    BY <1>2, Encoded
  <2>2. Encode(snap.crc) \in Word(snap.crc, Junk) /\ Encode(snap.crc) \in Word(snap.crc, JunkInverse)
    BY Encoded
  <2>. QED
    BY <1>3, <1>5, <2>1, <2>2 DEF BankKept
<1>7. RecordSecdedOk(r) /\ ~RecordCorrected(r)
  BY <1>1, <1>5, Encoded DEF RecordSecdedOk, RecordCorrected
<1>8. RepairRecord(r) = r
  <2>1. Repair(Encode(snap.crc), Junk) = Encode(snap.crc)
        /\ Repair(Encode(snap.crc), JunkInverse) = Encode(snap.crc)
    BY Encoded
  <2>2. Mended(r) = r
    BY <1>1, <1>4, <1>5, <2>1 DEF Mended
  <2>. QED
    BY <1>5, <1>7, <2>2, RepairsRecord DEF RecordShape
<1>9. RecordSnapshot(r) = snap
  BY <1>1, <1>5, Encoded DEF RecordSnapshot, Snapshot
<1>10. ASSUME snap.val["state"] \in {FREE, ACTIVE}, snap.val["close_reason"] # Junk
       PROVE  RecordValid(r)
  <2>1. ws["state"].v = snap.val["state"] /\ ws["close_reason"].v = snap.val["close_reason"]
    BY <1>2, Encoded DEF Fields
  <2>2. r.crc = RecordCrc(r)
    BY <1>1, <1>5, Encoded DEF RecordCrc
  <2>. QED
    BY <1>1, <1>5, <1>10, <2>1, <2>2, Encoded DEF RecordValid
<1>. QED
  BY <1>6, <1>7, <1>8, <1>9, <1>10

LEMMA RepairKeeps ==
  ASSUME NEW snap, NEW r, BankKept(r, snap)
  PROVE  BankKept(RepairRecord(r), snap)
<1>. DEFINE word == RepairAll(r.word, Junk)
            inv == RepairAll(r.inv, JunkInverse)
<1>1. r = [magic |-> r.magic, word |-> r.word, inv |-> r.inv, sessCrc |-> r.sessCrc,
           sessCrcInv |-> r.sessCrcInv, crc |-> r.crc]
  BY DEF BankKept
<1>2. DOMAIN r.word = Fields /\ DOMAIN r.inv = Fields
  BY DEF BankKept
<1>3. /\ word = [f \in Fields |-> Repair(r.word[f], Junk)]
      /\ inv = [f \in Fields |-> Repair(r.inv[f], JunkInverse)]
  BY <1>2 DEF RepairAll
<1>4. /\ word = [f \in Fields |-> word[f]] /\ inv = [f \in Fields |-> inv[f]]
      /\ \A f \in Fields : /\ word[f] \in Word(snap.val[f], Junk)
                           /\ inv[f] \in Word(snap.val[f], JunkInverse)
  <2>1. \A f \in Fields : /\ Repair(r.word[f], Junk) \in Word(snap.val[f], Junk)
                          /\ Repair(r.inv[f], JunkInverse) \in Word(snap.val[f], JunkInverse)
    BY Kept DEF BankKept
  <2>. HIDE DEF word, inv
  <2>. QED
    BY <2>1, <1>3
<1>5. /\ Repair(r.sessCrc, Junk) \in Word(snap.crc, Junk)
      /\ Repair(r.sessCrcInv, JunkInverse) \in Word(snap.crc, JunkInverse)
  BY Kept DEF BankKept
<1>6. PICK c : RepairRecord(r) = [magic |-> r.magic, word |-> word, inv |-> inv,
                                  sessCrc |-> Repair(r.sessCrc, Junk),
                                  sessCrcInv |-> Repair(r.sessCrcInv, JunkInverse), crc |-> c]
  <2>. DEFINE n == Mended(r)
              crc == RecordCrc(n)
  <2>1. n = [magic |-> r.magic, word |-> word, inv |-> inv, sessCrc |-> Repair(r.sessCrc, Junk),
             sessCrcInv |-> Repair(r.sessCrcInv, JunkInverse), crc |-> r.crc]
    BY DEF Mended
  <2>2. RepairRecord(r) = n \/ RepairRecord(r) = [n EXCEPT !.crc = crc]
    BY <1>1, RepairsRecord DEF RecordShape
  <2>. HIDE DEF word, inv, crc, n
  <2>3. [n EXCEPT !.crc = crc] =
          [magic |-> r.magic, word |-> word, inv |-> inv, sessCrc |-> Repair(r.sessCrc, Junk),
           sessCrcInv |-> Repair(r.sessCrcInv, JunkInverse), crc |-> crc]
    BY <2>1
  <2>. QED
    BY <2>1, <2>2, <2>3
<1>. HIDE DEF word, inv
<1>7. /\ RepairRecord(r).magic = r.magic /\ RepairRecord(r).word = word
      /\ RepairRecord(r).inv = inv /\ RepairRecord(r).sessCrc = Repair(r.sessCrc, Junk)
      /\ RepairRecord(r).sessCrcInv = Repair(r.sessCrcInv, JunkInverse)
      /\ RepairRecord(r).crc = c
  BY <1>6
<1>. QED
  BY <1>4, <1>5, <1>6, <1>7 DEF BankKept

\* A record that passes llps_session_tmr_record_is_valid is the one written.
LEMMA Validated ==
  ASSUME NEW snap, Snapshot(snap), NEW r, BankKept(r, snap), RecordValid(r)
  PROVE  r = RecordOf(snap)
<1>. DEFINE ws == [f \in Fields |-> Encode(snap.val[f])]
<1>1. /\ r.word = [f \in Fields |-> r.word[f]] /\ r.inv = r.word
      /\ \A f \in Fields : /\ r.word[f] \in Word(snap.val[f], Junk)
                           /\ r.inv[f] \in Word(snap.val[f], JunkInverse)
      /\ r = [magic |-> r.magic, word |-> r.word, inv |-> r.inv, sessCrc |-> r.sessCrc,
              sessCrcInv |-> r.sessCrcInv, crc |-> r.crc]
  BY DEF BankKept, RecordValid
<1>2. \A f \in Fields : r.word[f].flips = 0
  BY <1>1 DEF RecordValid, Clean
<1>3. \A f \in Fields : r.word[f] = Encode(snap.val[f])
  BY <1>1, <1>2, Agreeing
<1>4. r.word = ws
  BY <1>1, <1>3
<1>5. r.sessCrc = Encode(snap.crc) /\ r.sessCrcInv = Encode(snap.crc)
  BY Agreeing DEF BankKept, RecordValid
<1>6. Reads(ws) = snap.val /\ ReadsInverse(ws) = snap.val
  BY EncodedReads DEF Snapshot
<1>. HIDE DEF ws
<1>7. r.crc = [words |-> snap.val, inverses |-> snap.val, sess |-> <<snap.crc, snap.crc>>]
  BY <1>1, <1>4, <1>5, <1>6, Encoded DEF RecordValid, RecordCrc
<1>8. r.magic = TRUE
  BY DEF RecordValid
<1>9. r = Sealed(snap)
  BY <1>1, <1>4, <1>5, <1>7, <1>8 DEF Sealed, ws
<1>. QED
  BY <1>9, RecordSealed

-----------------------------------------------------------------------------
(* llps_session_tmr_vote *)

\* Two valid banks that agree are all a vote needs.
LEMMA PairIsMajority ==
  ASSUME NEW v \in [BankIds -> BOOLEAN], NEW s,
         NEW i \in BankIds, NEW j \in BankIds, i # j, v[i], v[j], s[i] = s[j]
  PROVE  HasMajority(v, s)
<1>. DEFINE S == {b \in BankIds : v[b]}
<1>1. IsFiniteSet(BankIds)
  <2>1. 0 \in Int /\ 2 \in Int
    OBVIOUS
  <2>. QED
    BY <2>1, FS_Interval, ZenonT(30) DEF BankIds
<1>2. IsFiniteSet(S)
  BY <1>1, FS_Subset
<1>3. IsFiniteSet({i, j}) /\ Cardinality({i, j}) = 2
  <2>1. IsFiniteSet({i}) /\ Cardinality({i}) = 1
    BY FS_Singleton
  <2>2. {i} \cup {j} = {i, j} /\ j \notin {i}
    OBVIOUS
  <2>. QED
    BY <2>1, <2>2, FS_AddElement
<1>4. {i, j} \subseteq S
  OBVIOUS
<1>5. Cardinality({i, j}) <= Cardinality(S)
  BY <1>2, <1>4, FS_Subset
<1>6. Cardinality(S) \in Nat
  BY <1>2, FS_CardinalityType
<1>7. ValidCount(v) >= 2
  BY <1>3, <1>5, <1>6 DEF ValidCount
<1>8. FindMatchingPair(v, s) # NoPair
  BY DEF FindMatchingPair, Agree, NoPair, BankIds
<1>. QED
  BY <1>7, <1>8 DEF HasMajority

\* The bank a vote picks is valid.
LEMMA MajorityValid ==
  ASSUME NEW v, NEW s, HasMajority(v, s)
  PROVE  FindMatchingPair(v, s) \in BankIds /\ v[FindMatchingPair(v, s)]
BY DEF HasMajority, FindMatchingPair, Agree, NoPair, BankIds

\* Of two banks that are not struck, both are found whatever the third holds.
LEMMA TwoLeft ==
  ASSUME NEW H \in SUBSET BankIds, ~(Cardinality(H) >= 2)
  PROVE  \E i, j \in BankIds \ H : i # j
<1>. SUFFICES ASSUME \A i, j \in BankIds \ H : i = j
              PROVE  FALSE
  OBVIOUS
<1>1. PICK i, j \in H : i # j
  BY DEF BankIds
<1>2. IsFiniteSet(H)
  <2>1. 0 \in Int /\ 2 \in Int
    OBVIOUS
  <2>2. IsFiniteSet(BankIds)
    BY <2>1, FS_Interval, ZenonT(30) DEF BankIds
  <2>. QED
    BY <2>2, FS_Subset
<1>3. IsFiniteSet({i, j}) /\ Cardinality({i, j}) = 2
  <2>1. IsFiniteSet({i}) /\ Cardinality({i}) = 1
    BY FS_Singleton
  <2>2. {i} \cup {j} = {i, j} /\ j \notin {i}
    BY <1>1
  <2>. QED
    BY <2>1, <2>2, FS_AddElement
<1>4. Cardinality({i, j}) <= Cardinality(H)
  BY <1>2, FS_Subset
<1>5. Cardinality(H) \in Nat
  BY <1>2, FS_CardinalityType
<1>. QED
  BY <1>3, <1>4, <1>5

\* A bank that takes part in the vote holds what was last written.
LEMMA ValidIsWritten ==
  ASSUME Shapes, Banks, NEW b \in BankIds
  PROVE  /\ ValidBanks[b] \in BOOLEAN
         /\ BankKept(RepairedRecords[b], written)
         /\ ValidBanks[b] => /\ RepairedRecords[b] = RecordOf(written)
                             /\ Snapshots[b] = written
<1>1. Snapshot(written) /\ BankKept(rec[b], written)
  BY DEF Shapes, Banks, Snapshot
<1>2. BankKept(RepairedRecords[b], written)
  BY <1>1, RepairKeeps DEF RepairedRecords
<1>3. ValidBanks[b] = (guard[b] /\ RecordSecdedOk(rec[b]) /\ RecordValid(RepairedRecords[b]))
  BY DEF ValidBanks
<1>4. ASSUME ValidBanks[b]
      PROVE  RepairedRecords[b] = RecordOf(written) /\ Snapshots[b] = written
  <2>1. RepairedRecords[b] = RecordOf(written)
    BY <1>1, <1>2, <1>3, <1>4, Validated
  <2>2. RecordSnapshot(RepairedRecords[b]) = written
    BY <1>1, <2>1, SealedFacts
  <2>. QED
    BY <1>4, <2>1, <2>2 DEF Snapshots
<1>. QED
  BY <1>2, <1>3, <1>4

LEMMA VotesTyped == ValidBanks \in [BankIds -> BOOLEAN]
BY DEF ValidBanks, RecordSecdedOk, RecordValid

LEMMA VoteIsWritten ==
  ASSUME Shapes, Banks, VoteOk
  PROVE  Voted = written
BY ValidIsWritten, MajorityValid DEF VoteOk, Voted

\* llps_session_tmr_vote leaves banks that hold what was last written; after a
\* vote that succeeded all of them do.
LEMMA VoteKeeps ==
  ASSUME Shapes, Banks, Vote, written' = written
  PROVE  /\ Banks' /\ rec' = [b \in BankIds |-> rec'[b]]
         /\ guard' \in [BankIds -> BOOLEAN] /\ hitBanks' \subseteq hitBanks
         /\ VoteOk => hitBanks' = {}
         /\ ~VoteOk => hitBanks' = hitBanks
<1>0. Snapshot(written) /\ hitBanks \subseteq BankIds /\ guard \in [BankIds -> BOOLEAN]
  BY DEF Shapes, Snapshot
<1>1. CASE VoteOk
  <2>1. /\ rec' = [b \in BankIds |-> IF Diverges(b) THEN RecordOf(written)
                                                   ELSE RepairedRecords[b]]
        /\ guard' = [b \in BankIds |-> guard[b] \/ Diverges(b)] /\ hitBanks' = {}
    BY <1>1, VoteIsWritten DEF Vote
  <2>2. ASSUME NEW b \in BankIds
        PROVE  rec'[b] = RecordOf(written) /\ guard'[b]
    <3>1. CASE Diverges(b)
      BY <2>1, <3>1
    <3>2. CASE ~Diverges(b)
      <4>1. ValidBanks[b]
        BY <3>2 DEF Diverges, Divergent
      <4>2. guard[b]
        BY <4>1 DEF ValidBanks
      <4>. QED
        BY <2>1, <3>2, <4>1, <4>2, ValidIsWritten
    <3>. QED
      BY <3>1, <3>2
  <2>3. guard' \in [BankIds -> BOOLEAN]
    BY <2>1, <2>2
  <2>4. Banks'
    BY <2>2, <1>0, SealedFacts DEF Banks
  <2>. QED
    BY <1>1, <2>1, <2>3, <2>4
<1>2. CASE ~VoteOk
  <2>1. rec' = RepairedRecords /\ guard' = guard /\ hitBanks' = hitBanks
    BY <1>2 DEF Vote
  <2>2. ASSUME NEW b \in BankIds, b \notin hitBanks
        PROVE  guard[b] /\ RepairedRecords[b] = RecordOf(written)
    BY <1>0, <2>2, SealedFacts DEF Banks, RepairedRecords
  <2>3. Banks'
    BY <2>1, <2>2, ValidIsWritten DEF Banks
  <2>4. rec' = [b \in BankIds |-> rec'[b]]
    BY <2>1 DEF RepairedRecords
  <2>. QED
    BY <1>0, <1>2, <2>1, <2>3, <2>4
<1>. QED
  BY <1>1, <1>2

\* Two banks that were not struck carry every vote, if what was last written
\* is in range.
LEMMA VoteSucceeds ==
  ASSUME Shapes, Banks, ~(Cardinality(hitBanks) >= 2),
         written.val["state"] \in {FREE, ACTIVE}, written.val["close_reason"] # Junk
  PROVE  VoteOk
<1>1. PICK i, j \in BankIds \ hitBanks : i # j
  BY TwoLeft DEF Shapes
<1>2. Snapshot(written)
  BY DEF Shapes, Snapshot
<1>3. ASSUME NEW b \in BankIds \ hitBanks
      PROVE  ValidBanks[b]
  <2>1. guard[b] /\ rec[b] = RecordOf(written)
    BY DEF Banks
  <2>2. RecordSecdedOk(rec[b]) /\ RepairedRecords[b] = rec[b] /\ RecordValid(rec[b])
    BY <1>2, <2>1, SealedFacts DEF RepairedRecords
  <2>. QED
    BY <2>1, <2>2 DEF ValidBanks
<1>4. ValidBanks[i] /\ ValidBanks[j] /\ Snapshots[i] = Snapshots[j]
  BY <1>3, ValidIsWritten
<1>. QED
  BY <1>1, <1>4, VotesTyped, PairIsMajority DEF VoteOk

-----------------------------------------------------------------------------
(* Writing the canonical session *)

\* llps_session_refresh_secded and llps_session_refresh_crc, spelled out.
ReadWords(s) == [f \in Fields |-> Read(s.word[f], Junk)]
ReadInverses(s) == [f \in Guarded |-> Read(s.inv[f], JunkInverse)]

SessShape(s) ==
  /\ s = [magic |-> s.magic, word |-> s.word, inv |-> s.inv, pump |-> s.pump, crc |-> s.crc]
  /\ s.word = [f \in Fields |-> s.word[f]]
  /\ s.inv = [f \in Guarded |-> s.inv[f]]

CrcFrom(s) ==
  [magic |-> s.magic, words |-> ReadWords(s), inverses |-> ReadInverses(s), pump |-> s.pump]

LEMMA CrcReads ==
  ASSUME NEW s, SessShape(s)
  PROVE  /\ Reads(s.word) = ReadWords(s) /\ ReadsInverse(s.inv) = ReadInverses(s)
         /\ SessionCrc(s) = CrcFrom(s)
<1>1. DOMAIN s.word = Fields /\ DOMAIN s.inv = Guarded
  BY DEF SessShape
<1>2. Reads(s.word) = ReadWords(s) /\ ReadsInverse(s.inv) = ReadInverses(s)
  BY <1>1 DEF Reads, ReadsInverse, ReadWords, ReadInverses
<1>. QED
  BY <1>2 DEF SessionCrc, CrcFrom

LEMMA Refreshes ==
  ASSUME NEW s, SessShape(s)
  PROVE  /\ RefreshSecded(s) = [magic |-> s.magic,
                                word |-> [f \in Fields |-> Encode(Read(s.word[f], Junk))],
                                inv |-> [f \in Guarded |-> Encode(Read(s.inv[f], JunkInverse))],
                                pump |-> s.pump, crc |-> s.crc]
         /\ SessShape(RefreshSecded(s))
         /\ SessionCrc(RefreshSecded(s)) = CrcFrom(s)
         /\ Refreshed(s) = [magic |-> s.magic,
                            word |-> [f \in Fields |-> Encode(Read(s.word[f], Junk))],
                            inv |-> [f \in Guarded |-> Encode(Read(s.inv[f], JunkInverse))],
                            pump |-> s.pump, crc |-> CrcFrom(s)]
         /\ SnapshotOf(Refreshed(s)) = [val |-> ReadWords(s), crc |-> CrcFrom(s)]
<1>. DEFINE ws == [f \in Fields |-> Encode(Read(s.word[f], Junk))]
            is == [f \in Guarded |-> Encode(Read(s.inv[f], JunkInverse))]
            n == RefreshSecded(s)
<1>1. Reads(s.word) = ReadWords(s) /\ ReadsInverse(s.inv) = ReadInverses(s)
  BY CrcReads
<1>2. /\ ReadWords(s) = [f \in Fields |-> ReadWords(s)[f]]
      /\ ReadInverses(s) = [f \in Guarded |-> ReadInverses(s)[f]]
      /\ ws = [f \in Fields |-> Encode(ReadWords(s)[f])]
      /\ is = [f \in Guarded |-> Encode(ReadInverses(s)[f])]
  BY DEF ReadWords, ReadInverses
<1>3. /\ EncodeAll(ReadWords(s)) = ws /\ Reads(ws) = ReadWords(s)
      /\ EncodeAll(ReadInverses(s)) = is /\ ReadsInverse(is) = ReadInverses(s)
  BY <1>2, EncodedReads
<1>4. ws = [f \in Fields |-> ws[f]] /\ is = [f \in Guarded |-> is[f]]
  OBVIOUS
<1>. HIDE DEF ws, is
<1>5. n = [magic |-> s.magic, word |-> ws, inv |-> is, pump |-> s.pump, crc |-> s.crc]
  <2>1. n = [s EXCEPT !.word = ws, !.inv = is]
    BY <1>1, <1>3 DEF RefreshSecded
  <2>. DEFINE n1 == [s EXCEPT !.word = ws]
              n2 == [n1 EXCEPT !.inv = is]
  <2>2. n = n2
    BY <2>1
  <2>3. n1 = [magic |-> s.magic, word |-> ws, inv |-> s.inv, pump |-> s.pump, crc |-> s.crc]
    BY DEF SessShape
  <2>. HIDE DEF n1
  <2>4. n2 = [magic |-> s.magic, word |-> ws, inv |-> is, pump |-> s.pump, crc |-> s.crc]
    BY <2>3
  <2>. QED
    BY <2>2, <2>4
<1>6. /\ n.magic = s.magic /\ n.word = ws /\ n.inv = is /\ n.pump = s.pump /\ n.crc = s.crc
  BY <1>5
<1>7. SessShape(n)
  BY <1>4, <1>5, <1>6 DEF SessShape
<1>8. SessionCrc(n) = CrcFrom(s)
  BY <1>3, <1>6 DEF SessionCrc, CrcFrom
<1>9. Refreshed(s) = [n EXCEPT !.crc = SessionCrc(n)]
  BY DEF Refreshed
<1>. HIDE DEF n
<1>10. Refreshed(s) = [magic |-> s.magic, word |-> ws, inv |-> is, pump |-> s.pump,
                       crc |-> CrcFrom(s)]
  <2>. DEFINE crc == CrcFrom(s)
  <2>1. Refreshed(s) = [n EXCEPT !.crc = crc]
    BY <1>8, <1>9
  <2>. HIDE DEF crc
  <2>2. [n EXCEPT !.crc = crc] = [magic |-> s.magic, word |-> ws, inv |-> is, pump |-> s.pump,
                                  crc |-> crc]
    BY <1>5
  <2>. QED
    BY <2>1, <2>2 DEF crc
<1>11. SnapshotOf(Refreshed(s)) = [val |-> ReadWords(s), crc |-> CrcFrom(s)]
  <2>1. Refreshed(s).word = ws /\ Refreshed(s).crc = CrcFrom(s)
    BY <1>10
  <2>. QED
    BY <2>1, <1>3 DEF SnapshotOf
<1>. QED
  BY <1>5, <1>7, <1>8, <1>10, <1>11 DEF ws, is, n

-----------------------------------------------------------------------------
(* What reconciling makes of the canonical session *)

\* A session that holds the voted values, with the pump arguments and the CRC
\* it had.
Voiced(vals, pump, crc) ==
  [magic |-> vals["state"], word |-> [f \in Fields |-> Encode(vals[f])],
   inv |-> [f \in Guarded |-> Encode(vals[f])], pump |-> pump, crc |-> crc]

\* The values of a snapshot.
Values(vals) == vals = [f \in Fields |-> vals[f]]

\* What there is to know of such a session.
Speaks(s, vals, pump, crc) ==
  /\ SessShape(s) /\ s.magic = vals["state"] /\ s.pump = pump /\ s.crc = crc
  /\ s.word = [f \in Fields |-> Encode(vals[f])]
  /\ s.inv = [f \in Guarded |-> Encode(vals[f])]
  /\ ReadWords(s) = vals /\ ReadInverses(s) = [f \in Guarded |-> vals[f]]
  /\ SessionCrc(s) = CrcOf([val |-> vals, pump |-> pump])
  /\ \A c : [s EXCEPT !.crc = c] = Voiced(vals, pump, c)

LEMMA VoicedFacts ==
  ASSUME NEW vals, Values(vals), NEW pump, NEW crc
  PROVE  Speaks(Voiced(vals, pump, crc), vals, pump, crc)
<1>. DEFINE s == Voiced(vals, pump, crc)
<1>. DEFINE ws == [f \in Fields |-> Encode(vals[f])]
            is == [f \in Guarded |-> Encode(vals[f])]
<1>1. s = [magic |-> vals["state"], word |-> ws, inv |-> is, pump |-> pump, crc |-> crc]
  BY DEF Voiced
<1>. HIDE DEF s
<1>2. ws = [f \in Fields |-> ws[f]] /\ is = [f \in Guarded |-> is[f]]
  OBVIOUS
<1>3. /\ \A f \in Fields : Read(ws[f], Junk) = vals[f]
      /\ \A f \in Guarded : Read(is[f], JunkInverse) = vals[f]
  BY Encoded
<1>. HIDE DEF ws, is
<1>4. /\ s.magic = vals["state"] /\ s.word = ws /\ s.inv = is /\ s.pump = pump /\ s.crc = crc
      /\ SessShape(s)
  <2>1. s.magic = vals["state"] /\ s.word = ws /\ s.inv = is /\ s.pump = pump /\ s.crc = crc
    BY <1>1
  <2>. QED
    BY <1>1, <1>2, <2>1 DEF SessShape
<1>5. ReadWords(s) = vals /\ ReadInverses(s) = [f \in Guarded |-> vals[f]]
  BY <1>3, <1>4 DEF ReadWords, ReadInverses, Values
<1>6. SessionCrc(s) = CrcOf([val |-> vals, pump |-> pump])
  BY <1>4, <1>5, CrcReads DEF CrcFrom, CrcOf
<1>7. ASSUME NEW c PROVE [s EXCEPT !.crc = c] = Voiced(vals, pump, c)
  <2>1. Voiced(vals, pump, c) =
          [magic |-> vals["state"], word |-> ws, inv |-> is, pump |-> pump, crc |-> c]
    BY DEF Voiced, ws, is
  <2>. QED
    BY <1>1, <2>1
<1>8. Speaks(s, vals, pump, crc)
  BY <1>4, <1>5, <1>6, <1>7 DEF ws, is, Speaks
<1>. QED
  BY <1>8 DEF s

LEMMA ExactVoiced ==
  ASSUME NEW w
  PROVE  /\ Exact(w) = Voiced(w.val, w.pump, CrcOf(w))
         /\ w = [val |-> w.val, pump |-> w.pump] => CrcOf([val |-> w.val, pump |-> w.pump]) = CrcOf(w)
BY DEF Exact, Voiced

\* llps_session_repair_secded
LEMMA RepairsSession ==
  ASSUME NEW s, SessShape(s)
  PROVE  /\ SessShape(RepairSession(s))
         /\ RepairSession(s).pump = s.pump /\ RepairSession(s).crc = s.crc
<1>. DEFINE ws == RepairAll(s.word, Junk)
            is == RepairAll(s.inv, JunkInverse)
            n1 == [s EXCEPT !.word = ws]
            n2 == [n1 EXCEPT !.inv = is]
<1>1. RepairSession(s) = [s EXCEPT !.word = ws, !.inv = is]
  BY DEF RepairSession
<1>2. RepairSession(s) = n2
  BY <1>1
<1>3. ws = [f \in Fields |-> ws[f]] /\ is = [f \in Guarded |-> is[f]]
  <2>1. DOMAIN s.word = Fields /\ DOMAIN s.inv = Guarded
    BY DEF SessShape
  <2>. QED
    BY <2>1 DEF RepairAll
<1>. HIDE DEF ws, is
<1>4. n1 = [magic |-> s.magic, word |-> ws, inv |-> s.inv, pump |-> s.pump, crc |-> s.crc]
  BY DEF SessShape
<1>. HIDE DEF n1
<1>5. n2 = [magic |-> s.magic, word |-> ws, inv |-> is, pump |-> s.pump, crc |-> s.crc]
  BY <1>4
<1>. HIDE DEF n2
<1>6. /\ n2.magic = s.magic /\ n2.word = ws /\ n2.inv = is /\ n2.pump = s.pump
      /\ n2.crc = s.crc
  BY <1>5
<1>. QED
  BY <1>2, <1>3, <1>5, <1>6 DEF SessShape

\* llps_session_apply_tmr_snapshot
LEMMA Applies ==
  ASSUME NEW s, SessShape(s), NEW snap, snap.val = [f \in Fields |-> snap.val[f]]
  PROVE  Apply(s, snap) = Voiced(snap.val, s.pump, s.crc)
<1>. DEFINE m == snap.val["state"]
            ws == [f \in Fields |-> Encode(snap.val[f])]
            is == [f \in Guarded |-> Encode(snap.val[f])]
            n1 == [s EXCEPT !.magic = m]
            n2 == [n1 EXCEPT !.word = ws]
            n3 == [n2 EXCEPT !.inv = is]
<1>1. EncodeAll(snap.val) = ws
  BY EncodedReads
<1>2. Voiced(snap.val, s.pump, s.crc) =
        [magic |-> m, word |-> ws, inv |-> is, pump |-> s.pump, crc |-> s.crc]
  BY DEF Voiced
<1>3. FieldsOf(snap.val) = [magic |-> m, word |-> ws, inv |-> is]
  BY <1>1 DEF FieldsOf
<1>. HIDE DEF m, ws, is
<1>4. Apply(s, snap) = [s EXCEPT !.magic = m, !.word = ws, !.inv = is]
  <2>1. /\ FieldsOf(snap.val).magic = m /\ FieldsOf(snap.val).word = ws
        /\ FieldsOf(snap.val).inv = is
    BY <1>3
  <2>. QED
    BY <2>1 DEF Apply
<1>5. Apply(s, snap) = n3
  BY <1>4
<1>6. n1 = [magic |-> m, word |-> s.word, inv |-> s.inv, pump |-> s.pump, crc |-> s.crc]
  BY DEF SessShape
<1>. HIDE DEF n1
<1>7. n2 = [magic |-> m, word |-> ws, inv |-> s.inv, pump |-> s.pump, crc |-> s.crc]
  BY <1>6
<1>. HIDE DEF n2
<1>8. n3 = [magic |-> m, word |-> ws, inv |-> is, pump |-> s.pump, crc |-> s.crc]
  BY <1>7
<1>. QED
  BY <1>2, <1>5, <1>8

\* Whether the snapshot is applied or differs in nothing, the session then
\* reads like it; the pump arguments are what they were.
LEMMA ReconciledIs ==
  ASSUME Shapes, SessShape(sess), Voted = written
  PROVE  Reconciled = Voiced(written.val, sess.pump, sess.crc)
<1>. DEFINE s == RepairSession(sess)
            n == IF SecdedOk(sess) /\ ~Differs(s, Voted) THEN s ELSE Apply(s, Voted)
            vals == written.val
<1>1. /\ SessShape(s) /\ s.pump = sess.pump /\ s.crc = sess.crc
      /\ vals = [f \in Fields |-> vals[f]]
  BY RepairsSession DEF Shapes
<1>2. Reconciled = RefreshSecded(n)
  BY DEF Reconciled
<1>3. /\ SessShape(n) /\ n.magic = vals["state"] /\ n.pump = sess.pump /\ n.crc = sess.crc
      /\ \A f \in Fields : Read(n.word[f], Junk) = vals[f]
      /\ \A f \in Guarded : Read(n.inv[f], JunkInverse) = vals[f]
  <2>1. CASE n = s /\ ~Differs(s, Voted)
    <3>1. Reads(s.word) = vals /\ s.magic = vals["state"]
      BY <2>1 DEF Differs
    <3>2. \A f \in Guarded : Read(s.inv[f], JunkInverse) = vals[f]
      BY <2>1 DEF Differs
    <3>3. ReadWords(s) = vals
      BY <1>1, <3>1, CrcReads
    <3>4. \A f \in Fields : Read(s.word[f], Junk) = ReadWords(s)[f]
      BY DEF ReadWords
    <3>. HIDE DEF s, n, vals
    <3>. QED
      BY <1>1, <2>1, <3>1, <3>2, <3>3, <3>4
  <2>2. CASE n = Apply(s, Voted)
    <3>1. n = Voiced(vals, sess.pump, sess.crc)
      BY <1>1, <2>2, Applies
    <3>. HIDE DEF s, n, vals
    <3>. DEFINE p == sess.pump
                c == sess.crc
                ws == [f \in Fields |-> Encode(vals[f])]
                is == [f \in Guarded |-> Encode(vals[f])]
    <3>2. n = [magic |-> vals["state"], word |-> ws, inv |-> is, pump |-> p, crc |-> c]
      BY <3>1 DEF Voiced
    <3>3. /\ ws = [f \in Fields |-> ws[f]] /\ is = [f \in Guarded |-> is[f]]
          /\ \A f \in Fields : Read(ws[f], Junk) = vals[f]
          /\ \A f \in Guarded : Read(is[f], JunkInverse) = vals[f]
      BY Encoded
    <3>. HIDE DEF ws, is, p, c
    <3>4. /\ n.magic = vals["state"] /\ n.word = ws /\ n.inv = is
          /\ n.pump = p /\ n.crc = c
      BY <3>2
    <3>5. SessShape(n)
      BY <3>2, <3>3, <3>4 DEF SessShape
    <3>. QED
      BY <3>3, <3>4, <3>5 DEF p, c
  <2>. QED
    BY <2>1, <2>2
<1>. HIDE DEF s, n, vals
<1>4. /\ [f \in Fields |-> Encode(Read(n.word[f], Junk))] = [f \in Fields |-> Encode(vals[f])]
      /\ [f \in Guarded |-> Encode(Read(n.inv[f], JunkInverse))] = [f \in Guarded |-> Encode(vals[f])]
  BY <1>3
<1>5. RefreshSecded(n) = [magic |-> n.magic,
                          word |-> [f \in Fields |-> Encode(Read(n.word[f], Junk))],
                          inv |-> [f \in Guarded |-> Encode(Read(n.inv[f], JunkInverse))],
                          pump |-> n.pump, crc |-> n.crc]
  BY <1>3, Refreshes
<1>6. RefreshSecded(n) = Voiced(vals, sess.pump, sess.crc)
  BY <1>3, <1>4, <1>5 DEF Voiced
<1>. QED
  BY <1>2, <1>6 DEF vals

\* llps_session_local_integrity_is_valid of a session that reads like vals.
LEMMA VoicedIntegrity ==
  ASSUME NEW vals, Values(vals), NEW pump, NEW s,
         s = Voiced(vals, pump, CrcOf([val |-> vals, pump |-> pump]))
  PROVE  LocalIntegrity(s) <=> vals["state"] \in {FREE, ACTIVE} /\ vals["close_reason"] # Junk
<1>1. /\ s.magic = vals["state"] /\ s.crc = SessionCrc(s)
      /\ s.word = [f \in Fields |-> Encode(vals[f])]
      /\ s.inv = [f \in Guarded |-> Encode(vals[f])]
  BY VoicedFacts DEF Speaks
<1>2. Clean(s.word) /\ Clean(s.inv)
  BY <1>1, Encoded DEF Clean
<1>3. s.word["state"].v = vals["state"] /\ s.word["close_reason"].v = vals["close_reason"]
  BY <1>1, Encoded DEF Fields
<1>4. \A f \in Guarded : s.inv[f].v = s.word[f].v
  BY <1>1, Encoded DEF Fields, Guarded
<1>. QED
  BY <1>1, <1>2, <1>3, <1>4 DEF LocalIntegrity

-----------------------------------------------------------------------------
(* Writes of the canonical session and of all banks *)

\* A write of some fields, spelled out.
LEMMA Assigned ==
  ASSUME NEW s, SessShape(s), NEW fs, NEW vals
  PROVE  Assign(s, fs, vals) =
           [magic |-> IF "state" \in fs THEN vals["state"] ELSE s.magic,
            word |-> [f \in Fields |-> IF f \in fs THEN Encode(vals[f]) ELSE s.word[f]],
            inv |-> [f \in Guarded |-> IF f \in fs THEN Encode(vals[f]) ELSE s.inv[f]],
            pump |-> s.pump, crc |-> s.crc]
<1>. DEFINE m == IF "state" \in fs THEN vals["state"] ELSE s.magic
            ws == [f \in Fields |-> IF f \in fs THEN Encode(vals[f]) ELSE s.word[f]]
            is == [f \in Guarded |-> IF f \in fs THEN Encode(vals[f]) ELSE s.inv[f]]
            n1 == [s EXCEPT !.magic = m]
            n2 == [n1 EXCEPT !.word = ws]
            n3 == [n2 EXCEPT !.inv = is]
<1>1. Assign(s, fs, vals) = [s EXCEPT !.magic = m, !.word = ws, !.inv = is]
  BY DEF Assign
<1>. HIDE DEF m, ws, is
<1>2. Assign(s, fs, vals) = n3
  BY <1>1
<1>3. n1 = [magic |-> m, word |-> s.word, inv |-> s.inv, pump |-> s.pump, crc |-> s.crc]
  BY DEF SessShape
<1>. HIDE DEF n1
<1>4. n2 = [magic |-> m, word |-> ws, inv |-> s.inv, pump |-> s.pump, crc |-> s.crc]
  BY <1>3
<1>. HIDE DEF n2
<1>5. n3 = [magic |-> m, word |-> ws, inv |-> is, pump |-> s.pump, crc |-> s.crc]
  BY <1>4
<1>. QED
  BY <1>2, <1>5 DEF m, ws, is

\* A session that reads exactly like w.
ReadsLike(s, w) ==
  /\ s.magic = w.val["state"] /\ s.pump = w.pump
  /\ ReadWords(s) = w.val /\ ReadInverses(s) = [f \in Guarded |-> w.val[f]]

LEMMA ExactReads ==
  ASSUME NEW w, WantOk(w), NEW s, s = Exact(w)
  PROVE  SessShape(s) /\ ReadsLike(s, w)
<1>. DEFINE ws == [f \in Fields |-> Encode(w.val[f])]
            is == [f \in Guarded |-> Encode(w.val[f])]
<1>1. s = [magic |-> w.val["state"], word |-> ws, inv |-> is, pump |-> w.pump, crc |-> CrcOf(w)]
  BY DEF Exact
<1>2. /\ ws = [f \in Fields |-> ws[f]] /\ is = [f \in Guarded |-> is[f]]
      /\ \A f \in Fields : Read(ws[f], Junk) = w.val[f]
      /\ \A f \in Guarded : Read(is[f], JunkInverse) = w.val[f]
  BY Encoded
<1>3. w.val = [f \in Fields |-> w.val[f]]
  BY DEF WantOk
<1>. HIDE DEF ws, is
<1>4. s.magic = w.val["state"] /\ s.word = ws /\ s.inv = is /\ s.pump = w.pump /\ s.crc = CrcOf(w)
  BY <1>1
<1>5. SessShape(s)
  BY <1>1, <1>2, <1>4 DEF SessShape
<1>6. ReadWords(s) = w.val /\ ReadInverses(s) = [f \in Guarded |-> w.val[f]]
  BY <1>2, <1>3, <1>4 DEF ReadWords, ReadInverses
<1>. QED
  BY <1>4, <1>5, <1>6 DEF ReadsLike

\* llps_session_refresh_crc after any write that leaves the program's values
\* or junk in the words, and the program's values alone unless tainted.
LEMMA Writes ==
  ASSUME Shapes, NEW s, SessShape(s), NEW w, WantOk(w),
         \A f \in Fields : s.word[f] \in Word(w.val[f], Junk),
         RefreshCrc(s), want' = w, tainted' \in BOOLEAN, hitSess' \in BOOLEAN,
         phase' \in {"boot", "up", "stopping", "failed"}, faults' = faults, answer' = "none",
         ~tainted' => ReadsLike(s, w)
  PROVE  SessInv'
<1>. DEFINE ws == [f \in Fields |-> Encode(Read(s.word[f], Junk))]
            is == [f \in Guarded |-> Encode(Read(s.inv[f], JunkInverse))]
            snap == [val |-> ReadWords(s), crc |-> CrcFrom(s)]
<1>1. sess' = [magic |-> s.magic, word |-> ws, inv |-> is, pump |-> s.pump, crc |-> CrcFrom(s)]
      /\ written' = snap
  BY Refreshes DEF RefreshCrc, WriteAll
<1>2. /\ rec' = [b \in BankIds |-> RecordOf(written')] /\ guard' = [b \in BankIds |-> TRUE]
      /\ hitBanks' = {}
  BY DEF RefreshCrc, WriteAll
<1>3. Snapshot(written') /\ \A f \in Fields : written'.val[f] \in {w.val[f], Junk}
  <2>1. \A f \in Fields : Read(s.word[f], Junk) \in {w.val[f], Junk}
    BY Kept
  <2>2. ReadWords(s) = [f \in Fields |-> ReadWords(s)[f]]
        /\ \A f \in Fields : ReadWords(s)[f] \in {w.val[f], Junk}
    BY <2>1 DEF ReadWords
  <2>3. written'.val = ReadWords(s) /\ written'.crc = CrcFrom(s)
    BY <1>1
  <2>. QED
    BY <1>1, <2>2, <2>3 DEF Snapshot
<1>4. Shapes'
  <2>1. faults' \in 0..FaultMax /\ hitBanks' \subseteq BankIds
    BY <1>2 DEF Shapes
  <2>2. guard' \in [BankIds -> BOOLEAN] /\ rec' = [b \in BankIds |-> rec'[b]]
    BY <1>2
  <2>. QED
    BY <1>3, <2>1, <2>2 DEF Shapes, Snapshot
<1>5. Banks'
  <2>1. \A b \in BankIds : guard'[b] /\ rec'[b] = RecordOf(written')
    BY <1>2
  <2>. QED
    BY <2>1, <1>3, SealedFacts DEF Banks
<1>6. SessKept(sess, want.val)'
  <2>1. ASSUME NEW f \in Fields PROVE ws[f] \in Word(w.val[f], Junk)
    <3>1. Read(s.word[f], Junk) \in {w.val[f], Junk}
      BY Kept
    <3>. QED
      BY <3>1 DEF Encode, Word
  <2>2. /\ ws = [f \in Fields |-> ws[f]] /\ is = [f \in Guarded |-> is[f]]
        /\ \A f \in Guarded : is[f] = [v |-> is[f].v, flips |-> is[f].flips]
    BY DEF Encode
  <2>. HIDE DEF ws, is
  <2>3. /\ sess'.magic = s.magic /\ sess'.word = ws /\ sess'.inv = is /\ sess'.pump = s.pump
        /\ sess'.crc = CrcFrom(s)
    BY <1>1
  <2>. QED
    BY <1>1, <2>1, <2>2, <2>3 DEF SessKept
<1>7. ASSUME ~tainted'
      PROVE  written' = [val |-> w.val, crc |-> CrcOf(w)] /\ sess' = Exact(w)
  <2>1. CrcFrom(s) = CrcOf(w) /\ ReadWords(s) = w.val
    BY <1>7 DEF ReadsLike, CrcFrom, CrcOf
  <2>2. ws = [f \in Fields |-> Encode(w.val[f])]
    <3>1. ws = [f \in Fields |-> Encode(ReadWords(s)[f])]
      BY DEF ReadWords
    <3>. QED
      BY <2>1, <3>1
  <2>3. is = [f \in Guarded |-> Encode(w.val[f])]
    <3>1. is = [f \in Guarded |-> Encode(ReadInverses(s)[f])]
      BY DEF ReadInverses
    <3>2. \A f \in Guarded : ReadInverses(s)[f] = w.val[f]
      BY <1>7 DEF ReadsLike
    <3>. HIDE DEF is
    <3>. QED
      BY <3>1, <3>2
  <2>. QED
    BY <1>1, <1>7, <2>1, <2>2, <2>3 DEF Exact, ReadsLike
<1>8. Histories'
  BY <1>7 DEF Histories
<1>. QED
  BY <1>4, <1>5, <1>6, <1>8 DEF SessInv, AnswerTrue, FailJustified

\* The session a write of fields starts from.
LEMMA WritesFields ==
  ASSUME SessInv, NEW fs \in SUBSET Fields, NEW vals, NEW w, WantOk(w),
         \A f \in fs : w.val[f] = vals[f],
         \A f \in Fields \ fs : w.val[f] = want.val[f],
         NEW p, NEW s,
         s = [magic |-> IF "state" \in fs THEN vals["state"] ELSE sess.magic,
              word |-> [f \in Fields |-> IF f \in fs THEN Encode(vals[f]) ELSE sess.word[f]],
              inv |-> [f \in Guarded |-> IF f \in fs THEN Encode(vals[f]) ELSE sess.inv[f]],
              pump |-> p, crc |-> sess.crc]
  PROVE  /\ SessShape(s) /\ \A f \in Fields : s.word[f] \in Word(w.val[f], Junk)
         /\ p = w.pump /\ (fs = Fields \/ (~tainted /\ ~hitSess)) => ReadsLike(s, w)
<1>. DEFINE ws == [f \in Fields |-> IF f \in fs THEN Encode(vals[f]) ELSE sess.word[f]]
            is == [f \in Guarded |-> IF f \in fs THEN Encode(vals[f]) ELSE sess.inv[f]]
            m == IF "state" \in fs THEN vals["state"] ELSE sess.magic
<1>1. s = [magic |-> m, word |-> ws, inv |-> is, pump |-> p, crc |-> sess.crc]
  OBVIOUS
<1>2. ws = [f \in Fields |-> ws[f]] /\ is = [f \in Guarded |-> is[f]]
  OBVIOUS
<1>3. /\ \A f \in fs : ws[f] = Encode(w.val[f])
      /\ \A f \in Fields \ fs : ws[f] = sess.word[f]
      /\ \A f \in fs \cap Guarded : is[f] = Encode(w.val[f])
      /\ \A f \in Guarded \ fs : is[f] = sess.inv[f]
  BY DEF Guarded, Fields
<1>4. m = IF "state" \in fs THEN w.val["state"] ELSE sess.magic
  OBVIOUS
<1>. HIDE DEF ws, is, m
<1>5. s.magic = m /\ s.word = ws /\ s.inv = is /\ s.pump = p /\ s.crc = sess.crc
  BY <1>1
<1>6. SessShape(s)
  BY <1>1, <1>2, <1>5 DEF SessShape
<1>7. ASSUME NEW f \in Fields PROVE ws[f] \in Word(w.val[f], Junk)
  <2>1. CASE f \in fs
    BY <1>3, <2>1, Encoded
  <2>2. CASE f \notin fs
    BY <1>3, <2>2 DEF SessInv, SessKept
  <2>. QED
    BY <2>1, <2>2
<1>8. ASSUME p = w.pump, fs = Fields \/ (~tainted /\ ~hitSess)
      PROVE  ReadsLike(s, w)
  <2>1. ASSUME fs # Fields
        PROVE  ReadsLike(sess, want)
    BY <1>8, <2>1, ExactReads DEF SessInv, Shapes, Histories
  <2>2. ASSUME NEW f \in Fields PROVE Read(ws[f], Junk) = w.val[f]
    <3>1. CASE f \in fs
      BY <1>3, <3>1, Encoded
    <3>2. CASE f \notin fs
      <4>1. ReadWords(sess)[f] = want.val[f]
        BY <2>1, <3>2 DEF ReadsLike
      <4>. QED
        BY <1>3, <3>2, <4>1 DEF ReadWords
    <3>. QED
      BY <3>1, <3>2
  <2>3. ASSUME NEW f \in Guarded PROVE Read(is[f], JunkInverse) = w.val[f]
    <3>0. f \in Fields
      BY DEF Guarded, Fields
    <3>1. CASE f \in fs
      BY <1>3, <3>1, Encoded
    <3>2. CASE f \notin fs
      <4>1. ReadInverses(sess)[f] = want.val[f]
        BY <2>1, <3>0, <3>2 DEF ReadsLike
      <4>. QED
        BY <1>3, <3>0, <3>2, <4>1 DEF ReadInverses
    <3>. QED
      BY <3>1, <3>2
  <2>4. m = w.val["state"]
    BY <1>4, <2>1 DEF ReadsLike, Fields
  <2>5. w.val = [f \in Fields |-> w.val[f]]
    BY DEF WantOk
  <2>6. ReadWords(s) = w.val /\ ReadInverses(s) = [f \in Guarded |-> w.val[f]]
    BY <1>5, <2>2, <2>3, <2>5 DEF ReadWords, ReadInverses
  <2>. QED
    BY <1>5, <1>8, <2>4, <2>6 DEF ReadsLike
<1>. QED
  BY <1>5, <1>6, <1>7, <1>8

LEMMA SessShaped ==
  ASSUME SessInv
  PROVE  SessShape(sess)
BY DEF SessInv, SessKept, SessShape

\* llps_session_reset_free and llps_session_prepare_active_with_peer
LEMMA WholeWrites ==
  ASSUME SessInv, NEW vals \in [Fields -> 0..2], vals["state"] \in {FREE, ACTIVE},
         WriteWhole(vals)
  PROVE  SessInv'
<1>. DEFINE w == [val |-> vals, pump |-> 0]
            ws == [f \in Fields |-> IF f \in Fields THEN Encode(vals[f]) ELSE sess.word[f]]
            is == [f \in Guarded |-> IF f \in Fields THEN Encode(vals[f]) ELSE sess.inv[f]]
            m == IF "state" \in Fields THEN vals["state"] ELSE sess.magic
            a == Assign(sess, Fields, vals)
            s == [a EXCEPT !.pump = 0]
<1>1. /\ RefreshCrc(s) /\ want' = w /\ hitSess' = FALSE /\ tainted' = FALSE
      /\ answer' = "none" /\ phase' = phase /\ faults' = faults
  BY DEF WriteWhole
<1>2. a = [magic |-> m, word |-> ws, inv |-> is, pump |-> sess.pump, crc |-> sess.crc]
  BY SessShaped, Assigned
<1>3. WantOk(w) /\ w.val = vals /\ w.pump = 0
  <2>1. w.val = vals /\ w.pump = 0
    OBVIOUS
  <2>. QED
    BY <2>1 DEF WantOk
<1>4. s = [magic |-> m, word |-> ws, inv |-> is, pump |-> 0, crc |-> sess.crc]
  <2>. HIDE DEF m, ws, is, a
  <2>. QED
    BY <1>2
<1>. HIDE DEF w
<1>5. /\ \A f \in Fields : w.val[f] = vals[f]
      /\ \A f \in Fields \ Fields : w.val[f] = want.val[f]
      /\ Fields \in SUBSET Fields
  BY <1>3
<1>. HIDE DEF s
<1>6. /\ SessShape(s) /\ \A f \in Fields : s.word[f] \in Word(w.val[f], Junk)
      /\ ReadsLike(s, w)
  <2>1. /\ SessShape(s) /\ \A f \in Fields : s.word[f] \in Word(w.val[f], Junk)
        /\ 0 = w.pump /\ (Fields = Fields \/ (~tainted /\ ~hitSess)) => ReadsLike(s, w)
    BY <1>3, <1>4, <1>5, WritesFields, Zenon
  <2>. QED
    BY <1>3, <2>1
<1>. HIDE DEF m, ws, is, a
<1>7. Shapes /\ phase \in {"boot", "up", "stopping", "failed"}
  BY DEF SessInv, Shapes
<1>. QED
  BY <1>1, <1>3, <1>6, <1>7, Writes

\* One field and a refresh: llps_session_touch, llps_session_mark_close_reason
LEMMA FieldWrites ==
  ASSUME SessInv, NEW g \in {"close_reason", "client_fd"}, NEW v \in 0..2, WriteField(g, v),
         phase' \in {"boot", "up", "stopping", "failed"}
  PROVE  SessInv'
<1>. DEFINE w == [want EXCEPT !.val[g] = v]
            vals == [f \in Fields |-> v]
            fs == {g}
            ws == [f \in Fields |-> IF f \in fs THEN Encode(vals[f]) ELSE sess.word[f]]
            is == [f \in Guarded |-> IF f \in fs THEN Encode(vals[f]) ELSE sess.inv[f]]
            m == IF "state" \in fs THEN vals["state"] ELSE sess.magic
            s == Assign(sess, fs, vals)
            p == sess.pump
<1>0. WantOk(want) /\ g \in Fields /\ g # "state"
  BY DEF SessInv, Shapes, Fields
<1>1. /\ RefreshCrc(s) /\ want' = w /\ hitSess' = hitSess /\ tainted' = (tainted \/ hitSess)
      /\ answer' = "none" /\ faults' = faults
  BY DEF WriteField
<1>2. s = [magic |-> m, word |-> ws, inv |-> is, pump |-> sess.pump, crc |-> sess.crc]
  BY SessShaped, Assigned
<1>3. /\ WantOk(w) /\ w.pump = want.pump
      /\ \A f \in fs : w.val[f] = vals[f]
      /\ \A f \in Fields \ fs : w.val[f] = want.val[f]
      /\ fs \in SUBSET Fields
  <2>. DEFINE wv == [want.val EXCEPT ![g] = v]
  <2>1. w = [val |-> wv, pump |-> want.pump]
    BY <1>0 DEF WantOk
  <2>2. /\ wv \in [Fields -> 0..2] /\ wv["state"] = want.val["state"]
        /\ wv[g] = v /\ \A f \in Fields \ {g} : wv[f] = want.val[f]
    BY <1>0 DEF WantOk, Fields
  <2>. HIDE DEF wv, w
  <2>3. w.val = wv /\ w.pump = want.pump
    BY <2>1
  <2>. QED
    BY <1>0, <2>1, <2>2, <2>3 DEF WantOk
<1>. HIDE DEF w, s, vals, fs
<1>6. /\ SessShape(s) /\ \A f \in Fields : s.word[f] \in Word(w.val[f], Junk)
      /\ p = w.pump /\ (fs = Fields \/ (~tainted /\ ~hitSess)) => ReadsLike(s, w)
  BY <1>2, <1>3, WritesFields, Zenon
<1>. HIDE DEF m, ws, is
<1>7. Shapes /\ tainted \in BOOLEAN /\ hitSess \in BOOLEAN
  BY DEF SessInv, Shapes
<1>8. ~tainted /\ ~hitSess => sess.pump = want.pump
  BY <1>0, ExactReads DEF SessInv, Histories, ReadsLike
<1>9. ~tainted' => ReadsLike(s, w)
  BY <1>1, <1>3, <1>6, <1>7, <1>8
<1>10. tainted' \in BOOLEAN /\ hitSess' \in BOOLEAN
  BY <1>1, <1>7
<1>. QED
  BY <1>1, <1>3, <1>6, <1>7, <1>9, <1>10, Writes

\* llps_connection_prepare_pump_args
LEMMA PumpWrites ==
  ASSUME SessInv, SetPumps
  PROVE  SessInv'
<1>. DEFINE w == [want EXCEPT !.pump = 1]
            s == [sess EXCEPT !.pump = 1]
<1>0. WantOk(want) /\ Shapes /\ SessShape(sess)
      /\ \A f \in Fields : sess.word[f] \in Word(want.val[f], Junk)
  BY SessShaped DEF SessInv, Shapes, SessKept
<1>1. /\ RefreshCrc(s) /\ want' = w /\ hitSess' = hitSess /\ tainted' = (tainted \/ hitSess)
      /\ answer' = "none" /\ faults' = faults /\ phase' = phase
  BY DEF SetPumps
<1>2. w = [val |-> want.val, pump |-> 1]
  BY <1>0 DEF WantOk
<1>3. s = [magic |-> sess.magic, word |-> sess.word, inv |-> sess.inv, pump |-> 1,
           crc |-> sess.crc]
  BY <1>0 DEF SessShape
<1>. HIDE DEF w, s
<1>4. w.val = want.val /\ w.pump = 1
  BY <1>2
<1>5. s.magic = sess.magic /\ s.word = sess.word /\ s.inv = sess.inv /\ s.pump = 1
      /\ s.crc = sess.crc
  BY <1>3
<1>6. WantOk(w)
  BY <1>0, <1>2, <1>4 DEF WantOk
<1>7. SessShape(s) /\ ReadWords(s) = ReadWords(sess) /\ ReadInverses(s) = ReadInverses(sess)
  BY <1>0, <1>3, <1>5 DEF SessShape, ReadWords, ReadInverses
<1>8. tainted \in BOOLEAN /\ hitSess \in BOOLEAN /\ phase \in {"boot", "up", "stopping", "failed"}
  BY DEF SessInv, Shapes
<1>9. ~tainted /\ ~hitSess => ReadsLike(sess, want)
  BY <1>0, ExactReads DEF SessInv, Histories
<1>10. ~tainted' => ReadsLike(s, w)
  BY <1>1, <1>4, <1>5, <1>7, <1>8, <1>9 DEF ReadsLike
<1>11. tainted' \in BOOLEAN /\ hitSess' \in BOOLEAN
  BY <1>1, <1>8
<1>12. \A f \in Fields : s.word[f] \in Word(w.val[f], Junk)
  BY <1>0, <1>4, <1>5
<1>. QED
  BY <1>0, <1>1, <1>6, <1>7, <1>8, <1>10, <1>11, <1>12, Writes

-----------------------------------------------------------------------------
(* Votes *)

\* llps_session_reconcile_integrity
LEMMA Reconciles ==
  ASSUME SessInv, Reconcile
  PROVE  SessInv'
<1>. DEFINE vals == written.val
            p == sess.pump
            crc == CrcOf([val |-> vals, pump |-> p])
            fixed == [Reconciled EXCEPT !.crc = SessionCrc(Reconciled)]
<1>1. /\ Shapes /\ Banks /\ SessShape(sess) /\ WantOk(want) /\ Histories
      /\ \A f \in Fields : vals[f] \in {want.val[f], Junk}
      /\ Values(vals)
  BY SessShaped DEF SessInv, Shapes, Values
<1>2. /\ Vote /\ phase' = phase /\ want' = want /\ written' = written /\ faults' = faults
      /\ tainted' = tainted /\ hitSess' = (hitSess /\ ~ReconcileOk)
      /\ answer' = IF ReconcileOk THEN "ok" ELSE "fail"
      /\ sess' = IF ~VoteOk THEN sess
                 ELSE IF SessionCrc(Reconciled) = Voted.crc THEN fixed ELSE Reconciled
  BY DEF Reconcile
<1>3. /\ Banks' /\ rec' = [b \in BankIds |-> rec'[b]]
      /\ guard' \in [BankIds -> BOOLEAN] /\ hitBanks' \subseteq hitBanks
      /\ ~VoteOk => hitBanks' = hitBanks
  BY <1>1, <1>2, VoteKeeps
<1>4. ASSUME VoteOk
      PROVE  /\ Voted = written /\ Reconciled = Voiced(vals, p, sess.crc)
             /\ SessionCrc(Reconciled) = crc /\ fixed = Voiced(vals, p, crc)
             /\ LocalIntegrity(fixed) <=> vals["state"] \in {FREE, ACTIVE}
                                          /\ vals["close_reason"] # Junk
  <2>1. Voted = written /\ Reconciled = Voiced(vals, p, sess.crc)
    BY <1>1, <1>4, VoteIsWritten, ReconciledIs
  <2>. HIDE DEF vals, p
  <2>2. /\ SessionCrc(Reconciled) = crc
        /\ \A c : [Reconciled EXCEPT !.crc = c] = Voiced(vals, p, c)
    <3>1. Speaks(Reconciled, vals, p, sess.crc)
      BY <1>1, <2>1, VoicedFacts
    <3>. QED
      BY <3>1 DEF Speaks
  <2>3. fixed = Voiced(vals, p, crc)
    BY <2>2
  <2>. HIDE DEF fixed
  <2>4. LocalIntegrity(fixed) <=> vals["state"] \in {FREE, ACTIVE} /\ vals["close_reason"] # Junk
    BY <1>1, <2>3, VoicedIntegrity, Zenon DEF crc
  <2>. QED
    BY <2>1, <2>2, <2>3, <2>4 DEF vals, p
<1>5. ReconcileOk <=> VoteOk /\ SessionCrc(Reconciled) = Voted.crc /\ LocalIntegrity(fixed)
  <2>1. fixed.crc = SessionCrc(Reconciled) \/ ~VoteOk
    <3>1. ASSUME VoteOk PROVE fixed.crc = crc
      BY <1>4, <3>1 DEF Voiced
    <3>. QED
      BY <1>4, <3>1
  <2>. QED
    BY <2>1 DEF ReconcileOk
<1>. HIDE DEF fixed, crc
<1>6. ASSUME ~tainted
      PROVE  /\ vals = want.val /\ written.crc = CrcOf(want)
             /\ vals["state"] \in {FREE, ACTIVE} /\ vals["close_reason"] # Junk
  <2>1. vals = want.val /\ written.crc = CrcOf(want)
    BY <1>1, <1>6 DEF Histories
  <2>2. want.val["close_reason"] \in 0..2
    BY <1>1 DEF WantOk, Fields
  <2>. QED
    BY <1>1, <2>1, <2>2, SessionAssumption DEF WantOk
<1>7. ASSUME VoteOk, ~tainted
      PROVE  /\ p = want.pump <=> SessionCrc(Reconciled) = Voted.crc
             /\ p = want.pump => fixed = Exact(want)
  <2>1. want = [val |-> vals, pump |-> want.pump]
    BY <1>1, <1>6, <1>7 DEF WantOk
  <2>2. p = want.pump => crc = CrcOf(want)
    BY <2>1 DEF crc
  <2>3. crc = CrcOf(want) => p = want.pump
    BY DEF crc, CrcOf
  <2>4. p = want.pump => fixed = Exact(want)
    BY <1>4, <1>6, <1>7, <2>2 DEF Voiced, Exact
  <2>. QED
    BY <1>4, <1>6, <1>7, <2>2, <2>3, <2>4
<1>8. Shapes'
  <2>1. hitSess' \in BOOLEAN
    BY <1>1, <1>2 DEF Shapes
  <2>2. hitBanks' \subseteq BankIds
    BY <1>1, <1>3 DEF Shapes
  <2>3. answer' \in {"none", "ok", "fail"}
    BY <1>2
  <2>. QED
    BY <1>1, <1>2, <1>3, <2>1, <2>2, <2>3 DEF Shapes
<1>9. SessKept(sess, want.val)'
  <2>1. CASE ~VoteOk
    BY <1>2, <2>1 DEF SessInv
  <2>2. CASE VoteOk
    <3>1. PICK c : sess' = Voiced(vals, p, c)
      BY <1>2, <1>4, <2>2
    <3>2. /\ SessShape(sess') /\ sess'.word = [f \in Fields |-> Encode(vals[f])]
          /\ sess'.inv = [f \in Guarded |-> Encode(vals[f])]
      <4>1. Speaks(sess', vals, p, c)
        BY <1>1, <3>1, VoicedFacts
      <4>. QED
        BY <4>1 DEF Speaks
    <3>3. ASSUME NEW f \in Fields PROVE sess'.word[f] \in Word(want.val[f], Junk)
      BY <1>1, <3>2 DEF Encode, Word
    <3>4. ASSUME NEW f \in Guarded
          PROVE  sess'.inv[f] = [v |-> sess'.inv[f].v, flips |-> sess'.inv[f].flips]
      BY <3>2 DEF Encode
    <3>. QED
      BY <1>2, <3>2, <3>3, <3>4 DEF SessKept, SessShape
  <2>. QED
    BY <2>1, <2>2
<1>10. Histories'
  <2>1. ASSUME ~tainted, ~hitSess
        PROVE  p = want.pump /\ sess = Exact(want)
    BY <1>1, <2>1 DEF Histories, Exact
  <2>2. ASSUME ~tainted, ~hitSess'
        PROVE  sess' = Exact(want)
    <3>1. CASE ReconcileOk
      BY <1>2, <1>5, <1>7, <2>2, <3>1
    <3>2. CASE ~hitSess /\ VoteOk
      BY <1>2, <1>7, <2>1, <2>2, <3>2
    <3>3. CASE ~hitSess /\ ~VoteOk
      BY <1>2, <2>1, <2>2, <3>3
    <3>. QED
      BY <1>2, <2>2, <3>1, <3>2, <3>3
  <2>. QED
    BY <1>1, <1>2, <2>2 DEF Histories
<1>11. AnswerTrue'
  <2>. SUFFICES ASSUME ReconcileOk
                PROVE  /\ \A f \in Guarded : Reads(sess'.word)[f] = want.val[f]
                       /\ ~tainted => Reads(sess'.word) = want.val /\ sess'.pump = want.pump
    BY <1>2 DEF AnswerTrue
  <2>1. VoteOk /\ sess' = Voiced(vals, p, crc)
    BY <1>2, <1>4, <1>5
  <2>2. SessShape(sess') /\ sess'.pump = p /\ ReadWords(sess') = vals
    <3>1. Speaks(sess', vals, p, crc)
      BY <1>1, <2>1, VoicedFacts
    <3>. QED
      BY <3>1 DEF Speaks
  <2>3. Reads(sess'.word) = vals
    BY <2>2, CrcReads
  <2>4. vals["state"] # Junk /\ vals["close_reason"] # Junk
    BY <1>4, <1>5, SessionAssumption DEF FREE, ACTIVE
  <2>5. \A f \in Guarded : vals[f] = want.val[f]
    BY <1>1, <2>4 DEF Guarded, Fields
  <2>. QED
    BY <1>5, <1>6, <1>7, <2>1, <2>2, <2>3, <2>5
<1>12. FailJustified'
  <2>. SUFFICES ASSUME ~ReconcileOk, ~(Cardinality(hitBanks') >= 2), ~tainted,
                       sess'.pump = want.pump
                PROVE  FALSE
    BY <1>2 DEF FailJustified
  <2>1. VoteOk
    <3>. SUFFICES ASSUME ~VoteOk PROVE FALSE
      OBVIOUS
    <3>1. hitBanks' = hitBanks
      BY <1>3
    <3>. QED
      BY <1>1, <1>6, <3>1, VoteSucceeds
  <2>2. sess'.pump = p
    BY <1>2, <1>4, <2>1 DEF Voiced
  <2>. QED
    BY <1>4, <1>5, <1>6, <1>7, <2>1, <2>2
<1>. QED
  BY <1>3, <1>8, <1>9, <1>10, <1>11, <1>12 DEF SessInv

\* llps_session_tmr_scrub_all: a vote that leaves the canonical session alone.
LEMMA Scrubs ==
  ASSUME SessInv, Scrub
  PROVE  SessInv'
<1>1. CASE VoteOk
  <2>1. /\ Vote /\ answer' = "none" /\ phase = "up"
        /\ UNCHANGED <<sess, phase, want, written, faults, hitSess, tainted>>
    BY <1>1 DEF Scrub
  <2>2. Shapes /\ Banks /\ SessKept(sess, want.val) /\ Histories
    BY DEF SessInv
  <2>3. /\ Banks' /\ rec' = [b \in BankIds |-> rec'[b]]
        /\ guard' \in [BankIds -> BOOLEAN] /\ hitBanks' \subseteq hitBanks
    BY <2>1, <2>2, VoteKeeps
  <2>4. Shapes'
    BY <2>1, <2>2, <2>3 DEF Shapes
  <2>5. SessKept(sess, want.val)' /\ Histories'
    BY <2>1, <2>2 DEF Histories
  <2>. QED
    BY <2>1, <2>3, <2>4, <2>5 DEF SessInv, AnswerTrue, FailJustified
<1>2. CASE ~VoteOk
  <2>1. WriteField("close_reason", 1) /\ phase' = "stopping"
    BY <1>2 DEF Scrub
  <2>. QED
    BY <2>1, FieldWrites
<1>. QED
  BY <1>1, <1>2

\* llps_session_tmr_startup_self_test
LEMMA SelfTests ==
  ASSUME SessInv, SelfTest
  PROVE  SessInv'
<1>1. /\ phase' \in {"boot", "up", "stopping", "failed"}
      /\ UNCHANGED <<sess, rec, answer, want, written, faultVars>>
      /\ guard' = IF VoteOk THEN [b \in BankIds |-> guard[b] \/ Diverges(b)] ELSE guard
  BY DEF SelfTest
<1>2. guard' \in [BankIds -> BOOLEAN] /\ \A b \in BankIds : guard[b] => guard'[b]
  <2>1. \A b \in BankIds : guard[b] \in BOOLEAN
    BY DEF SessInv, Shapes
  <2>. QED
    BY <1>1, <2>1 DEF Diverges, Divergent, SessInv, Shapes
<1>3. Shapes'
  BY <1>1, <1>2 DEF SessInv, Shapes, faultVars
<1>4. Banks'
  BY <1>1, <1>2 DEF SessInv, Banks, faultVars
<1>. QED
  BY <1>1, <1>3, <1>4 DEF SessInv, SessKept, Histories, AnswerTrue, FailJustified, faultVars

-----------------------------------------------------------------------------
(* Memory faults *)

\* A fault counts once, and the struck session or bank is known to the history.
LEMMA Strikes ==
  ASSUME SessInv, Strike
  PROVE  faults' \in 0..FaultMax
<1>1. faults < FaultMax /\ faults' = faults + 1 /\ faults \in 0..FaultMax
  BY DEF Strike, SessInv, Shapes
<1>. QED
  BY <1>1, SessionAssumption

\* What strikes the canonical session leaves its words what the program wants,
\* or junk.
LEMMA SessionStruck ==
  ASSUME SessInv, faults' \in 0..FaultMax, SessKept(sess', want.val), hitSess' = TRUE,
         answer' = "none",
         UNCHANGED <<rec, guard, phase, want, written, hitBanks, tainted>>
  PROVE  SessInv'
<1>1. Shapes'
  BY DEF SessInv, Shapes
<1>2. Banks' /\ Histories'
  BY DEF SessInv, Banks, Histories
<1>3. SessKept(sess, want.val)'
  OBVIOUS
<1>. QED
  BY <1>1, <1>2, <1>3 DEF SessInv, AnswerTrue, FailJustified

LEMMA SessionFaults ==
  ASSUME SessInv, SessionFault
  PROVE  SessInv'
<1>1. /\ SessKept(sess, want.val) /\ SessShape(sess)
      /\ \A f \in Fields : sess.word[f] \in Word(want.val[f], Junk)
      /\ \A f \in Guarded : sess.inv[f] = [v |-> sess.inv[f].v, flips |-> sess.inv[f].flips]
  BY SessShaped DEF SessInv, SessKept
<1>2. SessKept(sess', want.val)
  <2>1. CASE \E n \in Flips, g \in Fields : sess' = [sess EXCEPT !.word[g] = Hit(@, n)]
    <3>1. PICK n \in Flips, g \in Fields : sess' = [sess EXCEPT !.word[g] = Hit(@, n)]
      BY <2>1
    <3>. DEFINE ws == [sess.word EXCEPT ![g] = Hit(@, n)]
    <3>2. sess' = [magic |-> sess.magic, word |-> ws, inv |-> sess.inv, pump |-> sess.pump,
                   crc |-> sess.crc]
      BY <1>1, <3>1 DEF SessShape
    <3>3. /\ ws = [f \in Fields |-> ws[f]]
          /\ \A f \in Fields : ws[f] \in Word(want.val[f], Junk)
      <4>1. Hit(sess.word[g], n) \in Word(want.val[g], Junk)
        BY <1>1, Kept
      <4>. QED
        BY <1>1, <4>1 DEF SessShape
    <3>. HIDE DEF ws
    <3>4. /\ sess'.magic = sess.magic /\ sess'.word = ws /\ sess'.inv = sess.inv
          /\ sess'.pump = sess.pump /\ sess'.crc = sess.crc
      BY <3>2
    <3>. QED
      BY <1>1, <3>2, <3>3, <3>4 DEF SessKept, SessShape
  <2>2. CASE \E n \in Flips, g \in Guarded : sess' = [sess EXCEPT !.inv[g] = Hit(@, n)]
    <3>1. PICK n \in Flips, g \in Guarded : sess' = [sess EXCEPT !.inv[g] = Hit(@, n)]
      BY <2>2
    <3>. DEFINE is == [sess.inv EXCEPT ![g] = Hit(@, n)]
    <3>2. sess' = [magic |-> sess.magic, word |-> sess.word, inv |-> is, pump |-> sess.pump,
                   crc |-> sess.crc]
      BY <1>1, <3>1 DEF SessShape
    <3>3. /\ is = [f \in Guarded |-> is[f]]
          /\ \A f \in Guarded : is[f] = [v |-> is[f].v, flips |-> is[f].flips]
      <4>1. Hit(sess.inv[g], n) = [v |-> sess.inv[g].v, flips |-> n]
        <5>. DEFINE w == sess.inv[g]
        <5>1. w = [v |-> w.v, flips |-> w.flips]
          BY <1>1
        <5>. HIDE DEF w
        <5>2. Hit(w, n) = [v |-> w.v, flips |-> n]
          BY <5>1 DEF Hit
        <5>. QED
          BY <5>2 DEF w
      <4>2. /\ Hit(sess.inv[g], n).v = sess.inv[g].v /\ Hit(sess.inv[g], n).flips = n
        BY <4>1
      <4>3. /\ is = [f \in Guarded |-> is[f]] /\ is[g] = Hit(sess.inv[g], n)
            /\ \A f \in Guarded \ {g} : is[f] = sess.inv[f]
        BY <1>1 DEF SessShape
      <4>. HIDE DEF is
      <4>. QED
        BY <1>1, <4>1, <4>2, <4>3
    <3>. HIDE DEF is
    <3>4. /\ sess'.magic = sess.magic /\ sess'.word = sess.word /\ sess'.inv = is
          /\ sess'.pump = sess.pump /\ sess'.crc = sess.crc
      BY <3>2
    <3>. QED
      BY <1>1, <3>2, <3>3, <3>4 DEF SessKept, SessShape
  <2>3. CASE sess' = [sess EXCEPT !.magic = Junk] \/ sess' = [sess EXCEPT !.crc = Junk]
    <3>1. PICK m, c : sess' = [magic |-> m, word |-> sess.word, inv |-> sess.inv,
                               pump |-> sess.pump, crc |-> c]
      BY <1>1, <2>3 DEF SessShape
    <3>2. /\ sess'.magic = m /\ sess'.word = sess.word /\ sess'.inv = sess.inv
          /\ sess'.pump = sess.pump /\ sess'.crc = c
      BY <3>1
    <3>. QED
      BY <1>1, <3>1, <3>2 DEF SessKept, SessShape
  <2>4. \/ \E n \in Flips, g \in Fields : sess' = [sess EXCEPT !.word[g] = Hit(@, n)]
        \/ \E n \in Flips, g \in Guarded : sess' = [sess EXCEPT !.inv[g] = Hit(@, n)]
        \/ sess' = [sess EXCEPT !.magic = Junk] \/ sess' = [sess EXCEPT !.crc = Junk]
    BY DEF SessionFault, SessionHits
  <2>. QED
    BY <2>1, <2>2, <2>3, <2>4, Zenon
<1>. QED
  BY <1>2, Strikes, SessionStruck DEF SessionFault

LEMMA PumpFaults ==
  ASSUME SessInv, PumpFault
  PROVE  SessInv'
<1>1. /\ SessKept(sess, want.val) /\ SessShape(sess)
  BY SessShaped DEF SessInv
<1>2. sess' = [magic |-> sess.magic, word |-> sess.word, inv |-> sess.inv, pump |-> Junk,
               crc |-> sess.crc]
  BY <1>1 DEF PumpFault, SessShape
<1>3. /\ sess'.magic = sess.magic /\ sess'.word = sess.word /\ sess'.inv = sess.inv
      /\ sess'.pump = Junk /\ sess'.crc = sess.crc
  BY <1>2
<1>4. SessKept(sess', want.val)
  BY <1>1, <1>2, <1>3 DEF SessKept
<1>. QED
  BY <1>4, Strikes, SessionStruck DEF PumpFault

\* A fault leaves the words of a record what was written, or junk.
LEMMA RecordStruck ==
  ASSUME NEW snap, NEW r, BankKept(r, snap), NEW s \in RecordHits(r)
  PROVE  BankKept(s, snap)
<1>1. /\ r = [magic |-> r.magic, word |-> r.word, inv |-> r.inv, sessCrc |-> r.sessCrc,
              sessCrcInv |-> r.sessCrcInv, crc |-> r.crc]
      /\ r.word = [f \in Fields |-> r.word[f]] /\ r.inv = [f \in Fields |-> r.inv[f]]
  BY DEF BankKept
<1>2. CASE \E n \in Flips, g \in Fields : s = [r EXCEPT !.word[g] = Hit(@, n)]
  <2>1. PICK n \in Flips, g \in Fields : s = [r EXCEPT !.word[g] = Hit(@, n)]
    BY <1>2
  <2>. DEFINE ws == [r.word EXCEPT ![g] = Hit(@, n)]
  <2>2. s = [magic |-> r.magic, word |-> ws, inv |-> r.inv, sessCrc |-> r.sessCrc,
             sessCrcInv |-> r.sessCrcInv, crc |-> r.crc]
    BY <1>1, <2>1
  <2>3. ws = [f \in Fields |-> ws[f]] /\ \A f \in Fields : ws[f] \in Word(snap.val[f], Junk)
    <3>1. Hit(r.word[g], n) \in Word(snap.val[g], Junk)
      BY Kept DEF BankKept
    <3>. QED
      BY <1>1, <3>1 DEF BankKept
  <2>. HIDE DEF ws
  <2>4. /\ s.magic = r.magic /\ s.word = ws /\ s.inv = r.inv /\ s.sessCrc = r.sessCrc
        /\ s.sessCrcInv = r.sessCrcInv /\ s.crc = r.crc
    BY <2>2
  <2>. QED
    BY <2>2, <2>3, <2>4 DEF BankKept
<1>3. CASE \E n \in Flips, g \in Fields : s = [r EXCEPT !.inv[g] = Hit(@, n)]
  <2>1. PICK n \in Flips, g \in Fields : s = [r EXCEPT !.inv[g] = Hit(@, n)]
    BY <1>3
  <2>. DEFINE is == [r.inv EXCEPT ![g] = Hit(@, n)]
  <2>2. s = [magic |-> r.magic, word |-> r.word, inv |-> is, sessCrc |-> r.sessCrc,
             sessCrcInv |-> r.sessCrcInv, crc |-> r.crc]
    BY <1>1, <2>1
  <2>3. is = [f \in Fields |-> is[f]] /\ \A f \in Fields : is[f] \in Word(snap.val[f], JunkInverse)
    <3>1. Hit(r.inv[g], n) \in Word(snap.val[g], JunkInverse)
      BY Kept DEF BankKept
    <3>. QED
      BY <1>1, <3>1 DEF BankKept
  <2>. HIDE DEF is
  <2>4. /\ s.magic = r.magic /\ s.word = r.word /\ s.inv = is /\ s.sessCrc = r.sessCrc
        /\ s.sessCrcInv = r.sessCrcInv /\ s.crc = r.crc
    BY <2>2
  <2>. QED
    BY <2>2, <2>3, <2>4 DEF BankKept
<1>4. CASE \E n \in Flips : s = [r EXCEPT !.sessCrc = Hit(@, n)]
  <2>1. PICK n \in Flips : s = [r EXCEPT !.sessCrc = Hit(@, n)]
    BY <1>4
  <2>. DEFINE w == Hit(r.sessCrc, n)
  <2>2. w \in Word(snap.crc, Junk)
    BY Kept DEF BankKept
  <2>3. s = [r EXCEPT !.sessCrc = w]
    BY <2>1
  <2>. HIDE DEF w
  <2>4. s = [magic |-> r.magic, word |-> r.word, inv |-> r.inv, sessCrc |-> w,
             sessCrcInv |-> r.sessCrcInv, crc |-> r.crc]
    BY <1>1, <2>3
  <2>5. /\ s.magic = r.magic /\ s.word = r.word /\ s.inv = r.inv /\ s.sessCrc = w
        /\ s.sessCrcInv = r.sessCrcInv /\ s.crc = r.crc
    BY <2>4
  <2>. QED
    BY <2>2, <2>4, <2>5 DEF BankKept
<1>5. CASE s = [r EXCEPT !.magic = FALSE] \/ s = [r EXCEPT !.crc = Junk]
  <2>1. PICK m, c : s = [magic |-> m, word |-> r.word, inv |-> r.inv, sessCrc |-> r.sessCrc,
                         sessCrcInv |-> r.sessCrcInv, crc |-> c]
    BY <1>1, <1>5
  <2>2. /\ s.magic = m /\ s.word = r.word /\ s.inv = r.inv /\ s.sessCrc = r.sessCrc
        /\ s.sessCrcInv = r.sessCrcInv /\ s.crc = c
    BY <2>1
  <2>. QED
    BY <2>1, <2>2 DEF BankKept
<1>6. \/ \E n \in Flips, g \in Fields : s = [r EXCEPT !.word[g] = Hit(@, n)]
      \/ \E n \in Flips, g \in Fields : s = [r EXCEPT !.inv[g] = Hit(@, n)]
      \/ \E n \in Flips : s = [r EXCEPT !.sessCrc = Hit(@, n)]
      \/ s = [r EXCEPT !.magic = FALSE] \/ s = [r EXCEPT !.crc = Junk]
  BY DEF RecordHits
<1>. QED
  BY <1>2, <1>3, <1>4, <1>5, <1>6, Zenon

LEMMA RecordFaults ==
  ASSUME SessInv, NEW b \in BankIds, RecordFault(b)
  PROVE  SessInv'
<1>1. PICK r \in RecordHits(rec[b]) : rec' = [rec EXCEPT ![b] = r]
  BY DEF RecordFault
<1>2. /\ Strike /\ hitBanks' = hitBanks \cup {b} /\ answer' = "none"
      /\ UNCHANGED <<sess, guard, phase, want, written, hitSess, tainted>>
  BY DEF RecordFault
<1>3. faults' \in 0..FaultMax
  BY <1>2, Strikes
<1>4. /\ rec' = [c \in BankIds |-> rec'[c]] /\ rec'[b] = r
      /\ \A c \in BankIds \ {b} : rec'[c] = rec[c]
  BY <1>1 DEF SessInv, Shapes
<1>5. Shapes'
  BY <1>2, <1>3, <1>4 DEF SessInv, Shapes
<1>6. Banks'
  <2>1. BankKept(r, written)
    BY RecordStruck DEF SessInv, Banks
  <2>. QED
    BY <1>2, <1>4, <2>1 DEF SessInv, Banks
<1>. QED
  BY <1>2, <1>5, <1>6 DEF SessInv, SessKept, Histories, AnswerTrue, FailJustified

LEMMA GuardFaults ==
  ASSUME SessInv, NEW b \in BankIds, GuardFault(b)
  PROVE  SessInv'
<1>1. /\ Strike /\ hitBanks' = hitBanks \cup {b} /\ answer' = "none"
      /\ guard' = [guard EXCEPT ![b] = FALSE]
      /\ UNCHANGED <<sess, rec, phase, want, written, hitSess, tainted>>
  BY DEF GuardFault
<1>2. faults' \in 0..FaultMax
  BY <1>1, Strikes
<1>3. guard' \in [BankIds -> BOOLEAN] /\ \A c \in BankIds \ {b} : guard'[c] = guard[c]
  BY <1>1 DEF SessInv, Shapes
<1>4. Shapes'
  BY <1>1, <1>2, <1>3 DEF SessInv, Shapes
<1>5. Banks'
  BY <1>1, <1>3 DEF SessInv, Banks
<1>. QED
  BY <1>1, <1>4, <1>5 DEF SessInv, SessKept, Histories, AnswerTrue, FailJustified

-----------------------------------------------------------------------------
(* Theorems *)

LEMMA InitHolds ==
  ASSUME Init
  PROVE  SessInv
<1>. DEFINE vals == FreeFields
            ws == [f \in Fields |-> Encode(vals[f])]
            is == [f \in Guarded |-> Encode(0)]
            s0 == [magic |-> FREE, word |-> ws, inv |-> is, pump |-> 0, crc |-> Junk]
            w == [val |-> vals, pump |-> 0]
<1>1. vals = [f \in Fields |-> vals[f]] /\ vals \in [Fields -> 0..2] /\ vals["state"] = FREE
      /\ \A f \in Fields : vals[f] = 0
  BY DEF FreeFields, Fields, FREE
<1>2. WantOk(w) /\ w.val = vals /\ w.pump = 0
  <2>1. w.val = vals /\ w.pump = 0
    OBVIOUS
  <2>. QED
    BY <1>1, <2>1 DEF WantOk
<1>3. SessShape(s0) /\ ReadsLike(s0, w)
  <2>1. /\ ws = [f \in Fields |-> ws[f]] /\ is = [f \in Guarded |-> is[f]]
        /\ \A f \in Fields : Read(ws[f], Junk) = vals[f]
        /\ \A f \in Guarded : Read(is[f], JunkInverse) = vals[f]
    BY <1>1, Encoded DEF Guarded, Fields
  <2>. HIDE DEF ws, is, vals, w
  <2>2. s0.magic = FREE /\ s0.word = ws /\ s0.inv = is /\ s0.pump = 0 /\ s0.crc = Junk
    OBVIOUS
  <2>3. SessShape(s0)
    BY <2>1, <2>2 DEF SessShape
  <2>4. ReadWords(s0) = vals /\ ReadInverses(s0) = [f \in Guarded |-> vals[f]]
    BY <1>1, <2>1, <2>2 DEF ReadWords, ReadInverses
  <2>. QED
    BY <1>1, <1>2, <2>2, <2>3, <2>4 DEF ReadsLike
<1>4. EncodeAll(vals) = ws
  BY <1>1, EncodedReads
<1>5. InitSession = Refreshed(s0)
  BY <1>4 DEF InitSession
<1>. HIDE DEF s0, w, vals
<1>6. /\ Refreshed(s0) = [magic |-> s0.magic,
                          word |-> [f \in Fields |-> Encode(Read(s0.word[f], Junk))],
                          inv |-> [f \in Guarded |-> Encode(Read(s0.inv[f], JunkInverse))],
                          pump |-> s0.pump, crc |-> CrcFrom(s0)]
      /\ SnapshotOf(Refreshed(s0)) = [val |-> ReadWords(s0), crc |-> CrcFrom(s0)]
  BY <1>3, Refreshes
<1>7. CrcFrom(s0) = CrcOf(w) /\ ReadWords(s0) = vals
  BY <1>2, <1>3 DEF ReadsLike, CrcFrom, CrcOf
<1>8. SnapshotOf(InitSession) = [val |-> vals, crc |-> CrcOf(w)]
  BY <1>5, <1>6, <1>7
<1>9. InitSession = Exact(w)
  <2>1. \A f \in Fields : Read(s0.word[f], Junk) = w.val[f]
    <3>1. \A f \in Fields : Read(s0.word[f], Junk) = ReadWords(s0)[f]
      BY DEF ReadWords
    <3>. QED
      BY <1>3, <3>1 DEF ReadsLike
  <2>2. \A f \in Guarded : Read(s0.inv[f], JunkInverse) = w.val[f]
    <3>1. \A f \in Guarded : Read(s0.inv[f], JunkInverse) = ReadInverses(s0)[f]
      BY DEF ReadInverses
    <3>2. \A f \in Guarded : ReadInverses(s0)[f] = w.val[f]
      BY <1>3 DEF ReadsLike
    <3>. QED
      BY <3>1, <3>2
  <2>3. /\ [f \in Fields |-> Encode(Read(s0.word[f], Junk))] = [f \in Fields |-> Encode(w.val[f])]
        /\ [f \in Guarded |-> Encode(Read(s0.inv[f], JunkInverse))]
             = [f \in Guarded |-> Encode(w.val[f])]
    BY <2>1, <2>2
  <2>. QED
    BY <1>3, <1>5, <1>6, <1>7, <2>3 DEF Exact, ReadsLike
<1>10. /\ sess = Exact(w) /\ want = w /\ written = [val |-> vals, crc |-> CrcOf(w)]
       /\ rec = [b \in BankIds |-> RecordOf(written)] /\ guard = [b \in BankIds |-> TRUE]
       /\ phase = "boot" /\ answer = "none" /\ faults = 0 /\ hitBanks = {}
       /\ hitSess = FALSE /\ tainted = FALSE
  BY <1>8, <1>9 DEF Init, w, vals
<1>11. Snapshot(written) /\ written.val = vals
  BY <1>1, <1>10 DEF Snapshot
<1>12. Shapes
  <2>1. faults \in 0..FaultMax /\ hitBanks \subseteq BankIds
    BY <1>10, SessionAssumption
  <2>2. guard \in [BankIds -> BOOLEAN] /\ rec = [b \in BankIds |-> rec[b]]
    BY <1>10
  <2>. QED
    BY <1>2, <1>10, <1>11, <2>1, <2>2 DEF Shapes, Snapshot
<1>13. Banks
  <2>1. \A b \in BankIds : guard[b] /\ rec[b] = RecordOf(written)
    BY <1>10
  <2>. QED
    BY <2>1, <1>11, SealedFacts DEF Banks
<1>14. SessKept(sess, want.val)
  <2>1. Values(vals)
    BY <1>1 DEF Values
  <2>2. sess = Voiced(vals, w.pump, CrcOf(w))
    BY <1>2, <1>10 DEF Exact, Voiced
  <2>3. Speaks(sess, vals, w.pump, CrcOf(w))
    BY <2>1, <2>2, VoicedFacts
  <2>4. /\ SessShape(sess) /\ sess.word = [f \in Fields |-> Encode(vals[f])]
        /\ sess.inv = [f \in Guarded |-> Encode(vals[f])]
    BY <2>3 DEF Speaks
  <2>5. \A f \in Fields : sess.word[f] \in Word(vals[f], Junk)
    BY <2>4, Encoded
  <2>6. \A f \in Guarded : sess.inv[f] = [v |-> sess.inv[f].v, flips |-> sess.inv[f].flips]
    BY <2>4 DEF Encode
  <2>. QED
    BY <1>2, <1>10, <2>4, <2>5, <2>6 DEF SessKept, SessShape
<1>15. Histories
  BY <1>2, <1>10 DEF Histories
<1>. QED
  BY <1>10, <1>12, <1>13, <1>14, <1>15 DEF SessInv, AnswerTrue, FailJustified

LEMMA StepHolds ==
  ASSUME SessInv, [Next]_vars
  PROVE  SessInv'
<1>1. FreeFields \in [Fields -> 0..2] /\ FreeFields["state"] \in {FREE, ACTIVE}
  BY DEF FreeFields, Fields, FREE, ACTIVE
<1>2. ActiveFields \in [Fields -> 0..2] /\ ActiveFields["state"] \in {FREE, ACTIVE}
  BY DEF ActiveFields, Fields, FREE, ACTIVE
<1>3. phase \in {"boot", "up", "stopping", "failed"}
  BY DEF SessInv, Shapes
<1>4. CASE Prepare
  BY <1>2, <1>4, WholeWrites DEF Prepare
<1>5. CASE Close
  BY <1>1, <1>5, WholeWrites DEF Close
<1>6. CASE Touch
  <2>1. PICK v \in {1, 2} : WriteField("client_fd", v)
    BY <1>6 DEF Touch
  <2>2. phase' \in {"boot", "up", "stopping", "failed"}
    BY <1>3, <1>6 DEF Touch
  <2>. QED
    BY <2>1, <2>2, FieldWrites
<1>7. CASE MarkCloseReason
  <2>1. WriteField("close_reason", 1) /\ phase' \in {"boot", "up", "stopping", "failed"}
    BY <1>3, <1>7 DEF MarkCloseReason
  <2>. QED
    BY <2>1, FieldWrites
<1>8. CASE UNCHANGED vars
  BY <1>8 DEF vars, faultVars, SessInv, Shapes, Banks, SessKept, Histories, AnswerTrue,
               FailJustified
<1>. QED
  BY <1>4, <1>5, <1>6, <1>7, <1>8, SelfTests, Reconciles, PumpWrites, Scrubs, SessionFaults,
     PumpFaults, RecordFaults, GuardFaults, Zenon DEF Next, Operation, Fault

LEMMA InvHolds == Spec => []SessInv
<1>1. Init => SessInv
  BY InitHolds
<1>2. SessInv /\ [Next]_vars => SessInv'
  BY StepHolds
<1>. QED
  BY <1>1, <1>2, PTL DEF Spec

\* A bank that passes validation, its record CRC recomputed or not, holds what
\* was last written to it, whatever struck it (llps_session_tmr_record_is_valid).
THEOREM NoBankIsForged == Spec => []BanksSound
<1>1. SessInv => BanksSound
  <2>. SUFFICES ASSUME SessInv PROVE BanksSound
    OBVIOUS
  <2>1. NoForgedBank
    BY ValidIsWritten DEF NoForgedBank, SessInv
  <2>2. /\ DOMAIN sess.word = Fields /\ DOMAIN sess.inv = Guarded
    BY SessShaped DEF SessShape
  <2>3. \A f \in Fields : WordOk(sess.word[f])
    BY DEF SessInv, SessKept, Word, WordOk
  <2>4. \A b \in BankIds, f \in Fields : WordOk(rec[b].word[f]) /\ WordOk(rec[b].inv[f])
    BY DEF SessInv, Banks, BankKept, Word, WordOk
  <2>. QED
    BY <2>1, <2>2, <2>3, <2>4 DEF BanksSound, TypeOK, SessInv, Shapes
<1>. QED
  BY <1>1, InvHolds, PTL

\* A reconcile that succeeds leaves the program's own values
\* (llps_session_reconcile_integrity).
THEOREM ReconcileTellsTheTruth == Spec => []AnswerTrue
<1>1. SessInv => AnswerTrue
  BY DEF SessInv
<1>. QED
  BY <1>1, InvHolds, PTL

\* A reconcile fails only for two struck banks, struck pump arguments, or a
\* struck session that a refresh had copied (llps_session_reconcile_integrity).
THEOREM EveryFailureJustified == Spec => []FailJustified
<1>1. SessInv => FailJustified
  BY DEF SessInv
<1>. QED
  BY <1>1, InvHolds, PTL
=============================================================================
