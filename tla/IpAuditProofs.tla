--------------------------- MODULE IpAuditProofs ---------------------------
(***************************************************************************)
(* The audit file for any number of writers, events, crashes, short writes *)
(* and restarts: an acknowledged record stays in the file, no number is    *)
(* handed out twice, authenticated and other records do not mix, and a     *)
(* file that was never cut short goes on with the next number.             *)
(*                                                                         *)
(* The argument: an acknowledged row stands in the durable part of the     *)
(* file on a line of its own (AckPlaced), so a scan that accepts the file  *)
(* has met it and has counted at least up to it (Met), whatever else the   *)
(* crashes left behind.  For the last statement, a scan of whole records   *)
(* ends between two of them (Resting), and the text of a record takes it   *)
(* from there to the next such place (AuditAppended, EvidenceAppended).    *)
(* The scan is a recursive function; induction over its positions is by    *)
(* the least position where a statement fails.                             *)
(***************************************************************************)
EXTENDS IpAudit, TLAPS, WellFoundedInduction, NaturalsInduction

-----------------------------------------------------------------------------
(* The inductive invariant *)

Nums == 0..SeqMax
AuditRows == [k : {"audit"}, seq : Nums, req : Nat, type : Types, no : Nums]
EvidenceRows == [k : {"evidence"}, seq : Nums, req : Nat]
MacRows == [k : {"mac"}, seq : Nums, key : Keys]
RoleNames == {"client", "listen", "target", "backend"}
Plain == {NL, Remark, Torn, Magic, MacTable}
Token ==
  Plain \cup AuditRows \cup EvidenceRows \cup MacRows
    \cup [k : {"endpoint"}, seq : Nums, role : RoleNames]
    \cup [k : {"evidence_mac"}, seq : Nums, key : Keys]

\* Rows begin a line, whatever was cut off.
Rows == {"audit", "evidence", "mac"}
Text(t) ==
  /\ t \in Seq(Token)
  /\ \A i \in 1..Len(t) : t[i].k \in Rows => i > 1 /\ t[i - 1] = NL

\* A whole line of its own.
OwnLine(t, i) == i \in 2..(Len(t) - 1) /\ t[i - 1] = NL /\ t[i + 1] = NL

\* What a blocking write holds.
Holds(t, m) ==
  /\ Text(t) /\ OwnLine(t, 3) /\ t[1] = Remark /\ t[3].k \in {"audit", "evidence"}
  /\ IF m THEN t[3].k = "audit" =>
                 \E i \in 1..Len(t) : t[i].k = "mac" /\ t[i].seq = t[3].seq
          ELSE \A i \in 1..Len(t) : t[i].k # "mac"

Shapes ==
  /\ Text(file) /\ durable \in 0..Len(file)
  /\ key \in Keys /\ fingerprint \in Keys
  /\ up \in BOOLEAN /\ mac \in BOOLEAN /\ clean \in BOOLEAN
  /\ seq \in Nums /\ evidenceSeq \in Nums /\ counts \in [Types -> Nums]
  /\ calls \in 0..MaxCalls /\ boots \in 0..MaxBoots /\ tears \in 0..TearMax

\* One write at a time, in a process that is up.
Jobs ==
  /\ job = [w \in Writers |-> job[w]]
  /\ \A w \in Writers : job[w] # <<>> => up /\ Holds(job[w], mac)
  /\ \A v, w \in Writers : job[v] # <<>> /\ job[w] # <<>> => v = w

\* Acknowledged rows stand in the durable part of the file.
Placed(r) == \E i \in 1..durable : file[i] = r /\ i < durable /\ OwnLine(file, i)
AckPlaced == \A r \in acked : r \in AuditRows \cup EvidenceRows /\ Placed(r)

\* A process numbers beyond what was acknowledged.
NotBeyond(r, n, c, e) ==
  /\ r.k = "audit" => r.seq <= n /\ r.no <= c[r.type]
  /\ r.k = "evidence" => r.seq <= e
AckNumbered == up => \A r \in acked : NotBeyond(r, seq, counts, evidenceSeq)

\* A row that is being written has numbers nobody else has.
Fresh(row, n, c, e, a) ==
  /\ row.k = "audit" =>
       /\ row.seq = n /\ row.no = c[row.type]
       /\ \A r \in a : r.k = "audit" =>
            r.seq < row.seq /\ (r.type = row.type => r.no < row.no)
  /\ row.k = "evidence" =>
       /\ row.seq = e
       /\ \A r \in a : r.k = "evidence" => r.seq < row.seq
JobsFresh ==
  \A w \in Writers :
    job[w] # <<>> => Fresh(RowOf(job[w]), seq, counts, evidenceSeq, acked)

SignedIn(t) == {t[i].seq : i \in {j \in DOMAIN t : t[j].k = "mac"}}

AuditFileInv ==
  Shapes /\ Jobs /\ AckPlaced /\ AckNumbered /\ JobsFresh /\ NumbersUnique /\ SignedStaysSigned

-----------------------------------------------------------------------------
(* Induction *)

LEMMA SetInduction ==
  ASSUME NEW S, 0 \in S, \A n \in Nat : n \in S => n + 1 \in S
  PROVE  Nat \subseteq S
<1>. SUFFICES ASSUME Nat \ S # {} PROVE FALSE
  OBVIOUS
<1>1. PICK x \in Nat \ S : \A y \in Nat \ S : ~(<<y, x>> \in OpToRel(<, Nat))
  BY NatLessThanWellFounded, WFMin
<1>2. \A y \in Nat \ S : ~(y < x)
  BY <1>1 DEF OpToRel
<1>3. x # 0 /\ x - 1 \in Nat /\ x - 1 < x
  OBVIOUS
<1>4. x - 1 \in S
  BY <1>2, <1>3
<1>. QED
  BY <1>3, <1>4

\* The loop of llps_ip_audit_scan_read_lines as a function of the position.
IsScan(f, n, t, m, fp) ==
  /\ f = [i \in 0..n |-> f[i]]
  /\ f[0] = ScanInit
  /\ \A i \in 1..n : f[i] = ReadText(f[i - 1], t[i], m, fp)

LEMMA ScanExists ==
  ASSUME NEW t, NEW m, NEW fp, NEW n \in Nat
  PROVE  \E f : IsScan(f, n, t, m, fp)
<1>. DEFINE S == {i \in Nat : \E f : IsScan(f, i, t, m, fp)}
<1>1. 0 \in S
  <2>. DEFINE f0 == [i \in 0..0 |-> ScanInit]
  <2>1. f0[0] = ScanInit /\ f0 = [i \in 0..0 |-> f0[i]] /\ 1..0 = {}
    OBVIOUS
  <2>. HIDE DEF f0
  <2>2. IsScan(f0, 0, t, m, fp)
    BY <2>1 DEF IsScan
  <2>. QED
    BY <2>2
<1>2. ASSUME NEW i \in Nat, i \in S
      PROVE  i + 1 \in S
  <2>1. PICK f : IsScan(f, i, t, m, fp)
    BY <1>2
  <2>. DEFINE g == [j \in 0..(i + 1) |-> IF j <= i THEN f[j]
                                        ELSE ReadText(f[i], t[i + 1], m, fp)]
  <2>2. /\ \A j \in 0..i : g[j] = f[j]
        /\ g[i + 1] = ReadText(f[i], t[i + 1], m, fp)
        /\ g = [j \in 0..(i + 1) |-> g[j]]
    OBVIOUS
  <2>. HIDE DEF g
  <2>3. ASSUME NEW j \in 1..(i + 1)
        PROVE  g[j] = ReadText(g[j - 1], t[j], m, fp)
    <3>1. CASE j = i + 1
      <4>1. j - 1 = i /\ g[j - 1] = f[i]
        BY <2>2, <3>1
      <4>. QED
        BY <2>2, <3>1, <4>1
    <3>2. CASE j \in 1..i
      <4>0. j - 1 \in 0..i /\ j \in 0..i
        BY <3>2
      <4>1. g[j - 1] = f[j - 1] /\ g[j] = f[j]
        BY <2>2, <4>0
      <4>. QED
        BY <2>1, <3>2, <4>1 DEF IsScan
    <3>. QED
      BY <3>1, <3>2
  <2>4. g[0] = ScanInit
    BY <2>1, <2>2 DEF IsScan
  <2>5. IsScan(g, i + 1, t, m, fp)
    BY <2>2, <2>3, <2>4 DEF IsScan
  <2>. QED
    BY <2>5
<1>. HIDE DEF S
<1>3. Nat \subseteq S
  BY <1>1, <1>2, SetInduction
<1>. QED
  BY <1>3 DEF S

LEMMA ReadLinesIs ==
  ASSUME NEW t, Len(t) \in Nat, NEW m, NEW fp
  PROVE  \E f : IsScan(f, Len(t), t, m, fp) /\ ReadLines(t, m, fp) = f[Len(t)]
<1>. DEFINE Eq(g) == g = [i \in 0..Len(t) |-> IF i = 0 THEN ScanInit
                                             ELSE ReadText(g[i - 1], t[i], m, fp)]
            scan == CHOOSE g : g = [i \in 0..Len(t) |-> IF i = 0 THEN ScanInit
                                             ELSE ReadText(g[i - 1], t[i], m, fp)]
<1>1. PICK f : IsScan(f, Len(t), t, m, fp)
  BY ScanExists
<1>2. Eq(f)
  <2>1. /\ f = [i \in 0..Len(t) |-> f[i]]
        /\ \A i \in 0..Len(t) : f[i] = IF i = 0 THEN ScanInit
                                       ELSE ReadText(f[i - 1], t[i], m, fp)
    BY <1>1 DEF IsScan
  <2>. QED
    BY <2>1
<1>3. Eq(scan)
  BY <1>2
<1>4. ReadLines(t, m, fp) = scan[Len(t)]
  BY DEF ReadLines
<1>. HIDE DEF scan
<1>5. IsScan(scan, Len(t), t, m, fp)
  <2>1. scan = [i \in 0..Len(t) |-> scan[i]]
    BY <1>3
  <2>2. scan[0] = ScanInit
    BY <1>3
  <2>3. \A i \in 1..Len(t) : scan[i] = ReadText(scan[i - 1], t[i], m, fp)
    BY <1>3
  <2>. QED
    BY <2>1, <2>2, <2>3 DEF IsScan
<1>. QED
  BY <1>4, <1>5

-----------------------------------------------------------------------------
(* One line of the scan *)

Rec == [active : BOOLEAN, row : Token, seen : SUBSET RoleNames, macSeen : BOOLEAN]
State ==
  [ok : BOOLEAN, line : Token, audit : Rec, evidence : Rec, seq : Nums, evidenceSeq : Nums,
   counts : [Types -> Nums]]
ScanState(s) == s \in State /\ (s.audit.active => s.audit.row \in AuditRows)

\* The last number met, and the last one of an event type.
Top(s) == IF s.audit.active THEN s.audit.row.seq ELSE s.seq
TopNo(s, t) ==
  IF s.audit.active /\ s.audit.row.type = t THEN s.audit.row.no ELSE s.counts[t]

\* What reading line l makes of s: numbers only grow, a row is taken over, and
\* a record is left only with its MAC where MACs are required.
Onward(s, r) ==
  /\ Top(s) <= Top(r) /\ s.evidenceSeq <= r.evidenceSeq
  /\ \A t \in Types : TopNo(s, t) <= TopNo(r, t)
Taken(r, l, m) ==
  /\ l.k = "audit" => r.audit.active /\ r.audit.row = l
  /\ l.k = "evidence" => r.evidenceSeq = l.seq
  /\ l.k = "mac" => m
  /\ l.k # "torn"
Signing(s, r, l, m) ==
  /\ m /\ s.audit.active => s.audit.macSeen \/ (r.audit.active /\ r.audit.row = s.audit.row)
  /\ r.audit.active /\ r.audit.macSeen =>
       \/ s.audit.active /\ s.audit.macSeen /\ r.audit.row = s.audit.row
       \/ l.k = "mac" /\ l.seq = r.audit.row.seq
Goes(s, r, l, m) ==
  ScanState(r) /\ (r.ok => s.ok /\ Onward(s, r) /\ Taken(r, l, m) /\ Signing(s, r, l, m))

LEMMA TokenKinds ==
  ASSUME NEW x \in Token
  PROVE  /\ x.k = "audit" => x \in AuditRows
         /\ x.k = "evidence" => x \in EvidenceRows
         /\ x.k = "mac" => x \in MacRows
         /\ x.k = "nl" <=> x = NL
         /\ x.k = "torn" <=> x = Torn
         /\ Ignorable(x) <=> x.k \in {"remark", "mactable", "magic"}
         /\ x.k \in {"nl", "remark", "torn", "magic", "mactable", "audit", "endpoint", "mac",
                     "evidence", "evidence_mac"}
BY DEF Token, Plain, AuditRows, EvidenceRows, MacRows, NL, Remark, Torn, Magic, MacTable,
       Ignorable

LEMMA PlainTokens == NL \in Token /\ Remark \in Token /\ Torn \in Token
BY DEF Token, Plain

LEMMA NumsAre == Nums \subseteq Nat /\ 0 \in Nums
BY IpAuditAssumption DEF Nums

\* A record whose first row was read.
Opened(x) == [Idle EXCEPT !.active = TRUE, !.row = x]

LEMMA IdleIs == Idle \in Rec /\ ~Idle.active
BY PlainTokens DEF Idle, Rec

LEMMA OpenedIs ==
  ASSUME NEW x \in Token
  PROVE  Opened(x) \in Rec /\ Opened(x).active /\ Opened(x).row = x /\ ~Opened(x).macSeen
BY PlainTokens DEF Opened, Idle, Rec

LEMMA RefusedIs ==
  ASSUME NEW s, ScanState(s)
  PROVE  ScanState(Refused(s)) /\ ~Refused(s).ok
BY DEF ScanState, State, Refused

LEMMA FinalizedIs ==
  ASSUME NEW s, ScanState(s), NEW m \in BOOLEAN
  PROVE  LET f == FinalizeRecord(s, m)
         IN  /\ ScanState(f) /\ (f.ok => s.ok)
             /\ f.line = s.line /\ f.evidence = s.evidence /\ f.evidenceSeq = s.evidenceSeq
             /\ f.ok => /\ ~f.audit.active /\ f.seq = Top(s)
                        /\ \A t \in Types : f.counts[t] = TopNo(s, t)
                        /\ m /\ s.audit.active => s.audit.macSeen
<1>1. CASE ~s.audit.active
  BY <1>1 DEF FinalizeRecord, Top, TopNo
<1>2. CASE s.audit.active /\ FinalizeRecord(s, m) = Refused(s)
  BY <1>2, RefusedIs DEF Refused, ScanState, State
<1>3. CASE s.audit.active /\ (m => s.audit.macSeen)
           /\ FinalizeRecord(s, m) = [s EXCEPT !.seq = s.audit.row.seq,
                               !.counts[s.audit.row.type] = s.audit.row.no,
                               !.audit = Idle]
  <2>. DEFINE c == [s.counts EXCEPT ![s.audit.row.type] = s.audit.row.no]
              q == s.audit.row.seq
  <2>1. s.audit.row.type \in Types /\ s.audit.row.no \in Nums /\ q \in Nums
    BY <1>3 DEF ScanState, AuditRows
  <2>2. /\ c \in [Types -> Nums]
        /\ \A t \in Types : c[t] = TopNo(s, t)
    BY <1>3, <2>1 DEF ScanState, State, TopNo
  <2>3. FinalizeRecord(s, m) = [s EXCEPT !.seq = q, !.counts = c, !.audit = Idle]
    BY <1>3
  <2>. HIDE DEF c, q
  <2>4. FinalizeRecord(s, m) \in State
    BY <2>1, <2>2, <2>3, IdleIs DEF ScanState, State
  <2>5. LET f == FinalizeRecord(s, m)
        IN  /\ f.ok = s.ok /\ f.line = s.line /\ f.evidence = s.evidence
            /\ f.evidenceSeq = s.evidenceSeq /\ f.audit = Idle /\ f.seq = q /\ f.counts = c
    BY <2>3 DEF ScanState, State
  <2>6. q = Top(s)
    BY <1>3 DEF q, Top
  <2>. QED
    BY <1>3, <2>2, <2>4, <2>5, <2>6, IdleIs DEF ScanState
<1>. QED
  BY <1>1, <1>2, <1>3 DEF FinalizeRecord

LEMMA RefusedGoes ==
  ASSUME NEW s, ScanState(s), NEW l, NEW m
  PROVE  Goes(s, Refused(s), l, m)
BY RefusedIs DEF Goes

LEMMA TopsAre ==
  ASSUME NEW s, ScanState(s)
  PROVE  /\ Top(s) \in Nums /\ Top(s) \in Nat
         /\ s.evidenceSeq \in Nums /\ s.evidenceSeq \in Nat
         /\ \A t \in Types : TopNo(s, t) \in Nums /\ TopNo(s, t) \in Nat
BY NumsAre DEF ScanState, State, AuditRows, Top, TopNo

LEMMA SameGoes ==
  ASSUME NEW s, ScanState(s), NEW l, l.k \notin {"audit", "evidence", "mac", "torn"}, NEW m,
         s.ok
  PROVE  Goes(s, s, l, m)
<1>2. Onward(s, s)
  BY TopsAre DEF Onward
<1>. QED
  BY <1>2 DEF Goes, Taken, Signing

LEMMA AuditRowGoes ==
  ASSUME NEW s, ScanState(s), NEW l \in AuditRows, NEW m \in BOOLEAN
  PROVE  Goes(s, ScanAuditRow(s, l, m), l, m)
<1>. DEFINE f == FinalizeRecord(s, m)
            r == [f EXCEPT !.audit = Opened(l)]
<1>1. /\ ScanState(f) /\ (f.ok => s.ok) /\ f.evidenceSeq = s.evidenceSeq
      /\ f.ok => /\ ~f.audit.active /\ f.seq = Top(s)
                 /\ \A t \in Types : f.counts[t] = TopNo(s, t)
                 /\ m /\ s.audit.active => s.audit.macSeen
  BY FinalizedIs
<1>2. CASE ScanAuditRow(s, l, m) = Refused(f)
  BY <1>1, <1>2, RefusedIs DEF Goes
<1>3. CASE f.ok /\ l.seq = f.seq + 1 /\ l.no = f.counts[l.type] + 1
           /\ ScanAuditRow(s, l, m) = r
  <2>. HIDE DEF f
  <2>1. l \in Token /\ l.type \in Types /\ l.k = "audit"
    BY DEF Token, AuditRows
  <2>2. /\ r \in State /\ r.audit = Opened(l) /\ r.ok = f.ok /\ r.seq = f.seq
        /\ r.counts = f.counts /\ r.evidenceSeq = f.evidenceSeq
    BY <1>1, <2>1, OpenedIs DEF ScanState, State
  <2>. HIDE DEF r
  <2>3. r.audit.active /\ r.audit.row = l /\ ~r.audit.macSeen
    BY <2>1, <2>2, OpenedIs
  <2>4. ScanState(r) /\ Top(r) = l.seq /\ TopNo(r, l.type) = l.no
    BY <2>2, <2>3 DEF ScanState, Top, TopNo
  <2>5. \A t \in Types : t # l.type => TopNo(r, t) = TopNo(s, t)
    BY <1>1, <1>3, <2>2, <2>3 DEF TopNo
  <2>6. Onward(s, r)
    <3>1. Top(s) <= Top(r) /\ s.evidenceSeq <= r.evidenceSeq
      BY <1>1, <1>3, <2>2, <2>4, TopsAre
    <3>2. TopNo(s, l.type) <= TopNo(r, l.type)
      BY <1>1, <1>3, <2>1, <2>4, TopsAre
    <3>3. \A t \in Types : TopNo(s, t) <= TopNo(r, t)
      BY <2>5, <3>2, TopsAre
    <3>. QED
      BY <3>1, <3>3 DEF Onward
  <2>7. Taken(r, l, m)
    BY <2>1, <2>3 DEF Taken
  <2>8. Signing(s, r, l, m)
    BY <1>1, <1>3, <2>3 DEF Signing
  <2>. QED
    BY <1>1, <1>3, <2>4, <2>6, <2>7, <2>8 DEF Goes
<1>. QED
  BY <1>2, <1>3 DEF ScanAuditRow, Opened

\* Rows that leave numbers alone.
LEMMA QuietGoes ==
  ASSUME NEW s, ScanState(s), NEW r, r \in State, NEW l, NEW m,
         r.ok = s.ok, r.seq = s.seq, r.counts = s.counts, r.evidenceSeq = s.evidenceSeq,
         r.audit.active = s.audit.active, r.audit.row = s.audit.row,
         l.k \notin {"audit", "evidence", "torn"}, l.k = "mac" => m,
         \/ r.audit.macSeen = s.audit.macSeen
         \/ l.k = "mac" /\ l.seq = s.audit.row.seq
  PROVE  Goes(s, r, l, m)
<1>1. ScanState(r) /\ Top(r) = Top(s) /\ \A t \in Types : TopNo(r, t) = TopNo(s, t)
  BY DEF ScanState, Top, TopNo
<1>2. Onward(s, r)
  BY <1>1, TopsAre DEF Onward
<1>. QED
  BY <1>1, <1>2 DEF Goes, Taken, Signing

LEMMA EndpointRowGoes ==
  ASSUME NEW s, ScanState(s), NEW l \in Token, l.k = "endpoint", NEW m
  PROVE  Goes(s, ScanEndpointRow(s, l), l, m)
<1>. DEFINE r == [s EXCEPT !.audit.seen = @ \cup {l.role}]
<1>1. CASE ScanEndpointRow(s, l) = Refused(s)
  BY <1>1, RefusedGoes
<1>2. CASE ScanEndpointRow(s, l) = r
  <2>1. l.role \in RoleNames
    BY DEF Token, Plain, NL, Remark, Torn, Magic, MacTable, AuditRows, EvidenceRows, MacRows
  <2>2. /\ r \in State /\ r.ok = s.ok /\ r.seq = s.seq /\ r.counts = s.counts
        /\ r.evidenceSeq = s.evidenceSeq /\ r.audit.active = s.audit.active
        /\ r.audit.row = s.audit.row /\ r.audit.macSeen = s.audit.macSeen
    BY <2>1 DEF ScanState, State, Rec
  <2>. HIDE DEF r
  <2>. QED
    BY <1>2, <2>2, QuietGoes
<1>. QED
  BY <1>1, <1>2 DEF ScanEndpointRow

LEMMA MacRowGoes ==
  ASSUME NEW s, ScanState(s), NEW l \in Token, l.k = "mac", NEW m, NEW fp
  PROVE  Goes(s, ScanMacRow(s, l, m, fp), l, m)
<1>. DEFINE r == [s EXCEPT !.audit.macSeen = TRUE]
<1>1. CASE ScanMacRow(s, l, m, fp) = Refused(s)
  BY <1>1, RefusedGoes
<1>2. CASE ScanMacRow(s, l, m, fp) = r /\ m /\ l.seq = s.audit.row.seq
  <2>2. /\ r \in State /\ r.ok = s.ok /\ r.seq = s.seq /\ r.counts = s.counts
        /\ r.evidenceSeq = s.evidenceSeq /\ r.audit.active = s.audit.active
        /\ r.audit.row = s.audit.row
    BY DEF ScanState, State, Rec
  <2>. HIDE DEF r
  <2>. QED
    BY <1>2, <2>2, QuietGoes
<1>. QED
  BY <1>1, <1>2 DEF ScanMacRow

LEMMA EvidenceMacRowGoes ==
  ASSUME NEW s, ScanState(s), NEW l \in Token, l.k = "evidence_mac", NEW m, NEW fp
  PROVE  Goes(s, ScanEvidenceMacRow(s, l, m, fp), l, m)
<1>. DEFINE r == [s EXCEPT !.evidence.macSeen = TRUE]
<1>1. CASE ScanEvidenceMacRow(s, l, m, fp) = Refused(s)
  BY <1>1, RefusedGoes
<1>2. CASE ScanEvidenceMacRow(s, l, m, fp) = r
  <2>2. /\ r \in State /\ r.ok = s.ok /\ r.seq = s.seq /\ r.counts = s.counts
        /\ r.evidenceSeq = s.evidenceSeq /\ r.audit = s.audit
    BY DEF ScanState, State, Rec
  <2>. HIDE DEF r
  <2>. QED
    BY <1>2, <2>2, QuietGoes
<1>. QED
  BY <1>1, <1>2 DEF ScanEvidenceMacRow

LEMMA EvidenceFinalizedIs ==
  ASSUME NEW s, ScanState(s), NEW m
  PROVE  LET f == FinalizeEvidence(s, m)
         IN  /\ f \in State /\ ScanState(f) /\ (f.ok => s.ok) /\ f.line = s.line
             /\ f.seq = s.seq /\ f.counts = s.counts /\ f.evidenceSeq = s.evidenceSeq
             /\ f.audit = s.audit
<1>. DEFINE r == [s EXCEPT !.evidence = Idle]
<1>1. CASE FinalizeEvidence(s, m) = Refused(s)
  BY <1>1 DEF Refused, ScanState, State
<1>2. CASE FinalizeEvidence(s, m) = r
  <2>1. /\ r \in State /\ r.ok = s.ok /\ r.seq = s.seq /\ r.counts = s.counts
        /\ r.evidenceSeq = s.evidenceSeq /\ r.audit = s.audit /\ r.line = s.line
    BY IdleIs DEF ScanState, State
  <2>. HIDE DEF r
  <2>. QED
    BY <1>2, <2>1 DEF ScanState
<1>. QED
  BY <1>1, <1>2 DEF FinalizeEvidence

LEMMA EvidenceRowGoes ==
  ASSUME NEW s, ScanState(s), NEW l \in EvidenceRows, NEW m
  PROVE  Goes(s, ScanEvidenceRow(s, l, m), l, m)
<1>. DEFINE f == FinalizeEvidence(s, m)
            r == [f EXCEPT !.evidence = Opened(l), !.evidenceSeq = l.seq]
<1>1. /\ f \in State /\ ScanState(f) /\ (f.ok => s.ok)
      /\ f.seq = s.seq /\ f.counts = s.counts /\ f.evidenceSeq = s.evidenceSeq
      /\ f.audit = s.audit
  BY EvidenceFinalizedIs
<1>2. CASE ScanEvidenceRow(s, l, m) = Refused(f)
  BY <1>1, <1>2, RefusedIs DEF Goes
<1>3. CASE f.ok /\ l.seq = f.evidenceSeq + 1 /\ ScanEvidenceRow(s, l, m) = r
  <2>. HIDE DEF f
  <2>1. l \in Token /\ l.seq \in Nums /\ l.k = "evidence"
    BY DEF Token, EvidenceRows
  <2>2. /\ r \in State /\ r.ok = f.ok /\ r.seq = s.seq /\ r.counts = s.counts
        /\ r.evidenceSeq = l.seq /\ r.audit = s.audit
    BY <1>1, <2>1, OpenedIs DEF State
  <2>. HIDE DEF r
  <2>3. ScanState(r) /\ Top(r) = Top(s) /\ \A t \in Types : TopNo(r, t) = TopNo(s, t)
    BY <2>2 DEF ScanState, Top, TopNo
  <2>4. Onward(s, r)
    BY <1>1, <1>3, <2>2, <2>3, TopsAre DEF Onward
  <2>. QED
    BY <1>1, <1>3, <2>1, <2>2, <2>3, <2>4 DEF Goes, Taken, Signing
<1>. QED
  BY <1>2, <1>3 DEF ScanEvidenceRow, Opened

LEMMA ProcessGoes ==
  ASSUME NEW s, ScanState(s), s.ok, NEW m \in BOOLEAN, NEW fp
  PROVE  Goes(s, ProcessLine(s, m, fp), s.line, m)
<1>0. s.line \in Token
  BY DEF ScanState, State
<1>1. CASE s.line.k = "audit"
  BY <1>0, <1>1, AuditRowGoes, TokenKinds DEF ProcessLine
<1>2. CASE s.line.k = "endpoint"
  BY <1>0, <1>2, EndpointRowGoes DEF ProcessLine
<1>3. CASE s.line.k = "mac"
  BY <1>0, <1>3, MacRowGoes DEF ProcessLine
<1>4. CASE s.line.k = "evidence"
  BY <1>0, <1>4, EvidenceRowGoes, TokenKinds DEF ProcessLine
<1>5. CASE s.line.k = "evidence_mac"
  BY <1>0, <1>5, EvidenceMacRowGoes DEF ProcessLine
<1>6. CASE s.line.k \notin {"audit", "endpoint", "mac", "evidence", "evidence_mac"}
  <2>1. ProcessLine(s, m, fp) = IF Ignorable(s.line) THEN s ELSE Refused(s)
    BY <1>6 DEF ProcessLine
  <2>2. CASE Ignorable(s.line)
    BY <1>0, <2>1, <2>2, SameGoes, TokenKinds
  <2>3. CASE ~Ignorable(s.line)
    BY <2>1, <2>3, RefusedGoes
  <2>. QED
    BY <2>2, <2>3
<1>. QED
  BY <1>1, <1>2, <1>3, <1>4, <1>5, <1>6

-----------------------------------------------------------------------------
(* The loop *)

\* Both records end.
FinalizeBoth(s, m) ==
  LET f == FinalizeRecord(s, m) IN IF f.ok THEN FinalizeEvidence(f, m) ELSE f

LEMMA BothFinalized ==
  ASSUME NEW s, ScanState(s), NEW m \in BOOLEAN
  PROVE  /\ Goes(s, FinalizeBoth(s, m), NL, m)
         /\ FinalizeBoth(s, m).ok => ~FinalizeBoth(s, m).audit.active
<1>. DEFINE f == FinalizeRecord(s, m)
            r == FinalizeBoth(s, m)
<1>1. /\ ScanState(f) /\ (f.ok => s.ok) /\ f.evidenceSeq = s.evidenceSeq
      /\ f.ok => /\ ~f.audit.active /\ f.seq = Top(s)
                 /\ \A t \in Types : f.counts[t] = TopNo(s, t)
                 /\ m /\ s.audit.active => s.audit.macSeen
  BY FinalizedIs
<1>2. r = IF f.ok THEN FinalizeEvidence(f, m) ELSE f
  BY DEF FinalizeBoth
<1>. HIDE DEF f, r
<1>3. CASE ~f.ok
  BY <1>1, <1>2, <1>3 DEF Goes, r
<1>4. CASE f.ok
  <2>1. /\ ScanState(r) /\ r.seq = f.seq /\ r.counts = f.counts /\ r.evidenceSeq = f.evidenceSeq
        /\ r.audit = f.audit
    BY <1>1, <1>2, <1>4, EvidenceFinalizedIs
  <2>2. Top(r) = Top(s) /\ \A t \in Types : TopNo(r, t) = TopNo(s, t)
    BY <1>1, <1>4, <2>1 DEF Top, TopNo
  <2>3. Onward(s, r)
    BY <1>1, <2>1, <2>2, TopsAre DEF Onward
  <2>4. Taken(r, NL, m) /\ Signing(s, r, NL, m)
    BY <1>1, <1>4, <2>1 DEF Taken, Signing, NL
  <2>. QED
    BY <1>1, <1>4, <2>1, <2>3, <2>4 DEF Goes, r
<1>. QED
  BY <1>3, <1>4

LEMMA LineEnds ==
  ASSUME NEW s, NEW b, NEW l, NEW m, Goes(s, b, l, m)
  PROVE  Goes(s, [b EXCEPT !.line = NL], l, m) /\ [b EXCEPT !.line = NL].line = NL
<1>. DEFINE r == [b EXCEPT !.line = NL]
<1>1. b \in State /\ ScanState(b)
  BY DEF Goes, ScanState
<1>2. /\ r \in State /\ r.line = NL /\ r.ok = b.ok /\ r.seq = b.seq /\ r.counts = b.counts
      /\ r.evidenceSeq = b.evidenceSeq /\ r.audit = b.audit
  BY <1>1, PlainTokens DEF State
<1>. HIDE DEF r
<1>3. ScanState(r) /\ Top(r) = Top(b) /\ \A t \in Types : TopNo(r, t) = TopNo(b, t)
  BY <1>1, <1>2 DEF ScanState, Top, TopNo
<1>4. Goes(s, r, l, m)
  BY <1>2, <1>3 DEF Goes, Onward, Taken, Signing
<1>. QED
  BY <1>2, <1>4 DEF r

\* One token.  Only a line end lets a line count.
LEMMA ReadGoes ==
  ASSUME NEW s, ScanState(s), s.ok, NEW x \in Token, NEW m \in BOOLEAN, NEW fp
  PROVE  LET r == ReadText(s, x, m, fp)
         IN  IF x = NL THEN Goes(s, r, s.line, m) /\ r.line = NL
             ELSE /\ Goes(s, r, NL, m) /\ r.audit = s.audit
                  /\ r.line = IF s.line = NL THEN x
                              ELSE IF Ignorable(s.line) THEN Remark ELSE Torn
<1>1. CASE x = NL /\ s.line = NL
  <2>1. ReadText(s, x, m, fp) = [FinalizeBoth(s, m) EXCEPT !.line = NL]
    BY <1>1 DEF ReadText, CompleteLine, FinalizeBoth
  <2>. QED
    BY <1>1, <2>1, BothFinalized, LineEnds
<1>2. CASE x = NL /\ s.line # NL
  <2>1. ReadText(s, x, m, fp) = [ProcessLine(s, m, fp) EXCEPT !.line = NL]
    BY <1>2 DEF ReadText, CompleteLine
  <2>. QED
    BY <1>2, <2>1, ProcessGoes, LineEnds
<1>3. CASE x # NL
  <2>. DEFINE y == IF s.line = NL THEN x ELSE IF Ignorable(s.line) THEN Remark ELSE Torn
              r == [s EXCEPT !.line = y]
  <2>1. ReadText(s, x, m, fp) = r
    BY <1>3 DEF ReadText, ExtendLine
  <2>2. y \in Token
    BY PlainTokens
  <2>. HIDE DEF y
  <2>3. /\ r \in State /\ r.line = y /\ r.ok = s.ok /\ r.seq = s.seq /\ r.counts = s.counts
        /\ r.evidenceSeq = s.evidenceSeq /\ r.audit = s.audit
    BY <2>2 DEF ScanState, State
  <2>. HIDE DEF r
  <2>4. Goes(s, r, NL, m)
    BY <2>3, QuietGoes DEF NL
  <2>. QED
    BY <1>3, <2>1, <2>3, <2>4 DEF y
<1>. QED
  BY <1>1, <1>2, <1>3

\* The scan has met the first n tokens of t.
SignedBy(t, n, q) == \E j \in 1..n : t[j].k = "mac" /\ t[j].seq = q
SignedAt(t, n, s) == s.audit.active /\ s.audit.macSeen => SignedBy(t, n, s.audit.row.seq)
LineAt(t, n, s) ==
  /\ n = 0 => s.line = NL
  /\ n > 0 /\ t[n] = NL => s.line = NL
  /\ n > 0 /\ t[n] # NL /\ (n = 1 \/ t[n - 1] = NL) => s.line = t[n]
  /\ s.line.k = "mac" => \E j \in 1..n : t[j] = s.line
RowMet(x, t, n, s, m) ==
  /\ NotBeyond(x, Top(s), [y \in Types |-> TopNo(s, y)], s.evidenceSeq)
  /\ m /\ x.k = "audit" => SignedBy(t, n, x.seq) \/ (s.audit.active /\ s.audit.row.seq = x.seq)
Met(t, n, s, m) ==
  /\ LineAt(t, n, s)
  /\ \A i \in 1..Len(t) : i < n /\ OwnLine(t, i) => RowMet(t[i], t, n, s, m)
  /\ ~m => \A i \in 1..n : t[i].k = "mac" => s.line.k \in {"mac", "torn"}
  /\ SignedAt(t, n, s)

\* Rows met stay met.
LEMMA MetStays ==
  ASSUME NEW t, NEW n \in Nat, NEW k \in Nat, n <= k, NEW s, NEW r, NEW l,
         NEW m \in BOOLEAN, NEW x \in Token,
         ScanState(s), Goes(s, r, l, m), r.ok, RowMet(x, t, n, s, m), SignedAt(t, n, s)
  PROVE  RowMet(x, t, k, r, m)
<1>1. Onward(s, r) /\ Signing(s, r, l, m) /\ ScanState(r)
  BY DEF Goes
<1>2. \A q : SignedBy(t, n, q) => SignedBy(t, k, q)
  BY DEF SignedBy
<1>3. CASE x.k = "audit"
  <2>1. x.seq \in Nat /\ x.no \in Nat /\ x.type \in Types
    BY <1>3, TokenKinds, NumsAre DEF AuditRows
  <2>2. x.seq <= Top(s) /\ x.no <= TopNo(s, x.type)
    BY <1>3, <2>1 DEF RowMet, NotBeyond
  <2>3. x.seq <= Top(r) /\ x.no <= TopNo(r, x.type)
    BY <1>1, <2>1, <2>2, TopsAre DEF Onward
  <2>4. m => SignedBy(t, k, x.seq) \/ (r.audit.active /\ r.audit.row.seq = x.seq)
    BY <1>1, <1>2, <1>3 DEF RowMet, Signing, SignedAt
  <2>. QED
    BY <1>3, <2>1, <2>3, <2>4 DEF RowMet, NotBeyond
<1>4. CASE x.k = "evidence"
  <2>1. x.seq \in Nat
    BY <1>4, TokenKinds, NumsAre DEF EvidenceRows
  <2>2. x.seq <= s.evidenceSeq
    BY <1>4 DEF RowMet, NotBeyond
  <2>3. x.seq <= r.evidenceSeq
    BY <1>1, <2>1, <2>2, TopsAre DEF Onward
  <2>. QED
    BY <1>4, <2>3 DEF RowMet, NotBeyond
<1>5. CASE x.k \notin {"audit", "evidence"}
  BY <1>5 DEF RowMet, NotBeyond
<1>. QED
  BY <1>3, <1>4, <1>5

LEMMA SignedStays ==
  ASSUME NEW t, NEW n \in Nat, NEW k \in Nat, n <= k, NEW s, NEW r, NEW l, NEW m,
         Goes(s, r, l, m), r.ok, SignedAt(t, n, s),
         l.k = "mac" => \E j \in 1..n : t[j] = l
  PROVE  SignedAt(t, k, r)
<1>. SUFFICES ASSUME r.audit.active, r.audit.macSeen PROVE SignedBy(t, k, r.audit.row.seq)
  BY DEF SignedAt
<1>1. Signing(s, r, l, m)
  BY DEF Goes
<1>2. CASE s.audit.active /\ s.audit.macSeen /\ r.audit.row = s.audit.row
  BY <1>2 DEF SignedAt, SignedBy
<1>3. CASE l.k = "mac" /\ l.seq = r.audit.row.seq
  BY <1>3 DEF SignedBy
<1>. QED
  BY <1>1, <1>2, <1>3 DEF Signing

\* A row on a line of its own is met when the line ends.
LEMMA RowIsMet ==
  ASSUME NEW t, NEW n, NEW s, NEW r, NEW x \in Token, NEW m \in BOOLEAN, ScanState(s),
         Goes(s, r, x, m), r.ok
  PROVE  RowMet(x, t, n, r, m)
<1>1. Taken(r, x, m) /\ ScanState(r)
  BY DEF Goes
<1>2. CASE x.k = "audit"
  <2>1. x.seq \in Nat /\ x.no \in Nat /\ x.type \in Types
    BY <1>2, TokenKinds, NumsAre DEF AuditRows
  <2>2. Top(r) = x.seq /\ TopNo(r, x.type) = x.no /\ r.audit.active /\ r.audit.row.seq = x.seq
    BY <1>1, <1>2 DEF Taken, Top, TopNo
  <2>. QED
    BY <1>2, <2>1, <2>2 DEF RowMet, NotBeyond
<1>3. CASE x.k = "evidence"
  <2>1. x.seq \in Nat /\ r.evidenceSeq = x.seq
    BY <1>1, <1>3, TokenKinds, NumsAre DEF EvidenceRows, Taken
  <2>. QED
    BY <1>3, <2>1 DEF RowMet, NotBeyond
<1>4. CASE x.k \notin {"audit", "evidence"}
  BY <1>4 DEF RowMet, NotBeyond
<1>. QED
  BY <1>2, <1>3, <1>4

LEMMA MetStep ==
  ASSUME NEW t, Text(t), NEW n \in Nat, n + 1 <= Len(t), NEW s, ScanState(s),
         NEW m \in BOOLEAN, NEW fp, s.ok => Met(t, n, s, m)
  PROVE  LET r == ReadText(s, t[n + 1], m, fp)
         IN  ScanState(r) /\ (r.ok => Met(t, n + 1, r, m))
<1>. DEFINE x == t[n + 1]
            r == ReadText(s, x, m, fp)
            l == IF x = NL THEN s.line ELSE NL
<1>1. CASE ~s.ok
  BY <1>1 DEF ReadText
<1>2. CASE s.ok
  <2>1. /\ Len(t) \in Nat /\ n + 1 \in 1..Len(t) /\ x \in Token
        /\ \A i \in 1..Len(t) : t[i] \in Token
    BY DEF Text
  <2>2. /\ Goes(s, r, l, m)
        /\ x = NL => r.line = NL
        /\ x # NL => r.line = IF s.line = NL THEN x
                              ELSE IF Ignorable(s.line) THEN Remark ELSE Torn
    BY <1>2, <2>1, ReadGoes
  <2>3. Met(t, n, s, m) /\ s.line \in Token /\ ScanState(r)
    BY <1>2, <2>2 DEF ScanState, State, Goes
  <2>4. x = t[n + 1]
    OBVIOUS
  <2>. HIDE DEF r, x
  <2>. SUFFICES ASSUME r.ok PROVE Met(t, n + 1, r, m)
    BY <2>3, <2>4 DEF r
  <2>5. /\ n > 0 /\ t[n] = NL => s.line = NL
        /\ n = 0 => s.line = NL
        /\ s.line.k = "mac" => \E j \in 1..n : t[j] = s.line
    BY <2>3 DEF Met, LineAt
  <2>6. LineAt(t, n + 1, r)
    <3>1. (n + 1) - 1 = n
      OBVIOUS
    <3>2. t[n + 1] = NL => r.line = NL
      BY <2>2, <2>4
    <3>3. t[n + 1] # NL /\ (n + 1 = 1 \/ t[n] = NL) => r.line = t[n + 1]
      BY <2>2, <2>4, <2>5
    <3>4. r.line.k = "mac" => r.line = x /\ x = t[n + 1]
      BY <2>2, <2>4 DEF NL, Remark, Torn
    <3>5. r.line.k = "mac" => \E j \in 1..(n + 1) : t[j] = r.line
      BY <3>4
    <3>. QED
      BY <3>1, <3>2, <3>3, <3>5 DEF LineAt
  <2>7. ASSUME NEW i \in 1..Len(t), i < n + 1, OwnLine(t, i)
        PROVE  RowMet(t[i], t, n + 1, r, m)
    <3>1. CASE i < n
      <4>1. RowMet(t[i], t, n, s, m)
        BY <2>3, <2>7, <3>1 DEF Met
      <4>2. SignedAt(t, n, s)
        BY <2>3 DEF Met
      <4>. QED
        BY <2>1, <2>2, <4>1, <4>2, MetStays
    <3>2. CASE i = n
      <4>1. n > 0 /\ t[n - 1] = NL /\ x = NL /\ t[n] \in Token
        BY <2>1, <2>4, <2>7, <3>2 DEF OwnLine
      <4>2. CASE t[n] # NL
        <5>1. s.line = t[n] /\ l = t[n]
          BY <2>3, <4>1, <4>2 DEF Met, LineAt
        <5>. HIDE DEF l
        <5>. QED
          BY <2>2, <3>2, <4>1, <5>1, RowIsMet
      <4>3. CASE t[n] = NL
        BY <3>2, <4>3 DEF RowMet, NotBeyond, NL
      <4>. QED
        BY <4>2, <4>3
    <3>. QED
      BY <2>7, <3>1, <3>2
  <2>8. ASSUME ~m, NEW i \in 1..(n + 1), t[i].k = "mac"
        PROVE  r.line.k \in {"mac", "torn"}
    <3>1. CASE i \in 1..n
      <4>1. s.line.k \in {"mac", "torn"}
        BY <2>3, <2>8, <3>1 DEF Met
      <4>2. x # NL
        <5>1. x = NL => Taken(r, s.line, m)
          BY <2>2 DEF Goes
        <5>. QED
          BY <2>8, <4>1, <5>1 DEF Taken
      <4>3. s.line # NL /\ ~Ignorable(s.line)
        BY <2>3, <4>1, TokenKinds DEF NL
      <4>. QED
        BY <2>2, <4>2, <4>3 DEF Torn
    <3>2. CASE i = n + 1
      <4>1. i \in 1..Len(t) /\ t[i].k \in Rows
        BY <2>1, <2>8, <3>2 DEF Rows
      <4>2. i > 1 /\ t[i - 1] = NL
        BY <4>1 DEF Text
      <4>3. t[n] = NL /\ n > 0
        BY <3>2, <4>2
      <4>4. s.line = NL /\ x = t[i] /\ x # NL
        BY <2>4, <2>5, <2>8, <3>2, <4>3 DEF NL
      <4>5. r.line = x
        BY <2>2, <4>4
      <4>. QED
        BY <2>8, <4>4, <4>5
    <3>. QED
      BY <3>1, <3>2
  <2>9. SignedAt(t, n + 1, r)
    <3>1. l.k = "mac" => \E j \in 1..n : t[j] = l
      BY <2>5 DEF NL
    <3>2. SignedAt(t, n, s)
      BY <2>3 DEF Met
    <3>. HIDE DEF l
    <3>. QED
      BY <2>2, <3>1, <3>2, SignedStays
  <2>. QED
    BY <2>6, <2>7, <2>8, <2>9 DEF Met
<1>. QED
  BY <1>1, <1>2

LEMMA InitMet ==
  ASSUME NEW t, NEW m
  PROVE  ScanState(ScanInit) /\ Met(t, 0, ScanInit, m)
<1>1. ScanInit \in State
  BY IdleIs, PlainTokens, NumsAre DEF ScanInit, State
<1>2. ScanInit.line = NL /\ ScanInit.audit = Idle
  BY DEF ScanInit
<1>3. \A i \in 1..Len(t) : ~(i < 0)
  OBVIOUS
<1>4. LineAt(t, 0, ScanInit)
  BY <1>2 DEF LineAt, NL
<1>. QED
  BY <1>1, <1>2, <1>3, <1>4, IdleIs DEF ScanState, Met, SignedAt

LEMMA MetAll ==
  ASSUME NEW t, Text(t), NEW m \in BOOLEAN, NEW fp
  PROVE  LET s == ReadLines(t, m, fp) IN ScanState(s) /\ (s.ok => Met(t, Len(t), s, m))
<1>1. Len(t) \in Nat
  BY DEF Text
<1>2. PICK f : IsScan(f, Len(t), t, m, fp) /\ ReadLines(t, m, fp) = f[Len(t)]
  BY <1>1, ReadLinesIs
<1>. DEFINE Good(i) == ScanState(f[i]) /\ (f[i].ok => Met(t, i, f[i], m))
            S == {i \in Nat : i <= Len(t) => Good(i)}
<1>3. 0 \in S
  BY <1>2, InitMet DEF IsScan
<1>4. ASSUME NEW n \in Nat, n \in S
      PROVE  n + 1 \in S
  <2>. SUFFICES ASSUME n + 1 <= Len(t) PROVE Good(n + 1)
    OBVIOUS
  <2>1. Good(n)
    BY <1>1, <1>4
  <2>2. n + 1 \in 1..Len(t) /\ (n + 1) - 1 = n
    BY <1>1
  <2>3. f[n + 1] = ReadText(f[n], t[n + 1], m, fp)
    BY <1>2, <2>2 DEF IsScan
  <2>. QED
    BY <2>1, <2>3, MetStep
<1>. HIDE DEF S
<1>5. Nat \subseteq S
  BY <1>3, <1>4, SetInduction
<1>6. Good(Len(t))
  BY <1>1, <1>5 DEF S
<1>. QED
  BY <1>2, <1>6

\* A file that the scan accepts: every whole row is counted, and signed exactly
\* where MACs are required.
LEMMA ScanMeets ==
  ASSUME NEW t, Text(t), NEW m \in BOOLEAN, NEW fp, ScanExisting(t, m, fp).ok
  PROVE  LET r == ScanExisting(t, m, fp)
         IN  /\ r.seq \in Nums /\ r.evidenceSeq \in Nums /\ r.counts \in [Types -> Nums]
             /\ \A i \in 1..Len(t) : OwnLine(t, i) =>
                  /\ NotBeyond(t[i], r.seq, r.counts, r.evidenceSeq)
                  /\ m /\ t[i].k = "audit" => SignedBy(t, Len(t), t[i].seq)
             /\ ~m => \A i \in 1..Len(t) : t[i].k # "mac"
<1>. DEFINE s == ReadLines(t, m, fp)
            l == IF s.ok /\ s.line # NL THEN ProcessLine(s, m, fp) ELSE s
            r == FinalizeBoth(l, m)
<1>0. Len(t) \in Nat /\ \A i \in 1..Len(t) : t[i] \in Token
  BY DEF Text
<1>1. ScanState(s) /\ (s.ok => Met(t, Len(t), s, m))
  BY MetAll
<1>. DEFINE u == ScanExisting(t, m, fp)
<1>2. u = FinalizeBoth(l, m)
  <2>1. u = LET z == FinalizeRecord(l, m) IN IF z.ok THEN FinalizeEvidence(z, m) ELSE z
    BY DEF ScanExisting
  <2>. QED
    BY <2>1 DEF FinalizeBoth
<1>. HIDE DEF s, u
<1>3. ScanState(l) /\ (l.ok => s.ok)
  BY <1>1, ProcessGoes DEF Goes
<1>4. Goes(l, u, NL, m) /\ u.ok /\ ~u.audit.active
  <2>. HIDE DEF l
  <2>. QED
    BY <1>2, <1>3, BothFinalized DEF u
<1>5. l.ok /\ s.ok /\ ScanState(u)
  <2>. HIDE DEF l
  <2>. QED
    BY <1>3, <1>4 DEF Goes
<1>6. Met(t, Len(t), s, m)
  BY <1>1, <1>5
<1>7. s.line # NL => l = ProcessLine(s, m, fp) /\ Goes(s, l, s.line, m)
  BY <1>1, <1>5, ProcessGoes
<1>8. s.line = NL => l = s
  OBVIOUS
<1>. HIDE DEF l
\* As if the line had been ended.
<1>9. ~m => \A i \in 1..Len(t) : t[i].k # "mac"
  <2>. SUFFICES ASSUME ~m, NEW i \in 1..Len(t), t[i].k = "mac" PROVE FALSE
    OBVIOUS
  <2>1. s.line.k \in {"mac", "torn"} /\ s.line # NL
    BY <1>6 DEF Met, NL
  <2>2. Taken(l, s.line, m)
    BY <1>5, <1>7, <2>1 DEF Goes
  <2>. QED
    BY <2>1, <2>2 DEF Taken
<1>10. ASSUME NEW i \in 1..Len(t), OwnLine(t, i)
       PROVE  /\ NotBeyond(t[i], u.seq, u.counts, u.evidenceSeq)
              /\ m /\ t[i].k = "audit" => SignedBy(t, Len(t), t[i].seq)
  <2>0. t[i] \in Token /\ i < Len(t)
    BY <1>0, <1>10 DEF OwnLine
  <2>1. RowMet(t[i], t, Len(t), s, m)
    BY <1>6, <1>10, <2>0 DEF Met
  <2>2. SignedAt(t, Len(t), s) /\ (s.line.k = "mac" => \E j \in 1..Len(t) : t[j] = s.line)
    BY <1>6 DEF Met, LineAt
  <2>3. RowMet(t[i], t, Len(t), l, m) /\ SignedAt(t, Len(t), l)
    <3>1. CASE s.line = NL
      BY <1>8, <2>1, <2>2, <3>1
    <3>2. CASE s.line # NL
      <4>1. Goes(s, l, s.line, m) /\ Len(t) <= Len(t)
        BY <1>0, <1>7, <3>2
      <4>2. RowMet(t[i], t, Len(t), l, m)
        BY <1>0, <1>1, <1>5, <2>0, <2>1, <2>2, <4>1, MetStays
      <4>3. SignedAt(t, Len(t), l)
        BY <1>0, <1>5, <2>2, <4>1, SignedStays
      <4>. QED
        BY <4>2, <4>3
    <3>. QED
      BY <3>1, <3>2
  <2>4. RowMet(t[i], t, Len(t), u, m)
    <3>1. Len(t) <= Len(t)
      BY <1>0
    <3>. QED
      BY <1>0, <1>3, <1>4, <2>0, <2>3, <3>1, MetStays
  <2>5. Top(u) = u.seq /\ \A y \in Types : TopNo(u, y) = u.counts[y]
    BY <1>4 DEF Top, TopNo
  <2>6. t[i].k = "audit" => t[i].type \in Types
    BY <2>0, TokenKinds DEF AuditRows
  <2>. QED
    BY <1>4, <2>4, <2>5, <2>6 DEF RowMet, NotBeyond
<1>. QED
  BY <1>5, <1>9, <1>10 DEF ScanState, State, u
-----------------------------------------------------------------------------
(* Texts that are cut short and joined *)

\* f is a beginning of t with at least n tokens, the last one perhaps cut short.
CutOf(f, t, n) ==
  /\ Len(f) \in n..Len(t)
  /\ \A j \in 1..Len(f) : f[j] = t[j] \/ (j = Len(f) /\ j > n /\ f[j] \in {Torn, Remark})

LEMMA CutIsText ==
  ASSUME NEW t, Text(t), NEW n \in 0..Len(t), NEW f \in Seq(Token), CutOf(f, t, n)
  PROVE  Text(f)
<1>1. Len(t) \in Nat /\ Len(f) \in Nat /\ Len(f) <= Len(t)
  BY DEF Text, CutOf
<1>2. SUFFICES ASSUME NEW i \in 1..Len(f), f[i].k \in Rows
              PROVE  i > 1 /\ f[i - 1] = NL
  BY DEF Text
<1>3. Torn.k \notin Rows /\ Remark.k \notin Rows
  BY DEF Torn, Remark, Rows
<1>4. f[i] = t[i]
  BY <1>2, <1>3 DEF CutOf
<1>5. i \in 1..Len(t)
  BY <1>1
<1>6. i > 1 /\ t[i - 1] = NL
  BY <1>2, <1>4, <1>5 DEF Text
<1>7. i - 1 \in 1..Len(f) /\ i - 1 # Len(f)
  BY <1>6, <1>1
<1>8. f[i - 1] = t[i - 1]
  BY <1>7 DEF CutOf
<1> QED
  BY <1>6, <1>8

LEMMA CutsAre ==
  ASSUME NEW t, Text(t), NEW n \in 0..Len(t), NEW f \in Cuts(t, n)
  PROVE  f \in Seq(Token) /\ CutOf(f, t, n) /\ Text(f)
<1>1. t \in Seq(Token) /\ Len(t) \in Nat /\ \A i \in 1..Len(t) : t[i] \in Token
  BY DEF Text
<1>2. CASE \E i \in n..Len(t) : f = SubSeq(t, 1, i)
  <2>1. PICK i \in n..Len(t) : f = SubSeq(t, 1, i)
    BY <1>2
  <2>2. i \in Nat /\ i <= Len(t)
    BY <1>1
  <2>3. f \in Seq(Token) /\ Len(f) = i /\ \A j \in 1..i : f[j] = t[j]
    BY <1>1, <2>1, <2>2
  <2>4. CutOf(f, t, n)
    BY <2>3 DEF CutOf
  <2> QED
    BY <2>3, <2>4, CutIsText
<1>3. CASE \E i \in (n + 1)..Len(t) :
             t[i] # NL /\ f = Append(SubSeq(t, 1, i - 1), Stub(t[i]))
  <2>1. PICK i \in (n + 1)..Len(t) :
          t[i] # NL /\ f = Append(SubSeq(t, 1, i - 1), Stub(t[i]))
    BY <1>3
  <2> DEFINE h == SubSeq(t, 1, i - 1)
             z == Stub(t[i])
  <2>2. i - 1 \in Nat /\ i - 1 <= Len(t) /\ i \in Nat /\ i > n
    BY <1>1
  <2>3. h \in Seq(Token) /\ Len(h) = i - 1 /\ \A j \in 1..(i - 1) : h[j] = t[j]
    BY <1>1, <2>2
  <2>4. z \in {Torn, Remark} /\ z \in Token
    BY PlainTokens DEF Stub
  <2>5. f = Append(h, z)
    BY <2>1
  <2> HIDE DEF h, z
  <2>6. f \in Seq(Token) /\ Len(f) = i /\ f[i] = z /\ \A j \in 1..(i - 1) : f[j] = t[j]
    <3>1. f \in Seq(Token) /\ Len(f) = i /\ f[i] = z /\ \A j \in 1..(i - 1) : f[j] = h[j]
      BY <2>2, <2>3, <2>4, <2>5
    <3> QED
      BY <3>1, <2>3
  <2>7. CutOf(f, t, n)
    <3>1. SUFFICES ASSUME NEW j \in 1..Len(f)
                  PROVE  f[j] = t[j] \/ (j = Len(f) /\ j > n /\ f[j] \in {Torn, Remark})
      BY <2>2, <2>6 DEF CutOf
    <3>2. j = i \/ j \in 1..(i - 1)
      BY <2>6, <2>2
    <3> QED
      BY <3>2, <2>6, <2>4, <2>2
  <2> QED
    BY <2>6, <2>7, CutIsText
<1> QED
  BY <1>2, <1>3 DEF Cuts

LEMMA Joined ==
  ASSUME NEW t, Text(t), NEW u, Text(u)
  PROVE  /\ Text(t \o u) /\ Len(t \o u) = Len(t) + Len(u)
         /\ \A j \in 1..Len(t) : (t \o u)[j] = t[j]
         /\ \A j \in 1..Len(u) : (t \o u)[Len(t) + j] = u[j]
<1>1. t \in Seq(Token) /\ u \in Seq(Token) /\ Len(t) \in Nat /\ Len(u) \in Nat
  BY DEF Text
<1> DEFINE f == t \o u
<1>2. f \in Seq(Token) /\ Len(f) = Len(t) + Len(u)
  BY <1>1
<1>3. \A j \in 1..Len(t) : f[j] = t[j]
  BY <1>1
<1>4. \A j \in 1..Len(u) : f[Len(t) + j] = u[j]
  BY <1>1
<1> HIDE DEF f
<1>5. ASSUME NEW i \in 1..Len(f), f[i].k \in Rows
      PROVE  i > 1 /\ f[i - 1] = NL
  <2>1. CASE i <= Len(t)
    <3>1. i \in 1..Len(t)
      BY <2>1, <1>1, <1>2
    <3>2. i > 1 /\ t[i - 1] = NL
      BY <3>1, <1>3, <1>5 DEF Text
    <3>3. i - 1 \in 1..Len(t)
      BY <3>1, <3>2, <1>1
    <3> QED
      BY <3>2, <3>3, <1>3
  <2>2. CASE i > Len(t)
    <3> DEFINE j == i - Len(t)
    <3>1. j \in 1..Len(u) /\ i = Len(t) + j
      BY <2>2, <1>1, <1>2
    <3>2. f[i] = u[j]
      BY <3>1, <1>4
    <3>3. j > 1 /\ u[j - 1] = NL
      BY <3>1, <3>2, <1>5 DEF Text
    <3>4. j - 1 \in 1..Len(u) /\ i - 1 = Len(t) + (j - 1) /\ i > 1
      BY <3>1, <3>3, <1>1
    <3> QED
      BY <3>3, <3>4, <1>4
  <2> QED
    BY <2>1, <2>2, <1>1, <1>2
<1>6. Text(f)
  BY <1>2, <1>5 DEF Text
<1> QED
  BY <1>2, <1>3, <1>4, <1>6 DEF f

LEMMA EmptyIsText == Text(<<>>)
BY DEF Text

LEMMA HeaderIsText ==
  /\ Text(Header) /\ Header # <<>> /\ Len(Header) = 6
  /\ \A i \in 1..6 : Header[i].k \notin Rows
  /\ \A i \in 1..6 : Text(SubSeq(Header, 1, i))
<1>1. Header \in Seq(Token) /\ Len(Header) = 6
  BY DEF Header, Token, Plain
<1>2. \A i \in 1..6 : Header[i].k \notin Rows
  BY DEF Header, Rows, Magic, NL, MacTable, Remark
<1>3. ASSUME NEW i \in 1..6
      PROVE  Text(SubSeq(Header, 1, i))
  <2> DEFINE f == SubSeq(Header, 1, i)
  <2>0. Header \in Seq(Token) /\ i \in Nat /\ i <= Len(Header)
    BY <1>1
  <2>1. f \in Seq(Token) /\ Len(f) = i /\ \A j \in 1..i : f[j] = Header[j]
    BY <2>0
  <2> HIDE DEF f
  <2>2. \A j \in 1..i : f[j].k \notin Rows
    BY <2>1, <1>2
  <2>3. Text(f)
    BY <2>1, <2>2 DEF Text
  <2> QED
    BY <2>3 DEF f
<1> QED
  BY <1>1, <1>2, <1>3 DEF Text

-----------------------------------------------------------------------------
(* What the record calls write *)

LEMMA RowTokens ==
  ASSUME NEW n \in Nums, NEW q \in Nat, NEW e \in Types, NEW o \in Nums, NEW fp \in Keys
  PROVE  /\ AuditRow(n, q, e, o) \in Token /\ AuditRow(n, q, e, o) \in AuditRows
         /\ EvidenceRow(n, q) \in Token /\ EvidenceRow(n, q) \in EvidenceRows
         /\ MacRow(n, fp) \in Token /\ EvidenceMacRow(n, fp) \in Token
         /\ \A role \in RoleNames : EndpointRow(n, role) \in Token
BY DEF Token, AuditRow, AuditRows, EvidenceRow, EvidenceRows, MacRow, MacRows, EvidenceMacRow,
       EndpointRow

LEMMA RolesNamed ==
  /\ Roles[1] \in RoleNames /\ Roles[2] \in RoleNames
  /\ Roles[3] \in RoleNames /\ Roles[4] \in RoleNames
BY DEF Roles, RoleNames

LEMMA HeldNotEmpty ==
  ASSUME NEW t, OwnLine(t, 3)
  PROVE  t # <<>>
<1>1. 3 \in 2..(Len(t) - 1)
  BY DEF OwnLine
<1>2. Len(<<>>) = 0
  OBVIOUS
<1>3. 3 \notin 2..(0 - 1)
  OBVIOUS
<1> QED
  BY <1>1, <1>2, <1>3

LEMMA JoinedAt ==
  ASSUME NEW a \in Seq(Token), NEW b \in Seq(Token)
  PROVE  /\ a \o b \in Seq(Token) /\ Len(a \o b) = Len(a) + Len(b)
         /\ \A j \in 1..Len(a) : (a \o b)[j] = a[j]
         /\ \A j \in 1..Len(b) : (a \o b)[Len(a) + j] = b[j]
OBVIOUS

LEMMA AuditTextHolds ==
  ASSUME NEW n \in Nums, NEW q \in Nat, NEW e \in Types, NEW o \in Nums,
         mac \in BOOLEAN, fingerprint \in Keys
  PROVE  LET f == AuditText(n, q, e, o)
         IN  Holds(f, mac) /\ f # <<>> /\ f[3] = AuditRow(n, q, e, o)
<1> DEFINE r == AuditRow(n, q, e, o)
           p(i) == EndpointRow(n, Roles[i])
           x == MacRow(n, fingerprint)
           a == <<Remark, NL, r, NL, p(1), NL, p(2), NL, p(3), NL, p(4), NL>>
           f == AuditText(n, q, e, o)
<1>1. /\ r \in Token /\ r.k = "audit" /\ r.seq = n
      /\ x \in Token /\ x.k = "mac" /\ x.seq = n
      /\ p(1) \in Token /\ p(2) \in Token /\ p(3) \in Token /\ p(4) \in Token
      /\ Remark \in Token /\ NL \in Token
  <2>1. r \in Token /\ x \in Token
    BY RowTokens
  <2>2. p(1) \in Token /\ p(2) \in Token /\ p(3) \in Token /\ p(4) \in Token
    BY RowTokens, RolesNamed
  <2>3. r.k = "audit" /\ r.seq = n /\ x.k = "mac" /\ x.seq = n
    BY DEF AuditRow, MacRow
  <2> QED
    BY <2>1, <2>2, <2>3, PlainTokens
<1>2. /\ NL.k = "nl" /\ Remark.k = "remark"
      /\ p(1).k = "endpoint" /\ p(2).k = "endpoint" /\ p(3).k = "endpoint" /\ p(4).k = "endpoint"
  BY DEF NL, Remark, EndpointRow
<1>3. f = a \o (IF mac THEN <<x, NL, NL>> ELSE <<NL>>)
  BY DEF AuditText, AuditLines
<1> HIDE DEF r, p, x, f
<1>4. a \in Seq(Token) /\ Len(a) = 12
  BY <1>1
<1>5. CASE mac
  <2> DEFINE b == <<x, NL, NL>>
  <2>1. b \in Seq(Token) /\ Len(b) = 3
    BY <1>1
  <2>2. f = a \o b
    BY <1>3, <1>5
  <2>3. f \in Seq(Token) /\ Len(f) = 15
    BY <2>1, <2>2, <1>4
  <2>4. /\ f[1] = Remark /\ f[2] = NL /\ f[3] = r /\ f[4] = NL /\ f[5] = p(1) /\ f[6] = NL
        /\ f[7] = p(2) /\ f[8] = NL /\ f[9] = p(3) /\ f[10] = NL /\ f[11] = p(4) /\ f[12] = NL
        /\ f[13] = x /\ f[14] = NL /\ f[15] = NL
    BY <2>2
  <2>5. ASSUME NEW i \in 1..Len(f), f[i].k \in Rows
        PROVE  i > 1 /\ f[i - 1] = NL
    <3>1. i \in {1, 2, 3, 4, 5, 6, 7, 8, 9, 10, 11, 12, 13, 14, 15}
      BY <2>3
    <3>2. i = 3 \/ i = 13
      BY <3>1, <2>4, <2>5, <1>2 DEF Rows
    <3> QED
      BY <3>2, <2>4
  <2>6. Text(f)
    BY <2>3, <2>5 DEF Text
  <2>7. OwnLine(f, 3)
    BY <2>3, <2>4 DEF OwnLine
  <2>8. 13 \in 1..Len(f) /\ f[13].k = "mac" /\ f[13].seq = f[3].seq
    BY <2>3, <2>4, <1>1
  <2>9. Holds(f, mac)
    BY <2>4, <2>6, <2>7, <2>8, <1>1, <1>5 DEF Holds
  <2>10. f # <<>>
    BY <2>7, HeldNotEmpty
  <2> QED
    BY <2>9, <2>10, <2>4 DEF f, r
<1>6. CASE ~mac
  <2> DEFINE b == <<NL>>
  <2>1. b \in Seq(Token) /\ Len(b) = 1
    BY <1>1
  <2>2. f = a \o b
    BY <1>3, <1>6
  <2>3. f \in Seq(Token) /\ Len(f) = 13
    BY <2>1, <2>2, <1>4
  <2>4. /\ f[1] = Remark /\ f[2] = NL /\ f[3] = r /\ f[4] = NL /\ f[5] = p(1) /\ f[6] = NL
        /\ f[7] = p(2) /\ f[8] = NL /\ f[9] = p(3) /\ f[10] = NL /\ f[11] = p(4) /\ f[12] = NL
        /\ f[13] = NL
    BY <2>2
  <2>5. ASSUME NEW i \in 1..Len(f)
        PROVE  f[i].k # "mac" /\ (f[i].k \in Rows => i > 1 /\ f[i - 1] = NL)
    <3>1. i \in {1, 2, 3, 4, 5, 6, 7, 8, 9, 10, 11, 12, 13}
      BY <2>3
    <3>2. f[i].k # "mac" /\ (f[i].k \in Rows => i = 3)
      BY <3>1, <2>4, <1>1, <1>2 DEF Rows
    <3> QED
      BY <3>2, <2>4
  <2>6. Text(f)
    BY <2>3, <2>5 DEF Text
  <2>7. OwnLine(f, 3)
    BY <2>3, <2>4 DEF OwnLine
  <2>9. Holds(f, mac)
    BY <2>4, <2>5, <2>6, <2>7, <1>1, <1>6 DEF Holds
  <2>10. f # <<>>
    BY <2>7, HeldNotEmpty
  <2> QED
    BY <2>9, <2>10, <2>4 DEF f, r
<1> QED
  BY <1>5, <1>6

LEMMA EvidenceTextHolds ==
  ASSUME NEW n \in Nums, NEW q \in Nat, mac \in BOOLEAN, fingerprint \in Keys
  PROVE  LET f == EvidenceText(n, q)
         IN  Holds(f, mac) /\ f # <<>> /\ f[3] = EvidenceRow(n, q)
<1> DEFINE r == EvidenceRow(n, q)
           x == EvidenceMacRow(n, fingerprint)
           a == <<Remark, NL, r, NL>>
           b == IF mac THEN <<x, NL, NL>> ELSE <<NL>>
           f == EvidenceText(n, q)
<1>1. /\ r \in Token /\ r.k = "evidence" /\ x \in Token /\ x.k = "evidence_mac"
      /\ Remark \in Token /\ NL \in Token /\ NL.k = "nl" /\ Remark.k = "remark"
  <2>1. r \in Token /\ x \in Token
    BY DEF Token, EvidenceRow, EvidenceRows, EvidenceMacRow
  <2> QED
    BY <2>1, PlainTokens DEF EvidenceRow, EvidenceMacRow, NL, Remark
<1>2. f = a \o b
  BY DEF EvidenceText, EvidenceLines
<1> HIDE DEF r, x, f
<1>3. a \in Seq(Token) /\ Len(a) = 4
  BY <1>1
<1>4. b \in Seq(Token) /\ Len(b) \in {1, 3} /\ \A j \in 1..Len(b) : b[j].k \notin Rows
  <2>1. CASE mac
    BY <2>1, <1>1 DEF Rows
  <2>2. CASE ~mac
    BY <2>2, <1>1 DEF Rows
  <2> QED
    BY <2>1, <2>2
<1>5. a[1] = Remark /\ a[2] = NL /\ a[3] = r /\ a[4] = NL
  OBVIOUS
<1> HIDE DEF a, b
<1>6. /\ f \in Seq(Token) /\ Len(f) = 4 + Len(b)
      /\ f[1] = Remark /\ f[2] = NL /\ f[3] = r /\ f[4] = NL
      /\ \A j \in 1..Len(b) : f[4 + j] = b[j]
  <2>1. Len(a) \in Nat /\ Len(b) \in Nat /\ 1 \in 1..Len(a) /\ 2 \in 1..Len(a)
        /\ 3 \in 1..Len(a) /\ 4 \in 1..Len(a)
    BY <1>3, <1>4
  <2>2. /\ f \in Seq(Token) /\ Len(f) = Len(a) + Len(b)
        /\ \A j \in 1..Len(a) : f[j] = a[j]
        /\ \A j \in 1..Len(b) : f[Len(a) + j] = b[j]
    <3>1. a \in Seq(Token) /\ b \in Seq(Token)
      BY <1>3, <1>4
    <3>2. /\ a \o b \in Seq(Token) /\ Len(a \o b) = Len(a) + Len(b)
          /\ \A j \in 1..Len(a) : (a \o b)[j] = a[j]
          /\ \A j \in 1..Len(b) : (a \o b)[Len(a) + j] = b[j]
      BY <3>1, JoinedAt
    <3> QED
      BY <3>2, <1>2
  <2> QED
    BY <2>1, <2>2, <1>3, <1>5
<1>7. ASSUME NEW i \in 1..Len(f)
      PROVE  f[i].k # "mac" /\ (f[i].k \in Rows => i > 1 /\ f[i - 1] = NL)
  <2>1. CASE i <= 4
    <3>1. i \in {1, 2, 3, 4}
      BY <2>1
    <3>2. f[i].k # "mac" /\ (f[i].k \in Rows => i = 3)
      BY <3>1, <1>6, <1>1 DEF Rows
    <3> QED
      BY <3>2, <1>6
  <2>2. CASE i > 4
    <3>1. i - 4 \in 1..Len(b) /\ i = 4 + (i - 4)
      BY <2>2, <1>4, <1>6
    <3>2. f[i] = b[i - 4]
      BY <3>1, <1>6
    <3> QED
      BY <3>1, <3>2, <1>4 DEF Rows
  <2> QED
    BY <2>1, <2>2
<1>8. Text(f)
  BY <1>6, <1>7 DEF Text
<1>9. OwnLine(f, 3)
  BY <1>4, <1>6 DEF OwnLine
<1>10. Holds(f, mac)
  BY <1>6, <1>7, <1>8, <1>9, <1>1 DEF Holds
<1>11. f # <<>>
  BY <1>9, HeldNotEmpty
<1> QED
  BY <1>10, <1>11, <1>6 DEF f, r

-----------------------------------------------------------------------------
(* The steps *)

\* The durable part of the file stays as it is.
Grown ==
  /\ Text(file') /\ durable' \in durable..Len(file')
  /\ \A j \in 1..durable : file'[j] = file[j]

LEMMA PlacedStays ==
  ASSUME Shapes, Grown, NEW r, Placed(r)
  PROVE  Placed(r)'
<1>1. durable \in Nat /\ durable' \in Nat /\ durable <= durable' /\ durable' <= Len(file')
      /\ Len(file') \in Nat /\ Len(file) \in Nat
  BY DEF Shapes, Grown, Text
<1>2. PICK i \in 1..durable : file[i] = r /\ i < durable /\ OwnLine(file, i)
  BY DEF Placed
<1>3. i \in 2..(Len(file) - 1) /\ file[i - 1] = NL /\ file[i + 1] = NL
  BY <1>2 DEF OwnLine
<1>4. i \in 1..durable /\ i - 1 \in 1..durable /\ i + 1 \in 1..durable
  BY <1>1, <1>2, <1>3
<1>5. file'[i] = r /\ file'[i - 1] = NL /\ file'[i + 1] = NL
  BY <1>2, <1>3, <1>4 DEF Grown
<1>6. i \in 1..durable' /\ i < durable' /\ i \in 2..(Len(file') - 1)
  BY <1>1, <1>2, <1>3
<1> QED
  BY <1>5, <1>6 DEF Placed, OwnLine

LEMMA AckPlacedStays ==
  ASSUME Shapes, AckPlaced, Grown, acked' = acked
  PROVE  AckPlaced'
<1>1. ASSUME NEW r \in acked
      PROVE  r \in AuditRows \cup EvidenceRows /\ Placed(r)'
  BY PlacedStays DEF AckPlaced
<1> QED
  BY <1>1 DEF AckPlaced

LEMMA SameFileGrown ==
  ASSUME Shapes, file' = file, durable' = durable
  PROVE  Grown
BY DEF Shapes, Grown, Text

\* SignedStaysSigned, of a file, the acknowledged rows and a setting.
Separate(t, a, m) ==
  IF m THEN \A r \in a : r.k = "audit" => SignedBy(t, Len(t), r.seq)
       ELSE \A i \in 1..Len(t) : t[i].k # "mac"

LEMMA SeparateSets ==
  ASSUME NEW t \in Seq(Token), NEW a, NEW m \in BOOLEAN
  PROVE  Separate(t, a, m) <=>
           IF m THEN \A r \in a : r.k = "audit" => r.seq \in SignedIn(t) ELSE SignedIn(t) = {}
<1>1. DOMAIN t = 1..Len(t)
  OBVIOUS
<1>2. \A n : n \in SignedIn(t) <=> SignedBy(t, Len(t), n)
  BY <1>1 DEF SignedBy, SignedIn
<1>3. SignedIn(t) = {} <=> \A i \in 1..Len(t) : t[i].k # "mac"
  BY <1>1 DEF SignedIn
<1> QED
  BY <1>2, <1>3 DEF Separate

LEMMA SignedForm ==
  ASSUME Shapes
  PROVE  SignedStaysSigned <=> (up => Separate(file, acked, mac))
<1>1. file \in Seq(Token) /\ mac \in BOOLEAN
  BY DEF Shapes, Text
<1>2. Separate(file, acked, mac) <=>
        IF mac THEN \A r \in acked : r.k = "audit" => r.seq \in SignedIn(file)
                 ELSE SignedIn(file) = {}
  BY <1>1, SeparateSets
<1> QED
  BY <1>2, Zenon DEF SignedStaysSigned, SignedIn

LEMMA NextSignedForm ==
  ASSUME Shapes'
  PROVE  SignedStaysSigned' <=> (up' => Separate(file', acked', mac'))
<1>1. file' \in Seq(Token) /\ mac' \in BOOLEAN
  BY DEF Shapes, Text
<1>2. Separate(file', acked', mac') <=>
        IF mac' THEN \A r \in acked' : r.k = "audit" => r.seq \in SignedIn(file')
                 ELSE SignedIn(file') = {}
  BY <1>1, SeparateSets
<1> QED
  BY <1>2, Zenon DEF SignedStaysSigned, SignedIn

LEMMA Unlocked ==
  ASSUME Jobs, ~up \/ ~Locked
  PROVE  \A w \in Writers : job[w] = <<>>
BY DEF Jobs, Locked

\* Nothing is being written after the step.
LEMMA NoneWriting ==
  ASSUME job' = [w \in Writers |-> <<>>]
  PROVE  Jobs' /\ JobsFresh'
BY DEF Jobs, JobsFresh

LEMMA IdleJobs ==
  ASSUME Jobs, ~up \/ ~Locked
  PROVE  job = [w \in Writers |-> <<>>]
<1>1. \A w \in Writers : job[w] = <<>>
  BY Unlocked
<1>2. job = [w \in Writers |-> job[w]]
  BY DEF Jobs
<1> QED
  BY <1>1, <1>2

LEMMA BootKeeps ==
  ASSUME AuditFileInv, NEW m \in BOOLEAN, Boot(m)
  PROVE  AuditFileInv'
<1>1. /\ Shapes /\ Jobs /\ AckPlaced /\ NumbersUnique
      /\ durable \in 0..Len(file) /\ Text(file) /\ key \in Keys
  BY DEF AuditFileInv, Shapes
<1>2. /\ ~up /\ boots < MaxBoots /\ boots' = boots + 1 /\ clean' = TRUE /\ up' = TRUE
      /\ key' = key /\ job' = job /\ calls' = calls /\ acked' = acked /\ tears' = tears
      /\ mac' = m /\ fingerprint' = key
      /\ file' = IF file = <<>> THEN Header ELSE file
      /\ durable' = IF file = <<>> THEN Len(file') ELSE durable
  BY DEF Boot, Activate
<1> DEFINE s == ScanExisting(file', m, key)
<1>3. s.ok /\ seq' = s.seq /\ evidenceSeq' = s.evidenceSeq /\ counts' = s.counts
  BY <1>2 DEF Boot, Activate, Accepts
<1>4. Grown
  <2>1. CASE file = <<>>
    <3>1. durable = 0
      BY <1>1, <2>1
    <3> QED
      BY <2>1, <3>1, <1>2, HeaderIsText DEF Grown
  <2>2. CASE file # <<>>
    BY <2>2, <1>1, <1>2, SameFileGrown
  <2> QED
    BY <2>1, <2>2
<1>5. AckPlaced'
  BY <1>1, <1>2, <1>4, AckPlacedStays
<1>6. Text(file') /\ durable' \in 0..Len(file')
  BY <1>1, <1>4 DEF Grown, Text
<1>7. /\ s.seq \in Nums /\ s.evidenceSeq \in Nums /\ s.counts \in [Types -> Nums]
      /\ \A i \in 1..Len(file') : OwnLine(file', i) =>
           /\ NotBeyond(file'[i], s.seq, s.counts, s.evidenceSeq)
           /\ m /\ file'[i].k = "audit" => SignedBy(file', Len(file'), file'[i].seq)
      /\ ~m => \A i \in 1..Len(file') : file'[i].k # "mac"
  BY <1>3, <1>6, ScanMeets
<1> HIDE DEF s
<1>8. Shapes'
  <2>1. boots' \in 0..MaxBoots
    BY <1>1, <1>2, IpAuditAssumption DEF Shapes
  <2> QED
    BY <1>1, <1>2, <1>3, <1>6, <1>7, <2>1 DEF Shapes
<1>9. job' = [w \in Writers |-> <<>>]
  BY <1>1, <1>2, IdleJobs
<1>10. \A r \in acked' : \E i \in 1..Len(file') : OwnLine(file', i) /\ file'[i] = r
  BY <1>5, <1>6 DEF AckPlaced, Placed
<1>11. AckNumbered'
  BY <1>3, <1>7, <1>10 DEF AckNumbered
<1>12. Separate(file', acked', mac')
  BY <1>2, <1>7, <1>10 DEF Separate
<1>13. SignedStaysSigned'
  BY <1>8, <1>12, NextSignedForm
<1>14. NumbersUnique'
  BY <1>1, <1>2 DEF NumbersUnique
<1> QED
  BY <1>5, <1>8, <1>9, <1>11, <1>13, <1>14, NoneWriting DEF AuditFileInv

LEMMA StandingKeeps ==
  ASSUME AuditFileInv, Shapes',
         UNCHANGED <<file, durable, up, seq, evidenceSeq, counts, mac, job, acked>>
  PROVE  AuditFileInv'
<1>1. AckPlaced'
  BY SameFileGrown, AckPlacedStays DEF AuditFileInv
<1>2. AckNumbered'
  BY DEF AuditFileInv, AckNumbered
<1>3. Jobs'
  BY DEF AuditFileInv, Jobs, Holds
<1>4. JobsFresh'
  BY DEF AuditFileInv, JobsFresh, Fresh
<1>5. NumbersUnique' /\ SignedStaysSigned'
  BY DEF AuditFileInv, NumbersUnique, SignedStaysSigned
<1> QED
  BY <1>1, <1>2, <1>3, <1>4, <1>5 DEF AuditFileInv

LEMMA BootRefusedKeeps ==
  ASSUME AuditFileInv, NEW m \in BOOLEAN, BootRefused(m)
  PROVE  AuditFileInv'
<1>1. Shapes'
  BY IpAuditAssumption DEF AuditFileInv, Shapes, BootRefused, procVars
<1> QED
  BY <1>1, StandingKeeps DEF BootRefused, procVars

LEMMA RecordExhaustedKeeps ==
  ASSUME AuditFileInv, RecordExhausted
  PROVE  AuditFileInv'
<1>1. Shapes'
  BY IpAuditAssumption DEF AuditFileInv, Shapes, RecordExhausted, procVars
<1> QED
  BY <1>1, StandingKeeps DEF RecordExhausted, procVars

LEMMA RotateKeyKeeps ==
  ASSUME AuditFileInv, RotateKey
  PROVE  AuditFileInv'
<1>1. Shapes'
  BY DEF AuditFileInv, Shapes, RotateKey, procVars
<1> QED
  BY <1>1, StandingKeeps DEF RotateKey, procVars

\* The process is down after the step and the durable part of the file is kept.
LEMMA DownKeeps ==
  ASSUME AuditFileInv, Shapes', Grown, ~up', acked' = acked, job' = [w \in Writers |-> <<>>]
  PROVE  AuditFileInv'
<1>1. AckPlaced'
  BY AckPlacedStays DEF AuditFileInv
<1>2. AckNumbered' /\ SignedStaysSigned' /\ NumbersUnique'
  BY DEF AuditFileInv, AckNumbered, SignedStaysSigned, NumbersUnique
<1> QED
  BY <1>1, <1>2, NoneWriting DEF AuditFileInv

LEMMA ResetShapes ==
  ASSUME Shapes, ResetProcess, Text(file'), durable' \in 0..Len(file'), tears' \in 0..TearMax,
         UNCHANGED <<key, calls, boots, clean>>
  PROVE  Shapes'
BY NumsAre DEF Shapes, ResetProcess

LEMMA ShutdownKeeps ==
  ASSUME AuditFileInv, Shutdown
  PROVE  AuditFileInv'
<1>1. Shapes /\ Jobs
  BY DEF AuditFileInv
<1>2. Grown
  BY <1>1, SameFileGrown DEF Shutdown
<1>3. Shapes'
  BY <1>1, ResetShapes DEF Shutdown, Shapes
<1>4. job' = [w \in Writers |-> <<>>]
  BY <1>1, IdleJobs DEF Shutdown
<1> QED
  BY <1>2, <1>3, <1>4, DownKeeps DEF Shutdown, ResetProcess

LEMMA BootHeaderTornKeeps ==
  ASSUME AuditFileInv, BootHeaderTorn
  PROVE  AuditFileInv'
<1>1. Shapes /\ Jobs /\ durable \in 0..Len(file) /\ file = <<>>
  BY DEF AuditFileInv, Shapes, BootHeaderTorn
<1>2. durable = 0
  BY <1>1
<1>3. file' \in Cuts(Header, 0) /\ tears' = tears + 1 /\ tears < TearMax
  BY DEF BootHeaderTorn, CutShort
<1>4. 0 \in 0..Len(Header)
  BY HeaderIsText
<1>5. Text(file')
  BY <1>3, <1>4, CutsAre, HeaderIsText
<1>6. Len(file') \in Nat
  BY <1>5 DEF Text
<1>7. Grown
  BY <1>2, <1>5, <1>6 DEF Grown, BootHeaderTorn
<1>8. tears' \in 0..TearMax /\ boots' \in 0..MaxBoots
  BY <1>1, <1>3, IpAuditAssumption DEF Shapes, BootHeaderTorn
<1>9. Shapes'
  BY <1>1, <1>2, <1>5, <1>6, <1>8 DEF Shapes, BootHeaderTorn, procVars
<1>10. job' = [w \in Writers |-> <<>>]
  BY <1>1, IdleJobs DEF BootHeaderTorn
<1> QED
  BY <1>7, <1>9, <1>10, DownKeeps DEF BootHeaderTorn, procVars

LEMMA CrashKeeps ==
  ASSUME AuditFileInv, Crash
  PROVE  AuditFileInv'
<1>1. Shapes /\ Jobs /\ Text(file) /\ durable \in 0..Len(file) /\ tears \in 0..TearMax
  BY DEF AuditFileInv, Shapes
<1>2. PICK w \in Writers : CutShort(Cuts(file \o job[w], durable), {file, file \o job[w]})
  BY DEF Crash
<1> DEFINE text == file \o job[w]
<1>3. Text(job[w])
  BY <1>1, EmptyIsText DEF Jobs, Holds
<1>4. /\ Text(text) /\ Len(text) = Len(file) + Len(job[w])
      /\ \A j \in 1..Len(file) : text[j] = file[j]
  BY <1>1, <1>3, Joined
<1>5. Len(file) \in Nat /\ Len(job[w]) \in Nat /\ durable \in 0..Len(text)
  BY <1>1, <1>3, <1>4 DEF Text
<1> HIDE DEF text
<1>6. /\ file' = file \/ file' = text \/ file' \in Cuts(text, durable)
      /\ tears' \in 0..TearMax
  BY <1>1, <1>2, IpAuditAssumption DEF CutShort, text
<1>7. /\ Text(file') /\ durable <= Len(file')
      /\ \A j \in 1..durable : file'[j] = file[j]
  <2>1. CASE file' = file
    BY <2>1, <1>1 DEF Text
  <2>2. CASE file' = text
    BY <2>2, <1>1, <1>4, <1>5 DEF Text
  <2>3. CASE file' \in Cuts(text, durable)
    <3>1. Text(file') /\ CutOf(file', text, durable)
      BY <2>3, <1>4, <1>5, CutsAre
    <3>2. Len(file') \in durable..Len(text)
      BY <3>1 DEF CutOf
    <3>3. ASSUME NEW j \in 1..durable
          PROVE  file'[j] = file[j]
      <4>1. j \in 1..Len(file') /\ ~(j > durable) /\ j \in 1..Len(file)
        BY <3>2, <1>1, <1>5
      <4>2. file'[j] = text[j]
        BY <4>1, <3>1 DEF CutOf
      <4> QED
        BY <4>1, <4>2, <1>4
    <3> QED
      BY <3>1, <3>2, <3>3, <1>1, <1>5
  <2> QED
    BY <1>6, <2>1, <2>2, <2>3
<1>8. Len(file') \in Nat /\ durable' = Len(file')
  BY <1>7 DEF Text, Crash
<1>9. Grown
  BY <1>1, <1>5, <1>7, <1>8 DEF Grown
<1>10. Shapes'
  BY <1>1, <1>6, <1>7, <1>8, ResetShapes DEF Crash
<1>11. ~up' /\ acked' = acked /\ job' = [v \in Writers |-> <<>>]
  BY DEF Crash, ResetProcess, NoJob
<1> QED
  BY <1>9, <1>10, <1>11, DownKeeps

\* A record call takes numbers and either holds a text to write or gives up.
LEMMA NumberedKeeps ==
  ASSUME AuditFileInv, Shapes', ~Locked, up, UNCHANGED <<file, durable, up, mac, acked>>,
         seq <= seq', evidenceSeq <= evidenceSeq', \A t \in Types : counts[t] <= counts'[t],
         NEW w \in Writers, NEW f,
         \/ job' = job
         \/ job' = [job EXCEPT ![w] = f] /\ f # <<>> /\ Holds(f, mac')
            /\ Fresh(f[3], seq', counts', evidenceSeq', acked')
  PROVE  AuditFileInv'
<1>1. /\ Shapes /\ Jobs /\ AckPlaced /\ AckNumbered /\ NumbersUnique /\ SignedStaysSigned
  BY DEF AuditFileInv
<1>2. \A v \in Writers : job[v] = <<>>
  BY <1>1, Unlocked
<1>3. job = [v \in Writers |-> job[v]]
  BY <1>1 DEF Jobs
<1>4. AckPlaced'
  BY <1>1, SameFileGrown, AckPlacedStays
<1>5. AckNumbered'
  <2>1. SUFFICES ASSUME NEW r \in acked
                PROVE  NotBeyond(r, seq', counts', evidenceSeq')
    BY DEF AckNumbered
  <2>2. NotBeyond(r, seq, counts, evidenceSeq)
    BY <1>1 DEF AckNumbered
  <2>3. r \in AuditRows \cup EvidenceRows
    BY <1>1 DEF AckPlaced
  <2>4. /\ seq \in Nat /\ seq' \in Nat /\ evidenceSeq \in Nat /\ evidenceSeq' \in Nat
        /\ \A t \in Types : counts[t] \in Nat /\ counts'[t] \in Nat
    BY <1>1, NumsAre DEF Shapes
  <2>5. CASE r \in AuditRows
    <3>1. r.seq \in Nat /\ r.no \in Nat /\ r.type \in Types /\ r.k = "audit"
      BY <2>5, NumsAre DEF AuditRows
    <3> QED
      BY <2>2, <2>4, <3>1 DEF NotBeyond
  <2>6. CASE r \in EvidenceRows
    <3>1. r.seq \in Nat /\ r.k = "evidence"
      BY <2>6, NumsAre DEF EvidenceRows
    <3> QED
      BY <2>2, <2>4, <3>1 DEF NotBeyond
  <2> QED
    BY <2>3, <2>5, <2>6
<1>6. NumbersUnique' /\ SignedStaysSigned'
  BY <1>1 DEF NumbersUnique, SignedStaysSigned
<1>7. CASE job' = job
  <2>1. job' = [v \in Writers |-> <<>>]
    BY <1>7, <1>2, <1>3
  <2> QED
    BY <2>1, NoneWriting, <1>4, <1>5, <1>6 DEF AuditFileInv
<1>8. CASE job' = [job EXCEPT ![w] = f] /\ f # <<>> /\ Holds(f, mac')
             /\ Fresh(f[3], seq', counts', evidenceSeq', acked')
  <2>1. /\ job' = [v \in Writers |-> job'[v]] /\ job'[w] = f
        /\ \A v \in Writers : v # w => job'[v] = <<>>
    BY <1>8, <1>2, <1>3
  <2>2. Jobs'
    BY <1>8, <2>1 DEF Jobs
  <2>3. JobsFresh'
    <3>1. SUFFICES ASSUME NEW v \in Writers, job'[v] # <<>>
                  PROVE  Fresh(RowOf(job'[v]), seq', counts', evidenceSeq', acked')
      BY DEF JobsFresh
    <3>2. job'[v] = f
      BY <3>1, <2>1
    <3> QED
      BY <3>2, <1>8 DEF RowOf
  <2> QED
    BY <2>2, <2>3, <1>4, <1>5, <1>6 DEF AuditFileInv
<1> QED
  BY <1>7, <1>8

LEMMA RecordKeeps ==
  ASSUME AuditFileInv, NEW w \in Writers, NEW e \in Types, Record(w, e)
  PROVE  AuditFileInv'
<1>1. Shapes /\ AckPlaced /\ AckNumbered /\ up /\ ~Locked
  BY DEF AuditFileInv, Record
<1>2. /\ seq \in Nat /\ SeqMax \in Nat /\ seq <= SeqMax /\ evidenceSeq \in Nat
      /\ counts \in [Types -> Nums] /\ mac \in BOOLEAN /\ fingerprint \in Keys
      /\ calls \in 0..MaxCalls /\ MaxCalls \in Nat
  BY <1>1, IpAuditAssumption DEF Shapes, Nums
<1>3. /\ seq # SeqMax /\ counts[e] # SeqMax
      /\ seq' = seq + 1 /\ counts' = [counts EXCEPT ![e] = counts[e] + 1]
      /\ calls < MaxCalls /\ calls' = calls + 1
      /\ UNCHANGED <<file, durable, key, up, evidenceSeq, mac, fingerprint, boots, acked, tears>>
  BY DEF Record, NextSeq
<1>4. counts[e] \in Nat /\ counts[e] <= SeqMax
  BY <1>2 DEF Nums
<1>5. counts'[e] = counts[e] + 1 /\ counts'[e] \in Nums /\ seq' \in Nums
  BY <1>2, <1>3, <1>4 DEF Nums
<1>6. counts' \in [Types -> Nums]
  BY <1>2, <1>3, <1>5
<1>7. calls' \in 0..MaxCalls /\ calls' \in Nat
  BY <1>2, <1>3
<1>8. clean' \in BOOLEAN
  BY <1>1 DEF Record, Shapes
<1>9. Shapes'
  BY <1>1, <1>3, <1>5, <1>6, <1>7, <1>8 DEF Shapes
<1>10. seq <= seq' /\ evidenceSeq <= evidenceSeq' /\ \A t \in Types : counts[t] <= counts'[t]
  <2>1. \A t \in Types : counts[t] \in Nat
    BY <1>2, NumsAre
  <2> QED
    BY <2>1, <1>2, <1>3, <1>4
<1> DEFINE f == AuditText(seq', calls', e, counts'[e])
           row == AuditRow(seq', calls', e, counts'[e])
<1>11. Holds(f, mac') /\ f # <<>> /\ f[3] = row
  <2>1. Holds(f, mac) /\ f # <<>> /\ f[3] = row
    BY <1>2, <1>5, <1>7, AuditTextHolds
  <2> QED
    BY <2>1, <1>3
<1>12. job' = job \/ job' = [job EXCEPT ![w] = f]
  BY DEF Record
<1>13. row.k = "audit" /\ row.seq = seq' /\ row.no = counts'[e] /\ row.type = e
  BY DEF AuditRow
<1> HIDE DEF f, row
<1>14. Fresh(row, seq', counts', evidenceSeq', acked')
  <2>1. SUFFICES ASSUME NEW r \in acked, r.k = "audit"
                PROVE  r.seq < row.seq /\ (r.type = row.type => r.no < row.no)
    BY <1>3, <1>13 DEF Fresh
  <2>2. r.seq <= seq /\ r.no <= counts[r.type]
    BY <1>1, <2>1 DEF AckNumbered, NotBeyond
  <2>3. r.seq \in Nat /\ r.no \in Nat
    BY <1>1, <2>1, NumsAre DEF AckPlaced, AuditRows, EvidenceRows
  <2> QED
    BY <2>2, <2>3, <1>2, <1>3, <1>4, <1>5, <1>13
<1> QED
  BY <1>1, <1>3, <1>9, <1>10, <1>11, <1>12, <1>14, NumberedKeeps

LEMMA RecordEvidenceKeeps ==
  ASSUME AuditFileInv, NEW w \in Writers, RecordEvidence(w)
  PROVE  AuditFileInv'
<1>1. Shapes /\ AckPlaced /\ AckNumbered /\ up /\ ~Locked
  BY DEF AuditFileInv, RecordEvidence
<1>2. /\ evidenceSeq \in Nat /\ SeqMax \in Nat /\ evidenceSeq <= SeqMax /\ seq \in Nat
      /\ counts \in [Types -> Nums] /\ mac \in BOOLEAN /\ fingerprint \in Keys
      /\ calls \in 0..MaxCalls /\ MaxCalls \in Nat
  BY <1>1, IpAuditAssumption DEF Shapes, Nums
<1>3. /\ evidenceSeq # SeqMax /\ evidenceSeq' = evidenceSeq + 1
      /\ calls < MaxCalls /\ calls' = calls + 1
      /\ UNCHANGED <<file, durable, key, up, seq, counts, mac, fingerprint, boots, acked, tears>>
  BY DEF RecordEvidence, NextEvidenceSeq
<1>4. evidenceSeq' \in Nums /\ calls' \in 0..MaxCalls /\ calls' \in Nat
  BY <1>2, <1>3 DEF Nums
<1>5. clean' \in BOOLEAN
  BY <1>1 DEF RecordEvidence, Shapes
<1>6. Shapes'
  BY <1>1, <1>3, <1>4, <1>5 DEF Shapes
<1>7. seq <= seq' /\ evidenceSeq <= evidenceSeq' /\ \A t \in Types : counts[t] <= counts'[t]
  <2>1. \A t \in Types : counts[t] \in Nat
    BY <1>2, NumsAre
  <2> QED
    BY <2>1, <1>2, <1>3
<1> DEFINE f == EvidenceText(evidenceSeq', calls')
           row == EvidenceRow(evidenceSeq', calls')
<1>8. Holds(f, mac') /\ f # <<>> /\ f[3] = row
  BY <1>2, <1>3, <1>4, EvidenceTextHolds
<1>9. job' = job \/ job' = [job EXCEPT ![w] = f]
  BY DEF RecordEvidence
<1>10. row.k = "evidence" /\ row.seq = evidenceSeq'
  BY DEF EvidenceRow
<1> HIDE DEF f, row
<1>11. Fresh(row, seq', counts', evidenceSeq', acked')
  <2>1. SUFFICES ASSUME NEW r \in acked, r.k = "evidence"
                PROVE  r.seq < row.seq
    BY <1>3, <1>10 DEF Fresh
  <2>2. r.seq <= evidenceSeq
    BY <1>1, <2>1 DEF AckNumbered, NotBeyond
  <2>3. r.seq \in Nat
    BY <1>1, <2>1, NumsAre DEF AckPlaced, AuditRows, EvidenceRows
  <2> QED
    BY <2>2, <2>3, <1>2, <1>3, <1>10
<1> QED
  BY <1>1, <1>3, <1>6, <1>7, <1>8, <1>9, <1>11, NumberedKeeps

\* What follows from the freshness of a row that joins the acknowledged ones.
LEMMA FreshJoins ==
  ASSUME NEW a, a \subseteq AuditRows \cup EvidenceRows, NEW row \in AuditRows \cup EvidenceRows,
         NEW n, NEW c, NEW e, Fresh(row, n, c, e, a), NEW r \in a, r.k = row.k
  PROVE  /\ r.seq # row.seq
         /\ row.k = "audit" /\ r.type = row.type => r.no # row.no
<1>1. r \in AuditRows \cup EvidenceRows
  OBVIOUS
<1>2. CASE row.k = "audit"
  <2>1. r.seq < row.seq /\ (r.type = row.type => r.no < row.no)
    BY <1>2 DEF Fresh
  <2>2. r.seq \in Nat /\ row.seq \in Nat /\ r.no \in Nat /\ row.no \in Nat
    BY <1>1, <1>2, NumsAre DEF AuditRows, EvidenceRows
  <2> QED
    BY <2>1, <2>2
<1>3. CASE row.k = "evidence"
  <2>1. r.seq < row.seq
    BY <1>3 DEF Fresh
  <2>2. r.seq \in Nat /\ row.seq \in Nat
    BY <1>1, <1>3, NumsAre DEF AuditRows, EvidenceRows
  <2> QED
    BY <2>1, <2>2, <1>3
<1> QED
  BY <1>2, <1>3 DEF AuditRows, EvidenceRows

LEMMA SignedJoins ==
  ASSUME NEW t, Text(t), NEW u, Text(u), NEW q
  PROVE  SignedBy(t \o u, Len(t \o u), q) <=>
           SignedBy(t, Len(t), q) \/ SignedBy(u, Len(u), q)
<1> DEFINE f == t \o u
<1>1. /\ Len(f) = Len(t) + Len(u) /\ \A j \in 1..Len(t) : f[j] = t[j]
      /\ \A j \in 1..Len(u) : f[Len(t) + j] = u[j]
  BY Joined
<1>2. Len(t) \in Nat /\ Len(u) \in Nat
  BY DEF Text
<1> HIDE DEF f
<1>3. ASSUME SignedBy(t, Len(t), q)
      PROVE  SignedBy(f, Len(f), q)
  <2>1. PICK j \in 1..Len(t) : t[j].k = "mac" /\ t[j].seq = q
    BY <1>3 DEF SignedBy
  <2>2. j \in 1..Len(f) /\ f[j] = t[j]
    BY <1>1, <1>2
  <2> QED
    BY <2>1, <2>2 DEF SignedBy
<1>4. ASSUME SignedBy(u, Len(u), q)
      PROVE  SignedBy(f, Len(f), q)
  <2>1. PICK j \in 1..Len(u) : u[j].k = "mac" /\ u[j].seq = q
    BY <1>4 DEF SignedBy
  <2>2. Len(t) + j \in 1..Len(f) /\ f[Len(t) + j] = u[j]
    BY <1>1, <1>2
  <2> QED
    BY <2>1, <2>2 DEF SignedBy
<1>5. ASSUME SignedBy(f, Len(f), q)
      PROVE  SignedBy(t, Len(t), q) \/ SignedBy(u, Len(u), q)
  <2>1. PICK j \in 1..Len(f) : f[j].k = "mac" /\ f[j].seq = q
    BY <1>5 DEF SignedBy
  <2>2. CASE j <= Len(t)
    <3>1. j \in 1..Len(t) /\ f[j] = t[j]
      BY <2>2, <1>1, <1>2
    <3> QED
      BY <2>1, <3>1 DEF SignedBy
  <2>3. CASE j > Len(t)
    <3> DEFINE i == j - Len(t)
    <3>1. i \in 1..Len(u) /\ j = Len(t) + i
      BY <2>3, <1>1, <1>2
    <3>2. f[j] = u[i]
      BY <3>1, <1>1
    <3> QED
      BY <2>1, <3>1, <3>2 DEF SignedBy
  <2> QED
    BY <2>2, <2>3, <1>1, <1>2
<1> QED
  BY <1>3, <1>4, <1>5 DEF f

\* Text without authenticated rows added to a file without any.
LEMMA UnsignedJoins ==
  ASSUME NEW t, Text(t), NEW u, Text(u), \A i \in 1..Len(t) : t[i].k # "mac",
         \A i \in 1..Len(u) : u[i].k # "mac"
  PROVE  \A i \in 1..Len(t \o u) : (t \o u)[i].k # "mac"
<1> DEFINE f == t \o u
<1>1. /\ Len(f) = Len(t) + Len(u) /\ \A j \in 1..Len(t) : f[j] = t[j]
      /\ \A j \in 1..Len(u) : f[Len(t) + j] = u[j]
  BY Joined
<1>2. Len(t) \in Nat /\ Len(u) \in Nat
  BY DEF Text
<1> HIDE DEF f
<1>3. ASSUME NEW i \in 1..Len(f)
      PROVE  f[i].k # "mac"
  <2>1. CASE i <= Len(t)
    <3>1. i \in 1..Len(t)
      BY <2>1, <1>2
    <3> QED
      BY <3>1, <1>1
  <2>2. CASE i > Len(t)
    <3>1. i - Len(t) \in 1..Len(u) /\ i = Len(t) + (i - Len(t))
      BY <2>2, <1>1, <1>2
    <3> QED
      BY <3>1, <1>1
  <2> QED
    BY <2>1, <2>2, <1>1, <1>2
<1> QED
  BY <1>3 DEF f

\* The file of a process that is up grows by text of the held kind.
LEMMA SeparateJoins ==
  ASSUME NEW t, Text(t), NEW u, Text(u), NEW a, NEW m \in BOOLEAN, Separate(t, a, m),
         ~m => \A i \in 1..Len(u) : u[i].k # "mac"
  PROVE  Separate(t \o u, a, m)
<1>1. CASE m
  BY <1>1, SignedJoins DEF Separate
<1>2. CASE ~m
  BY <1>2, UnsignedJoins DEF Separate
<1> QED
  BY <1>1, <1>2

LEMMA HeldRow ==
  ASSUME NEW t, NEW m \in BOOLEAN, Holds(t, m)
  PROVE  /\ t[3] \in AuditRows \cup EvidenceRows /\ 3 \in 1..Len(t) /\ Len(t) \in Nat
         /\ m /\ t[3].k = "audit" => SignedBy(t, Len(t), t[3].seq)
         /\ ~m => \A i \in 1..Len(t) : t[i].k # "mac"
<1>1. Len(t) \in Nat /\ \A i \in 1..Len(t) : t[i] \in Token
  BY DEF Holds, Text
<1>2. 3 \in 2..(Len(t) - 1)
  BY DEF Holds, OwnLine
<1>3. 3 \in 1..Len(t)
  BY <1>1, <1>2
<1>4. t[3] \in AuditRows \cup EvidenceRows
  BY <1>1, <1>3, TokenKinds DEF Holds
<1>5. m /\ t[3].k = "audit" => SignedBy(t, Len(t), t[3].seq)
  BY DEF Holds, SignedBy
<1>6. ~m => \A i \in 1..Len(t) : t[i].k # "mac"
  BY DEF Holds
<1> QED
  BY <1>1, <1>3, <1>4, <1>5, <1>6

LEMMA WrittenKeeps ==
  ASSUME Jobs, NEW w \in Writers, job[w] # <<>>, job' = [job EXCEPT ![w] = <<>>]
  PROVE  job' = [v \in Writers |-> <<>>]
<1>1. job = [v \in Writers |-> job[v]] /\ \A v \in Writers : v # w => job[v] = <<>>
  BY DEF Jobs
<1> QED
  BY <1>1

LEMMA WriteDoneKeeps ==
  ASSUME AuditFileInv, NEW w \in Writers, WriteDone(w)
  PROVE  AuditFileInv'
<1> DEFINE u == job[w]
           row == u[3]
<1>1. /\ Shapes /\ Jobs /\ AckPlaced /\ AckNumbered /\ JobsFresh /\ NumbersUnique
      /\ SignedStaysSigned
      /\ Text(file) /\ durable \in 0..Len(file) /\ mac \in BOOLEAN
  BY DEF AuditFileInv, Shapes
<1>2. /\ u # <<>> /\ file' = file \o u /\ durable' = Len(file') /\ acked' = acked \cup {row}
      /\ job' = [job EXCEPT ![w] = <<>>]
      /\ UNCHANGED <<key, up, seq, evidenceSeq, counts, mac, fingerprint, calls, boots, tears,
                     clean>>
  BY DEF WriteDone, RowOf, procVars
<1>3. up /\ Holds(u, mac) /\ Fresh(row, seq, counts, evidenceSeq, acked)
  BY <1>1, <1>2 DEF Jobs, JobsFresh, RowOf
<1>4. Text(u) /\ OwnLine(u, 3)
  BY <1>3 DEF Holds
<1>5. /\ row \in AuditRows \cup EvidenceRows /\ 3 \in 1..Len(u) /\ Len(u) \in Nat
      /\ mac /\ row.k = "audit" => SignedBy(u, Len(u), row.seq)
      /\ ~mac => \A i \in 1..Len(u) : u[i].k # "mac"
  BY <1>1, <1>3, HeldRow
<1>6. acked \subseteq AuditRows \cup EvidenceRows
  BY <1>1 DEF AckPlaced
<1> HIDE DEF u
<1>7. /\ Text(file') /\ Len(file') = Len(file) + Len(u)
      /\ \A j \in 1..Len(file) : file'[j] = file[j]
      /\ \A j \in 1..Len(u) : file'[Len(file) + j] = u[j]
  BY <1>1, <1>2, <1>4, Joined
<1>8. Len(file) \in Nat /\ Len(file') \in Nat
  BY <1>1, <1>7 DEF Text
<1>9. Grown
  BY <1>1, <1>2, <1>5, <1>7, <1>8 DEF Grown
<1>10. Shapes'
  BY <1>1, <1>2, <1>7, <1>8 DEF Shapes
<1>11. \E j \in 1..durable' : file'[j] = row /\ j < durable' /\ OwnLine(file', j)
  <2>1. 3 \in 2..(Len(u) - 1) /\ u[2] = NL /\ u[4] = NL
    BY <1>4 DEF OwnLine
  <2>2. 2 \in 1..Len(u) /\ 3 \in 1..Len(u) /\ 4 \in 1..Len(u)
    BY <2>1, <1>5
  <2>3. file'[Len(file) + 2] = NL /\ file'[Len(file) + 3] = row /\ file'[Len(file) + 4] = NL
    BY <2>1, <2>2, <1>7
  <2> DEFINE i == Len(file) + 3
  <2>4. i \in 1..durable' /\ i < durable' /\ i \in 2..(Len(file') - 1)
        /\ i - 1 = Len(file) + 2 /\ i + 1 = Len(file) + 4
    BY <2>2, <1>2, <1>5, <1>7, <1>8
  <2>5. file'[i] = row /\ file'[i - 1] = NL /\ file'[i + 1] = NL
    BY <2>3, <2>4
  <2> HIDE DEF i, row
  <2> QED
    BY <2>4, <2>5 DEF OwnLine
<1> HIDE DEF row
<1>12. AckPlaced'
  <2>1. ASSUME NEW r \in acked'
        PROVE  r \in AuditRows \cup EvidenceRows /\ Placed(r)'
    <3>1. CASE r \in acked
      BY <3>1, <1>1, <1>9, PlacedStays DEF AckPlaced
    <3>2. CASE r = row
      BY <3>2, <1>5, <1>11 DEF Placed
    <3> QED
      BY <3>1, <3>2, <1>2
  <2> QED
    BY <2>1 DEF AckPlaced
<1>13. AckNumbered'
  <2>1. NotBeyond(row, seq, counts, evidenceSeq)
    <3>1. /\ row.k = "audit" => row.seq = seq /\ row.no = counts[row.type] /\ row.no \in Nat
          /\ row.k = "evidence" => row.seq = evidenceSeq
          /\ row.seq \in Nat
      BY <1>3, <1>5, NumsAre DEF Fresh, AuditRows, EvidenceRows
    <3> QED
      BY <3>1 DEF NotBeyond
  <2> QED
    BY <2>1, <1>1, <1>2 DEF AckNumbered
<1>14. NumbersUnique'
  <2>1. SUFFICES ASSUME NEW r1 \in acked', NEW r2 \in acked', r1 # r2, r1.k = r2.k
                PROVE  /\ r1.seq # r2.seq
                       /\ r1.k = "audit" /\ r1.type = r2.type => r1.no # r2.no
    BY DEF NumbersUnique
  <2>2. CASE r1 \in acked /\ r2 \in acked
    BY <2>1, <2>2, <1>1 DEF NumbersUnique
  <2>3. CASE r1 \in acked /\ r2 = row
    <3>1. r1.seq # row.seq /\ (row.k = "audit" /\ r1.type = row.type => r1.no # row.no)
      BY <2>1, <2>3, <1>3, <1>5, <1>6, FreshJoins
    <3> QED
      BY <2>1, <2>3, <3>1
  <2>4. CASE r2 \in acked /\ r1 = row
    <3>1. r2.seq # row.seq /\ (row.k = "audit" /\ r2.type = row.type => r2.no # row.no)
      BY <2>1, <2>4, <1>3, <1>5, <1>6, FreshJoins
    <3> QED
      BY <2>1, <2>4, <3>1
  <2> QED
    BY <2>1, <2>2, <2>3, <2>4, <1>2
<1>15. SignedStaysSigned'
  <2>1. Separate(file, acked, mac)
    BY <1>1, <1>3, SignedForm
  <2>2. Separate(file', acked, mac)
    BY <2>1, <1>1, <1>2, <1>4, <1>5, SeparateJoins
  <2>3. mac /\ row.k = "audit" => SignedBy(file', Len(file'), row.seq)
    <3>1. SignedBy(u, Len(u), row.seq) => SignedBy(file', Len(file'), row.seq)
      BY <1>1, <1>2, <1>4, SignedJoins
    <3> QED
      BY <3>1, <1>5
  <2>4. Separate(file', acked', mac')
    BY <2>2, <2>3, <1>2 DEF Separate
  <2> QED
    BY <2>4, <1>10, NextSignedForm
<1>16. job' = [v \in Writers |-> <<>>]
  BY <1>1, <1>2, WrittenKeeps DEF u
<1> QED
  BY <1>10, <1>12, <1>13, <1>14, <1>15, <1>16, NoneWriting DEF AuditFileInv

LEMMA WriteFailsKeeps ==
  ASSUME AuditFileInv, NEW w \in Writers, WriteFails(w)
  PROVE  AuditFileInv'
<1> DEFINE u == job[w]
<1>1. /\ Shapes /\ Jobs /\ AckPlaced /\ AckNumbered /\ NumbersUnique /\ SignedStaysSigned
      /\ Text(file) /\ durable \in 0..Len(file) /\ mac \in BOOLEAN /\ tears \in 0..TearMax
  BY DEF AuditFileInv, Shapes
<1>2. /\ u # <<>> /\ job' = [job EXCEPT ![w] = <<>>] /\ clean' = FALSE
      /\ CutShort({file \o part : part \in Cuts(u, 0)}, {file, file \o u})
      /\ UNCHANGED <<durable, key, up, seq, evidenceSeq, counts, mac, fingerprint, calls, boots,
                     acked>>
  BY DEF WriteFails, procVars
<1>3. up /\ Holds(u, mac) /\ Text(u)
  BY <1>1, <1>2 DEF Jobs, Holds
<1>4. /\ Len(u) \in Nat /\ 0 \in 0..Len(u)
      /\ ~mac => \A i \in 1..Len(u) : u[i].k # "mac"
  BY <1>1, <1>3, HeldRow
<1>5. job' = [v \in Writers |-> <<>>]
  BY <1>1, <1>2, WrittenKeeps
<1> HIDE DEF u
<1>6. /\ file' = file \/ file' = file \o u \/ \E p \in Cuts(u, 0) : file' = file \o p
      /\ tears' \in 0..TearMax
  <2> DEFINE C == {file \o part : part \in Cuts(u, 0)}
             W == {file, file \o u}
  <2>1. \/ file' \in W /\ tears' = tears
        \/ tears < TearMax /\ file' \in C /\ tears' = tears + 1
    BY <1>2 DEF CutShort
  <2>2. tears' \in 0..TearMax
    <3> HIDE DEF C, W
    <3> QED
      BY <2>1, <1>1, IpAuditAssumption
  <2> QED
    BY <2>1, <2>2, Zenon
<1>7. \/ file' = file
      \/ \E p : /\ file' = file \o p /\ Text(p)
                /\ ~mac => \A i \in 1..Len(p) : p[i].k # "mac"
  <2>1. CASE file' = file \o u
    BY <2>1, <1>3, <1>4
  <2>2. CASE \E p \in Cuts(u, 0) : file' = file \o p
    <3>1. PICK p \in Cuts(u, 0) : file' = file \o p
      BY <2>2
    <3>2. Text(p) /\ CutOf(p, u, 0)
      BY <1>3, <1>4, CutsAre
    <3>3. ASSUME ~mac, NEW i \in 1..Len(p)
          PROVE  p[i].k # "mac"
      <4>1. Torn.k # "mac" /\ Remark.k # "mac"
        BY DEF Torn, Remark
      <4>2. i \in 1..Len(u) /\ (p[i] = u[i] \/ p[i] \in {Torn, Remark})
        BY <3>2, <1>4 DEF CutOf
      <4> QED
        BY <4>1, <4>2, <3>3, <1>4
    <3> QED
      BY <3>1, <3>2, <3>3
  <2> QED
    BY <1>6, <2>1, <2>2
<1>8. Separate(file, acked, mac)
  BY <1>1, <1>3, SignedForm
<1>9. /\ Text(file') /\ durable <= Len(file') /\ Len(file') \in Nat
      /\ \A j \in 1..durable : file'[j] = file[j]
      /\ Separate(file', acked, mac)
  <2>1. CASE file' = file
    BY <2>1, <1>1, <1>8 DEF Text
  <2>2. CASE \E p : /\ file' = file \o p /\ Text(p)
                    /\ ~mac => \A i \in 1..Len(p) : p[i].k # "mac"
    <3>1. PICK p : /\ file' = file \o p /\ Text(p)
                   /\ ~mac => \A i \in 1..Len(p) : p[i].k # "mac"
      BY <2>2
    <3>2. /\ Text(file') /\ Len(file') = Len(file) + Len(p)
          /\ \A j \in 1..Len(file) : file'[j] = file[j]
      BY <3>1, <1>1, Joined
    <3>3. Len(file) \in Nat /\ Len(p) \in Nat
      BY <1>1, <3>1 DEF Text
    <3>4. Separate(file', acked, mac)
      BY <3>1, <1>1, <1>8, SeparateJoins
    <3> QED
      BY <3>2, <3>3, <3>4, <1>1
  <2> QED
    BY <1>7, <2>1, <2>2
<1>10. Grown
  BY <1>1, <1>2, <1>9 DEF Grown
<1>11. Shapes'
  <2>1. durable' \in 0..Len(file')
    BY <1>1, <1>2, <1>9
  <2>2. clean' \in BOOLEAN
    BY <1>2
  <2> QED
    BY <1>1, <1>2, <1>6, <1>9, <2>1, <2>2 DEF Shapes
<1>12. AckPlaced'
  BY <1>1, <1>2, <1>10, AckPlacedStays
<1>13. AckNumbered' /\ NumbersUnique'
  BY <1>1, <1>2 DEF AckNumbered, NumbersUnique
<1>14. SignedStaysSigned'
  BY <1>2, <1>9, <1>11, NextSignedForm
<1> QED
  BY <1>5, <1>11, <1>12, <1>13, <1>14, NoneWriting DEF AuditFileInv

-----------------------------------------------------------------------------
(* The scan goes on where it stood *)

LEMMA ScansAgree ==
  ASSUME NEW t, NEW u, NEW m, NEW fp, NEW n \in Nat, NEW k \in Nat, n <= k,
         NEW f, IsScan(f, n, t, m, fp), NEW g, IsScan(g, k, u, m, fp),
         \A i \in 1..n : t[i] = u[i]
  PROVE  \A i \in 0..n : f[i] = g[i]
<1> DEFINE S == {i \in Nat : i <= n => f[i] = g[i]}
<1>1. 0 \in S
  BY DEF IsScan
<1>2. ASSUME NEW i \in Nat, i \in S
      PROVE  i + 1 \in S
  <2>1. SUFFICES ASSUME i + 1 <= n
                PROVE  f[i + 1] = g[i + 1]
    OBVIOUS
  <2>2. i + 1 \in 1..n /\ i + 1 \in 1..k /\ (i + 1) - 1 = i
    BY <2>1
  <2>3. f[i] = g[i]
    BY <1>2, <2>1
  <2>4. f[i + 1] = ReadText(f[i], t[i + 1], m, fp)
    BY <2>2 DEF IsScan
  <2>5. g[i + 1] = ReadText(g[i], u[i + 1], m, fp)
    BY <2>2 DEF IsScan
  <2> QED
    BY <2>2, <2>3, <2>4, <2>5
<1> HIDE DEF S
<1>3. Nat \subseteq S
  BY <1>1, <1>2, SetInduction
<1> QED
  BY <1>3 DEF S

\* The scan of t from the end of a beginning u of t on.
LEMMA ReadOn ==
  ASSUME NEW t, NEW u, NEW m, NEW fp, Len(t) \in Nat, Len(u) \in 0..Len(t),
         \A i \in 1..Len(u) : u[i] = t[i]
  PROVE  \E f : /\ f[Len(u)] = ReadLines(u, m, fp) /\ ReadLines(t, m, fp) = f[Len(t)]
                /\ \A i \in 1..Len(t) : f[i] = ReadText(f[i - 1], t[i], m, fp)
<1>1. Len(u) \in Nat /\ Len(u) <= Len(t) /\ Len(u) \in 0..Len(u)
  OBVIOUS
<1>2. PICK g : IsScan(g, Len(u), u, m, fp) /\ ReadLines(u, m, fp) = g[Len(u)]
  BY <1>1, ReadLinesIs
<1>3. PICK f : IsScan(f, Len(t), t, m, fp) /\ ReadLines(t, m, fp) = f[Len(t)]
  BY ReadLinesIs
<1>4. g[Len(u)] = f[Len(u)]
  BY <1>1, <1>2, <1>3, ScansAgree
<1> QED
  BY <1>2, <1>3, <1>4 DEF IsScan

\* A state of the scan in which nothing was refused, and one between records.
At(s, l, n, c, e) ==
  s \in State /\ s.ok /\ s.line = l /\ s.seq = n /\ s.counts = c /\ s.evidenceSeq = e
Resting(s, n, c, e) == At(s, NL, n, c, e) /\ ~s.audit.active /\ ~s.evidence.active

\* A record of which row x, the endpoints seen and perhaps the MAC were read.
Bare(a, x, seen) ==
  a \in Rec /\ a.active /\ a.row = x /\ a.seen = seen /\ ~a.macSeen
Signed(a, x, seen) ==
  a \in Rec /\ a.active /\ a.row = x /\ a.seen = seen /\ a.macSeen

Adds(more, seen, role) == role \notin seen /\ more = seen \cup {role}
Needed(m) == m = TRUE

\* r is what the scan makes of s by a whole line l.
ReadsLine(s, l, r, m, fp) == r = ReadText(ReadText(s, l, m, fp), NL, m, fp)

LEMMA TextRead ==
  ASSUME NEW s, NEW n, NEW c, NEW e, At(s, NL, n, c, e), NEW x \in Token, x # NL, NEW m, NEW fp
  PROVE  LET r == ReadText(s, x, m, fp)
         IN  At(r, x, n, c, e) /\ r.audit = s.audit /\ r.evidence = s.evidence
<1>1. ReadText(s, x, m, fp) = [s EXCEPT !.line = x]
  BY DEF At, ReadText, ExtendLine
<1>2. LET r == [s EXCEPT !.line = x]
      IN  /\ r \in State /\ r.ok = s.ok /\ r.line = x /\ r.seq = s.seq /\ r.counts = s.counts
          /\ r.evidenceSeq = s.evidenceSeq /\ r.audit = s.audit /\ r.evidence = s.evidence
  BY DEF At, State
<1> QED
  BY <1>1, <1>2 DEF At

LEMMA LineRead ==
  ASSUME NEW s, s.ok, NEW x, s.line = x, x # NL, NEW m, NEW fp, NEW b,
         ProcessLine(s, m, fp) = b, NEW n, NEW c, NEW e, At(b, x, n, c, e)
  PROVE  LET r == ReadText(s, NL, m, fp)
         IN  At(r, NL, n, c, e) /\ r.audit = b.audit /\ r.evidence = b.evidence
<1>1. ReadText(s, NL, m, fp) = [b EXCEPT !.line = NL]
  BY DEF ReadText, CompleteLine
<1>2. LET r == [b EXCEPT !.line = NL]
      IN  /\ r \in State /\ r.ok = b.ok /\ r.line = NL /\ r.seq = b.seq /\ r.counts = b.counts
          /\ r.evidenceSeq = b.evidenceSeq /\ r.audit = b.audit /\ r.evidence = b.evidence
  BY PlainTokens DEF At, State
<1> QED
  BY <1>1, <1>2 DEF At

LEMMA RemarkRead ==
  ASSUME NEW x \in {Remark, Magic, MacTable}, NEW s, NEW n, NEW c, NEW e, At(s, x, n, c, e),
         NEW m, NEW fp
  PROVE  LET r == ReadText(s, NL, m, fp)
         IN  At(r, NL, n, c, e) /\ r.audit = s.audit /\ r.evidence = s.evidence
<1>1. x # NL /\ x.k \in {"remark", "magic", "mactable"} /\ s.line = x
  BY DEF Remark, Magic, MacTable, NL, At
<1>2. ProcessLine(s, m, fp) = s
  BY <1>1 DEF ProcessLine, Ignorable
<1> QED
  BY <1>1, <1>2, LineRead DEF At

LEMMA AuditRead ==
  ASSUME NEW x \in AuditRows, NEW n \in Nums, n # SeqMax, NEW c \in [Types -> Nums],
         c[x.type] # SeqMax, x.seq = n + 1, x.no = c[x.type] + 1, NEW e, NEW m, NEW fp,
         NEW s, At(s, x, n, c, e), ~s.audit.active
  PROVE  LET r == ReadText(s, NL, m, fp)
         IN  At(r, NL, n, c, e) /\ Bare(r.audit, x, {}) /\ r.evidence = s.evidence
<1> DEFINE a == [Idle EXCEPT !.active = TRUE, !.row = x]
           b == [s EXCEPT !.audit = a]
<1>1. x # NL /\ x.k = "audit" /\ x \in Token
  BY DEF AuditRows, NL, Token
<1>2. s.line = x /\ s.ok /\ s.seq = n /\ s.counts = c /\ s \in State
  BY DEF At
<1>3. ProcessLine(s, m, fp) = ScanAuditRow(s, x, m)
  BY <1>1, <1>2 DEF ProcessLine
<1>4. FinalizeRecord(s, m) = s
  BY DEF FinalizeRecord
<1>5. ScanAuditRow(s, x, m) = b
  BY <1>2, <1>4 DEF ScanAuditRow
<1>6. Bare(a, x, {})
  BY <1>1, PlainTokens DEF Idle, Bare, Rec
<1> HIDE DEF a
<1>7. /\ b \in State /\ b.ok = s.ok /\ b.line = s.line /\ b.seq = s.seq /\ b.counts = s.counts
      /\ b.evidenceSeq = s.evidenceSeq /\ b.audit = a /\ b.evidence = s.evidence
  BY <1>2, <1>6 DEF State, Bare
<1> HIDE DEF b
<1>8. At(b, x, n, c, e)
  BY <1>7 DEF At
<1>10. ProcessLine(s, m, fp) = b
  BY <1>3, <1>5
<1>11. LET r == ReadText(s, NL, m, fp)
       IN  At(r, NL, n, c, e) /\ r.audit = b.audit /\ r.evidence = b.evidence
  BY <1>1, <1>2, <1>10, <1>8, LineRead
<1> QED
  BY <1>11, <1>6, <1>7

LEMMA EndpointRead ==
  ASSUME NEW q \in Nums, NEW role \in RoleNames, NEW x, x.seq = q, NEW seen, NEW more, Adds(more, seen, role),
         NEW n, NEW c, NEW e, NEW m, NEW fp,
         NEW s, At(s, EndpointRow(q, role), n, c, e), Bare(s.audit, x, seen)
  PROVE  LET r == ReadText(s, NL, m, fp)
         IN  /\ At(r, NL, n, c, e) /\ Bare(r.audit, x, more)
             /\ r.evidence = s.evidence
<1> DEFINE y == EndpointRow(q, role)
           b == [s EXCEPT !.audit.seen = @ \cup {role}]
<1>1. y # NL /\ y.k = "endpoint" /\ y.seq = q /\ y.role = role
  BY DEF EndpointRow, NL
<1>2. s.line = y /\ s.ok /\ s \in State /\ s.audit.active /\ s.audit.row = x /\ s.audit.seen = seen
  BY DEF At, Bare
<1>3. ProcessLine(s, m, fp) = ScanEndpointRow(s, y)
  BY <1>1, <1>2 DEF ProcessLine
<1>4. ScanEndpointRow(s, y) = b
  BY <1>1, <1>2 DEF ScanEndpointRow, Adds
<1>5. /\ b \in State /\ b.ok = s.ok /\ b.line = s.line /\ b.seq = s.seq /\ b.counts = s.counts
      /\ b.evidenceSeq = s.evidenceSeq /\ b.evidence = s.evidence
      /\ b.audit.active = s.audit.active /\ b.audit.row = s.audit.row
      /\ b.audit.seen = s.audit.seen \cup {role} /\ b.audit.macSeen = s.audit.macSeen
  BY <1>2 DEF State, Rec
<1> HIDE DEF b, y
<1>6. At(b, y, n, c, e)
  BY <1>5 DEF At, y
<1>7. Bare(b.audit, x, more)
  BY <1>5, <1>2 DEF Bare, State, Adds
<1>10. ProcessLine(s, m, fp) = b
  BY <1>3, <1>4
<1>11. LET r == ReadText(s, NL, m, fp)
       IN  At(r, NL, n, c, e) /\ r.audit = b.audit /\ r.evidence = b.evidence
  BY <1>1, <1>2, <1>10, <1>6, LineRead
<1> QED
  BY <1>11, <1>5, <1>7

LEMMA MacRead ==
  ASSUME NEW m, Needed(m), NEW q \in Nums, NEW fp \in Keys, NEW x, x.seq = q, NEW seen, NEW n, NEW c, NEW e,
         NEW s, At(s, MacRow(q, fp), n, c, e), Bare(s.audit, x, seen)
  PROVE  LET r == ReadText(s, NL, m, fp)
         IN  At(r, NL, n, c, e) /\ Signed(r.audit, x, seen) /\ r.evidence = s.evidence
<1> DEFINE y == MacRow(q, fp)
           b == [s EXCEPT !.audit.macSeen = TRUE]
<1>1. y # NL /\ y.k = "mac" /\ y.seq = q /\ y.key = fp
  BY DEF MacRow, NL
<1>2. s.line = y /\ s.ok /\ s \in State /\ s.audit.active /\ s.audit.row = x /\ ~s.audit.macSeen
  BY DEF At, Bare
<1>3. ProcessLine(s, m, fp) = ScanMacRow(s, y, m, fp)
  BY <1>1, <1>2 DEF ProcessLine
<1>4. ScanMacRow(s, y, m, fp) = b
  BY <1>1, <1>2 DEF ScanMacRow, Needed
<1>5. /\ b \in State /\ b.ok = s.ok /\ b.line = s.line /\ b.seq = s.seq /\ b.counts = s.counts
      /\ b.evidenceSeq = s.evidenceSeq /\ b.evidence = s.evidence
      /\ b.audit.active = s.audit.active /\ b.audit.row = s.audit.row
      /\ b.audit.seen = s.audit.seen /\ b.audit.macSeen = TRUE
  BY <1>2 DEF State, Rec
<1> HIDE DEF b, y
<1>6. At(b, y, n, c, e)
  BY <1>5 DEF At, y
<1>7. Signed(b.audit, x, seen)
  BY <1>5, <1>2 DEF Bare, Signed, State
<1>10. ProcessLine(s, m, fp) = b
  BY <1>3, <1>4
<1>9. s.ok /\ s.line = y /\ y # NL
  BY <1>1, <1>2
<1>11. LET r == ReadText(s, NL, m, fp)
       IN  At(r, NL, n, c, e) /\ r.audit = b.audit /\ r.evidence = b.evidence
  BY <1>9, <1>10, <1>6, LineRead
<1> QED
  BY <1>11, <1>5, <1>7

LEMMA EvidenceRead ==
  ASSUME NEW x \in EvidenceRows, NEW n, NEW c, NEW e, x.seq = e + 1, NEW m, NEW fp,
         NEW s, At(s, x, n, c, e), ~s.evidence.active
  PROVE  LET r == ReadText(s, NL, m, fp)
         IN  At(r, NL, n, c, x.seq) /\ Bare(r.evidence, x, {}) /\ r.audit = s.audit
<1> DEFINE v == [Idle EXCEPT !.active = TRUE, !.row = x]
           f == [s EXCEPT !.evidence = Idle]
           b == [f EXCEPT !.evidence = v, !.evidenceSeq = x.seq]
<1>1. x # NL /\ x.k = "evidence" /\ x \in Token /\ x.seq \in Nums
  BY DEF EvidenceRows, NL, Token
<1>2. s.line = x /\ s.ok /\ s \in State /\ s.evidenceSeq = e
  BY DEF At
<1>3. ProcessLine(s, m, fp) = ScanEvidenceRow(s, x, m)
  BY <1>1, <1>2 DEF ProcessLine
<1>4. FinalizeEvidence(s, m) = f
  BY DEF FinalizeEvidence
<1>5. /\ f \in State /\ f.ok = s.ok /\ f.line = s.line /\ f.seq = s.seq /\ f.counts = s.counts
      /\ f.evidenceSeq = s.evidenceSeq /\ f.audit = s.audit
  BY <1>2, IdleIs DEF State
<1>6. ScanEvidenceRow(s, x, m) = b
  BY <1>2, <1>4, <1>5 DEF ScanEvidenceRow
<1>7. Bare(v, x, {})
  BY <1>1, PlainTokens DEF Idle, Bare, Rec
<1> HIDE DEF v, f
<1>8. /\ b \in State /\ b.ok = f.ok /\ b.line = f.line /\ b.seq = f.seq /\ b.counts = f.counts
      /\ b.evidenceSeq = x.seq /\ b.audit = f.audit /\ b.evidence = v
  BY <1>1, <1>5, <1>7 DEF State, Bare
<1> HIDE DEF b
<1>9. At(b, x, n, c, x.seq)
  BY <1>5, <1>8 DEF At
<1>10. ProcessLine(s, m, fp) = b
  BY <1>3, <1>6
<1>11. LET r == ReadText(s, NL, m, fp)
       IN  At(r, NL, n, c, x.seq) /\ r.audit = b.audit /\ r.evidence = b.evidence
  BY <1>1, <1>2, <1>10, <1>9, LineRead
<1> QED
  BY <1>11, <1>5, <1>7, <1>8

LEMMA EvidenceMacRead ==
  ASSUME NEW m, Needed(m), NEW q \in Nums, NEW fp \in Keys, NEW x, x.seq = q, NEW seen, NEW n, NEW c, NEW e,
         NEW s, At(s, EvidenceMacRow(q, fp), n, c, e), Bare(s.evidence, x, seen)
  PROVE  LET r == ReadText(s, NL, m, fp)
         IN  At(r, NL, n, c, e) /\ Signed(r.evidence, x, seen) /\ r.audit = s.audit
<1> DEFINE y == EvidenceMacRow(q, fp)
           b == [s EXCEPT !.evidence.macSeen = TRUE]
<1>1. y # NL /\ y.k = "evidence_mac" /\ y.seq = q /\ y.key = fp
  BY DEF EvidenceMacRow, NL
<1>2. /\ s.line = y /\ s.ok /\ s \in State /\ s.evidence.active /\ s.evidence.row = x
      /\ ~s.evidence.macSeen
  BY DEF At, Bare
<1>3. ProcessLine(s, m, fp) = ScanEvidenceMacRow(s, y, m, fp)
  BY <1>1, <1>2 DEF ProcessLine
<1>4. ScanEvidenceMacRow(s, y, m, fp) = b
  BY <1>1, <1>2 DEF ScanEvidenceMacRow, Needed
<1>5. /\ b \in State /\ b.ok = s.ok /\ b.line = s.line /\ b.seq = s.seq /\ b.counts = s.counts
      /\ b.evidenceSeq = s.evidenceSeq /\ b.audit = s.audit
      /\ b.evidence.active = s.evidence.active /\ b.evidence.row = s.evidence.row
      /\ b.evidence.seen = s.evidence.seen /\ b.evidence.macSeen = TRUE
  BY <1>2 DEF State, Rec
<1> HIDE DEF b, y
<1>6. At(b, y, n, c, e)
  BY <1>5 DEF At, y
<1>7. Signed(b.evidence, x, seen)
  BY <1>5, <1>2 DEF Bare, Signed, State
<1>10. ProcessLine(s, m, fp) = b
  BY <1>3, <1>4
<1>9. s.ok /\ s.line = y /\ y # NL
  BY <1>1, <1>2
<1>11. LET r == ReadText(s, NL, m, fp)
       IN  At(r, NL, n, c, e) /\ r.audit = b.audit /\ r.evidence = b.evidence
  BY <1>9, <1>10, <1>6, LineRead
<1> QED
  BY <1>11, <1>5, <1>7

\* The empty line that ends every record.
LEMMA BlankRead ==
  ASSUME NEW s, NEW n, NEW c, NEW e, At(s, NL, n, c, e), NEW m, NEW fp,
         ~s.audit.active, s.evidence.active /\ m => s.evidence.macSeen
  PROVE  Resting(ReadText(s, NL, m, fp), n, c, e)
<1> DEFINE f == [s EXCEPT !.evidence = Idle]
           r == [f EXCEPT !.line = NL]
<1>1. s.ok /\ s.line = NL /\ s \in State
  BY DEF At
<1>2. FinalizeRecord(s, m) = s /\ FinalizeEvidence(s, m) = f
  BY DEF FinalizeRecord, FinalizeEvidence
<1>3. ReadText(s, NL, m, fp) = r
  BY <1>1, <1>2 DEF ReadText, CompleteLine
<1>4. /\ f \in State /\ f.ok = s.ok /\ f.seq = s.seq /\ f.counts = s.counts
      /\ f.evidenceSeq = s.evidenceSeq /\ f.audit = s.audit /\ f.evidence = Idle
  BY <1>1, IdleIs DEF State
<1> HIDE DEF f
<1>5. /\ r \in State /\ r.ok = f.ok /\ r.line = NL /\ r.seq = f.seq /\ r.counts = f.counts
      /\ r.evidenceSeq = f.evidenceSeq /\ r.audit = f.audit /\ r.evidence = f.evidence
  BY <1>4, PlainTokens DEF State
<1> HIDE DEF r
<1> QED
  BY <1>3, <1>4, <1>5, IdleIs DEF Resting, At

LEMMA RecordBlankRead ==
  ASSUME NEW x \in AuditRows, NEW m \in BOOLEAN, NEW fp,
         NEW n, NEW c \in [Types -> Nums], NEW e, NEW s, At(s, NL, n, c, e),
         IF m THEN Signed(s.audit, x, RoleNames) ELSE Bare(s.audit, x, RoleNames),
         ~s.evidence.active
  PROVE  Resting(ReadText(s, NL, m, fp), x.seq, [c EXCEPT ![x.type] = x.no], e)
<1> DEFINE d == [c EXCEPT ![x.type] = x.no]
           f == [s EXCEPT !.seq = x.seq, !.counts = d, !.audit = Idle]
           h == [f EXCEPT !.evidence = Idle]
           r == [h EXCEPT !.line = NL]
<1>1. /\ s.ok /\ s.line = NL /\ s \in State /\ s.counts = c /\ s.evidenceSeq = e
      /\ s.audit.active /\ s.audit.row = x /\ s.audit.seen = RoleNames
      /\ m => s.audit.macSeen
  BY DEF At, Bare, Signed
<1>2. Range(Roles) = RoleNames
  <2>1. DOMAIN Roles = {1, 2, 3, 4}
    BY DEF Roles
  <2>2. /\ Roles[1] = "client" /\ Roles[2] = "listen"
        /\ Roles[3] = "target" /\ Roles[4] = "backend"
    BY DEF Roles
  <2> QED
    BY <2>1, <2>2 DEF Range, RoleNames
<1>3. FinalizeRecord(s, m) = f
  BY <1>1, <1>2 DEF FinalizeRecord
<1>4. d \in [Types -> Nums] /\ x.seq \in Nums
  BY DEF AuditRows
<1> HIDE DEF d
<1>5. /\ f \in State /\ f.ok = s.ok /\ f.seq = x.seq /\ f.counts = d /\ f.audit = Idle
      /\ f.evidenceSeq = s.evidenceSeq /\ f.evidence = s.evidence
  BY <1>1, <1>4, IdleIs DEF State
<1> HIDE DEF f
<1>6. FinalizeEvidence(f, m) = h
  BY <1>5 DEF FinalizeEvidence
<1>7. /\ h \in State /\ h.ok = f.ok /\ h.seq = f.seq /\ h.counts = f.counts /\ h.audit = f.audit
      /\ h.evidenceSeq = f.evidenceSeq /\ h.evidence = Idle
  BY <1>5, IdleIs DEF State
<1> HIDE DEF h
<1>8. ReadText(s, NL, m, fp) = r
  BY <1>1, <1>3, <1>5, <1>6 DEF ReadText, CompleteLine
<1>9. /\ r \in State /\ r.ok = h.ok /\ r.line = NL /\ r.seq = h.seq /\ r.counts = h.counts
      /\ r.evidenceSeq = h.evidenceSeq /\ r.audit = h.audit /\ r.evidence = h.evidence
  BY <1>7, PlainTokens DEF State
<1> HIDE DEF r
<1>10. Resting(r, x.seq, d, e)
  BY <1>1, <1>5, <1>7, <1>9, IdleIs DEF Resting, At
<1> QED
  BY <1>8, <1>10 DEF d

-----------------------------------------------------------------------------
(* A whole record *)

LEMMA ReadMore ==
  ASSUME NEW t, Text(t), NEW u, Text(u), NEW m, NEW fp
  PROVE  \E g : /\ g[0] = ReadLines(t, m, fp) /\ ReadLines(t \o u, m, fp) = g[Len(u)]
                /\ \A j \in 1..Len(u) : g[j] = ReadText(g[j - 1], u[j], m, fp)
<1> DEFINE w == t \o u
<1>1. /\ Len(w) = Len(t) + Len(u) /\ \A j \in 1..Len(t) : w[j] = t[j]
      /\ \A j \in 1..Len(u) : w[Len(t) + j] = u[j]
  BY Joined
<1>2. Len(t) \in Nat /\ Len(u) \in Nat
  BY DEF Text
<1> HIDE DEF w
<1>3. Len(w) \in Nat /\ Len(t) \in 0..Len(w) /\ \A i \in 1..Len(t) : t[i] = w[i]
  BY <1>1, <1>2
<1>4. PICK f : /\ f[Len(t)] = ReadLines(t, m, fp) /\ ReadLines(w, m, fp) = f[Len(w)]
               /\ \A i \in 1..Len(w) : f[i] = ReadText(f[i - 1], w[i], m, fp)
  BY <1>3, ReadOn
<1> DEFINE g == [j \in 0..Len(u) |-> f[Len(t) + j]]
<1>5. \A j \in 0..Len(u) : g[j] = f[Len(t) + j]
  OBVIOUS
<1> HIDE DEF g
<1>6. ASSUME NEW j \in 1..Len(u)
      PROVE  g[j] = ReadText(g[j - 1], u[j], m, fp)
  <2>1. /\ Len(t) + j \in 1..Len(w) /\ (Len(t) + j) - 1 = Len(t) + (j - 1)
        /\ j \in 0..Len(u) /\ j - 1 \in 0..Len(u)
    BY <1>1, <1>2
  <2>2. f[Len(t) + j] = ReadText(f[Len(t) + (j - 1)], w[Len(t) + j], m, fp)
    BY <2>1, <1>4
  <2> QED
    BY <2>1, <2>2, <1>1, <1>5
<1>7. g[0] = ReadLines(t, m, fp) /\ ReadLines(w, m, fp) = g[Len(u)]
  <2>1. 0 \in 0..Len(u) /\ Len(u) \in 0..Len(u) /\ Len(t) + 0 = Len(t)
    BY <1>2
  <2> QED
    BY <2>1, <1>1, <1>4, <1>5
<1> QED
  BY <1>6, <1>7 DEF w

\* The tokens of a record with first row x.
AuditForm(f, x, m, fp) ==
  /\ f[1] = Remark /\ f[2] = NL /\ f[3] = x /\ f[4] = NL
  /\ f[5] = EndpointRow(x.seq, "client") /\ f[6] = NL
  /\ f[7] = EndpointRow(x.seq, "listen") /\ f[8] = NL
  /\ f[9] = EndpointRow(x.seq, "target") /\ f[10] = NL
  /\ f[11] = EndpointRow(x.seq, "backend") /\ f[12] = NL
  /\ IF m THEN Len(f) = 15 /\ f[13] = MacRow(x.seq, fp) /\ f[14] = NL /\ f[15] = NL
          ELSE Len(f) = 13 /\ f[13] = NL
EvidenceForm(f, x, m, fp) ==
  /\ f[1] = Remark /\ f[2] = NL /\ f[3] = x /\ f[4] = NL
  /\ IF m THEN Len(f) = 7 /\ f[5] = EvidenceMacRow(x.seq, fp) /\ f[6] = NL /\ f[7] = NL
          ELSE Len(f) = 5 /\ f[5] = NL

LEMMA AuditFormed ==
  ASSUME NEW n, NEW q, NEW e, NEW o, mac \in BOOLEAN
  PROVE  AuditForm(AuditText(n, q, e, o), AuditRow(n, q, e, o), mac, fingerprint)
<1> DEFINE r == AuditRow(n, q, e, o)
           p(z) == EndpointRow(n, z)
           x == MacRow(n, fingerprint)
           a == <<Remark, NL, r, NL, p("client"), NL, p("listen"), NL, p("target"), NL,
                  p("backend"), NL>>
           f == AuditText(n, q, e, o)
<1>1. r.seq = n
  BY DEF AuditRow
<1>2. /\ Roles[1] = "client" /\ Roles[2] = "listen"
      /\ Roles[3] = "target" /\ Roles[4] = "backend"
  BY DEF Roles
<1>3. f = a \o (IF mac THEN <<x, NL, NL>> ELSE <<NL>>)
  BY <1>2 DEF AuditText, AuditLines
<1> HIDE DEF r, p, x, f
<1>4. CASE mac
  <2>1. f = a \o <<x, NL, NL>>
    BY <1>3, <1>4
  <2>2. /\ f[1] = Remark /\ f[2] = NL /\ f[3] = r /\ f[4] = NL /\ f[5] = p("client")
        /\ f[6] = NL /\ f[7] = p("listen") /\ f[8] = NL /\ f[9] = p("target") /\ f[10] = NL
        /\ f[11] = p("backend") /\ f[12] = NL /\ f[13] = x /\ f[14] = NL /\ f[15] = NL
        /\ Len(f) = 15
    BY <2>1
  <2> QED
    BY <2>2, <1>1, <1>4 DEF AuditForm, f, r, p, x
<1>5. CASE ~mac
  <2>1. f = a \o <<NL>>
    BY <1>3, <1>5
  <2>2. /\ f[1] = Remark /\ f[2] = NL /\ f[3] = r /\ f[4] = NL /\ f[5] = p("client")
        /\ f[6] = NL /\ f[7] = p("listen") /\ f[8] = NL /\ f[9] = p("target") /\ f[10] = NL
        /\ f[11] = p("backend") /\ f[12] = NL /\ f[13] = NL /\ Len(f) = 13
    BY <2>1
  <2> QED
    BY <2>2, <1>1, <1>5 DEF AuditForm, f, r, p, x
<1> QED
  BY <1>4, <1>5

LEMMA EvidenceFormed ==
  ASSUME NEW n, NEW q, mac \in BOOLEAN
  PROVE  EvidenceForm(EvidenceText(n, q), EvidenceRow(n, q), mac, fingerprint)
<1> DEFINE r == EvidenceRow(n, q)
           x == EvidenceMacRow(n, fingerprint)
           a == <<Remark, NL, r, NL>>
           f == EvidenceText(n, q)
<1>1. r.seq = n
  BY DEF EvidenceRow
<1>2. f = a \o (IF mac THEN <<x, NL, NL>> ELSE <<NL>>)
  BY DEF EvidenceText, EvidenceLines
<1> HIDE DEF r, x, f
<1>3. CASE mac
  <2>1. f = a \o <<x, NL, NL>>
    BY <1>2, <1>3
  <2>2. /\ f[1] = Remark /\ f[2] = NL /\ f[3] = r /\ f[4] = NL /\ f[5] = x /\ f[6] = NL
        /\ f[7] = NL /\ Len(f) = 7
    BY <2>1
  <2> QED
    BY <2>2, <1>1, <1>3 DEF EvidenceForm, f, r, x
<1>4. CASE ~mac
  <2>1. f = a \o <<NL>>
    BY <1>2, <1>4
  <2>2. f[1] = Remark /\ f[2] = NL /\ f[3] = r /\ f[4] = NL /\ f[5] = NL /\ Len(f) = 5
    BY <2>1
  <2> QED
    BY <2>2, <1>1, <1>4 DEF EvidenceForm, f, r, x
<1> QED
  BY <1>3, <1>4

LEMMA RemarkLine ==
  ASSUME NEW s, NEW r, NEW m, NEW fp, NEW n, NEW c, NEW e, At(s, NL, n, c, e),
         NEW x \in {Remark, Magic, MacTable}, ReadsLine(s, x, r, m, fp)
  PROVE  At(r, NL, n, c, e) /\ r.audit = s.audit /\ r.evidence = s.evidence
<1> DEFINE g == ReadText(s, x, m, fp)
<1>1. x \in Token /\ x # NL
  BY DEF Token, Plain, Remark, Magic, MacTable, NL
<1>2. At(g, x, n, c, e) /\ g.audit = s.audit /\ g.evidence = s.evidence
  BY <1>1, TextRead
<1>3. r = ReadText(g, NL, m, fp)
  BY DEF ReadsLine
<1> HIDE DEF g
<1>4. At(r, NL, n, c, e) /\ r.audit = g.audit /\ r.evidence = g.evidence
  BY <1>2, <1>3, RemarkRead
<1> QED
  BY <1>2, <1>4

LEMMA EndpointLine ==
  ASSUME NEW s, NEW r, NEW m, NEW fp, NEW n, NEW c, NEW e, At(s, NL, n, c, e),
         NEW x, NEW q \in Nums, x.seq = q, NEW seen, Bare(s.audit, x, seen),
         ~s.evidence.active, NEW role \in RoleNames, NEW more, Adds(more, seen, role),
         ReadsLine(s, EndpointRow(q, role), r, m, fp)
  PROVE  At(r, NL, n, c, e) /\ Bare(r.audit, x, more) /\ ~r.evidence.active
<1> DEFINE y == EndpointRow(q, role)
           g == ReadText(s, y, m, fp)
<1>1. y \in Token /\ y # NL
  BY DEF EndpointRow, NL, Token
<1>2. At(g, y, n, c, e) /\ g.audit = s.audit /\ g.evidence = s.evidence
  BY <1>1, TextRead
<1>3. r = ReadText(g, NL, m, fp)
  BY DEF ReadsLine
<1> HIDE DEF g
<1>4. Bare(g.audit, x, seen) /\ At(g, EndpointRow(q, role), n, c, e)
  BY <1>2
<1>5. LET z == ReadText(g, NL, m, fp)
      IN  At(z, NL, n, c, e) /\ Bare(z.audit, x, more) /\ z.evidence = g.evidence
  BY <1>4, EndpointRead
<1> QED
  BY <1>2, <1>3, <1>5

LEMMA MacLine ==
  ASSUME NEW s, NEW r, NEW m, Needed(m), NEW fp \in Keys, NEW n, NEW c, NEW e,
         At(s, NL, n, c, e), NEW x, NEW q \in Nums, x.seq = q, NEW seen,
         Bare(s.audit, x, seen), ~s.evidence.active, ReadsLine(s, MacRow(q, fp), r, m, fp)
  PROVE  At(r, NL, n, c, e) /\ Signed(r.audit, x, seen) /\ ~r.evidence.active
<1> DEFINE y == MacRow(q, fp)
           g == ReadText(s, y, m, fp)
<1>1. y \in Token /\ y # NL
  BY DEF MacRow, NL, Token, MacRows
<1>2. At(g, y, n, c, e) /\ g.audit = s.audit /\ g.evidence = s.evidence
  BY <1>1, TextRead
<1>3. r = ReadText(g, NL, m, fp)
  BY DEF ReadsLine
<1> HIDE DEF g
<1>4. Bare(g.audit, x, seen)
  BY <1>2
<1>6. At(g, MacRow(q, fp), n, c, e)
  BY <1>2
<1>5. LET z == ReadText(g, NL, m, fp)
      IN  At(z, NL, n, c, e) /\ Signed(z.audit, x, seen) /\ z.evidence = g.evidence
  BY <1>4, <1>6, MacRead
<1> QED
  BY <1>2, <1>3, <1>5

LEMMA EvidenceMacLine ==
  ASSUME NEW s, NEW r, NEW m, Needed(m), NEW fp \in Keys, NEW n, NEW c, NEW e,
         At(s, NL, n, c, e), NEW x, NEW q \in Nums, x.seq = q, NEW seen,
         Bare(s.evidence, x, seen), ~s.audit.active,
         ReadsLine(s, EvidenceMacRow(q, fp), r, m, fp)
  PROVE  At(r, NL, n, c, e) /\ Signed(r.evidence, x, seen) /\ ~r.audit.active
<1> DEFINE y == EvidenceMacRow(q, fp)
           g == ReadText(s, y, m, fp)
<1>1. y \in Token /\ y # NL
  BY DEF EvidenceMacRow, NL, Token
<1>2. At(g, y, n, c, e) /\ g.audit = s.audit /\ g.evidence = s.evidence
  BY <1>1, TextRead
<1>3. r = ReadText(g, NL, m, fp)
  BY DEF ReadsLine
<1> HIDE DEF g
<1>4. Bare(g.evidence, x, seen)
  BY <1>2
<1>6. At(g, EvidenceMacRow(q, fp), n, c, e)
  BY <1>2
<1>5. LET z == ReadText(g, NL, m, fp)
      IN  At(z, NL, n, c, e) /\ Signed(z.evidence, x, seen) /\ z.audit = g.audit
  BY <1>4, <1>6, EvidenceMacRead
<1> QED
  BY <1>2, <1>3, <1>5

LEMMA AuditLine ==
  ASSUME NEW s, NEW r, NEW m, NEW fp, NEW x \in AuditRows, NEW n \in Nums, n # SeqMax,
         NEW c \in [Types -> Nums], c[x.type] # SeqMax, x.seq = n + 1, x.no = c[x.type] + 1,
         NEW e, At(s, NL, n, c, e), ~s.audit.active, ~s.evidence.active,
         ReadsLine(s, x, r, m, fp)
  PROVE  At(r, NL, n, c, e) /\ Bare(r.audit, x, {}) /\ ~r.evidence.active
<1> DEFINE g == ReadText(s, x, m, fp)
<1>1. x \in Token /\ x # NL
  BY DEF AuditRows, Token, NL
<1>2. At(g, x, n, c, e) /\ g.audit = s.audit /\ g.evidence = s.evidence
  BY <1>1, TextRead
<1>3. r = ReadText(g, NL, m, fp)
  BY DEF ReadsLine
<1> HIDE DEF g
<1>4. At(g, x, n, c, e) /\ ~g.audit.active
  BY <1>2
<1>5. LET z == ReadText(g, NL, m, fp)
      IN  At(z, NL, n, c, e) /\ Bare(z.audit, x, {}) /\ z.evidence = g.evidence
  BY <1>4, AuditRead
<1> QED
  BY <1>2, <1>3, <1>5

LEMMA EvidenceLine ==
  ASSUME NEW s, NEW r, NEW m, NEW fp, NEW x \in EvidenceRows, NEW n, NEW c, NEW e,
         x.seq = e + 1, At(s, NL, n, c, e), ~s.audit.active, ~s.evidence.active,
         ReadsLine(s, x, r, m, fp)
  PROVE  At(r, NL, n, c, x.seq) /\ Bare(r.evidence, x, {}) /\ ~r.audit.active
<1> DEFINE g == ReadText(s, x, m, fp)
<1>1. x \in Token /\ x # NL
  BY DEF EvidenceRows, Token, NL
<1>2. At(g, x, n, c, e) /\ g.audit = s.audit /\ g.evidence = s.evidence
  BY <1>1, TextRead
<1>3. r = ReadText(g, NL, m, fp)
  BY DEF ReadsLine
<1> HIDE DEF g
<1>4. At(g, x, n, c, e) /\ ~g.evidence.active
  BY <1>2
<1>5. LET z == ReadText(g, NL, m, fp)
      IN  At(z, NL, n, c, x.seq) /\ Bare(z.evidence, x, {}) /\ z.audit = g.audit
  BY <1>4, EvidenceRead
<1> QED
  BY <1>2, <1>3, <1>5

LEMMA AuditAppended ==
  ASSUME NEW t, Text(t), NEW u, Text(u), NEW m \in BOOLEAN, NEW fp \in Keys,
         NEW x \in AuditRows, AuditForm(u, x, m, fp), NEW n \in Nums, n # SeqMax,
         NEW c \in [Types -> Nums], c[x.type] # SeqMax, x.seq = n + 1, x.no = c[x.type] + 1,
         NEW e, Resting(ReadLines(t, m, fp), n, c, e)
  PROVE  Resting(ReadLines(t \o u, m, fp), x.seq, [c EXCEPT ![x.type] = x.no], e)
<1> DEFINE q == x.seq
           R(i, l, k) == ReadsLine(i, l, k, m, fp)
<1>1. PICK g : /\ g[0] = ReadLines(t, m, fp) /\ ReadLines(t \o u, m, fp) = g[Len(u)]
               /\ \A j \in 1..Len(u) : g[j] = ReadText(g[j - 1], u[j], m, fp)
  BY ReadMore
<1>2. /\ u[1] = Remark /\ u[2] = NL /\ u[3] = x /\ u[4] = NL
      /\ u[5] = EndpointRow(q, "client") /\ u[6] = NL
      /\ u[7] = EndpointRow(q, "listen") /\ u[8] = NL
      /\ u[9] = EndpointRow(q, "target") /\ u[10] = NL
      /\ u[11] = EndpointRow(q, "backend") /\ u[12] = NL
  BY DEF AuditForm
<1>3. \A j \in 1..13 : g[j] = ReadText(g[j - 1], u[j], m, fp)
  <2>1. SUFFICES ASSUME NEW j \in 1..13
                PROVE  g[j] = ReadText(g[j - 1], u[j], m, fp)
    OBVIOUS
  <2>2. Len(u) = 13 \/ Len(u) = 15
    BY DEF AuditForm
  <2>3. j \in 1..Len(u)
    <3>1. j \in 1..13 /\ j \in 1..15
      OBVIOUS
    <3>2. CASE Len(u) = 13
      BY <3>1, <3>2, Zenon
    <3>3. CASE Len(u) = 15
      BY <3>1, <3>3, Zenon
    <3> QED
      BY <2>2, <3>2, <3>3
  <2>4. \A i \in 1..Len(u) : g[i] = ReadText(g[i - 1], u[i], m, fp)
    BY <1>1
  <2> QED
    BY <2>3, <2>4, Zenon
<1>4. q \in Nums /\ x.seq = q
  BY DEF AuditRows
<1> HIDE DEF q
<1>5. /\ R(g[0], u[1], g[2]) /\ R(g[2], u[3], g[4]) /\ R(g[4], u[5], g[6])
      /\ R(g[6], u[7], g[8]) /\ R(g[8], u[9], g[10]) /\ R(g[10], u[11], g[12])
  <2>1. /\ g[1] = ReadText(g[0], u[1], m, fp) /\ g[2] = ReadText(g[1], u[2], m, fp)
        /\ g[3] = ReadText(g[2], u[3], m, fp) /\ g[4] = ReadText(g[3], u[4], m, fp)
    BY <1>3
  <2>2. /\ g[5] = ReadText(g[4], u[5], m, fp) /\ g[6] = ReadText(g[5], u[6], m, fp)
        /\ g[7] = ReadText(g[6], u[7], m, fp) /\ g[8] = ReadText(g[7], u[8], m, fp)
    BY <1>3
  <2>3. /\ g[9] = ReadText(g[8], u[9], m, fp) /\ g[10] = ReadText(g[9], u[10], m, fp)
        /\ g[11] = ReadText(g[10], u[11], m, fp) /\ g[12] = ReadText(g[11], u[12], m, fp)
    BY <1>3
  <2>4. R(g[0], u[1], g[2]) /\ R(g[2], u[3], g[4])
    BY <2>1, <1>2 DEF ReadsLine
  <2>5. R(g[4], u[5], g[6]) /\ R(g[6], u[7], g[8])
    BY <2>2, <1>2 DEF ReadsLine
  <2>6. R(g[8], u[9], g[10]) /\ R(g[10], u[11], g[12])
    BY <2>3, <1>2 DEF ReadsLine
  <2> QED
    BY <2>4, <2>5, <2>6
<1>6. At(g[0], NL, n, c, e) /\ ~g[0].audit.active /\ ~g[0].evidence.active
  BY <1>1 DEF Resting
<1>7. At(g[2], NL, n, c, e) /\ ~g[2].audit.active /\ ~g[2].evidence.active
  BY <1>2, <1>5, <1>6, RemarkLine
<1>8. At(g[4], NL, n, c, e) /\ Bare(g[4].audit, x, {}) /\ ~g[4].evidence.active
  <2>1. R(g[2], x, g[4])
    BY <1>2, <1>5
  <2> QED
    BY <2>1, <1>7, AuditLine
<1> DEFINE r1 == "client"
           r2 == "listen"
           r3 == "target"
           r4 == "backend"
           s0 == {}
           s1 == {"client"}
           s2 == {"client", "listen"}
           s3 == {"client", "listen", "target"}
<1>9. /\ r1 \in RoleNames /\ Adds(s1, s0, r1) /\ r2 \in RoleNames /\ Adds(s2, s1, r2)
      /\ r3 \in RoleNames /\ Adds(s3, s2, r3) /\ r4 \in RoleNames /\ Adds(RoleNames, s3, r4)
  BY DEF RoleNames, Adds
<1>10. /\ R(g[4], EndpointRow(q, r1), g[6]) /\ R(g[6], EndpointRow(q, r2), g[8])
       /\ R(g[8], EndpointRow(q, r3), g[10]) /\ R(g[10], EndpointRow(q, r4), g[12])
  BY <1>2, <1>5
<1>11. Bare(g[4].audit, x, s0)
  BY <1>8
<1> HIDE DEF r1, r2, r3, r4, s0, s1, s2, s3
<1>12. At(g[12], NL, n, c, e) /\ Bare(g[12].audit, x, RoleNames) /\ ~g[12].evidence.active
  <2>2. At(g[6], NL, n, c, e) /\ Bare(g[6].audit, x, s1) /\ ~g[6].evidence.active
    BY <1>4, <1>8, <1>9, <1>10, <1>11, EndpointLine
  <2>3. At(g[8], NL, n, c, e) /\ Bare(g[8].audit, x, s2) /\ ~g[8].evidence.active
    BY <2>2, <1>4, <1>9, <1>10, EndpointLine
  <2>4. At(g[10], NL, n, c, e) /\ Bare(g[10].audit, x, s3) /\ ~g[10].evidence.active
    BY <2>3, <1>4, <1>9, <1>10, EndpointLine
  <2> QED
    BY <2>4, <1>4, <1>9, <1>10, EndpointLine
<1>13. CASE m
  <2>1. Len(u) = 15 /\ u[13] = MacRow(q, fp) /\ u[14] = NL /\ u[15] = NL
    BY <1>13 DEF AuditForm, q
  <2>2. R(g[12], u[13], g[14])
    <3>1. 13 \in 1..Len(u) /\ 14 \in 1..Len(u) /\ 13 - 1 = 12 /\ 14 - 1 = 13
      BY <2>1
    <3>2. /\ g[13] = ReadText(g[12], u[13], m, fp) /\ g[14] = ReadText(g[13], u[14], m, fp)
      BY <3>1, <1>1
    <3> QED
      BY <2>1, <3>2 DEF ReadsLine
  <2>3. R(g[12], MacRow(q, fp), g[14])
    BY <2>1, <2>2
  <2>4. g[15] = ReadText(g[14], NL, m, fp)
    <3>1. 15 \in 1..Len(u) /\ 15 - 1 = 14
      BY <2>1
    <3> QED
      BY <3>1, <2>1, <1>1
  <2>5. Needed(m)
    BY <1>13 DEF Needed
  <2>6. At(g[14], NL, n, c, e) /\ Signed(g[14].audit, x, RoleNames) /\ ~g[14].evidence.active
    BY <2>3, <2>5, <1>4, <1>12, MacLine
  <2>7. IF m THEN Signed(g[14].audit, x, RoleNames) ELSE Bare(g[14].audit, x, RoleNames)
    BY <2>6, <1>13
  <2>8. Resting(ReadText(g[14], NL, m, fp), x.seq, [c EXCEPT ![x.type] = x.no], e)
    BY <2>6, <2>7, RecordBlankRead
  <2> QED
    BY <2>1, <2>4, <2>8, <1>1
<1>14. CASE ~m
  <2>1. Len(u) = 13 /\ u[13] = NL
    BY <1>14 DEF AuditForm
  <2>2. g[13] = ReadText(g[12], NL, m, fp)
    <3>1. 13 \in 1..Len(u) /\ 13 - 1 = 12
      BY <2>1
    <3> QED
      BY <3>1, <2>1, <1>1
  <2>3. IF m THEN Signed(g[12].audit, x, RoleNames) ELSE Bare(g[12].audit, x, RoleNames)
    BY <1>12, <1>14
  <2>4. Resting(ReadText(g[12], NL, m, fp), x.seq, [c EXCEPT ![x.type] = x.no], e)
    BY <1>12, <2>3, RecordBlankRead
  <2> QED
    BY <2>1, <2>2, <2>4, <1>1
<1> QED
  BY <1>13, <1>14

LEMMA EvidenceAppended ==
  ASSUME NEW t, Text(t), NEW u, Text(u), NEW m \in BOOLEAN, NEW fp \in Keys,
         NEW x \in EvidenceRows, EvidenceForm(u, x, m, fp), NEW n, NEW c, NEW e, x.seq = e + 1,
         Resting(ReadLines(t, m, fp), n, c, e)
  PROVE  Resting(ReadLines(t \o u, m, fp), n, c, x.seq)
<1> DEFINE q == x.seq
           R(i, l, k) == ReadsLine(i, l, k, m, fp)
<1>1. PICK g : /\ g[0] = ReadLines(t, m, fp) /\ ReadLines(t \o u, m, fp) = g[Len(u)]
               /\ \A j \in 1..Len(u) : g[j] = ReadText(g[j - 1], u[j], m, fp)
  BY ReadMore
<1>2. u[1] = Remark /\ u[2] = NL /\ u[3] = x /\ u[4] = NL
  BY DEF EvidenceForm
<1>3. \A j \in 1..5 : g[j] = ReadText(g[j - 1], u[j], m, fp)
  <2>1. SUFFICES ASSUME NEW j \in 1..5
                PROVE  g[j] = ReadText(g[j - 1], u[j], m, fp)
    OBVIOUS
  <2>2. Len(u) = 5 \/ Len(u) = 7
    BY DEF EvidenceForm
  <2>3. j \in 1..Len(u)
    <3>1. j \in 1..5 /\ j \in 1..7
      OBVIOUS
    <3>2. CASE Len(u) = 5
      BY <3>1, <3>2, Zenon
    <3>3. CASE Len(u) = 7
      BY <3>1, <3>3, Zenon
    <3> QED
      BY <2>2, <3>2, <3>3
  <2>4. \A i \in 1..Len(u) : g[i] = ReadText(g[i - 1], u[i], m, fp)
    BY <1>1
  <2> QED
    BY <2>3, <2>4, Zenon
<1>4. q \in Nums /\ x.seq = q
  BY DEF EvidenceRows
<1>5. R(g[0], u[1], g[2]) /\ R(g[2], u[3], g[4])
  <2>1. /\ g[1] = ReadText(g[0], u[1], m, fp) /\ g[2] = ReadText(g[1], u[2], m, fp)
        /\ g[3] = ReadText(g[2], u[3], m, fp) /\ g[4] = ReadText(g[3], u[4], m, fp)
    BY <1>3
  <2> QED
    BY <2>1, <1>2 DEF ReadsLine
<1>6. At(g[0], NL, n, c, e) /\ ~g[0].audit.active /\ ~g[0].evidence.active
  BY <1>1 DEF Resting
<1>7. At(g[2], NL, n, c, e) /\ ~g[2].audit.active /\ ~g[2].evidence.active
  BY <1>2, <1>5, <1>6, RemarkLine
<1>8. At(g[4], NL, n, c, q) /\ Bare(g[4].evidence, x, {}) /\ ~g[4].audit.active
  <2>1. R(g[2], x, g[4])
    BY <1>2, <1>5
  <2> QED
    BY <2>1, <1>7, EvidenceLine
<1> HIDE DEF q
<1>9. CASE m
  <2>1. Len(u) = 7 /\ u[5] = EvidenceMacRow(q, fp) /\ u[6] = NL /\ u[7] = NL
    BY <1>9 DEF EvidenceForm, q
  <2>2. R(g[4], u[5], g[6])
    <3>1. 5 \in 1..Len(u) /\ 6 \in 1..Len(u) /\ 5 - 1 = 4 /\ 6 - 1 = 5
      BY <2>1
    <3>2. /\ g[5] = ReadText(g[4], u[5], m, fp) /\ g[6] = ReadText(g[5], u[6], m, fp)
      BY <3>1, <1>1
    <3> QED
      BY <2>1, <3>2 DEF ReadsLine
  <2>3. R(g[4], EvidenceMacRow(q, fp), g[6])
    BY <2>1, <2>2
  <2>4. g[7] = ReadText(g[6], NL, m, fp)
    <3>1. 7 \in 1..Len(u) /\ 7 - 1 = 6
      BY <2>1
    <3> QED
      BY <3>1, <2>1, <1>1
  <2>5. Needed(m)
    BY <1>9 DEF Needed
  <2>6. At(g[6], NL, n, c, q) /\ Signed(g[6].evidence, x, {}) /\ ~g[6].audit.active
    <3> DEFINE z == {}
    <3>1. Bare(g[4].evidence, x, z)
      BY <1>8
    <3> HIDE DEF z
    <3>2. At(g[6], NL, n, c, q) /\ Signed(g[6].evidence, x, z) /\ ~g[6].audit.active
      BY <2>3, <2>5, <3>1, <1>4, <1>8, EvidenceMacLine
    <3> QED
      BY <3>2 DEF z
  <2>7. g[6].evidence.active /\ m => g[6].evidence.macSeen
    BY <2>6 DEF Signed
  <2>8. Resting(ReadText(g[6], NL, m, fp), n, c, q)
    BY <2>6, <2>7, BlankRead
  <2> QED
    BY <2>1, <2>4, <2>8, <1>1, <1>4
<1>10. CASE ~m
  <2>1. Len(u) = 5 /\ u[5] = NL
    BY <1>10 DEF EvidenceForm
  <2>2. g[5] = ReadText(g[4], NL, m, fp)
    <3>1. 5 \in 1..Len(u) /\ 5 - 1 = 4
      BY <2>1
    <3> QED
      BY <3>1, <2>1, <1>1
  <2>3. Resting(ReadText(g[4], NL, m, fp), n, c, q)
    <3>1. g[4].evidence.active /\ m => g[4].evidence.macSeen
      BY <1>10
    <3> QED
      BY <3>1, <1>8, BlankRead
  <2> QED
    BY <2>1, <2>2, <2>3, <1>1, <1>4
<1> QED
  BY <1>9, <1>10

-----------------------------------------------------------------------------
(* A file of whole records *)

\* A file that rests between records is accepted with the numbers it rests at.
LEMMA RestScans ==
  ASSUME NEW t, NEW m, NEW fp, NEW n, NEW c, NEW e, Resting(ReadLines(t, m, fp), n, c, e)
  PROVE  LET r == ScanExisting(t, m, fp)
         IN  r.ok /\ r.seq = n /\ r.counts = c /\ r.evidenceSeq = e
<1> DEFINE s == ReadLines(t, m, fp)
           h == [s EXCEPT !.evidence = Idle]
<1>1. /\ s \in State /\ s.ok /\ s.line = NL /\ s.seq = n /\ s.counts = c /\ s.evidenceSeq = e
      /\ ~s.audit.active /\ ~s.evidence.active
  BY DEF Resting, At
<1> HIDE DEF s
<1>2. FinalizeRecord(s, m) = s /\ FinalizeEvidence(s, m) = h
  BY <1>1 DEF FinalizeRecord, FinalizeEvidence
<1>3. ScanExisting(t, m, fp) = h
  BY <1>1, <1>2 DEF ScanExisting, s
<1>4. h.ok = s.ok /\ h.seq = s.seq /\ h.counts = s.counts /\ h.evidenceSeq = s.evidenceSeq
  BY <1>1 DEF State
<1> HIDE DEF h
<1> QED
  BY <1>1, <1>3, <1>4

LEMMA ScansTyped ==
  ASSUME NEW t, Text(t), NEW m \in BOOLEAN, NEW fp, NEW f, IsScan(f, Len(t), t, m, fp)
  PROVE  \A i \in 0..Len(t) : ScanState(f[i])
<1> DEFINE S == {i \in Nat : i <= Len(t) => ScanState(f[i])}
<1>1. 0 \in S
  BY InitMet DEF IsScan
<1>2. ASSUME NEW i \in Nat, i \in S
      PROVE  i + 1 \in S
  <2>1. SUFFICES ASSUME i + 1 <= Len(t)
                PROVE  ScanState(f[i + 1])
    OBVIOUS
  <2>2. i + 1 \in 1..Len(t) /\ (i + 1) - 1 = i /\ i <= Len(t)
    BY <2>1 DEF Text
  <2>3. ScanState(f[i])
    BY <1>2, <2>2
  <2>4. f[i + 1] = ReadText(f[i], t[i + 1], m, fp)
    BY <2>2 DEF IsScan
  <2>5. t[i + 1] \in Token
    BY <2>2 DEF Text
  <2>6. CASE ~f[i].ok
    BY <2>3, <2>4, <2>6 DEF ReadText
  <2>7. CASE f[i].ok
    BY <2>3, <2>4, <2>5, <2>7, ReadGoes DEF Goes
  <2> QED
    BY <2>6, <2>7
<1> HIDE DEF S
<1>3. Nat \subseteq S
  BY <1>1, <1>2, SetInduction
<1> QED
  BY <1>3 DEF S

\* An empty line leaves no record open.
LEMMA EmptyLineRests ==
  ASSUME NEW s, ScanState(s), s.line = NL, NEW m \in BOOLEAN, NEW fp,
         NEW r, r = ReadText(s, NL, m, fp), r.ok
  PROVE  Resting(r, r.seq, r.counts, r.evidenceSeq)
<1> DEFINE f == FinalizeRecord(s, m)
           b == FinalizeBoth(s, m)
<1>1. s.ok
  BY DEF ReadText
<1>2. r = [b EXCEPT !.line = NL]
  BY <1>1 DEF ReadText, CompleteLine, FinalizeBoth
<1>3. Goes(s, b, NL, m) /\ (b.ok => ~b.audit.active)
  BY BothFinalized
<1>4. b \in State
  BY <1>3 DEF Goes, ScanState
<1>5. ScanState(f)
  BY FinalizedIs
<1>6. b = IF f.ok THEN FinalizeEvidence(f, m) ELSE f
  BY DEF FinalizeBoth
<1> HIDE DEF f, b
<1>7. /\ r \in State /\ r.ok = b.ok /\ r.line = NL /\ r.audit = b.audit
      /\ r.evidence = b.evidence
  BY <1>2, <1>4, PlainTokens DEF State
<1>8. b.ok
  BY <1>7
<1>9. ~b.evidence.active
  <2>1. f.ok
    BY <1>6, <1>8
  <2>2. b = FinalizeEvidence(f, m)
    BY <1>6, <2>1
  <2>3. FinalizeEvidence(f, m) = Refused(f) \/ FinalizeEvidence(f, m) = [f EXCEPT !.evidence = Idle]
    BY DEF FinalizeEvidence
  <2>4. ~Refused(f).ok
    BY <1>5, RefusedIs
  <2>5. b = [f EXCEPT !.evidence = Idle]
    BY <2>2, <2>3, <2>4, <1>8
  <2>6. b.evidence = Idle
    BY <2>5, <1>5 DEF ScanState, State
  <2> QED
    BY <2>6, IdleIs
<1> QED
  BY <1>3, <1>7, <1>8, <1>9 DEF Resting, At

\* The end of every record.
Ends(t) == Len(t) \in Nat /\ 2 <= Len(t) /\ t[Len(t)] = NL /\ t[Len(t) - 1] = NL

LEMMA EndRests ==
  ASSUME NEW t, Text(t), Ends(t), NEW m \in BOOLEAN, NEW fp, ScanExisting(t, m, fp).ok
  PROVE  LET r == ScanExisting(t, m, fp)
         IN  Resting(ReadLines(t, m, fp), r.seq, r.counts, r.evidenceSeq)
<1> DEFINE k == Len(t)
           s == ReadLines(t, m, fp)
<1>1. k \in Nat /\ 2 <= k /\ t[k] = NL /\ t[k - 1] = NL
  BY DEF Ends
<1>2. PICK f : IsScan(f, k, t, m, fp) /\ s = f[k]
  BY <1>1, ReadLinesIs
<1>3. \A i \in 0..k : ScanState(f[i])
  BY <1>2, ScansTyped
<1>4. s.ok
  <2>1. ScanState(s)
    BY <1>1, <1>2, <1>3
  <2> HIDE DEF s
  <2>2. SUFFICES ASSUME ~s.ok
                PROVE  FALSE
    OBVIOUS
  <2>3. ScanExisting(t, m, fp) = s
    BY <2>2 DEF ScanExisting, s
  <2> QED
    BY <2>2, <2>3
<1>5. /\ k \in 1..k /\ k - 1 \in 1..k /\ k - 1 \in 0..k /\ (k - 1) - 1 \in 0..k /\ k \in 0..k
  BY <1>1
<1> DEFINE p == f[k - 1]
           o == f[(k - 1) - 1]
<1>6. s = ReadText(p, NL, m, fp) /\ p = ReadText(o, NL, m, fp)
  <2>1. f[k] = ReadText(f[k - 1], t[k], m, fp)
    BY <1>2, <1>5 DEF IsScan
  <2>2. f[k - 1] = ReadText(f[(k - 1) - 1], t[k - 1], m, fp)
    BY <1>2, <1>5 DEF IsScan
  <2> QED
    BY <2>1, <2>2, <1>1, <1>2
<1>7. ScanState(p) /\ ScanState(o)
  BY <1>3, <1>5
<1> HIDE DEF s, p, o, k
<1>8. p.ok
  BY <1>4, <1>6 DEF ReadText
<1>9. o.ok
  BY <1>8, <1>6 DEF ReadText
<1>10. p.line = NL
  BY <1>6, <1>7, <1>9, PlainTokens, ReadGoes
<1>11. Resting(s, s.seq, s.counts, s.evidenceSeq)
  BY <1>4, <1>6, <1>7, <1>10, EmptyLineRests
<1> QED
  BY <1>11, RestScans DEF s

LEMMA RemarkRests ==
  ASSUME NEW s, NEW r, NEW m, NEW fp, NEW n, NEW c, NEW e, Resting(s, n, c, e),
         NEW x \in {Remark, Magic, MacTable}, ReadsLine(s, x, r, m, fp)
  PROVE  Resting(r, n, c, e)
BY RemarkLine DEF Resting

\* The beginnings of the header that older versions wrote rest at zero.
Headers == {Header, SubSeq(Header, 1, 4), SubSeq(Header, 1, 2)}

LEMMA HeaderRests ==
  ASSUME NEW t \in Headers, NEW m, NEW fp
  PROVE  Resting(ReadLines(t, m, fp), 0, [y \in Types |-> 0], 0)
<1> DEFINE z == [y \in Types |-> 0]
           R(s, l, r) == ReadsLine(s, l, r, m, fp)
<1>1. \/ t = <<Magic, NL, MacTable, NL, Remark, NL>>
      \/ t = <<Magic, NL, MacTable, NL>>
      \/ t = <<Magic, NL>>
  BY DEF Headers, Header
<1>2. /\ Len(t) \in {2, 4, 6} /\ t[1] = Magic /\ t[2] = NL
      /\ Len(t) > 2 => t[3] = MacTable /\ t[4] = NL
      /\ Len(t) > 4 => t[5] = Remark /\ t[6] = NL
  <2>1. CASE t = <<Magic, NL, MacTable, NL, Remark, NL>>
    <3>1. Len(t) = 6 /\ t[1] = Magic /\ t[2] = NL /\ t[3] = MacTable /\ t[4] = NL
          /\ t[5] = Remark /\ t[6] = NL
      BY <2>1
    <3> QED
      BY <3>1
  <2>2. CASE t = <<Magic, NL, MacTable, NL>>
    <3>1. Len(t) = 4 /\ t[1] = Magic /\ t[2] = NL /\ t[3] = MacTable /\ t[4] = NL
      BY <2>2
    <3> QED
      BY <3>1
  <2>3. CASE t = <<Magic, NL>>
    <3>1. Len(t) = 2 /\ t[1] = Magic /\ t[2] = NL
      BY <2>3
    <3> QED
      BY <3>1
  <2> QED
    BY <1>1, <2>1, <2>2, <2>3
<1>3. Len(t) \in Nat
  BY <1>2
<1>4. PICK f : IsScan(f, Len(t), t, m, fp) /\ ReadLines(t, m, fp) = f[Len(t)]
  BY <1>3, ReadLinesIs
<1>5. \A i \in 1..Len(t) : f[i] = ReadText(f[i - 1], t[i], m, fp)
  BY <1>4 DEF IsScan
<1>6. Resting(f[0], 0, z, 0)
  <2>1. f[0] = ScanInit /\ ScanInit \in State
    BY <1>4, InitMet DEF IsScan, ScanState
  <2>2. ScanInit.ok /\ ScanInit.line = NL /\ ScanInit.seq = 0 /\ ScanInit.evidenceSeq = 0
        /\ ScanInit.counts = z /\ ScanInit.audit = Idle /\ ScanInit.evidence = Idle
    BY DEF ScanInit
  <2> QED
    BY <2>1, <2>2, IdleIs DEF Resting, At
<1> HIDE DEF z
<1>7. Resting(f[2], 0, z, 0)
  <2>1. f[1] = ReadText(f[0], t[1], m, fp) /\ f[2] = ReadText(f[1], t[2], m, fp)
    BY <1>2, <1>5
  <2>2. R(f[0], Magic, f[2])
    BY <2>1, <1>2 DEF ReadsLine
  <2> QED
    BY <2>2, <1>6, RemarkRests
<1>8. ASSUME Len(t) > 2
      PROVE  Resting(f[4], 0, z, 0)
  <2>1. f[3] = ReadText(f[2], t[3], m, fp) /\ f[4] = ReadText(f[3], t[4], m, fp)
    BY <1>2, <1>5, <1>8
  <2>2. R(f[2], MacTable, f[4])
    BY <2>1, <1>2, <1>8 DEF ReadsLine
  <2> QED
    BY <2>2, <1>7, RemarkRests
<1>9. ASSUME Len(t) > 4
      PROVE  Resting(f[6], 0, z, 0)
  <2>1. f[5] = ReadText(f[4], t[5], m, fp) /\ f[6] = ReadText(f[5], t[6], m, fp)
    BY <1>2, <1>5, <1>9
  <2>2. R(f[4], Remark, f[6])
    BY <2>1, <1>2, <1>9 DEF ReadsLine
  <2> QED
    BY <2>2, <1>2, <1>8, <1>9, RemarkRests
<1>10. Resting(f[Len(t)], 0, z, 0)
  <2>1. CASE Len(t) = 2
    BY <2>1, <1>7
  <2>2. CASE Len(t) = 4
    BY <2>2, <1>8
  <2>3. CASE Len(t) = 6
    BY <2>3, <1>9
  <2> QED
    BY <1>2, <2>1, <2>2, <2>3
<1> QED
  BY <1>4, <1>10 DEF z

\* A text of whole records.
Whole(t) == t = <<>> \/ t \in Headers \/ Ends(t)

LEMMA WholeRests ==
  ASSUME NEW t, Text(t), Whole(t), t # <<>>, NEW m \in BOOLEAN, NEW fp,
         ScanExisting(t, m, fp).ok
  PROVE  LET r == ScanExisting(t, m, fp)
         IN  Resting(ReadLines(t, m, fp), r.seq, r.counts, r.evidenceSeq)
<1>1. CASE t \in Headers
  <2> DEFINE z == [y \in Types |-> 0]
  <2>1. Resting(ReadLines(t, m, fp), 0, z, 0)
    BY <1>1, HeaderRests
  <2> HIDE DEF z
  <2> QED
    BY <2>1, RestScans
<1>2. CASE Ends(t)
  BY <1>2, EndRests
<1> QED
  BY <1>1, <1>2 DEF Whole

-----------------------------------------------------------------------------
(* A file that was never cut short *)

\* A scan of t ends between records with the numbers n, c and e.
RestAt(t, m, fp, n, c, e) == Resting(ReadLines(t, m, fp), n, c, e)

\* What the file holds, with the record that is being written, is where the
\* counters stand.
Steady(t, j, m, fp, n, c, e) ==
  /\ (\A w \in Writers : j[w] = <<>>) => RestAt(t, m, fp, n, c, e)
  /\ \A w \in Writers : j[w] # <<>> => RestAt(t \o j[w], m, fp, n, c, e)

Untorn ==
  tears = 0 =>
    /\ Whole(file)
    /\ \A w \in Writers : job[w] # <<>> => Ends(job[w])
    /\ up => HeaderMatches(file, mac)
    /\ up /\ clean => Steady(file, job, mac, fingerprint, seq, counts, evidenceSeq)

LEMMA HeaderStays ==
  ASSUME NEW t, Text(t), NEW u, Text(u), NEW m \in BOOLEAN, HeaderMatches(t, m)
  PROVE  HeaderMatches(t \o u, m)
<1> DEFINE h == IF m THEN SubSeq(Header, 1, 4) ELSE SubSeq(Header, 1, 2)
           k == Len(h)
           w == t \o u
<1>1. k \in Nat /\ k <= Len(t) /\ SubSeq(h, 1, k) = SubSeq(t, 1, k)
  <2>1. 4 \in 1..6 /\ 2 \in 1..6
    OBVIOUS
  <2>2. k \in Nat
    BY <2>1, HeaderIsText DEF Text
  <2> HIDE DEF h
  <2>3. IsPrefix(h, t)
    BY DEF HeaderMatches, h
  <2> QED
    BY <2>2, <2>3 DEF IsPrefix
<1>2. /\ Text(w) /\ Len(w) = Len(t) + Len(u) /\ \A j \in 1..Len(t) : w[j] = t[j]
  BY Joined
<1>3. Len(t) \in Nat /\ Len(u) \in Nat /\ t \in Seq(Token) /\ w \in Seq(Token)
  BY <1>2 DEF Text
<1> HIDE DEF h, k, w
<1>4. SubSeq(w, 1, k) = SubSeq(t, 1, k)
  <2>1. k <= Len(w)
    BY <1>1, <1>2, <1>3
  <2>2. SubSeq(w, 1, k) = [j \in 1..k |-> w[j]] /\ SubSeq(t, 1, k) = [j \in 1..k |-> t[j]]
    BY <2>1, <1>1, <1>3
  <2>3. \A j \in 1..k : w[j] = t[j]
    BY <1>1, <1>2, <1>3
  <2> QED
    BY <2>2, <2>3
<1>5. IsPrefix(h, w)
  BY <1>1, <1>2, <1>3, <1>4 DEF IsPrefix, k
<1> QED
  BY <1>5 DEF HeaderMatches, h, w

LEMMA EndStays ==
  ASSUME NEW t, Text(t), NEW u, Text(u), Ends(u)
  PROVE  Ends(t \o u)
<1> DEFINE w == t \o u
<1>1. /\ Len(w) = Len(t) + Len(u) /\ \A j \in 1..Len(u) : w[Len(t) + j] = u[j]
  BY Joined
<1>2. Len(t) \in Nat /\ Len(u) \in Nat /\ 2 <= Len(u)
  BY DEF Text, Ends
<1>3. u[Len(u)] = NL /\ u[Len(u) - 1] = NL
  BY DEF Ends
<1> HIDE DEF w
<1>4. /\ Len(u) \in 1..Len(u) /\ Len(u) - 1 \in 1..Len(u) /\ Len(w) \in Nat /\ 2 <= Len(w)
      /\ Len(t) + Len(u) = Len(w) /\ Len(t) + (Len(u) - 1) = Len(w) - 1
  BY <1>1, <1>2
<1>5. w[Len(t) + Len(u)] = NL /\ w[Len(t) + (Len(u) - 1)] = NL
  BY <1>1, <1>3, <1>4
<1>6. Ends(w)
  BY <1>4, <1>5 DEF Ends
<1> QED
  BY <1>6 DEF w

LEMMA FormsEnd ==
  ASSUME NEW u, NEW x, NEW m \in BOOLEAN, NEW fp,
         AuditForm(u, x, m, fp) \/ EvidenceForm(u, x, m, fp)
  PROVE  Ends(u)
<1>1. CASE AuditForm(u, x, m, fp)
  <2>1. u[12] = NL /\ IF m THEN Len(u) = 15 /\ u[14] = NL /\ u[15] = NL
                           ELSE Len(u) = 13 /\ u[13] = NL
    BY <1>1 DEF AuditForm
  <2>2. CASE m
    <3>1. Len(u) = 15 /\ u[15] = NL /\ u[14] = NL /\ 15 - 1 = 14
      BY <2>1, <2>2
    <3> QED
      BY <3>1 DEF Ends
  <2>3. CASE ~m
    <3>1. Len(u) = 13 /\ u[13] = NL /\ u[12] = NL /\ 13 - 1 = 12
      BY <2>1, <2>3
    <3> QED
      BY <3>1 DEF Ends
  <2> QED
    BY <2>2, <2>3
<1>2. CASE EvidenceForm(u, x, m, fp)
  <2>1. u[4] = NL /\ IF m THEN Len(u) = 7 /\ u[6] = NL /\ u[7] = NL
                          ELSE Len(u) = 5 /\ u[5] = NL
    BY <1>2 DEF EvidenceForm
  <2>2. CASE m
    <3>1. Len(u) = 7 /\ u[7] = NL /\ u[6] = NL /\ 7 - 1 = 6
      BY <2>1, <2>2
    <3> QED
      BY <3>1 DEF Ends
  <2>3. CASE ~m
    <3>1. Len(u) = 5 /\ u[5] = NL /\ u[4] = NL /\ 5 - 1 = 4
      BY <2>1, <2>3
    <3> QED
      BY <3>1 DEF Ends
  <2> QED
    BY <2>2, <2>3
<1> QED
  BY <1>1, <1>2

\* Nothing that the statement is about changes.
LEMMA StandingUntorn ==
  ASSUME Untorn,
         UNCHANGED <<file, up, seq, evidenceSeq, counts, mac, fingerprint, job, tears, clean>>
  PROVE  Untorn'
BY DEF Untorn

\* The process is down after the step and the file is whole.
LEMMA DownUntorn ==
  ASSUME ~up', job' = [w \in Writers |-> <<>>], tears' = 0 => Whole(file')
  PROVE  Untorn'
BY DEF Untorn

LEMMA InitUntorn ==
  ASSUME Init
  PROVE  Untorn
<1>1. Whole(file)
  BY DEF Init, Whole, Headers
<1>2. up = FALSE /\ job = [w \in Writers |-> <<>>]
  BY DEF Init, NoJob
<1> QED
  BY <1>1, <1>2 DEF Untorn

LEMMA BootUntorn ==
  ASSUME AuditFileInv, Untorn, NEW m \in BOOLEAN, Boot(m)
  PROVE  Untorn'
<1> DEFINE text == IF file = <<>> THEN Header ELSE file
           r == ScanExisting(text, m, key)
<1>1. SUFFICES ASSUME tears' = 0
              PROVE  Untorn'
  BY DEF Untorn
<1>2. Shapes /\ Jobs /\ ~up /\ tears = 0
  BY <1>1 DEF AuditFileInv, Boot
<1>3. job = [w \in Writers |-> <<>>] /\ job' = job
  BY <1>2, IdleJobs DEF Boot
<1>4. Text(text) /\ text # <<>>
  BY <1>2, HeaderIsText DEF Shapes
<1>5. Whole(text)
  BY <1>2 DEF Untorn, Whole, Headers
<1>6. /\ Accepts(text, m, key) /\ file' = text
      /\ seq' = r.seq /\ evidenceSeq' = r.evidenceSeq /\ counts' = r.counts
      /\ mac' = m /\ fingerprint' = key
  BY DEF Boot, Activate
<1> HIDE DEF text
<1>7. HeaderMatches(text, m) /\ r.ok
  BY <1>6 DEF Accepts
<1>8. RestAt(text, m, key, r.seq, r.counts, r.evidenceSeq)
  BY <1>4, <1>5, <1>7, WholeRests DEF RestAt
<1> HIDE DEF r
<1>9. Steady(text, job, m, key, r.seq, r.counts, r.evidenceSeq)
  BY <1>3, <1>8 DEF Steady
<1>10. \A w \in Writers : job'[w] = <<>>
  BY <1>3
<1>11. HeaderMatches(file', mac')
  BY <1>6, <1>7
<1>12. Steady(file', job', mac', fingerprint', seq', counts', evidenceSeq')
  BY <1>3, <1>6, <1>9
<1>13. Whole(file')
  BY <1>5, <1>6
<1> QED
  BY <1>10, <1>11, <1>12, <1>13 DEF Untorn

\* A record call holds a record that continues the file, or gives up.
LEMMA GivenUpUntorn ==
  ASSUME AuditFileInv, Untorn, ~Locked, up, UNCHANGED <<file, up, mac, tears, job>>,
         clean' = FALSE
  PROVE  Untorn'
<1>1. job = [v \in Writers |-> <<>>]
  BY IdleJobs DEF AuditFileInv
<1> QED
  BY <1>1 DEF Untorn

LEMMA HeldUntorn ==
  ASSUME AuditFileInv, Untorn, ~Locked, up, NEW w \in Writers, NEW f, f # <<>>, Ends(f),
         file' = file, up' = up, mac' = mac, fingerprint' = fingerprint, tears' = tears,
         clean' = clean, job' = [job EXCEPT ![w] = f],
         RestAt(file, mac, fingerprint, seq, counts, evidenceSeq) =>
           RestAt(file \o f, mac, fingerprint, seq', counts', evidenceSeq')
  PROVE  Untorn'
<1>1. SUFFICES ASSUME tears' = 0
              PROVE  Untorn'
  BY DEF Untorn
<1>2. Jobs /\ tears = 0
  BY <1>1 DEF AuditFileInv
<1>3. job = [v \in Writers |-> <<>>]
  BY <1>2, IdleJobs
<1>4. /\ Whole(file) /\ HeaderMatches(file, mac)
      /\ clean => Steady(file, job, mac, fingerprint, seq, counts, evidenceSeq)
  BY <1>2 DEF Untorn
<1>5. Whole(file') /\ HeaderMatches(file', mac')
  BY <1>4
<1>6. job'[w] = f /\ \A v \in Writers : v # w => job'[v] = <<>>
  BY <1>3
<1>7. \A v \in Writers : job'[v] # <<>> => Ends(job'[v])
  BY <1>6
<1>8. ASSUME clean
      PROVE  Steady(file', job', mac', fingerprint', seq', counts', evidenceSeq')
  <2>1. RestAt(file, mac, fingerprint, seq, counts, evidenceSeq)
    BY <1>3, <1>4, <1>8 DEF Steady
  <2>2. RestAt(file' \o f, mac', fingerprint', seq', counts', evidenceSeq')
    BY <2>1
  <2>3. ASSUME NEW v \in Writers, job'[v] # <<>>
        PROVE  RestAt(file' \o job'[v], mac', fingerprint', seq', counts', evidenceSeq')
    <3>1. job'[v] = f
      BY <2>3, <1>6
    <3> QED
      BY <3>1, <2>2
  <2>4. ~(\A v \in Writers : job'[v] = <<>>)
    BY <1>6
  <2> QED
    BY <2>3, <2>4 DEF Steady
<1>9. up' /\ clean' => Steady(file', job', mac', fingerprint', seq', counts', evidenceSeq')
  BY <1>8
<1> QED
  BY <1>5, <1>7, <1>9 DEF Untorn

LEMMA RecordUntorn ==
  ASSUME AuditFileInv, Untorn, NEW w \in Writers, NEW e \in Types, Record(w, e)
  PROVE  Untorn'
<1>1. Shapes /\ up /\ ~Locked
  BY DEF AuditFileInv, Record
<1>2. /\ seq \in Nums /\ SeqMax \in Nat /\ counts \in [Types -> Nums] /\ Text(file)
      /\ mac \in BOOLEAN /\ fingerprint \in Keys /\ calls \in 0..MaxCalls
  BY <1>1, IpAuditAssumption DEF Shapes
<1> DEFINE n == seq + 1
           q == calls + 1
           o == counts[e] + 1
           d == [counts EXCEPT ![e] = o]
           f == AuditText(n, q, e, o)
           x == AuditRow(n, q, e, o)
<1>3. /\ seq # SeqMax /\ counts[e] # SeqMax /\ seq' = n /\ counts' = d /\ calls' = q
      /\ UNCHANGED <<file, up, evidenceSeq, mac, fingerprint, tears>>
  BY DEF Record, NextSeq
<1>4. counts'[e] = o
  BY <1>2, <1>3
<1>5. n \in Nums /\ o \in Nums /\ q \in Nat
  BY <1>2, <1>3 DEF Nums
<1>6. x \in AuditRows /\ x.seq = n /\ x.no = o /\ x.type = e
  BY <1>5 DEF AuditRow, AuditRows
<1>7. Text(f) /\ f # <<>>
  BY <1>2, <1>5, AuditTextHolds DEF Holds
<1>8. AuditForm(f, x, mac, fingerprint)
  BY <1>2, AuditFormed
<1>9. \/ job' = job /\ clean' = FALSE
      \/ job' = [job EXCEPT ![w] = AuditText(seq', calls', e, counts'[e])] /\ clean' = clean
  BY DEF Record
<1>10. \/ job' = job /\ clean' = FALSE
       \/ job' = [job EXCEPT ![w] = f] /\ clean' = clean
  BY <1>3, <1>4, <1>9
<1> HIDE DEF f, x
<1>11. Ends(f)
  BY <1>2, <1>8, FormsEnd
<1>12. ASSUME RestAt(file, mac, fingerprint, seq, counts, evidenceSeq)
       PROVE  RestAt(file \o f, mac, fingerprint, seq', counts', evidenceSeq')
  <2>1. Resting(ReadLines(file, mac, fingerprint), seq, counts, evidenceSeq)
    BY <1>12 DEF RestAt
  <2>2. x.seq = seq + 1 /\ x.no = counts[x.type] + 1 /\ counts[x.type] # SeqMax
    BY <1>3, <1>6
  <2>3. Resting(ReadLines(file \o f, mac, fingerprint), x.seq, [counts EXCEPT ![x.type] = x.no],
                evidenceSeq)
    BY <2>1, <2>2, <1>2, <1>3, <1>6, <1>7, <1>8, AuditAppended
  <2>4. x.seq = seq' /\ [counts EXCEPT ![x.type] = x.no] = counts' /\ evidenceSeq' = evidenceSeq
    BY <1>3, <1>6
  <2> QED
    BY <2>3, <2>4 DEF RestAt
<1> HIDE DEF n, q, o, d
<1>13. file' = file /\ up' = up /\ mac' = mac /\ fingerprint' = fingerprint /\ tears' = tears
  BY <1>3
<1>14. CASE job' = job /\ clean' = FALSE
  BY <1>1, <1>13, <1>14, GivenUpUntorn
<1>15. CASE job' = [job EXCEPT ![w] = f] /\ clean' = clean
  BY <1>1, <1>7, <1>11, <1>12, <1>13, <1>15, HeldUntorn
<1> QED
  BY <1>10, <1>14, <1>15

LEMMA RecordEvidenceUntorn ==
  ASSUME AuditFileInv, Untorn, NEW w \in Writers, RecordEvidence(w)
  PROVE  Untorn'
<1>1. Shapes /\ up /\ ~Locked
  BY DEF AuditFileInv, RecordEvidence
<1>2. /\ evidenceSeq \in Nums /\ SeqMax \in Nat /\ Text(file)
      /\ mac \in BOOLEAN /\ fingerprint \in Keys /\ calls \in 0..MaxCalls
  BY <1>1, IpAuditAssumption DEF Shapes
<1> DEFINE n == evidenceSeq + 1
           q == calls + 1
           f == EvidenceText(n, q)
           x == EvidenceRow(n, q)
<1>3. /\ evidenceSeq # SeqMax /\ evidenceSeq' = n /\ calls' = q
      /\ UNCHANGED <<file, up, seq, counts, mac, fingerprint, tears>>
  BY DEF RecordEvidence, NextEvidenceSeq
<1>4. n \in Nums /\ q \in Nat
  BY <1>2, <1>3 DEF Nums
<1>5. x \in EvidenceRows /\ x.seq = n
  BY <1>4 DEF EvidenceRow, EvidenceRows
<1>6. Text(f) /\ f # <<>>
  BY <1>2, <1>4, EvidenceTextHolds DEF Holds
<1>7. EvidenceForm(f, x, mac, fingerprint)
  BY <1>2, EvidenceFormed
<1>8. \/ job' = job /\ clean' = FALSE
      \/ job' = [job EXCEPT ![w] = EvidenceText(evidenceSeq', calls')] /\ clean' = clean
  BY DEF RecordEvidence
<1>9. \/ job' = job /\ clean' = FALSE
      \/ job' = [job EXCEPT ![w] = f] /\ clean' = clean
  BY <1>3, <1>8
<1> HIDE DEF f, x
<1>10. Ends(f)
  BY <1>2, <1>7, FormsEnd
<1>11. ASSUME RestAt(file, mac, fingerprint, seq, counts, evidenceSeq)
       PROVE  RestAt(file \o f, mac, fingerprint, seq', counts', evidenceSeq')
  <2>1. Resting(ReadLines(file, mac, fingerprint), seq, counts, evidenceSeq)
    BY <1>11 DEF RestAt
  <2>2. x.seq = evidenceSeq + 1
    BY <1>5
  <2>3. Resting(ReadLines(file \o f, mac, fingerprint), seq, counts, x.seq)
    BY <2>1, <2>2, <1>2, <1>5, <1>6, <1>7, EvidenceAppended
  <2>4. x.seq = evidenceSeq' /\ seq' = seq /\ counts' = counts
    BY <1>3, <1>5
  <2> QED
    BY <2>3, <2>4 DEF RestAt
<1> HIDE DEF n, q
<1>13. file' = file /\ up' = up /\ mac' = mac /\ fingerprint' = fingerprint /\ tears' = tears
  BY <1>3
<1>14. CASE job' = job /\ clean' = FALSE
  BY <1>1, <1>13, <1>14, GivenUpUntorn
<1>15. CASE job' = [job EXCEPT ![w] = f] /\ clean' = clean
  BY <1>1, <1>6, <1>10, <1>11, <1>13, <1>15, HeldUntorn
<1> QED
  BY <1>9, <1>14, <1>15

LEMMA WriteDoneUntorn ==
  ASSUME AuditFileInv, Untorn, NEW w \in Writers, WriteDone(w)
  PROVE  Untorn'
<1> DEFINE u == job[w]
<1>1. SUFFICES ASSUME tears' = 0
              PROVE  Untorn'
  BY DEF Untorn
<1>2. /\ u # <<>> /\ file' = file \o u /\ job' = [job EXCEPT ![w] = <<>>]
      /\ UNCHANGED <<up, seq, evidenceSeq, counts, mac, fingerprint, tears, clean>>
  BY DEF WriteDone, procVars
<1>3. Shapes /\ Jobs /\ tears = 0
  BY <1>1, <1>2 DEF AuditFileInv
<1>4. up /\ Text(u) /\ Text(file) /\ mac \in BOOLEAN
  BY <1>2, <1>3 DEF Shapes, Jobs, Holds
<1>5. job' = [v \in Writers |-> <<>>]
  BY <1>2, <1>3, WrittenKeeps
<1>6. /\ Ends(u) /\ HeaderMatches(file, mac)
      /\ clean => RestAt(file \o u, mac, fingerprint, seq, counts, evidenceSeq)
  BY <1>2, <1>3, <1>4 DEF Untorn, Steady
<1> HIDE DEF u
<1>7. Whole(file')
  BY <1>2, <1>4, <1>6, EndStays DEF Whole
<1>8. HeaderMatches(file', mac')
  BY <1>2, <1>4, <1>6, HeaderStays
<1>9. \A v \in Writers : job'[v] = <<>>
  BY <1>5
<1>10. clean' => Steady(file', job', mac', fingerprint', seq', counts', evidenceSeq')
  BY <1>2, <1>6, <1>9 DEF Steady
<1> QED
  BY <1>7, <1>8, <1>9, <1>10 DEF Untorn

\* The step left the file whole unless it counted as cutting it short.
LEMMA WholeLeft ==
  ASSUME NEW cuts, NEW whole, CutShort(cuts, whole), tears \in Nat, tears' = 0
  PROVE  tears = 0 /\ file' \in whole
BY DEF CutShort

LEMMA WriteFailsUntorn ==
  ASSUME AuditFileInv, Untorn, NEW w \in Writers, WriteFails(w)
  PROVE  Untorn'
<1> DEFINE u == job[w]
<1>1. SUFFICES ASSUME tears' = 0
              PROVE  Untorn'
  BY DEF Untorn
<1>2. /\ u # <<>> /\ job' = [job EXCEPT ![w] = <<>>] /\ clean' = FALSE
      /\ CutShort({file \o part : part \in Cuts(u, 0)}, {file, file \o u})
      /\ UNCHANGED <<up, mac>>
  BY DEF WriteFails, procVars
<1>3. Shapes /\ Jobs
  BY DEF AuditFileInv
<1>4. up /\ Text(u) /\ Text(file) /\ mac \in BOOLEAN /\ tears \in Nat
  BY <1>2, <1>3, IpAuditAssumption DEF Shapes, Jobs, Holds
<1>5. job' = [v \in Writers |-> <<>>]
  BY <1>2, <1>3, WrittenKeeps
<1> HIDE DEF u
<1>6. tears = 0 /\ file' \in {file, file \o u}
  BY <1>1, <1>2, <1>4, WholeLeft
<1>7. Ends(u) /\ HeaderMatches(file, mac) /\ Whole(file)
  BY <1>2, <1>4, <1>6 DEF Untorn, u
<1>8. Whole(file') /\ HeaderMatches(file', mac')
  <2>1. CASE file' = file
    BY <2>1, <1>2, <1>7
  <2>2. CASE file' = file \o u
    BY <2>2, <1>2, <1>4, <1>7, EndStays, HeaderStays DEF Whole
  <2> QED
    BY <1>6, <2>1, <2>2
<1>9. \A v \in Writers : job'[v] = <<>>
  BY <1>5
<1> QED
  BY <1>2, <1>8, <1>9 DEF Untorn

LEMMA CrashUntorn ==
  ASSUME AuditFileInv, Untorn, Crash
  PROVE  Untorn'
<1>1. Shapes /\ Jobs /\ ~up' /\ job' = [v \in Writers |-> <<>>]
  BY DEF AuditFileInv, Crash, ResetProcess, NoJob
<1>2. Text(file) /\ tears \in Nat
  BY <1>1, IpAuditAssumption DEF Shapes
<1>3. ASSUME tears' = 0
      PROVE  Whole(file')
  <2>1. PICK w \in Writers :
             CutShort(Cuts(file \o job[w], durable), {file, file \o job[w]})
    BY DEF Crash
  <2>2. tears = 0 /\ file' \in {file, file \o job[w]}
    BY <2>1, <1>2, <1>3, WholeLeft
  <2>3. Whole(file) /\ (job[w] # <<>> => Ends(job[w]))
    BY <2>2 DEF Untorn
  <2>4. CASE file' = file
    BY <2>3, <2>4
  <2>5. CASE job[w] = <<>> /\ file' = file \o job[w]
    <3>1. file \in Seq(Token)
      BY <1>2 DEF Text
    <3>2. file \o <<>> = file
      BY <3>1
    <3> QED
      BY <3>2, <2>3, <2>5
  <2>6. CASE job[w] # <<>> /\ file' = file \o job[w]
    <3>1. Text(job[w])
      BY <2>6, <1>1 DEF Jobs, Holds
    <3>2. Ends(file \o job[w])
      BY <3>1, <2>3, <2>6, <1>2, EndStays
    <3> QED
      BY <3>2, <2>6 DEF Whole
  <2> QED
    BY <2>2, <2>4, <2>5, <2>6
<1> QED
  BY <1>1, <1>3, DownUntorn

LEMMA ShutdownUntorn ==
  ASSUME AuditFileInv, Untorn, Shutdown
  PROVE  Untorn'
<1>1. Jobs /\ ~Locked /\ ~up' /\ UNCHANGED <<file, job, tears>>
  BY DEF AuditFileInv, Shutdown, ResetProcess
<1>2. job' = [v \in Writers |-> <<>>]
  BY <1>1, IdleJobs
<1>3. tears' = 0 => Whole(file')
  BY <1>1 DEF Untorn
<1> QED
  BY <1>1, <1>2, <1>3, DownUntorn

LEMMA BootHeaderTornUntorn ==
  ASSUME AuditFileInv, BootHeaderTorn
  PROVE  Untorn'
<1>1. tears \in Nat
  BY IpAuditAssumption DEF AuditFileInv, Shapes
<1>2. tears' # 0
  BY <1>1, WholeLeft DEF BootHeaderTorn
<1> QED
  BY <1>2 DEF Untorn

LEMMA StepUntorn == AuditFileInv /\ Untorn /\ [Next]_vars => Untorn'
<1> SUFFICES ASSUME AuditFileInv, Untorn, [Next]_vars
             PROVE  Untorn'
  OBVIOUS
<1>1. ASSUME NEW m \in BOOLEAN, Boot(m)
      PROVE  Untorn'
  BY <1>1, BootUntorn
<1>2. ASSUME NEW m \in BOOLEAN, BootRefused(m)
      PROVE  Untorn'
  BY <1>2, StandingUntorn DEF BootRefused, procVars
<1>3. CASE BootHeaderTorn
  BY <1>3, BootHeaderTornUntorn
<1>4. ASSUME NEW w \in Writers, NEW e \in Types, Record(w, e)
      PROVE  Untorn'
  BY <1>4, RecordUntorn
<1>5. ASSUME NEW w \in Writers, RecordEvidence(w) \/ WriteDone(w) \/ WriteFails(w)
      PROVE  Untorn'
  BY <1>5, RecordEvidenceUntorn, WriteDoneUntorn, WriteFailsUntorn
<1>6. CASE RecordExhausted
  BY <1>6, StandingUntorn DEF RecordExhausted, procVars
<1>7. CASE Shutdown
  BY <1>7, ShutdownUntorn
<1>8. CASE Crash
  BY <1>8, CrashUntorn
<1>9. CASE RotateKey
  BY <1>9, StandingUntorn DEF RotateKey, procVars
<1>10. CASE UNCHANGED vars
  BY <1>10, StandingUntorn DEF vars
<1> QED
  BY <1>1, <1>2, <1>3, <1>4, <1>5, <1>6, <1>7, <1>8, <1>9, <1>10 DEF Next
-----------------------------------------------------------------------------
(* The theorems *)

LEMMA InitHolds == Init => AuditFileInv
<1> SUFFICES ASSUME Init
             PROVE  AuditFileInv
  OBVIOUS
<1>1. Text(file)
  <2>1. 4 \in 1..6 /\ 2 \in 1..6
    OBVIOUS
  <2> QED
    BY <2>1, EmptyIsText, HeaderIsText DEF Init
<1>2. Shapes
  <2>1. Len(file) \in Nat
    BY <1>1 DEF Text
  <2>2. durable \in 0..Len(file)
    BY <2>1 DEF Init
  <2>3. counts \in [Types -> Nums] /\ seq \in Nums /\ evidenceSeq \in Nums
    BY NumsAre DEF Init
  <2>4. calls \in 0..MaxCalls /\ boots \in 0..MaxBoots /\ tears \in 0..TearMax
    BY IpAuditAssumption DEF Init
  <2>5. up \in BOOLEAN /\ mac \in BOOLEAN /\ clean \in BOOLEAN
    BY DEF Init
  <2>6. key \in Keys /\ fingerprint \in Keys
    BY DEF Init
  <2> QED
    BY <1>1, <2>2, <2>3, <2>4, <2>5, <2>6 DEF Shapes
<1>3. Jobs /\ JobsFresh
  BY DEF Init, NoJob, Jobs, JobsFresh
<1>4. AckPlaced /\ AckNumbered /\ NumbersUnique /\ SignedStaysSigned
  BY DEF Init, AckPlaced, AckNumbered, NumbersUnique, SignedStaysSigned
<1> QED
  BY <1>2, <1>3, <1>4 DEF AuditFileInv

LEMMA StepKeeps == AuditFileInv /\ [Next]_vars => AuditFileInv'
<1> SUFFICES ASSUME AuditFileInv, [Next]_vars
             PROVE  AuditFileInv'
  OBVIOUS
<1>1. ASSUME NEW m \in BOOLEAN, Boot(m) \/ BootRefused(m)
      PROVE  AuditFileInv'
  BY <1>1, BootKeeps, BootRefusedKeeps
<1>2. CASE BootHeaderTorn
  BY <1>2, BootHeaderTornKeeps
<1>3. ASSUME NEW w \in Writers, NEW e \in Types, Record(w, e)
      PROVE  AuditFileInv'
  BY <1>3, RecordKeeps
<1>4. ASSUME NEW w \in Writers, RecordEvidence(w) \/ WriteDone(w) \/ WriteFails(w)
      PROVE  AuditFileInv'
  BY <1>4, RecordEvidenceKeeps, WriteDoneKeeps, WriteFailsKeeps
<1>5. CASE RecordExhausted
  BY <1>5, RecordExhaustedKeeps
<1>6. CASE Shutdown
  BY <1>6, ShutdownKeeps
<1>7. CASE Crash
  BY <1>7, CrashKeeps
<1>8. CASE RotateKey
  BY <1>8, RotateKeyKeeps
<1>9. CASE UNCHANGED vars
  <2>1. Shapes'
    BY <1>9 DEF AuditFileInv, Shapes, vars
  <2> QED
    BY <1>9, <2>1, StandingKeeps DEF vars
<1> QED
  BY <1>1, <1>2, <1>3, <1>4, <1>5, <1>6, <1>7, <1>8, <1>9 DEF Next

LEMMA AuditFileInvariant == Spec => []AuditFileInv
BY InitHolds, StepKeeps, PTL DEF Spec

\* llps_ip_audit_record returns true only for a record that stays in the file,
\* whatever crashes, short writes and restarts follow.
THEOREM AcknowledgedStays == Spec => []AckedDurable
<1>1. AuditFileInv => AckedDurable
  <2>1. SUFFICES ASSUME AuditFileInv, NEW r \in acked
                PROVE  r \in Range(file)
    BY DEF AckedDurable
  <2>2. PICK i \in 1..durable : file[i] = r
    BY <2>1 DEF AuditFileInv, AckPlaced, Placed
  <2>3. file \in Seq(Token) /\ durable \in 0..Len(file)
    BY <2>1 DEF AuditFileInv, Shapes, Text
  <2>4. i \in DOMAIN file
    BY <2>2, <2>3
  <2> QED
    BY <2>2, <2>4 DEF Range
<1> QED
  BY <1>1, AuditFileInvariant, PTL

\* No two acknowledged records share a number, over any series of crashes and
\* restarts, and every counter keeps its width.
THEOREM NumbersNeverReused == Spec => []NumbersSound
<1>1. AuditFileInv => NumbersSound
  <2> SUFFICES ASSUME AuditFileInv
               PROVE  NumbersSound
    OBVIOUS
  <2>1. \A x \in Token : x.k \in Tokens
    BY TokenKinds DEF Tokens
  <2>2. \A i \in DOMAIN file : file[i].k \in Tokens
    BY <2>1 DEF AuditFileInv, Shapes, Text
  <2>3. ASSUME NEW w \in Writers, NEW i \in DOMAIN job[w]
        PROVE  job[w][i].k \in Tokens
    <3>1. CASE job[w] = <<>>
      BY <3>1
    <3>2. CASE job[w] # <<>>
      <4>1. job[w] \in Seq(Token)
        BY <3>2 DEF AuditFileInv, Jobs, Holds, Text
      <4>2. job[w][i] \in Token
        BY <4>1
      <4> QED
        BY <4>2, <2>1
    <3> QED
      BY <3>1, <3>2
  <2>4. \A row \in acked : row.k \in {"audit", "evidence"}
    BY DEF AuditFileInv, AckPlaced, AuditRows, EvidenceRows
  <2>5. TypeOK
    BY <2>2, <2>3, <2>4 DEF TypeOK, AuditFileInv, Shapes, Nums
  <2> QED
    BY <2>5 DEF NumbersSound, AuditFileInv
<1> QED
  BY <1>1, AuditFileInvariant, PTL

\* A process with a MAC key runs only on a file whose acknowledged records are
\* all authenticated, one without only on a file with no authenticated row.
THEOREM SignedApart == Spec => []SignedStaysSigned
<1>1. AuditFileInv => SignedStaysSigned
  BY DEF AuditFileInv
<1> QED
  BY <1>1, AuditFileInvariant, PTL

LEMMA UntornInvariant == Spec => []Untorn
<1>1. Init => Untorn
  BY InitUntorn
<1> QED
  BY <1>1, AuditFileInvariant, StepUntorn, PTL DEF Spec

\* Of a file that no crash or short write ever cut inside a record: as long as
\* the running process lost no numbered record, llps_ip_audit_init with the same
\* key and setting accepts the file and finds exactly the numbers in memory.
THEOREM RestartGoesOn == Spec => []UntornRestartContinues
<1>1. AuditFileInv /\ Untorn => UntornRestartContinues
  <2>1. SUFFICES ASSUME AuditFileInv, Untorn, tears = 0, up, clean, ~Locked
                PROVE  LET s == ScanExisting(file, mac, fingerprint)
                       IN  /\ Accepts(file, mac, fingerprint)
                           /\ s.seq = seq /\ s.evidenceSeq = evidenceSeq /\ s.counts = counts
    BY DEF UntornRestartContinues, RestartContinues
  <2>2. \A w \in Writers : job[w] = <<>>
    BY <2>1 DEF Locked
  <2>3. HeaderMatches(file, mac)
    BY <2>1 DEF Untorn
  <2>4. Resting(ReadLines(file, mac, fingerprint), seq, counts, evidenceSeq)
    BY <2>1, <2>2 DEF Untorn, Steady, RestAt
  <2> QED
    BY <2>3, <2>4, RestScans DEF Accepts
<1> QED
  BY <1>1, AuditFileInvariant, UntornInvariant, PTL
=============================================================================
