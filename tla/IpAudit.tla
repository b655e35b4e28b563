------------------------------ MODULE IpAudit ------------------------------
(***************************************************************************)
(* The audit file of audit/llps_ip_audit.c: numbered records appended and  *)
(* fsynced by several tasks under one mutex, and the scan by which a       *)
(* restarted process finds out where to go on.                             *)
(*                                                                         *)
(* The file is a sequence of tokens: the text of a line, or a line end.    *)
(* A short write or a power loss cuts the sequence anywhere, also inside   *)
(* the text of a line; text appended to an unterminated line becomes part  *)
(* of that line.  CRCs are not modelled as numbers: the rows a process     *)
(* writes carry matching CRCs, and a row cut short is text no row parser   *)
(* accepts or whose CRC cannot match.                                      *)
(***************************************************************************)
EXTENDS Naturals, Sequences, SequencesExt

CONSTANTS
    Writers,    \* tasks that record events
    Types,      \* llps_ip_audit_event_type_t
    Keys,       \* contents the MAC key file can have
    SeqMax,     \* UINT64_MAX
    MaxCalls,   \* bound: record calls made over the life of the file
    MaxBoots,   \* bound: process starts
    TearMax     \* bound: short writes and power losses that leave part of a record

ASSUME IpAuditAssumption ==
    /\ Keys # {}
    /\ SeqMax \in Nat /\ MaxCalls \in Nat /\ MaxBoots \in Nat
    /\ TearMax \in Nat

VARIABLES
    file,       \* what a reader of the file sees
    durable,    \* length of the prefix the last successful fsync secured
    key,        \* content of the key file
    up,         \* g_ip_audit_enabled, with a valid g_ip_audit_fd
    seq,        \* g_ip_audit_seq
    evidenceSeq, \* g_ip_audit_evidence_seq
    counts,     \* g_ip_audit_event_counts
    mac,        \* g_ip_audit_mac_enabled
    fingerprint, \* g_ip_audit_mac_key_fingerprint, as the key it stands for
    job,        \* job[w]: the text w's blocking write holds, <<>> if none
    calls,      \* record calls made, the request number of the next one
    boots,      \* process starts
    acked,      \* rows of the records whose call returned true
    tears,      \* how often the file was cut short
    clean       \* no call of this process failed after it took a number

vars == <<file, durable, key, up, seq, evidenceSeq, counts, mac, fingerprint,
          job, calls, boots, acked, tears, clean>>

procVars == <<up, seq, evidenceSeq, counts, mac, fingerprint>>

-----------------------------------------------------------------------------
(* The text of the file.                                                   *)

NL == [k |-> "nl"]
Remark == [k |-> "remark"]              \* lines starting with '#' or '@'
Torn == [k |-> "torn"]                  \* a row cut short or glued to more text
Magic == [k |-> "magic"]                \* "pxf/1" to the endpoint table
MacTable == [k |-> "mactable"]          \* "@table audit_mac ..."

Header == <<Magic, NL, MacTable, NL, Remark, NL>>

Roles == <<"client", "listen", "target", "backend">>

AuditRow(n, req, t, no) ==
    [k |-> "audit", seq |-> n, req |-> req, type |-> t, no |-> no]
EndpointRow(n, role) == [k |-> "endpoint", seq |-> n, role |-> role]
MacRow(n, fp) == [k |-> "mac", seq |-> n, key |-> fp]
EvidenceRow(n, req) == [k |-> "evidence", seq |-> n, req |-> req]
EvidenceMacRow(n, fp) == [k |-> "evidence_mac", seq |-> n, key |-> fp]

\* llps_ip_audit_event_line_format and llps_ip_audit_evidence_line_format up to
\* the place of the MAC row.
AuditLines(n, req, t, no) ==
    <<Remark, NL, AuditRow(n, req, t, no), NL,
      EndpointRow(n, Roles[1]), NL, EndpointRow(n, Roles[2]), NL,
      EndpointRow(n, Roles[3]), NL, EndpointRow(n, Roles[4]), NL>>
EvidenceLines(n, req) == <<Remark, NL, EvidenceRow(n, req), NL>>

AuditText(n, req, t, no) ==
    AuditLines(n, req, t, no)
      \o (IF mac THEN <<MacRow(n, fingerprint), NL, NL>> ELSE <<NL>>)

EvidenceText(n, req) ==
    EvidenceLines(n, req)
      \o (IF mac THEN <<EvidenceMacRow(n, fingerprint), NL, NL>> ELSE <<NL>>)

Ignorable(text) == text \in {Remark, MacTable, Magic}

\* What is left of a token of which only some characters were written.
Stub(text) == IF text \in {Remark, MacTable} THEN Remark ELSE Torn

\* The beginnings of text that hold at least its first n tokens.
Cuts(text, n) ==
    LET whole == {SubSeq(text, 1, i) : i \in n..Len(text)}
        inside == {Append(SubSeq(text, 1, i - 1), Stub(text[i])) :
                     i \in {j \in (n + 1)..Len(text) : text[j] # NL}}
    IN  whole \cup inside

-----------------------------------------------------------------------------
(* The scan of an existing file.                                           *)

Idle == [active |-> FALSE, row |-> NL, seen |-> {}, macSeen |-> FALSE]

ScanInit == [ok |-> TRUE, line |-> NL, audit |-> Idle, evidence |-> Idle,
             seq |-> 0, evidenceSeq |-> 0, counts |-> [t \in Types |-> 0]]

Refused(s) == [s EXCEPT !.ok = FALSE]

\* llps_ip_audit_scan_finalize_record.
FinalizeRecord(s, requireMac) ==
    IF ~s.audit.active THEN s
    ELSE IF s.audit.seen = Range(Roles) /\ (requireMac => s.audit.macSeen)
         THEN [s EXCEPT !.seq = s.audit.row.seq,
                        !.counts[s.audit.row.type] = s.audit.row.no,
                        !.audit = Idle]
         ELSE Refused(s)

\* llps_ip_audit_scan_finalize_evidence_record.
FinalizeEvidence(s, requireMac) ==
    IF s.evidence.active /\ requireMac /\ ~s.evidence.macSeen
    THEN Refused(s)
    ELSE [s EXCEPT !.evidence = Idle]

\* llps_ip_audit_scan_audit_row: the record before this one ends here.
ScanAuditRow(s, row, requireMac) ==
    LET f == FinalizeRecord(s, requireMac)
    IN  IF /\ f.ok
           /\ f.seq # SeqMax /\ row.seq = f.seq + 1
           /\ f.counts[row.type] # SeqMax /\ row.no = f.counts[row.type] + 1
        THEN [f EXCEPT !.audit = [Idle EXCEPT !.active = TRUE, !.row = row]]
        ELSE Refused(f)

\* llps_ip_audit_scan_endpoint_row.
ScanEndpointRow(s, row) ==
    IF s.audit.active /\ row.seq = s.audit.row.seq /\ row.role \notin s.audit.seen
    THEN [s EXCEPT !.audit.seen = @ \cup {row.role}]
    ELSE Refused(s)

\* Mutant of ScanMacRow: the setting is not looked at.
ScanMacRowAlways(s, row, requireMac, fp) ==
    IF s.audit.active /\ row.seq = s.audit.row.seq /\ row.key = fp /\ ~s.audit.macSeen
    THEN [s EXCEPT !.audit.macSeen = TRUE]
    ELSE Refused(s)

\* llps_ip_audit_scan_mac_row; the MAC itself is compared when the record ends.
ScanMacRow(s, row, requireMac, fp) ==
    IF /\ s.audit.active /\ requireMac
       /\ row.seq = s.audit.row.seq /\ row.key = fp /\ ~s.audit.macSeen
    THEN [s EXCEPT !.audit.macSeen = TRUE]
    ELSE Refused(s)

\* llps_ip_audit_scan_process_evidence_line.
ScanEvidenceRow(s, row, requireMac) ==
    LET f == FinalizeEvidence(s, requireMac)
    IN  IF f.ok /\ row.seq = f.evidenceSeq + 1
        THEN [f EXCEPT !.evidence = [Idle EXCEPT !.active = TRUE, !.row = row],
                       !.evidenceSeq = row.seq]
        ELSE Refused(f)

\* llps_ip_audit_scan_evidence_mac_row.
ScanEvidenceMacRow(s, row, requireMac, fp) ==
    IF /\ s.evidence.active /\ requireMac
       /\ row.seq = s.evidence.row.seq /\ row.key = fp /\ ~s.evidence.macSeen
    THEN [s EXCEPT !.evidence.macSeen = TRUE]
    ELSE Refused(s)

\* llps_ip_audit_scan_process_line.
ProcessLine(s, requireMac, fp) ==
    CASE s.line.k = "audit"        -> ScanAuditRow(s, s.line, requireMac)
      [] s.line.k = "endpoint"     -> ScanEndpointRow(s, s.line)
      [] s.line.k = "mac"          -> ScanMacRow(s, s.line, requireMac, fp)
      [] s.line.k = "evidence"     -> ScanEvidenceRow(s, s.line, requireMac)
      [] s.line.k = "evidence_mac" -> ScanEvidenceMacRow(s, s.line, requireMac, fp)
      [] OTHER -> IF Ignorable(s.line) THEN s ELSE Refused(s)

\* A line end: an empty line ends the open records as well.
CompleteLine(s, requireMac, fp) ==
    [(IF s.line = NL
      THEN LET f == FinalizeRecord(s, requireMac)
           IN  IF f.ok THEN FinalizeEvidence(f, requireMac) ELSE f
      ELSE ProcessLine(s, requireMac, fp)) EXCEPT !.line = NL]

\* Text joins the line that is being read.
ExtendLine(s, text) ==
    [s EXCEPT !.line = IF s.line = NL THEN text
                       ELSE IF Ignorable(s.line) THEN Remark ELSE Torn]

\* llps_ip_audit_scan_read_lines: one iteration, until a line is refused.
ReadText(s, text, requireMac, fp) ==
    IF ~s.ok THEN s
    ELSE IF text = NL THEN CompleteLine(s, requireMac, fp)
    ELSE ExtendLine(s, text)

\* The loop over the file.
ReadLines(text, requireMac, fp) ==
    LET scan[i \in 0..Len(text)] ==
            IF i = 0 THEN ScanInit ELSE ReadText(scan[i - 1], text[i], requireMac, fp)
    IN  scan[Len(text)]

\* llps_ip_audit_scan_existing_counters: a last line without a line end counts.
ScanExisting(text, requireMac, fp) ==
    LET s == ReadLines(text, requireMac, fp)
        l == IF s.ok /\ s.line # NL THEN ProcessLine(s, requireMac, fp) ELSE s
        r == IF l.ok THEN FinalizeRecord(l, requireMac) ELSE l
    IN  IF r.ok THEN FinalizeEvidence(r, requireMac) ELSE r

\* llps_ip_audit_existing_pxf_header_matches: each shorter header of an older
\* version is a beginning of the present one; only the oldest lacks the MAC table.
HeaderMatches(text, requireMac) ==
    IsPrefix(IF requireMac THEN SubSeq(Header, 1, 4) ELSE SubSeq(Header, 1, 2), text)

\* Would llps_ip_audit_init accept text?
Accepts(text, requireMac, fp) ==
    HeaderMatches(text, requireMac) /\ ScanExisting(text, requireMac, fp).ok

-----------------------------------------------------------------------------
(* The process.                                                            *)

NoJob == [w \in Writers |-> <<>>]

Init ==
    /\ file \in {<<>>, Header, SubSeq(Header, 1, 4), SubSeq(Header, 1, 2)}
    /\ durable = Len(file)
    /\ key \in Keys
    /\ up = FALSE /\ seq = 0 /\ evidenceSeq = 0 /\ counts = [t \in Types |-> 0]
    /\ mac = FALSE /\ fingerprint = key
    /\ job = NoJob
    /\ calls = 0 /\ boots = 0
    /\ acked = {} /\ tears = 0 /\ clean = TRUE

\* Mutant of Activate: the counters found in the file are not taken over.
ActivateFromZero(text, requireMac) ==
    /\ up' = TRUE
    /\ mac' = requireMac /\ fingerprint' = key
    /\ UNCHANGED <<seq, evidenceSeq, counts>>

\* llps_ip_audit_activate_config.
Activate(text, requireMac) ==
    LET s == ScanExisting(text, requireMac, key)
    IN  /\ up' = TRUE
        /\ seq' = s.seq /\ evidenceSeq' = s.evidenceSeq /\ counts' = s.counts
        /\ mac' = requireMac /\ fingerprint' = key

\* llps_ip_audit_init succeeds; an empty file gets the header, fsynced.
Boot(requireMac) ==
    /\ ~up /\ boots < MaxBoots
    /\ LET text == IF file = <<>> THEN Header ELSE file
       IN  /\ Accepts(text, requireMac, key)
           /\ Activate(text, requireMac)
           /\ file' = text
           /\ durable' = IF file = <<>> THEN Len(text) ELSE durable
    /\ boots' = boots + 1
    /\ clean' = TRUE
    /\ UNCHANGED <<key, job, calls, acked, tears>>

\* llps_ip_audit_init refuses the file and closes it.
BootRefused(requireMac) ==
    /\ ~up /\ boots < MaxBoots
    /\ file # <<>> /\ ~Accepts(file, requireMac, key)
    /\ boots' = boots + 1
    /\ UNCHANGED <<file, durable, key, procVars, job, calls, acked, tears, clean>>

\* What is left of the file: one of the whole texts, or a text cut short.
CutShort(cuts, whole) ==
    \/ file' \in whole /\ UNCHANGED tears
    \/ tears < TearMax /\ file' \in cuts \ whole /\ tears' = tears + 1

\* llps_ip_audit_write_new_pxf_header fails or the machine stops in it.
BootHeaderTorn ==
    /\ ~up /\ boots < MaxBoots
    /\ file = <<>>
    /\ CutShort(Cuts(Header, 0) \ {<<>>}, {})
    /\ boots' = boots + 1
    /\ UNCHANGED <<durable, key, procVars, job, calls, acked, clean>>

\* Mutant of Locked: nobody takes the mutex.
LockedNever == FALSE

\* The mutex of llps_ip_audit_writer_lock_checked is held from the choice of a
\* number to the end of the write.
Locked == \E w \in Writers : job[w] # <<>>

\* llps_ip_audit_record_prepare_sequence.
NextSeq(t) ==
    /\ seq # SeqMax /\ counts[t] # SeqMax
    /\ seq' = seq + 1
    /\ counts' = [counts EXCEPT ![t] = @ + 1]

\* llps_ip_audit_evidence_prepare_sequence.
NextEvidenceSeq == evidenceSeq # SeqMax /\ evidenceSeq' = evidenceSeq + 1

\* llps_ip_audit_record up to the blocking write: the numbers are taken, then the
\* key file is read again and must still be the one whose fingerprint was taken.
Record(w, t) ==
    /\ up /\ ~Locked /\ calls < MaxCalls
    /\ NextSeq(t)
    /\ calls' = calls + 1
    /\ IF mac => key = fingerprint
       THEN /\ job' = [job EXCEPT ![w] = AuditText(seq', calls', t, counts'[t])]
            /\ UNCHANGED clean
       ELSE /\ clean' = FALSE
            /\ UNCHANGED job
    /\ UNCHANGED <<file, durable, key, up, evidenceSeq, mac, fingerprint, boots, acked,
                   tears>>

\* llps_ip_audit_record_evidence up to the blocking write.
RecordEvidence(w) ==
    /\ up /\ ~Locked /\ calls < MaxCalls
    /\ NextEvidenceSeq
    /\ calls' = calls + 1
    /\ IF mac => key = fingerprint
       THEN /\ job' = [job EXCEPT ![w] = EvidenceText(evidenceSeq', calls')]
            /\ UNCHANGED clean
       ELSE /\ clean' = FALSE
            /\ UNCHANGED job
    /\ UNCHANGED <<file, durable, key, up, seq, counts, mac, fingerprint, boots, acked,
                   tears>>

\* No number is left: the call fails without one.
RecordExhausted ==
    /\ up /\ ~Locked /\ calls < MaxCalls
    /\ seq = SeqMax \/ evidenceSeq = SeqMax
    /\ calls' = calls + 1
    /\ UNCHANGED <<file, durable, key, procVars, job, boots, acked, tears, clean>>

\* The row that names a record.
RowOf(text) == text[3]

\* Mutant of WriteDone: the record is acknowledged without fsync.
WriteDoneUnsynced(w) ==
    /\ job[w] # <<>>
    /\ file' = file \o job[w]
    /\ acked' = acked \cup {RowOf(job[w])}
    /\ job' = [job EXCEPT ![w] = <<>>]
    /\ UNCHANGED <<durable, key, procVars, calls, boots, tears, clean>>

\* llps_ip_audit_write_blocking writes and fsyncs everything.
WriteDone(w) ==
    /\ job[w] # <<>>
    /\ file' = file \o job[w]
    /\ durable' = Len(file')
    /\ acked' = acked \cup {RowOf(job[w])}
    /\ job' = [job EXCEPT ![w] = <<>>]
    /\ UNCHANGED <<key, procVars, calls, boots, tears, clean>>

\* The write stops short or the fsync fails: the call returns false.
WriteFails(w) ==
    /\ job[w] # <<>>
    /\ CutShort({file \o part : part \in Cuts(job[w], 0)}, {file, file \o job[w]})
    /\ job' = [job EXCEPT ![w] = <<>>]
    /\ clean' = FALSE
    /\ UNCHANGED <<durable, key, procVars, calls, boots, acked>>

\* llps_ip_audit_shutdown at the end of main, when all tasks are gone.
ResetProcess ==
    /\ up' = FALSE /\ seq' = 0 /\ evidenceSeq' = 0
    /\ counts' = [t \in Types |-> 0]
    /\ mac' = FALSE
    /\ UNCHANGED fingerprint            \* cleared in the code; unused without mac

Shutdown ==
    /\ up /\ ~Locked
    /\ ResetProcess
    /\ UNCHANGED <<file, durable, key, job, calls, boots, acked, tears, clean>>

\* The process or the machine stops; a write may be under way.
Crash ==
    /\ up
    /\ \E w \in Writers :
         LET text == file \o job[w]
         IN  CutShort(Cuts(text, durable), {file, text})
    /\ durable' = Len(file')
    /\ job' = NoJob
    /\ ResetProcess
    /\ UNCHANGED <<key, calls, boots, acked, clean>>

\* The operator replaces the key file.
RotateKey ==
    /\ key' \in Keys \ {key}
    /\ UNCHANGED <<file, durable, procVars, job, calls, boots, acked, tears, clean>>

Next ==
    \/ \E requireMac \in BOOLEAN : Boot(requireMac) \/ BootRefused(requireMac)
    \/ BootHeaderTorn
    \/ \E w \in Writers :
         \/ \E t \in Types : Record(w, t)
         \/ RecordEvidence(w) \/ WriteDone(w) \/ WriteFails(w)
    \/ RecordExhausted \/ Shutdown \/ Crash \/ RotateKey

Spec == Init /\ [][Next]_vars

-----------------------------------------------------------------------------
(* Properties.                                                             *)

Tokens == {"nl", "remark", "torn", "magic", "mactable", "audit", "endpoint",
           "mac", "evidence", "evidence_mac"}

\* Every number stays within the width of its counter and every variable keeps
\* its type.
TypeOK ==
    /\ \A i \in DOMAIN file : file[i].k \in Tokens
    /\ durable \in 0..Len(file)
    /\ key \in Keys /\ fingerprint \in Keys
    /\ up \in BOOLEAN /\ mac \in BOOLEAN /\ clean \in BOOLEAN
    /\ seq \in 0..SeqMax /\ evidenceSeq \in 0..SeqMax
    /\ counts \in [Types -> 0..SeqMax]
    /\ \A w \in Writers : \A i \in DOMAIN job[w] : job[w][i].k \in Tokens
    /\ calls \in 0..MaxCalls /\ boots \in 0..MaxBoots /\ tears \in 0..TearMax
    /\ \A row \in acked : row.k \in {"audit", "evidence"}

\* llps_ip_audit_record returns true only for a record that no crash takes out
\* of the file again.
AckedDurable == acked \subseteq Range(file)

\* Two acknowledged records never share a sequence number, nor two of one event
\* type an event number, over any series of crashes and restarts.
NumbersUnique ==
    \A r1, r2 \in acked :
        r1 # r2 /\ r1.k = r2.k =>
            /\ r1.seq # r2.seq
            /\ r1.k = "audit" /\ r1.type = r2.type => r1.no # r2.no

\* Every number stays within its width besides: none is handed out at the limit.
NumbersSound == TypeOK /\ NumbersUnique

\* As long as no record of this process was lost after it got a number, a restart
\* with the same key and MAC setting accepts the file and goes on with the
\* numbers this process would use next.
RestartContinues ==
    up /\ clean /\ ~Locked =>
        LET s == ScanExisting(file, mac, fingerprint)
        IN  /\ Accepts(file, mac, fingerprint)
            /\ s.seq = seq /\ s.evidenceSeq = evidenceSeq /\ s.counts = counts

\* The same of a file that was never cut short: the case the scan is made for.
UntornRestartContinues == tears = 0 => RestartContinues

\* No process adds unauthenticated records to a file that has authenticated
\* ones, nor authenticated records to a file with acknowledged unauthenticated
\* ones (scan_mac_row and scan_record_mac_is_valid).
SignedStaysSigned ==
    up => LET signed == {file[i].seq : i \in {j \in DOMAIN file : file[j].k = "mac"}}
          IN  IF mac THEN \A r \in acked : r.k = "audit" => r.seq \in signed
                     ELSE signed = {}

=============================================================================
