------------------------------ MODULE DataPath -----------------------------
(***************************************************************************)
(* The way of a client's bytes through LLPS (src/src/core/llps_state.c):   *)
(* the preface read with the handshake gate, its flush to the backend, and *)
(* then the client-to-backend pump, with the payload ECC of the transfer   *)
(* buffer and its scrub by the watchdog.  The backend-to-client pump is    *)
(* the same code on the other buffer.                                      *)
(*                                                                         *)
(* A step is one iteration of a loop of the code.  Faults fall between     *)
(* steps; the scrub may run between any two, which is more often than the  *)
(* scheduler lets it.  The connection to the backend, the audit records    *)
(* and the closing of the session are those of module Proxy; the metadata  *)
(* checks on the hot path are those of module SessionStore.                *)
(***************************************************************************)
EXTENDS Secded, Handshake

CONSTANTS
  BufferSize,     \* buffer_size
  IoRetryBudget,  \* LLPS_IO_RETRY_BUDGET
  Clients,        \* what a client may send: [bytes, good, size], see ClientsAssumption
  FlipMax,        \* bound on the bits that flip
  FlipBits        \* the bits that may flip: <<"data", byte, bit>>, <<"ecc", word, bit>>

WordBytes == 8
WordCount == (BufferSize + WordBytes - 1) \div WordBytes
Offsets == 0..(BufferSize - 1)
Words == 0..(WordCount - 1)

ASSUME DataPathAssumption ==
  /\ BufferSize \in Nat \ {0}
  /\ IoRetryBudget \in Nat
  /\ FlipMax \in Nat
  /\ \A c \in Clients : c.good \in BOOLEAN /\ c.size \in Nat /\ c.bytes \in Seq(0..255)
  /\ FlipBits \subseteq ({"data"} \X Offsets \X (0..7)) \cup ({"ecc"} \X Words \X (0..7))

\* good: what the client sends, taken as a whole, starts with a handshake; size is
\* then the length of that packet.
Whole(c) == [p \in 0..(Len(c.bytes) - 1) |-> c.bytes[p + 1]]

ASSUME ClientsAssumption ==
  \A c \in Clients :
    LET frame == ReadPacketFrame(Whole(c), Len(c.bytes)) IN
    /\ c.good <=> HandshakeStatus(Whole(c), Len(c.bytes)) = Valid
    /\ c.good => c.size = frame.off + frame.low

VARIABLES
  cfg,       \* [ecc, gate, preface]: payload_ecc_enabled, protocol_handshake_gate_enabled,
             \* client_preface_timeout_ms # 0
  client,    \* the client of this session
  taken,     \* number of its bytes read so far
  sent,      \* the bytes the backend got
  pc,        \* where the connection, and later the pump, stands
  fds,       \* "open", or "shut" once llps_force_shutdown_session_fds was called
  expired,   \* the preface deadline has passed
  buf,       \* c2s_buf
  ecc,       \* c2s_payload_ecc
  eccLen,    \* c2s_payload_ecc_len
  len, off, retry, step, \* locals of the read, flush and write loops
  reason,    \* close_reason
  failure,   \* why the session ended: the reason string of the code, or "none"
  flips,     \* history: number of bits flipped
  unsealedHit, \* history: a bit flipped in bytes no ECC covers
  doubleHit    \* history: a bit flipped in a word that had a fault already

configVars == <<cfg, client>>
bufferVars == <<buf, ecc, eccLen>>
loopVars == <<len, off, retry, step>>
endVars == <<reason, failure>>
faultVars == <<flips, unsealedHit, doubleHit>>
vars == <<configVars, taken, sent, pc, fds, expired, bufferVars, loopVars, endVars, faultVars>>

Pcs == {"load", "preface", "connect", "flush", "read", "write", "eof", "closed"}
Reasons == {"NORMAL", "CLIENT_PREFACE_TIMEOUT", "PROTOCOL_HANDSHAKE", "PAYLOAD_ECC",
            "CONTRACT_VIOLATION", "METADATA_FAULT"}
Ended == pc \in {"eof", "closed"}

\* Mutant of IoStepMax: no room for the retries.
IoStepMaxShort == BufferSize

\* LLPS_SOCKET_IO_STEP_MAX
IoStepMax == BufferSize + IoRetryBudget

-----------------------------------------------------------------------------
(* Payload ECC *)

\* llps_payload_ecc_word_count_for_len
WordCountFor(n) == (n + WordBytes - 1) \div WordBytes
\* llps_payload_ecc_protected_len_for_len
ProtectedLen(n) ==
  IF WordCountFor(n) * WordBytes > BufferSize THEN BufferSize ELSE WordCountFor(n) * WordBytes

\* llps_payload_ecc_load_word
LoadWord(b, n, w) ==
  UNION {{8 * k + i : i \in BitsOf(b[WordBytes * w + k])} :
           k \in {j \in 0..7 : WordBytes * w + j < n}}

\* llps_payload_ecc_store_word: byte k of a word.
ByteOf(word, k) == Value({i \in 0..7 : 8 * k + i \in word})

\* llps_payload_ecc_zero_padding
ZeroPadding(b, n) == [p \in Offsets |-> IF p >= n /\ p < ProtectedLen(n) THEN 0 ELSE b[p]]

\* llps_payload_ecc_seal: the codes of the words of the first n bytes.
SealedEcc(b, n) ==
  [w \in Words |-> IF w < WordCountFor(n) THEN Encode(LoadWord(b, ProtectedLen(n), w), 64)
                   ELSE {}]

\* Mutant of Seal: the codes are kept when the length is unchanged.
SealIfLonger(b, n) ==
  /\ buf' = IF cfg.ecc THEN ZeroPadding(b, n) ELSE b
  /\ ecc' = IF cfg.ecc /\ n # eccLen THEN SealedEcc(ZeroPadding(b, n), n) ELSE ecc
  /\ eccLen' = IF cfg.ecc THEN n ELSE eccLen

\* llps_client_preface_seal and llps_pump_seal_read_payload, with
\* llps_payload_ecc_set_len_for_pump.
Seal(b, n) ==
  /\ buf' = IF cfg.ecc THEN ZeroPadding(b, n) ELSE b
  /\ ecc' = IF cfg.ecc THEN SealedEcc(ZeroPadding(b, n), n) ELSE ecc
  /\ eccLen' = IF cfg.ecc THEN n ELSE eccLen

\* llps_payload_ecc_repair on the first n bytes: what it makes of each word.
RepairOutcomes(n) ==
  [w \in 0..(WordCountFor(n) - 1) |->
     Repair(LoadWord(buf, ProtectedLen(n), w), 64, ecc[w])]
LostWords(outcomes) ==
  {w \in DOMAIN outcomes : outcomes[w].status = "UNCORRECTABLE"}
\* The words it corrects before it meets one it cannot correct.
CorrectedWords(outcomes) ==
  {w \in DOMAIN outcomes : /\ outcomes[w].status = "CORRECTED"
                           /\ \A l \in LostWords(outcomes) : w < l}
Repairable(outcomes) == ~cfg.ecc \/ LostWords(outcomes) = {}

\* Mutant of RepairedBuf: the code is rewritten, the word is not stored.
RepairedBufUnstored(n, outcomes) == buf

\* The stores of llps_payload_ecc_repair, whether it succeeds or not.
RepairedBuf(n, outcomes) ==
  [p \in Offsets |->
     IF cfg.ecc /\ p < ProtectedLen(n) /\ p \div WordBytes \in CorrectedWords(outcomes)
     THEN ByteOf(outcomes[p \div WordBytes].data, p % WordBytes)
     ELSE buf[p]]

RepairBuffer(n, outcomes) ==
  /\ buf' = RepairedBuf(n, outcomes)
  /\ ecc' = [w \in Words |->
               IF cfg.ecc /\ w \in CorrectedWords(outcomes) THEN outcomes[w].ecc ELSE ecc[w]]
  /\ UNCHANGED eccLen

-----------------------------------------------------------------------------
(* The preface: llps_client_preface_read *)

Init ==
  /\ cfg \in {c \in [ecc : BOOLEAN, gate : BOOLEAN, preface : BOOLEAN] : c.gate => c.preface}
  /\ client \in Clients
  /\ taken = 0 /\ sent = <<>>
  /\ pc = "load" /\ fds = "open" /\ expired = FALSE
  /\ buf = [p \in Offsets |-> 0] /\ ecc = [w \in Words |-> {}] /\ eccLen = 0
  /\ len = 0 /\ off = 0 /\ retry = 0 /\ step = 0
  /\ reason = "NORMAL" /\ failure = "none"
  /\ flips = 0 /\ unsealedHit = FALSE /\ doubleHit = FALSE

\* The session is closed for the reason string why, marked with mark: the loops
\* are left and the slot is reset.
Fail(why, mark) ==
  /\ pc' = "closed" /\ failure' = why /\ reason' = mark
  /\ buf' = [p \in Offsets |-> 0] /\ ecc' = [w \in Words |-> {}] /\ eccLen' = 0
  /\ len' = 0 /\ off' = 0 /\ retry' = 0 /\ step' = 0

\* llps_client_preface_load_config: the deadline starts, or there is no
\* preface, or the configuration has no majority.
LoadConfig ==
  /\ pc = "load"
  /\ \/ /\ pc' = IF cfg.preface THEN "preface" ELSE "connect"
        /\ UNCHANGED <<bufferVars, loopVars, endVars>>
     \/ Fail("client_preface_config", reason)
  /\ UNCHANGED <<configVars, taken, sent, fds, expired, faultVars>>

\* The clock passes the deadline.
Expire ==
  /\ pc = "preface" /\ ~expired
  /\ expired' = TRUE
  /\ UNCHANGED <<configVars, taken, sent, pc, fds, bufferVars, loopVars, endVars, faultVars>>

\* Mutant of PrefaceTimeout: only a silent client times out.
PrefaceTimeoutIfSilent ==
  /\ pc = "preface" /\ expired /\ len = 0
  /\ Fail("client_preface_timeout", "CLIENT_PREFACE_TIMEOUT")
  /\ UNCHANGED <<configVars, taken, sent, fds, expired, faultVars>>

\* llps_client_preface_read_timeout_ms finds the deadline passed, or the wait
\* it bounds ended with ETIMEDOUT.
PrefaceTimeout ==
  /\ pc = "preface" /\ expired
  /\ Fail("client_preface_timeout", "CLIENT_PREFACE_TIMEOUT")
  /\ UNCHANGED <<configVars, taken, sent, fds, expired, faultVars>>

\* The bytes read into b at offset at.
Placed(b, at, n) ==
  [p \in Offsets |-> IF p \in at..(at + n - 1) THEN client.bytes[taken + p - at + 1] ELSE b[p]]

\* How many bytes a read brings: one, or all that the client has and that fit.
ReadSizes(room) ==
  LET there == Len(client.bytes) - taken
      most  == IF there < room THEN there ELSE room
  IN  IF most = 0 \/ fds # "open" THEN {} ELSE {1, most}

\* The next iteration with buffer b and n bytes, or the end of the loop after
\* IoStepMax of them.
NextPrefaceCycle(b, n) ==
  \/ /\ step + 1 < IoStepMax
     /\ step' = step + 1
     /\ buf' = b /\ len' = n
     /\ UNCHANGED <<pc, ecc, eccLen, off, retry, endVars>>
  \/ /\ step + 1 >= IoStepMax
     /\ Fail("client_preface_retry", reason)

\* llps_client_preface_read_cycle with bytes: llps_client_preface_read_chunk,
\* llps_client_preface_check_gate, and the seal of a complete preface.
PrefaceRead(n) ==
  /\ pc = "preface" /\ ~expired
  /\ len < BufferSize
  /\ n \in ReadSizes(BufferSize - len)
  /\ taken' = taken + n
  /\ LET b == Placed(buf, len, n)
         status == IF cfg.gate THEN HandshakeStatus(b, len + n) ELSE Valid
     IN  \/ /\ status = Valid
            /\ Seal(b, len + n)
            /\ len' = len + n
            /\ pc' = "connect" /\ step' = 0
            /\ UNCHANGED <<off, retry, endVars>>
         \/ /\ status = NeedMore /\ len + n < BufferSize
            /\ NextPrefaceCycle(b, len + n)
         \/ /\ status = Invalid \/ (status = NeedMore /\ len + n >= BufferSize)
            /\ Fail("protocol_handshake_invalid", "PROTOCOL_HANDSHAKE")
  /\ UNCHANGED <<configVars, sent, fds, expired, faultVars>>

\* The read was not ready after all: yield and try again.
PrefaceAgain ==
  /\ pc = "preface" /\ ~expired
  /\ fds = "open"
  /\ NextPrefaceCycle(buf, len)
  /\ UNCHANGED <<configVars, taken, sent, fds, expired, faultVars>>

\* The client closed its side or the read failed.
PrefaceReadFails ==
  /\ pc = "preface" /\ ~expired
  /\ Fail("client_preface_read", reason)
  /\ UNCHANGED <<configVars, taken, sent, fds, expired, faultVars>>

\* llps_connection_connect_backend, and the start of
\* llps_backend_preface_flush.
Connect ==
  /\ pc = "connect"
  /\ \/ /\ pc' = IF len = 0 THEN "read" ELSE "flush"
        /\ UNCHANGED <<bufferVars, loopVars, endVars>>
     \/ Fail("backend_connect", reason)
  /\ UNCHANGED <<configVars, taken, sent, fds, expired, faultVars>>

-----------------------------------------------------------------------------
(* The two write loops: llps_backend_preface_flush and llps_pump_write_all.
   Each iteration repairs the buffer before it sends. *)

Writing == pc \in {"flush", "write"}
\* What the loop marks: the pump its own reason, the flush nothing.
PumpMark(mark) == IF pc = "write" THEN mark ELSE reason

\* An iteration that leaves offset o and retry count r: the loop is done, goes
\* on, or has used its steps up.
NextWriteStep(o, r, outcomes) ==
  \/ /\ o = len
     /\ pc' = "read" /\ off' = 0 /\ retry' = 0 /\ step' = 0
     /\ RepairBuffer(len, outcomes)
     /\ UNCHANGED <<len, endVars>>
  \/ /\ o < len /\ step + 1 < IoStepMax
     /\ off' = o /\ retry' = r /\ step' = step + 1
     /\ RepairBuffer(len, outcomes)
     /\ UNCHANGED <<pc, len, endVars>>
  \/ /\ o < len /\ step + 1 >= IoStepMax
     /\ Fail("write_steps", PumpMark("CONTRACT_VIOLATION"))

\* llps_backend_preface_flush_step and llps_pump_write_step: send() takes n
\* bytes.
SendSome(n, outcomes) ==
  /\ Writing /\ fds = "open"
  /\ n \in {1, len - off}
  /\ Repairable(outcomes)
  /\ sent' = sent \o [i \in 1..n |-> RepairedBuf(len, outcomes)[off + i - 1]]
  /\ NextWriteStep(off + n, retry, outcomes)
  /\ UNCHANGED <<configVars, taken, fds, expired, faultVars>>

\* send() would block: llps_backend_preface_wait_writable,
\* llps_pump_wait_writable.
SendAgain(outcomes) ==
  /\ Writing /\ fds = "open"
  /\ Repairable(outcomes)
  /\ \/ retry < IoRetryBudget /\ NextWriteStep(off, retry + 1, outcomes)
     \/ retry >= IoRetryBudget /\ Fail("write_retry", PumpMark("CONTRACT_VIOLATION"))
  /\ UNCHANGED <<configVars, taken, sent, fds, expired, faultVars>>

\* send() fails or takes nothing (no reason is marked), or the wait for room
\* fails.
SendFails(outcomes) ==
  /\ Writing
  /\ Repairable(outcomes)
  /\ \E mark \in {reason, PumpMark("CONTRACT_VIOLATION")} : Fail("write", mark)
  /\ UNCHANGED <<configVars, taken, sent, fds, expired, faultVars>>

\* A word cannot be corrected: nothing more is sent.
SendEccLost(outcomes) ==
  /\ Writing
  /\ ~Repairable(outcomes)
  /\ Fail("payload_ecc", PumpMark("PAYLOAD_ECC"))
  /\ UNCHANGED <<configVars, taken, sent, fds, expired, faultVars>>

\* outcomes is what the repair before the send makes of each word.
WriteStep ==
  \E outcomes \in {RepairOutcomes(len)} :
    \/ \E n \in {1, len - off} : SendSome(n, outcomes)
    \/ SendAgain(outcomes) \/ SendFails(outcomes) \/ SendEccLost(outcomes)

-----------------------------------------------------------------------------
(* The pump: llps_task_pump *)

\* llps_pump_read_bytes, llps_session_touch and llps_pump_seal_read_payload.
PumpRead(n) ==
  /\ pc = "read"
  /\ n \in ReadSizes(BufferSize)
  /\ taken' = taken + n
  /\ Seal(Placed(buf, 0, n), n)
  /\ len' = n
  /\ pc' = "write"
  /\ UNCHANGED <<configVars, sent, fds, expired, off, retry, step, endVars, faultVars>>

\* End of file, or the shutdown flag: the backend gets SHUT_WR, no reason is
\* marked.
PumpEof ==
  /\ pc = "read"
  /\ pc' = "eof"
  /\ UNCHANGED <<configVars, taken, sent, fds, expired, bufferVars, loopVars, endVars, faultVars>>

\* The read fails (no reason), or the wait for bytes does.
PumpReadFails ==
  /\ pc = "read"
  /\ \E mark \in {reason, "CONTRACT_VIOLATION"} : Fail("read", mark)
  /\ UNCHANGED <<configVars, taken, sent, fds, expired, faultVars>>

\* llps_session_hot_path_is_active fails in llps_pump_cycle_can_continue or
\* llps_pump_write_step, or llps_session_is_active in llps_pump_after_success;
\* the reason is marked if the session can still be read.
PumpMetadataFault ==
  /\ pc \in {"read", "write"}
  /\ \E mark \in {reason, "METADATA_FAULT"} : Fail("metadata", mark)
  /\ UNCHANGED <<configVars, taken, sent, fds, expired, faultVars>>

\* llps_payload_ecc_scrub_session for the session, and what
\* llps_payload_ecc_scrub_all does when it fails.
Scrub ==
  /\ ~Ended /\ cfg.ecc
  /\ \E outcomes \in {RepairOutcomes(eccLen)} :
       /\ RepairBuffer(eccLen, outcomes)
       /\ IF Repairable(outcomes) THEN UNCHANGED <<reason, fds>>
          ELSE reason' = "PAYLOAD_ECC" /\ fds' = "shut"
  /\ UNCHANGED <<configVars, taken, sent, pc, expired, loopVars, failure, faultVars>>

\* A bit of the buffer or of its codes flips.
Covered(w) == w < WordCountFor(eccLen)
FaultyWord(w) == ~IsValid(LoadWord(buf, ProtectedLen(eccLen), w), 64, ecc[w])

Flip(f) ==
  LET w == IF f[1] = "data" THEN f[2] \div WordBytes ELSE f[2]
  IN  /\ ~Ended /\ flips < FlipMax
      /\ flips' = flips + 1
      /\ unsealedHit' = (unsealedHit \/ (f[1] = "data" /\ f[2] < len /\ ~Covered(w)))
      /\ doubleHit' = (doubleHit \/ (Covered(w) /\ FaultyWord(w)))
      /\ IF f[1] = "data"
         THEN /\ buf' = [buf EXCEPT ![f[2]] = Value(SymDiff(BitsOf(@), {f[3]}))]
              /\ UNCHANGED ecc
         ELSE ecc' = [ecc EXCEPT ![w] = SymDiff(@, {f[3]})] /\ UNCHANGED buf
      /\ UNCHANGED <<configVars, taken, sent, pc, fds, expired, eccLen, loopVars, endVars>>

Terminated == Ended /\ UNCHANGED vars

Next ==
  \/ LoadConfig \/ Expire \/ PrefaceTimeout \/ PrefaceAgain \/ PrefaceReadFails
  \/ \E n \in 1..BufferSize : PrefaceRead(n) \/ PumpRead(n)
  \/ Connect \/ WriteStep
  \/ PumpEof \/ PumpReadFails \/ PumpMetadataFault
  \/ Scrub
  \/ \E f \in FlipBits : Flip(f)
  \/ Terminated

\* The clock runs, and the wait for the client's bytes ends with its timeout.
Fairness == WF_vars(Expire) /\ WF_vars(PrefaceTimeout)

Spec == Init /\ [][Next]_vars /\ Fairness

-----------------------------------------------------------------------------
(* Properties *)

\* The state is well formed and the loops stay within their budgets.
TypeOK ==
  /\ cfg \in [ecc : BOOLEAN, gate : BOOLEAN, preface : BOOLEAN]
  /\ client \in Clients
  /\ taken \in 0..Len(client.bytes)
  /\ pc \in Pcs /\ fds \in {"open", "shut"} /\ expired \in BOOLEAN
  /\ buf \in [Offsets -> 0..255]
  /\ ecc \in [Words -> SUBSET (0..7)]
  /\ len \in 0..BufferSize /\ eccLen \in 0..len /\ off \in 0..len
  /\ retry \in 0..IoRetryBudget /\ step \in 0..IoStepMax
  /\ reason \in Reasons
  /\ flips \in 0..FlipMax /\ {unsealedHit, doubleHit} \subseteq BOOLEAN

\* With payload ECC on, the backend gets the client's bytes, none changed, lost
\* or repeated, whatever bits flip between the read and the last partial send: up
\* to two anywhere, or any number of them that never meet in one word between two
\* repairs; unless a bit flips in preface bytes that wait, not yet sealed, for the
\* rest of the handshake.
DeliveredIntact ==
  cfg.ecc /\ ~unsealedHit /\ (flips <= 2 \/ ~doubleHit) =>
    sent = SubSeq(client.bytes, 1, Len(sent))

\* A session is ended for its payload ECC only if two bits flipped in one word
\* between two repairs: neither the seal, the zero padding, the last partial
\* word nor a single flip makes a repair fail.
EccFailureJustified ==
  failure = "payload_ecc" \/ reason = "PAYLOAD_ECC" => doubleHit

\* However the handshake is cut into reads, a client passes the gate only with a
\* handshake and is refused by it only without one, or with one longer than the
\* buffer.
GateVerdict ==
  cfg.gate /\ ~unsealedHit =>
    /\ sent # <<>> \/ pc \in {"connect", "flush", "read", "write", "eof"} => client.good
    /\ reason = "PROTOCOL_HANDSHAKE" => ~client.good \/ client.size > BufferSize

\* Loops stay within their budgets and the state is well formed; the step bound
\* of the write loops is never what ends them: the buffer is sent or the retry
\* budget is used up first.
LoopsBounded == TypeOK /\ failure # "write_steps"

\* The code of 16, 32 and 64 bits, against its definition: it is the positional
\* Hamming code with an overall parity, every single flip of a data, parity or
\* overall bit is undone, and every double flip is reported as uncorrectable.
CodeBits(n) ==
  {<<"data", i>> : i \in 0..(n - 1)}
    \cup {<<"ecc", i>> : i \in 0..(ParityBitsOf[n] - 1) \cup {OverallBit}}
Flipped(S, kind, fs) == SymDiff(S, {f[2] : f \in {g \in fs : g[1] = kind}})
RepairFlipped(word, n, fs) ==
  Repair(Flipped(word, "data", fs), n, Flipped(Encode(word, n), "ecc", fs))

SecdedReference ==
  pc = "load" /\ ~cfg.ecc /\ ~cfg.preface /\ client.good =>
    \A n \in Widths :
      LET bytes == [k \in 0..7 |-> client.bytes[k + 1]]
          word == LoadWord(bytes, 8, 0) \cap 0..(n - 1)
          single == Outcome("CORRECTED", word, Encode(word, n))
      IN  /\ Encode(word, n) = EncodePositional(word, n)
          /\ \A f \in CodeBits(n) : RepairFlipped(word, n, {f}) = single
          /\ \A f, g \in CodeBits(n) :
               f # g => RepairFlipped(word, n, {f, g}).status = "UNCORRECTABLE"

\* Every preface ends, at its deadline if the client sends no handshake and
\* leaves neither: a trickle of bytes does not hold the slot.
PrefaceEnds == (pc = "preface") ~> (pc # "preface")
============================================================================
