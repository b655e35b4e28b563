----------------------------- MODULE Handshake -----------------------------
(***************************************************************************)
(* The handshake gate of src/src/core/llps_state.c: what                   *)
(* llps_protocol_handshake_validate answers for the first len bytes of a   *)
(* buffer.  A buffer is a function from offsets (from 0) to bytes; a       *)
(* parsing step yields the next offset, or one of the failures NeedMore    *)
(* and Invalid.                                                            *)
(***************************************************************************)
EXTENDS Integers, Sequences

CONSTANTS
  PacketBytesMax,  \* LLPS_PROTOCOL_HANDSHAKE_PACKET_BYTES_MAX
  AddrBytesMax     \* LLPS_PROTOCOL_HANDSHAKE_ADDR_BYTES_MAX

ASSUME HandshakeAssumption ==
  PacketBytesMax \in Nat \ {0} /\ AddrBytesMax \in Nat \ {0}

Valid == "VALID"
NeedMore == "NEED_MORE"
Invalid == "INVALID"

\* st, the offset behind the item, and the 28 low bits and the 4 high bits of
\* its value (an unsigned 32-bit number is beyond TLC's integers).
Parsed(st, off, low, high) == [st |-> st, off |-> off, low |-> low, high |-> high]
Failed(st) == Parsed(st, 0, 0, 0)

Group(byte) == byte % 128
Continues(byte) == byte >= 128

\* llps_protocol_read_varint: at most five groups of seven bits, the fifth at
\* most 0x0f, and the last of several not zero (value >= 1 << shift).
ReadVarint(buf, len, off) ==
  LET seen == {i \in 0..4 : off + i < len /\ \A j \in 0..(i - 1) : Continues(buf[off + j])}
      last == CHOOSE i \in seen : \A j \in seen : j <= i
      group(i) == IF i \in seen THEN Group(buf[off + i]) ELSE 0
  IN  IF 4 \in seen /\ Group(buf[off + 4]) > 15 THEN Failed(Invalid)
      ELSE IF seen = {} THEN Failed(NeedMore)
      ELSE IF Continues(buf[off + last])
           THEN Failed(IF last = 4 THEN Invalid ELSE NeedMore)
      ELSE IF last > 0 /\ buf[off + last] = 0 THEN Failed(Invalid)
      ELSE Parsed(Valid, off + last + 1,
                  group(0) + 128 * group(1) + 16384 * group(2) + 2097152 * group(3),
                  group(4))

\* Inside a packet that is all there, a missing byte is a malformed packet.
Inside(item, ok) ==
  IF item.st = Valid /\ ok THEN item ELSE Failed(Invalid)

\* Mutant of ReadPacketFrame: a packet that is not all there is refused.
ReadPacketFrameAtOnce(buf, len) ==
  LET item == ReadVarint(buf, len, 0) IN
  IF item.st # Valid THEN item
  ELSE IF item.high # 0 \/ item.low = 0 \/ item.low > PacketBytesMax THEN Failed(Invalid)
  ELSE IF len < item.off + item.low THEN Failed(Invalid)
  ELSE item

\* llps_protocol_read_packet_frame: low is the packet length.
ReadPacketFrame(buf, len) ==
  LET item == ReadVarint(buf, len, 0) IN
  IF item.st # Valid THEN item
  ELSE IF item.high # 0 \/ item.low = 0 \/ item.low > PacketBytesMax THEN Failed(Invalid)
  ELSE IF len < item.off + item.low THEN Failed(NeedMore)
  ELSE item

\* llps_protocol_read_packet_id
ReadPacketId(buf, end, off) ==
  LET item == ReadVarint(buf, end, off) IN
  Inside(item, item.low = 0 /\ item.high = 0)

\* llps_protocol_read_protocol_version: not zero, at most INT32_MAX.
ReadProtocolVersion(buf, end, off) ==
  LET item == ReadVarint(buf, end, off) IN
  Inside(item, (item.low # 0 \/ item.high # 0) /\ item.high < 8)

\* llps_protocol_skip_server_address: the address, the port, and at least one
\* byte behind them.
SkipServerAddress(buf, end, off) ==
  LET item == ReadVarint(buf, end, off)
      port == item.off + item.low
  IN  IF /\ item.st = Valid /\ item.high = 0
         /\ item.low \in 1..AddrBytesMax
         /\ port + 3 <= end
         /\ buf[port] # 0 \/ buf[port + 1] # 0
      THEN Parsed(Valid, port + 2, 0, 0)
      ELSE Failed(Invalid)

\* llps_protocol_read_next_state
ReadNextState(buf, end, off) ==
  LET item == ReadVarint(buf, end, off) IN
  Inside(item, item.low \in {1, 2} /\ item.high = 0 /\ item.off = end)

\* llps_protocol_handshake_validate
HandshakeStatus(buf, len) ==
  LET frame   == ReadPacketFrame(buf, len)
      end     == frame.off + frame.low
      id      == ReadPacketId(buf, end, frame.off)
      version == ReadProtocolVersion(buf, end, id.off)
      address == SkipServerAddress(buf, end, version.off)
      next    == ReadNextState(buf, end, address.off)
  IN  IF frame.st # Valid THEN frame.st
      ELSE IF id.st # Valid THEN id.st
      ELSE IF version.st # Valid THEN version.st
      ELSE IF address.st # Valid THEN address.st
      ELSE next.st

-----------------------------------------------------------------------------
(* Reference: the packets the gate is there for, built and not parsed *)

\* The shortest encoding of v < 2^21.
Varint(v) ==
  IF v < 128 THEN <<v>>
  ELSE IF v < 16384 THEN <<128 + (v % 128), v \div 128>>
  ELSE <<128 + (v % 128), 128 + ((v \div 128) % 128), v \div 16384>>

\* A handshake packet with one-byte bounds on its fields; pad is what a
\* malformed client adds behind next_state.
EncodeHandshake(h) ==
  LET body == Varint(h.id) \o Varint(h.version) \o Varint(Len(h.addr)) \o h.addr
                \o h.port \o Varint(h.next) \o h.pad
  IN  Varint(Len(body)) \o body

IsHandshake(h) ==
  /\ h.id = 0
  /\ h.version # 0
  /\ Len(h.addr) \in 1..AddrBytesMax
  /\ h.port # <<0, 0>>
  /\ h.next \in {1, 2}
  /\ h.pad = <<>>
  /\ EncodeHandshake(h)[1] <= PacketBytesMax
============================================================================
