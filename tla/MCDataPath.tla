---------------------------- MODULE MCDataPath -----------------------------
EXTENDS DataPath

Base == [id |-> 0, version |-> 5, addr |-> <<97>>, port |-> <<0, 1>>, next |-> 2, pad |-> <<>>]

MCHandshakes ==
  {Base,
   [Base EXCEPT !.version = 300, !.next = 1],
   [Base EXCEPT !.version = 300, !.addr = <<97, 98, 99>>],
   [Base EXCEPT !.port = <<0, 0>>],
   [Base EXCEPT !.pad = <<0>>]}

\* Packets followed by more bytes, and a next_state of two groups.
MCClients ==
  {[bytes |-> EncodeHandshake(h) \o <<255, 1>>, good |-> IsHandshake(h),
    size |-> Len(EncodeHandshake(h))] : h \in MCHandshakes}
    \cup {[bytes |-> <<8, 0, 5, 1, 97, 0, 1, 130, 0>>, good |-> FALSE, size |-> 9]}

MCFlipBits == {<<"data", 0, 0>>, <<"data", 7, 7>>, <<"ecc", 0, 3>>, <<"data", 9, 1>>}
============================================================================
