------------------------------ MODULE Discovery ------------------------------
(***************************************************************************)
(* build_discovery_packet of north_adapter/discovery_protocol.py: a header   *)
(* and a body of fields, each with its length in two bytes.  Of a value its  *)
(* length is kept, and what it says.                                        *)
(***************************************************************************)
EXTENDS Naturals, Sequences

CONSTANTS
  Macs, Ips,
  Strings   \* identifiers, all in latin1

\* What the packet is built from: a string comes with its length in bytes.
Texts   == [text : Strings, len : Nat]
Devices == [mac : Macs, ip : Ips, uptime : Nat, sequence : Nat,
            build : Texts, model : Texts, short : Texts]

Value(data, len) == [data |-> data, len |-> len]
Text(s)          == Value(s.text, s.len)

\* Two bytes, most significant first, and what a reader makes of them.
TwoBytes(n) == [hi |-> n \div 256, lo |-> n % 256]
Number(b)   == 256 * b.hi + b.lo

Tlv(type, v) == [type |-> type, length |-> TwoBytes(v.len), value |-> v]

\* The fields of version 2, which is the one the bridge sends.
Fields(d) ==
  <<Tlv(18, Value(d.sequence, 4)), Tlv(19, Value(d.mac, 6)),
    Tlv(2, Value(<<d.mac, d.ip>>, 10)), Tlv(1, Value(d.mac, 6)),
    Tlv(10, Value(d.uptime, 4)), Tlv(3, Text(d.build)), Tlv(12, Text(d.model)),
    Tlv(22, Text(d.short)), Tlv(21, Text(d.model)), Tlv(23, Value(1, 1))>>

\* len(body): three bytes of type and length come with each value.
BodyLength(d) ==
  30 + (4 + 6 + 10 + 6 + 4 + d.build.len + d.model.len + d.short.len + d.model.len + 1)

\* Building raises when a number does not fit its four bytes, a value its
\* length field (_tlv), or the body the one of the header (bytes()).
Raises(d) ==
  \/ \E n \in {d.sequence, d.uptime} : n >= 2^32
  \/ \E s \in {d.build, d.model, d.short} : s.len > 65535
  \/ BodyLength(d) \div 256 > 255

\* The packet, as the bridge asks for it: version 2, command 6.
Packet(d) ==
  [version |-> 2, command |-> 6, length |-> TwoBytes(BodyLength(d)), body |-> Fields(d)]

\* at[i] is where a reader who goes from field to field by their lengths finds
\* the i-th field of a body, and at[Len(body) + 1] where it ends.
Walks(at, body) ==
  /\ at \in [1..(Len(body) + 1) -> Nat]
  /\ at[1] = 0
  /\ \A i \in 1..Len(body) : at[i + 1] = at[i] + 3 + Number(body[i].length)
=============================================================================
