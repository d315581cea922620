---------------------------- MODULE Codec_proofs ----------------------------
(* What encode and decode guarantee, for every key, IV, packet and length,    *)
(* and what a reader of a discovery packet can rely on.                      *)
EXTENDS InformEnvelope, Sequences, TLAPS

CONSTANTS Ips, Strings

D == INSTANCE Discovery

\* What PKCS7 pads to is a whole number of blocks.
LEMMA PaddedIsBlocks ==
  ASSUME NEW n \in Nat PROVE Padded(n) \in Nat /\ Padded(n) % 16 = 0
<1> DEFINE q == n \div 16 + 1
<1>1. q \in Nat
  OBVIOUS
<1>2. 16 * q \in Nat /\ (16 * q) % 16 = 0
  <2> HIDE DEF q
  <2> QED BY <1>1
<1> QED
  BY <1>2 DEF Padded

\* A report (GCM, under the device key) that arrives with its whole body, or
\* with more behind it, is decoded to what was encoded.
THEOREM GcmRoundTrip ==
  ASSUME NEW p \in Packets, NEW key \in Keys, NEW iv \in Ivs, NEW n \in Nat,
         n >= p.size + TagLength
  PROVE  Decode(Cut(EncodeGcm(p, key, iv), n), key) = {p}
<1> DEFINE h == Header(p.mac, Gcm, iv, p.size + TagLength)
           w == Cut(EncodeGcm(p, key, iv), n)
<1>1. w = Wire(h, Seal("gcm", key, h, p), n)
  BY DEF Cut, EncodeGcm, Wire
<1>2. p.size + TagLength \in Nat
  BY DEF Packets, TagLength
<1>3. ~Refused(w) /\ "gcm" \in w.header.flags
  BY <1>1, <1>2 DEF Refused, Wire, Header, Gcm
<1>4. OpensGcm(w, key)
  BY <1>1 DEF OpensGcm, Wire, Seal
<1>5. Plain(w) = p
  BY <1>1 DEF Plain, Wire, Seal, Header, Packets
<1> QED
  BY <1>3, <1>4, <1>5 DEF Decode, DecodeGcm

\* The same for the default-key inform (CBC).
THEOREM CbcRoundTrip ==
  ASSUME NEW p \in Packets, NEW key \in Keys, NEW iv \in Ivs, NEW n \in Nat,
         n >= Padded(p.size)
  PROVE  Decode(Cut(EncodeCbc(p, key, iv), n), key) = {p}
<1> DEFINE h == Header(p.mac, Encrypted, iv, Padded(p.size))
           w == Cut(EncodeCbc(p, key, iv), n)
<1>1. w = Wire(h, Seal("cbc", key, h, p), n)
  BY DEF Cut, EncodeCbc, Wire
<1>2. Padded(p.size) \in Nat /\ Padded(p.size) % 16 = 0
  <2>1. p.size \in Nat
    BY DEF Packets
  <2> QED
    BY <2>1, PaddedIsBlocks
<1>3. ~Refused(w) /\ "gcm" \notin w.header.flags
  BY <1>1, <1>2 DEF Refused, Wire, Header, Encrypted
<1>4. OpensCbc(w, key) /\ w.header.len % 16 = 0
  BY <1>1, <1>2 DEF OpensCbc, Wire, Seal, Header
<1>5. Plain(w) = p
  BY <1>1 DEF Plain, Wire, Seal, Header, Packets
<1> QED
  BY <1>3, <1>4, <1>5 DEF Decode, DecodeCbc

\* A report's answer under another key is an InformProtocolError and nothing
\* else: run_adopted_loop survives every change of keys.
THEOREM GcmWrongKey ==
  ASSUME NEW p \in Packets, NEW key \in Keys, NEW other \in Keys \ {key},
         NEW iv \in Ivs, NEW n \in Nat
  PROVE  Decode(Cut(EncodeGcm(p, key, iv), n), other) = {ProtocolError}
<1> DEFINE w == Cut(EncodeGcm(p, key, iv), n)
<1>1. "gcm" \in w.header.flags /\ w.body.key = key
  BY DEF Cut, EncodeGcm, Wire, Seal, Header, Gcm
<1>2. ~OpensGcm(w, other)
  BY <1>1 DEF OpensGcm
<1> QED
  BY <1>1, <1>2 DEF Decode, DecodeGcm

\* A body that is cut short is an InformProtocolError under any key, sealed
\* either way: no decryption is tried on a part of it.
THEOREM TruncatedIsRefused ==
  ASSUME NEW p \in Packets, NEW key \in Keys, NEW other \in Keys, NEW iv \in Ivs,
         NEW n \in Nat, NEW w \in {EncodeGcm(p, key, iv), EncodeCbc(p, key, iv)},
         n < w.header.len
  PROVE  Decode(Cut(w, n), other) = {ProtocolError}
<1>1. Cut(w, n).present = n /\ Cut(w, n).header = w.header
  BY DEF Cut, EncodeGcm, EncodeCbc, Wire
<1>2. Refused(Cut(w, n))
  BY <1>1 DEF Refused
<1> QED
  BY <1>2 DEF Decode

\* No key and no length make decode return a packet other than the one that
\* was encoded.
THEOREM NothingElse ==
  ASSUME NEW p \in Packets, NEW key \in Keys, NEW other \in Keys, NEW iv \in Ivs,
         NEW n \in Nat, NEW w \in {EncodeGcm(p, key, iv), EncodeCbc(p, key, iv)}
  PROVE  Decode(Cut(w, n), other) \subseteq {p, ProtocolError, Uncaught}
<1>1. Plain(Cut(w, n)) = p
  BY DEF Plain, Cut, EncodeGcm, EncodeCbc, Wire, Seal, Header, Packets
<1> QED
  BY <1>1 DEF Decode, DecodeGcm, DecodeCbc

\* adopt_confirm.py and inform_protocol.py speak to each other: either reads
\* what the other wrote, when its whole body arrives.
THEOREM TwinsAgree ==
  ASSUME NEW p \in Packets, NEW key \in Keys, NEW iv \in Ivs, NEW n \in Nat,
         n >= p.size + TagLength
  PROVE  /\ Decode(Cut(EncodeInformGcm(p, key, iv), n), key) = {p}
         /\ DecodeInformGcm(Cut(EncodeGcm(p, key, iv), n), key) = p.payload
<1> DEFINE w == Cut(EncodeGcm(p, key, iv), n)
<1>1. EncodeInformGcm(p, key, iv) = EncodeGcm(p, key, iv)
  BY DEF EncodeInformGcm, EncodeGcm, GcmEncrypt, Gcm
<1>2. p.size + TagLength \in Nat
  BY DEF Packets, TagLength
<1>3. /\ w.header = Header(p.mac, Gcm, iv, p.size + TagLength)
      /\ w.body = Seal("gcm", key, w.header, p) /\ w.present = n
  BY DEF Cut, EncodeGcm, Wire
<1>4. /\ w.header.magic = "TNBU" /\ w.header.flags = Gcm
      /\ w.header.len = p.size + TagLength /\ w.body.payload = p.payload
  BY <1>3 DEF Header, Seal
<1>5. Verifies(w, key)
  BY <1>2, <1>3, <1>4 DEF Verifies, Taken, OpensGcm, Seal
<1>6. DecodeInformGcm(w, key) = p.payload
  BY <1>4, <1>5 DEF DecodeInformGcm, GcmDecrypt, Gcm
<1> QED
  BY <1>1, <1>6, GcmRoundTrip

\* Whichever calls of libcrypto fail in gcm_ctypes.py, it raises or it is
\* right; the body decrypts only whole and under its own key.
THEOREM CheckedOrRaised ==
  ASSUME NEW p \in Packets, NEW key \in Keys, NEW other \in Keys, NEW iv \in Ivs,
         NEW n \in Nat, NEW fails \in SUBSET EvpCalls,
         RuntimeError # p.payload, ValueError # p.payload
  PROVE  LET w == Cut(EncodeGcm(p, key, iv), n)
             e == Aes128GcmEncrypt(key, w.header, p, fails)
             d == Aes128GcmDecrypt(w, other, fails)
         IN  /\ e \in {RuntimeError, w.body}
             /\ d \in {RuntimeError, ValueError, p.payload}
             /\ d = p.payload => other = key /\ n >= w.header.len /\ fails = {}
<1> DEFINE w == Cut(EncodeGcm(p, key, iv), n)
           d == Aes128GcmDecrypt(w, other, fails)
<1>1. /\ w.body = Seal("gcm", key, w.header, p) /\ w.present = n
      /\ w.header.len = p.size + TagLength
  BY DEF Cut, EncodeGcm, Wire, Header
<1>2. w.body.payload = p.payload /\ w.body.key = key
  BY <1>1 DEF Seal
<1>3. p.size + TagLength \in Nat
  BY DEF Packets, TagLength
<1>4. Aes128GcmEncrypt(key, w.header, p, fails) \in {RuntimeError, w.body}
  BY <1>1 DEF Aes128GcmEncrypt
<1>5. d \in {RuntimeError, ValueError, p.payload}
  BY <1>2 DEF Aes128GcmDecrypt
<1>6. ASSUME d = p.payload PROVE other = key /\ n >= w.header.len /\ fails = {}
  <2>1. fails \ {"final"} = {} /\ "final" \notin fails /\ Verifies(w, other)
    BY <1>6 DEF Aes128GcmDecrypt
  <2>2. fails = {}
    BY <2>1
  <2>3. other = key /\ n >= w.header.len
    BY <1>1, <1>2, <1>3, <2>1 DEF Verifies, OpensGcm, Taken
  <2> QED
    BY <2>2, <2>3
<1> QED
  BY <1>4, <1>5, <1>6

\* What two bytes are read back as is what was written.
LEMMA TwoBytesRoundTrip ==
  ASSUME NEW n \in Nat
  PROVE  D!Number(D!TwoBytes(n)) = n
<1>1. 256 * (n \div 256) + (n % 256) = n
  OBVIOUS
<1> QED
  BY <1>1 DEF D!Number, D!TwoBytes

\* A discovery packet is self-describing: whoever walks its body by the fields'
\* lengths ends where the header's length says the body ends.
THEOREM WalkEndsAtHeader ==
  ASSUME NEW d \in D!Devices, NEW at,
         D!Walks(at, D!Packet(d).body)
  PROVE  at[11] = D!Number(D!Packet(d).length)
<1> DEFINE f == D!Packet(d).body
<1>1. /\ Len(f) = 10
      /\ d.build.len \in Nat /\ d.model.len \in Nat /\ d.short.len \in Nat
  BY DEF D!Packet, D!Fields, D!Devices, D!Texts
<1>2. /\ f[1].length = D!TwoBytes(4) /\ f[2].length = D!TwoBytes(6)
      /\ f[3].length = D!TwoBytes(10) /\ f[4].length = D!TwoBytes(6)
      /\ f[5].length = D!TwoBytes(4) /\ f[6].length = D!TwoBytes(d.build.len)
      /\ f[7].length = D!TwoBytes(d.model.len)
      /\ f[8].length = D!TwoBytes(d.short.len)
      /\ f[9].length = D!TwoBytes(d.model.len)
      /\ f[10].length = D!TwoBytes(1)
  BY DEF D!Packet, D!Fields, D!Tlv, D!Value, D!Text
<1>3. /\ at[1] = 0
      /\ \A i \in 1..10 : at[i + 1] = at[i] + 3 + D!Number(f[i].length)
  BY <1>1 DEF D!Walks
<1>4. /\ at[2] = at[1] + 3 + 4 /\ at[3] = at[2] + 3 + 6
      /\ at[4] = at[3] + 3 + 10 /\ at[5] = at[4] + 3 + 6
      /\ at[6] = at[5] + 3 + 4 /\ at[7] = at[6] + 3 + d.build.len
      /\ at[8] = at[7] + 3 + d.model.len /\ at[9] = at[8] + 3 + d.short.len
      /\ at[10] = at[9] + 3 + d.model.len /\ at[11] = at[10] + 3 + 1
  BY <1>1, <1>2, <1>3, TwoBytesRoundTrip
<1>5. at[11] = D!BodyLength(d) /\ D!BodyLength(d) \in Nat
  BY <1>1, <1>3, <1>4 DEF D!BodyLength
<1> QED
  BY <1>5, TwoBytesRoundTrip DEF D!Packet

LEMMA TwoBytesFit ==
  ASSUME NEW n \in Nat, n <= 65535
  PROVE  D!TwoBytes(n).hi \in 0..255 /\ D!TwoBytes(n).lo \in 0..255
<1>1. n \div 256 \in 0..255 /\ n % 256 \in 0..255
  OBVIOUS
<1> QED
  BY <1>1 DEF D!TwoBytes

\* Either building a discovery packet raises, or each of its length fields, the
\* header's too, is made of bytes: none is cut off silently.
THEOREM LengthsFit ==
  ASSUME NEW d \in D!Devices, ~D!Raises(d)
  PROVE  \A l \in {D!Packet(d).length} \cup {D!Packet(d).body[i].length : i \in 1..10} :
           l.hi \in 0..255 /\ l.lo \in 0..255
<1> DEFINE Fits(n) == D!TwoBytes(n).hi \in 0..255 /\ D!TwoBytes(n).lo \in 0..255
<1>1. /\ d.build.len \in Nat /\ d.model.len \in Nat /\ d.short.len \in Nat
  BY DEF D!Devices, D!Texts
<1>2. /\ d.build.len <= 65535 /\ d.model.len <= 65535 /\ d.short.len <= 65535
      /\ D!BodyLength(d) \in Nat /\ D!BodyLength(d) <= 65535
  BY <1>1 DEF D!Raises, D!BodyLength
<1>3. /\ Fits(1) /\ Fits(4) /\ Fits(6) /\ Fits(10)
      /\ Fits(d.build.len) /\ Fits(d.model.len) /\ Fits(d.short.len)
      /\ Fits(D!BodyLength(d))
  <2>1. \A n \in Nat : n <= 65535 => Fits(n)
    BY TwoBytesFit
  <2> HIDE DEF Fits
  <2>2. Fits(1) /\ Fits(4) /\ Fits(6) /\ Fits(10)
    BY <2>1
  <2>3. Fits(d.build.len) /\ Fits(d.model.len) /\ Fits(d.short.len) /\ Fits(D!BodyLength(d))
    BY <1>1, <1>2, <2>1
  <2> QED
    BY <2>2, <2>3
<1>4. \A i \in 1..10 :
        D!Packet(d).body[i].length \in
          {D!TwoBytes(4), D!TwoBytes(6), D!TwoBytes(10), D!TwoBytes(1),
           D!TwoBytes(d.build.len), D!TwoBytes(d.model.len), D!TwoBytes(d.short.len)}
  BY DEF D!Packet, D!Fields, D!Tlv, D!Value, D!Text
<1>5. D!Packet(d).length = D!TwoBytes(D!BodyLength(d))
  BY DEF D!Packet
<1> QED
  BY <1>3, <1>4, <1>5
=============================================================================
