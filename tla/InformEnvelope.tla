---------------------------- MODULE InformEnvelope ----------------------------
(***************************************************************************)
(* encode and decode of north_adapter/inform_protocol.py.  Ciphers are       *)
(* perfect: a body opens under the key, IV and length it was sealed with,    *)
(* and a GCM body under the header it was sealed with.                      *)
(*                                                                         *)
(* decode has three kinds of outcome, and the loops of bridge_daemon.py tell *)
(* them apart: a packet; an InformProtocolError, after which they go round;  *)
(* any other exception, which ends the bridge's thread.                     *)
(*                                                                         *)
(* adopt_confirm.py has an encoder and a decoder of its own, over the C     *)
(* library, and gcm_ctypes.py the same calls once more, each of them        *)
(* checked.                                                                *)
(***************************************************************************)
EXTENDS Naturals

CONSTANTS
  Macs,            \* device addresses, as mac_to_str writes them
  Payloads, Ivs,
  Keys,            \* 16-byte keys, the default key among them
  ProtocolError,   \* InformProtocolError
  Uncaught,        \* any other exception
  ValueError, RuntimeError   \* of adopt_confirm.py and gcm_ctypes.py

\* size: the bytes of the payload as JSON.
Packets == [mac : Macs, payload : Payloads, size : Nat]

Encrypted == {"encrypted"}
Gcm       == {"encrypted", "gcm"}

TagLength == 16

\* PKCS7 always pads, to a multiple of the block size.
Padded(n) == 16 * (n \div 16 + 1)

\* The header, which GCM authenticates.
Header(mac, flags, iv, len) ==
  [magic |-> "TNBU", mac |-> mac, flags |-> flags, iv |-> iv, len |-> len]

\* A sealed body, and what it takes to open it.
Seal(mode, key, header, p) ==
  [mode |-> mode, key |-> key, header |-> header, payload |-> p.payload, size |-> p.size]

\* A wire packet: present is how many bytes follow the header.
Wire(header, body, present) == [header |-> header, body |-> body, present |-> present]

\* encode with gcm = True, and without.
EncodeGcm(p, key, iv) ==
  LET h == Header(p.mac, Gcm, iv, p.size + TagLength)
  IN  Wire(h, Seal("gcm", key, h, p), h.len)

EncodeCbc(p, key, iv) ==
  LET h == Header(p.mac, Encrypted, iv, Padded(p.size))
  IN  Wire(h, Seal("cbc", key, h, p), h.len)

\* The checks before anything is decrypted.
Refused(w) ==
  \/ w.header.magic # "TNBU"
  \/ "encrypted" \notin w.header.flags
  \/ w.header.flags \cap {"zlib", "snappy"} # {}
  \/ w.present < w.header.len

Plain(w) == [mac |-> w.header.mac, payload |-> w.body.payload, size |-> w.body.size]

\* Does the body open under the key?
OpensGcm(w, key) == w.body.mode = "gcm" /\ w.body.key = key /\ w.body.header = w.header
OpensCbc(w, key) ==
  /\ w.body.mode = "cbc" /\ w.body.key = key
  /\ w.body.header.iv = w.header.iv /\ w.body.header.len = w.header.len

DecodeGcm(w, key) == IF OpensGcm(w, key) THEN {Plain(w)} ELSE {ProtocolError}

\* A length that is no multiple of the block raises in the decryptor, outside
\* the try.  A body of noise has a bad padding, mostly; if it has not, it is no
\* JSON, which raises as well.
DecodeCbc(w, key) ==
  IF w.header.len % 16 # 0 THEN {Uncaught}
  ELSE IF OpensCbc(w, key) THEN {Plain(w)} ELSE {ProtocolError, Uncaught}

\* The possible outcomes of decode.
Decode(w, key) ==
  IF Refused(w) THEN {ProtocolError}
  ELSE IF "gcm" \in w.header.flags THEN DecodeGcm(w, key) ELSE DecodeCbc(w, key)

\* The packet with n bytes of its body arriving: fewer than were sent, or
\* more, when something follows it.
Cut(w, n) == [w EXCEPT !.present = n]
-----------------------------------------------------------------------------
\* The calls of libcrypto that gcm_ctypes.py makes, in order; fails, below, are
\* those that fail.
EvpCalls == {"new", "select", "ivlen", "key", "aad", "update", "final", "tag"}

\* aes_128_gcm_encrypt and aes_128_gcm_decrypt: every call is checked.  Only a
\* failed verification is told apart.
Aes128GcmEncrypt(key, header, p, fails) ==
  IF fails = {} THEN Seal("gcm", key, header, p) ELSE RuntimeError

\* The bytes of w's body that are handed over: wire[40:40 + data_len].
Taken(w) == IF w.present < w.header.len THEN w.present ELSE w.header.len

Verifies(w, key) == OpensGcm(w, key) /\ Taken(w) = w.header.len

Aes128GcmDecrypt(w, key, fails) ==
  IF Taken(w) < TagLength THEN ValueError
  ELSE IF fails \ {"final"} # {} THEN RuntimeError
  ELSE IF "final" \in fails \/ ~Verifies(w, key) THEN ValueError
  ELSE w.body.payload

\* gcm_encrypt and gcm_decrypt, which look at the verification's return code and
\* at no other: what a call that failed leaves in the buffers is the library's
\* matter, and here none fails.
GcmEncrypt(key, header, p) == Seal("gcm", key, header, p)
GcmDecrypt(w, key)         == IF Verifies(w, key) THEN w.body.payload ELSE ValueError

EncodeInformGcm(p, key, iv) ==
  LET h == Header(p.mac, {"encrypted", "gcm"}, iv, p.size + TagLength)
  IN  Wire(h, GcmEncrypt(key, h, p), h.len)

\* A payload that is compressed, or sealed, is no JSON: a ValueError as well.
DecodeInformGcm(w, key) ==
  IF w.header.magic # "TNBU" THEN ValueError
  ELSE IF "encrypted" \notin w.header.flags
       THEN IF w.body.mode = "plain" /\ Taken(w) = w.header.len
            THEN w.body.payload ELSE ValueError
  ELSE IF "gcm" \notin w.header.flags \/ w.header.flags \cap {"zlib", "snappy"} # {}
       THEN ValueError
  ELSE GcmDecrypt(w, key)
=============================================================================
