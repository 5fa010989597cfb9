-------------------------------- MODULE Wire --------------------------------
(***************************************************************************)
(* The bytes below the backed stream: the nonce of crates/et-proto/src/    *)
(* crypto.rs, the packet layout of packet.rs and the two frame formats of  *)
(* framing.rs.                                                             *)
(*                                                                         *)
(* A byte is a number below BYTE.  A ciphertext is the message, the nonce  *)
(* it was sealed with and its length; the cipher opens it under that nonce *)
(* and no other.  Lengths have LEN_BYTES digits, nonces NONCE_BYTES.       *)
(***************************************************************************)
EXTENDS Integers, Sequences, SequencesExt

CONSTANTS BYTE, NONCE_BYTES, MAC_BYTES, LEN_BYTES, MAX_LENGTH

ASSUME WireAssumption ==
    /\ BYTE \in Nat \ {0, 1} /\ NONCE_BYTES \in Nat \ {0, 1}
    /\ MAC_BYTES \in Nat \ {0} /\ LEN_BYTES \in Nat \ {0}
    /\ MAX_LENGTH \in 0 .. (BYTE^LEN_BYTES \div 2) - 1

-----------------------------------------------------------------------------
(* CryptoHandler. *)

\* CryptoHandler::new: zero but for the last byte, the direction.
NewNonce(nonce_msb) == [i \in 1 .. NONCE_BYTES |-> IF i = NONCE_BYTES THEN nonce_msb ELSE 0]

\* increment_nonce: bytes from the first wrap to zero until one does not.
Increment(nonce) ==
    LET i == CHOOSE i \in 1 .. NONCE_BYTES + 1 :
                /\ i = NONCE_BYTES + 1 \/ nonce[i] # BYTE - 1
                /\ \A j \in 1 .. i - 1 : nonce[j] = BYTE - 1
    IN  [j \in 1 .. NONCE_BYTES |-> IF j < i THEN 0 ELSE IF j = i THEN nonce[j] + 1 ELSE nonce[j]]

\* The nonce of the n-th operation of a handler.
NonceAfter(n, nonce_msb) == FoldLeft(LAMBDA nonce, i : Increment(nonce), NewNonce(nonce_msb),
                                     [i \in 1 .. n |-> i])

\* encrypt(): the handler moves on, then seals.
Seal(nonce, msg) == [nonce |-> Increment(nonce), msg |-> msg, len |-> MAC_BYTES + Len(msg)]

\* Mutant: the nonce advances before the length is looked at.
OpenAdvancesFirst(nonce, c) ==
    LET next == Increment(nonce)
    IN  IF c.len >= MAC_BYTES /\ c.nonce = next THEN [nonce |-> next, result |-> <<c.msg>>]
        ELSE [nonce |-> next, result |-> <<>>]

\* decrypt(): a ciphertext shorter than the MAC is refused before the nonce
\* advances; any other advances it, whether it opens or not.
Open(nonce, c) ==
    LET next == Increment(nonce)
    IN  IF c.len < MAC_BYTES THEN [nonce |-> nonce, result |-> <<>>]
        ELSE IF c.nonce = next THEN [nonce |-> next, result |-> <<c.msg>>]
        ELSE [nonce |-> next, result |-> <<>>]

-----------------------------------------------------------------------------
(* Packet. *)

Flag(encrypted) == IF encrypted THEN 1 ELSE 0

Serialize(p) == <<Flag(p.encrypted), p.header>> \o p.payload

\* Packet::parse: <<>> stands for None.
Parse(bytes) ==
    IF Len(bytes) < 2 THEN <<>>
    ELSE <<[encrypted |-> bytes[1] # 0, header |-> bytes[2], payload |-> SubSeq(bytes, 3, Len(bytes))]>>

-----------------------------------------------------------------------------
(* Frames.  read_exact takes the bytes or, when the stream ends first, the   *)
(* read fails with Closed.                                                   *)

LittleEndian(n) == [i \in 1 .. LEN_BYTES |-> (n \div BYTE^(i - 1)) % BYTE]
BigEndian(n)    == Reverse(LittleEndian(n))

Unsigned(le) == FoldLeft(LAMBDA a, i : a + le[i] * BYTE^(i - 1), 0, [i \in 1 .. LEN_BYTES |-> i])
Signed(le)   == LET n == Unsigned(le) IN IF 2 * n < BYTE^LEN_BYTES THEN n ELSE n - BYTE^LEN_BYTES

Err(kind) == [ok |-> FALSE, error |-> kind]

\* The body of the given length after the length prefix.
ReadBody(stream, len) ==
    IF LEN_BYTES + len > Len(stream) THEN Err("Closed")
    ELSE [ok |-> TRUE, body |-> SubSeq(stream, LEN_BYTES + 1, LEN_BYTES + len),
          rest |-> SubSeq(stream, LEN_BYTES + len + 1, Len(stream))]

\* Mutant: the two ends disagree on the byte order.
WriteFramedPacketLittle(p) == LittleEndian(Len(Serialize(p))) \o Serialize(p)

\* read_proto_frame: i64 LE, 0 ..= max_len.
ReadProtoFrame(stream) ==
    IF Len(stream) < LEN_BYTES THEN Err("Closed")
    ELSE LET len == Signed(SubSeq(stream, 1, LEN_BYTES))
         IN  IF len \notin 0 .. MAX_LENGTH THEN Err("InvalidLength") ELSE ReadBody(stream, len)

WriteProtoFrame(bytes) == LittleEndian(Len(bytes)) \o bytes

\* read_framed_packet: u32 BE, at most max_len, then Packet::parse.
ReadFramedPacket(stream) ==
    IF Len(stream) < LEN_BYTES THEN Err("Closed")
    ELSE LET len  == Unsigned(Reverse(SubSeq(stream, 1, LEN_BYTES)))
             body == ReadBody(stream, len)
         IN  IF len > MAX_LENGTH THEN Err("InvalidLength")
             ELSE IF ~body.ok THEN body
             ELSE IF Parse(body.body) = <<>> THEN Err("InvalidPacket")
             ELSE [ok |-> TRUE, body |-> Parse(body.body)[1], rest |-> body.rest]

WriteFramedPacket(p) == BigEndian(Len(Serialize(p))) \o Serialize(p)

=============================================================================
