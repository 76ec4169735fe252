-------------------------------- MODULE PayloadV1 --------------------------------
(***************************************************************************)
(* The payload of a version 1 message before encryption                    *)
(* (src/lib/waku_message/version_1.ts, clearEncode and clearDecode):       *)
(*                                                                         *)
(*      flags | size of the payload | payload | padding [ | signature ]    *)
(*                                                                         *)
(* The low bits of the flags byte say how many bytes the size takes.  A    *)
(* buffer is the record of its parts; the bytes of the payload and of the  *)
(* padding are abstract, their lengths and what the flags say are not.     *)
(***************************************************************************)
EXTENDS Naturals

CONSTANTS
    NoSigner,  \* sigPrivKey is not given; no public key is recovered
    Garbled,   \* bytes that are not what was put in
    Failed     \* clearDecode returns undefined

FlagsLength == 1
IsSignedMask == 4
PaddingTarget == 256
SignatureLength == 65

(* The lengths of payload that a Buffer can have. *)
MaxLength == 2147483647
Length == 0 .. MaxLength

(* flags & FlagMask, and flags & and | IsSignedMask, for flags below 8. *)
Masked(flags) == flags % 4
IsSigned(flags) == flags >= IsSignedMask
SetSigned(flags) == IF IsSigned(flags) THEN flags ELSE flags + IsSignedMask

(* The bytes that n takes, one at least. *)
SizeOfSizeField(n) ==
    IF n < 256 THEN 1 ELSE IF n < 65536 THEN 2 ELSE IF n < 16777216 THEN 3 ELSE 4

(* The number in the first width of the four bytes of n, lowest first. *)
Truncated(n, width) ==
    CASE width = 1 -> n % 256
      [] width = 2 -> n % 65536
      [] width = 3 -> n % 16777216
      [] OTHER -> n

PaddingSize(rawSize) == PaddingTarget - (rawSize % PaddingTarget)

RawSize(n, signer) ==
    FlagsLength + SizeOfSizeField(n) + n + (IF signer = NoSigner THEN 0 ELSE SignatureLength)

(* The buffer before it is signed.  A size field of four bytes sets the bit *)
(* of the signed ones.                                                      *)
Envelope(payload, n, signer) ==
    [flags   |-> SizeOfSizeField(n),
     width   |-> SizeOfSizeField(n),
     size    |-> Truncated(n, SizeOfSizeField(n)),
     payload |-> payload,
     length  |-> n,
     padding |-> PaddingSize(RawSize(n, signer))]

(* Mutant of Signed: the bit is set after the hash is taken. *)
SignedBeforeFlag(envelope, signer) ==
    [envelope  |-> [envelope EXCEPT !.flags = SetSigned(@)],
     signature |-> [by |-> signer, over |-> envelope]]

(* The buffer with its flag set and the signature over all of it. *)
Signed(envelope, signer) ==
    LET flagged == [envelope EXCEPT !.flags = SetSigned(@)] IN
    [envelope |-> flagged, signature |-> [by |-> signer, over |-> flagged]]

ClearEncode(payload, n, signer) ==
    LET envelope == Envelope(payload, n, signer) IN
    IF signer = NoSigner
    THEN [envelope |-> envelope, signature |-> [by |-> NoSigner, over |-> envelope]]
    ELSE Signed(envelope, signer)

(* The bytes that the size and the offset read name. *)
Slice(envelope, width, size) ==
    IF width = envelope.width /\ size = envelope.length THEN envelope.payload ELSE Garbled

(* The key that made the signature, if it was made over these bytes. *)
Recover(envelope, signature) ==
    IF signature.over = envelope THEN signature.by ELSE Garbled

ClearDecode(message) ==
    LET envelope == message.envelope
        width    == Masked(envelope.flags)
    IN  IF width = 0 THEN Failed
        ELSE [payload |-> Slice(envelope, width, Truncated(envelope.size, width)),
              signaturePublicKey |->
                  IF IsSigned(envelope.flags) THEN Recover(envelope, message.signature)
                  ELSE NoSigner]

=============================================================================
