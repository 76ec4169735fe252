--------------------------- MODULE MessageCodecProofs ---------------------------
(***************************************************************************)
(* Theorems about PayloadV1, Sealing, WakuProto and MessageCodec: every    *)
(* message of every type survives the wire, whatever encoding of it a peer *)
(* chooses, and what is written can be read by those and only those who    *)
(* should, for every length of payload.                                    *)
(***************************************************************************)
EXTENDS MessageCodec, SequenceTheorems, TLAPS

(* The largest length whose size clearDecode can read, plus one: 2^24. *)
Limit == 16777216

(* Below the limit the size field has one to three bytes, which its flags   *)
(* say, and holds the whole length.                                         *)
LEMMA SizeFieldHolds ==
    ASSUME NEW n \in Nat, n < Limit
    PROVE  /\ SizeOfSizeField(n) \in 1 .. 3
           /\ Truncated(n, SizeOfSizeField(n)) = n
  <1>1. CASE n < 256
    BY <1>1 DEF SizeOfSizeField, Truncated
  <1>2. CASE n >= 256 /\ n < 65536
    BY <1>2 DEF SizeOfSizeField, Truncated
  <1>3. CASE n >= 65536
    BY <1>3 DEF SizeOfSizeField, Truncated, Limit
  <1> QED
    BY <1>1, <1>2, <1>3

(* Reading back a size that was written changes nothing. *)
LEMMA TruncatedTwice ==
    ASSUME NEW n \in Nat, n < Limit
    PROVE  Truncated(Truncated(n, SizeOfSizeField(n)), SizeOfSizeField(n)) = n
  BY SizeFieldHolds

(* The flags of a size field that fits, signed or not. *)
LEMMA Flags ==
    ASSUME NEW width \in 1 .. 3
    PROVE  /\ Masked(width) = width /\ ~IsSigned(width)
           /\ Masked(SetSigned(width)) = width /\ IsSigned(SetSigned(width))
  BY DEF Masked, IsSigned, SetSigned, IsSignedMask

(* The padding is never empty and fills the buffer up to a multiple of 256, *)
(* signature included.                                                      *)
THEOREM PaddingFills ==
    ASSUME NEW n \in Nat, NEW signer
    PROVE  /\ PaddingSize(RawSize(n, signer)) \in 1 .. PaddingTarget
           /\ (RawSize(n, signer) + PaddingSize(RawSize(n, signer))) % PaddingTarget = 0
  <1>1. RawSize(n, signer) \in Nat
    BY DEF RawSize, SizeOfSizeField, FlagsLength, SignatureLength
  <1>2. \A r \in Nat : /\ 256 - (r % 256) \in 1 .. 256
                       /\ (r + (256 - (r % 256))) % 256 = 0
    OBVIOUS
  <1> QED
    BY <1>1, <1>2 DEF PaddingSize, PaddingTarget

(* clearDecode reads back what clearEncode wrote, the payload and the key   *)
(* that signed it, for every payload below 2^24 bytes.                      *)
THEOREM ClearRoundTrip ==
    ASSUME NEW payload, NEW signer, NEW n \in Nat, n < Limit
    PROVE  ClearDecode(ClearEncode(payload, n, signer)) =
              [payload |-> payload, signaturePublicKey |-> signer]
  <1> DEFINE w == SizeOfSizeField(n)
             envelope == Envelope(payload, n, signer)
             flagged == [envelope EXCEPT !.flags = SetSigned(@)]
  <1>1. w \in 1 .. 3 /\ Truncated(n, w) = n
    BY SizeFieldHolds
  <1>2. envelope = [flags |-> w, width |-> w, size |-> n, payload |-> payload, length |-> n,
                    padding |-> PaddingSize(RawSize(n, signer))]
    BY <1>1 DEF Envelope
  <1>3. CASE signer = NoSigner
    <2>1. ClearEncode(payload, n, signer).envelope = envelope
      BY <1>3 DEF ClearEncode
    <2>2. Masked(envelope.flags) = w /\ ~IsSigned(envelope.flags) /\ w # 0
      BY <1>1, <1>2, Flags
    <2>3. Slice(envelope, w, Truncated(envelope.size, w)) = payload
      BY <1>1, <1>2 DEF Slice
    <2> QED
      BY <1>3, <2>1, <2>2, <2>3 DEF ClearDecode
  <1>4. CASE signer # NoSigner
    <2>1. /\ ClearEncode(payload, n, signer).envelope = flagged
          /\ ClearEncode(payload, n, signer).signature = [by |-> signer, over |-> flagged]
      BY <1>4 DEF ClearEncode, Signed
    <2>2. /\ flagged.flags = SetSigned(w) /\ flagged.width = w /\ flagged.size = n
          /\ flagged.payload = payload /\ flagged.length = n
      BY <1>2
    <2>3. Masked(flagged.flags) = w /\ IsSigned(flagged.flags) /\ w # 0
      BY <1>1, <2>2, Flags
    <2>4. Slice(flagged, w, Truncated(flagged.size, w)) = payload
      BY <1>1, <2>2 DEF Slice
    <2>5. Recover(flagged, [by |-> signer, over |-> flagged]) = signer
      BY DEF Recover
    <2> HIDE DEF flagged, envelope, w
    <2> QED
      BY <2>1, <2>3, <2>4, <2>5 DEF ClearDecode
  <1> QED
    BY <1>3, <1>4

(* A payload of 2^24 bytes or more is encoded, signed or not, and its size  *)
(* field says zero bytes: clearDecode returns undefined.                    *)
THEOREM LongPayloadLost ==
    ASSUME NEW payload, NEW signer, NEW n \in Nat, n >= Limit
    PROVE  ClearDecode(ClearEncode(payload, n, signer)) = Failed
  <1>1. SizeOfSizeField(n) = 4
    BY DEF SizeOfSizeField, Limit
  <1>2. Masked(4) = 0 /\ SetSigned(4) = 4
    BY DEF Masked, SetSigned, IsSigned, IsSignedMask
  <1>3. ClearEncode(payload, n, signer).envelope.flags = 4
    BY <1>1, <1>2 DEF ClearEncode, Signed, Envelope
  <1> QED
    BY <1>2, <1>3 DEF ClearDecode

-----------------------------------------------------------------------------
(* Encryption *)

(* A concatenation, and all but the last, told by their elements. *)
LEMMA ConcatIs ==
    ASSUME NEW S, NEW p \in Seq(S), NEW q \in Seq(S), NEW r \in Seq(S),
           Len(r) = Len(p) + Len(q),
           \A i \in 1 .. Len(p) : r[i] = p[i],
           \A i \in 1 .. Len(q) : r[Len(p) + i] = q[i]
    PROVE  p \o q = r
<1>1. p \o q \in Seq(S) /\ Len(p \o q) = Len(p) + Len(q)
  BY ConcatProperties
<1>2. \A i \in 1 .. Len(p) + Len(q) : (p \o q)[i] = IF i <= Len(p) THEN p[i] ELSE q[i - Len(p)]
  BY ConcatProperties
<1>3. Len(p) \in Nat /\ Len(q) \in Nat
  OBVIOUS
<1>4. ASSUME NEW i \in 1 .. Len(p \o q) PROVE (p \o q)[i] = r[i]
  <2>1. CASE i <= Len(p)
    BY <1>1, <1>2, <1>3, <2>1
  <2>2. CASE ~(i <= Len(p))
    <3>1. i - Len(p) \in 1 .. Len(q) /\ Len(p) + (i - Len(p)) = i
      BY <1>1, <1>3, <2>2
    <3> QED BY <1>1, <1>2, <2>2, <3>1
  <2> QED BY <2>1, <2>2
<1> QED BY <1>1, <1>4, SeqEqual

LEMMA FrontIs ==
    ASSUME NEW S, NEW s \in Seq(S), NEW p \in Seq(S), Len(s) = Len(p) + 1,
           \A i \in 1 .. Len(p) : s[i] = p[i]
    PROVE  Front(s) = p
<1>1. Len(s) \in Nat /\ Len(p) \in Nat /\ Len(s) - 1 = Len(p)
  OBVIOUS
<1>2. \A i \in 1 .. Len(p) : s[i] \in S
  BY <1>1
<1>3. /\ SubSeq(s, 1, Len(p)) \in Seq(S)
      /\ Len(SubSeq(s, 1, Len(p))) = Len(p)
      /\ \A i \in 1 .. Len(p) : SubSeq(s, 1, Len(p))[i] = p[i]
  BY <1>1, <1>2, SubSeqProperties
<1>4. SubSeq(s, 1, Len(p)) = p
  BY <1>1, <1>3, SeqEqual
<1> QED BY <1>1, <1>4 DEF Front

(* Parts are put together and taken apart.                                  *)
Joined(x, y, z) ==
    /\ <<x>> \o <<y>> = <<x, y>> /\ <<x, y>> \o <<z>> = <<x, y, z>>
    /\ Front(<<x, y>>) = <<x>> /\ Last(<<x, y>>) = y
    /\ Front(<<x, y, z>>) = <<x, y>> /\ Last(<<x, y, z>>) = z
    /\ Len(<<x, y, z>>) = 3

LEMMA Parts == ASSUME NEW x, NEW y, NEW z PROVE Joined(x, y, z)
<1> DEFINE S == {x, y, z}
           one == <<x>>
           other == <<y>>
           last == <<z>>
           two == <<x, y>>
           three == <<x, y, z>>
<1>1. /\ one \in Seq(S) /\ other \in Seq(S) /\ last \in Seq(S)
      /\ two \in Seq(S) /\ three \in Seq(S)
  OBVIOUS
<1>2. /\ Len(one) = 1 /\ Len(other) = 1 /\ Len(last) = 1 /\ Len(two) = 2 /\ Len(three) = 3
      /\ one[1] = x /\ other[1] = y /\ last[1] = z /\ two[1] = x /\ two[2] = y
      /\ three[1] = x /\ three[2] = y /\ three[3] = z
  OBVIOUS
<1> HIDE DEF S, one, other, last, two, three
<1>3. one \o other = two
  <2>1. \A i \in 1 .. Len(one) : two[i] = one[i]
    BY <1>2
  <2>2. \A i \in 1 .. Len(other) : two[Len(one) + i] = other[i]
    BY <1>2
  <2>3. Len(two) = Len(one) + Len(other)
    BY <1>2
  <2> QED BY <1>1, <2>1, <2>2, <2>3, ConcatIs
<1>4. two \o last = three
  <2>1. \A i \in 1 .. Len(two) : three[i] = two[i]
    BY <1>2
  <2>2. \A i \in 1 .. Len(last) : three[Len(two) + i] = last[i]
    BY <1>2
  <2>3. Len(three) = Len(two) + Len(last)
    BY <1>2
  <2> QED BY <1>1, <2>1, <2>2, <2>3, ConcatIs
<1>5. Front(two) = one
  <2>1. Len(two) = Len(one) + 1 /\ \A i \in 1 .. Len(one) : two[i] = one[i]
    BY <1>2
  <2> QED BY <1>1, <2>1, FrontIs
<1>6. Front(three) = two
  <2>1. Len(three) = Len(two) + 1 /\ \A i \in 1 .. Len(two) : three[i] = two[i]
    BY <1>2
  <2> QED BY <1>1, <2>1, FrontIs
<1>7. Last(two) = y /\ Last(three) = z
  BY <1>2 DEF Last
<1> QED BY <1>2, <1>3, <1>4, <1>5, <1>6, <1>7 DEF Joined, one, other, last, two, three

(* The two symmetric modules lay out what they encrypt alike. *)
LEMMA SymmetricLayout ==
    ASSUME NEW module \in {Browser, Node}, NEW data, NEW key
    PROVE  EncryptSymmetric(module, data, key) =
              <<CipherText(key, Iv, data), Tag(CipherText(key, Iv, data)), Iv>>
<1> DEFINE c == CipherText(key, Iv, data)
           t == Tag(c)
<1>1. <<c, t>> \o <<Iv>> = <<c, t, Iv>> /\ <<c>> \o <<t>> = <<c, t>>
  <2> HIDE DEF c, t
  <2>1. Joined(c, t, Iv)
    BY Parts
  <2> QED BY <2>1 DEF Joined
<1>2. CASE module = Browser
  BY <1>1, <1>2 DEF EncryptSymmetric, BrowserEncrypt, Browser, Node
<1>3. CASE module = Node
  BY <1>1, <1>3 DEF EncryptSymmetric, NodeEncrypt, Browser, Node
<1> QED BY <1>2, <1>3

(* Either symmetric module opens what either made, with its key.            *)
LEMMA OpensSymmetric ==
    ASSUME NEW module \in {Undefined, Browser, Node}, NEW data, NEW key, NEW k,
           data # Rejected
    PROVE  Decrypt(module, <<CipherText(key, Iv, data), Tag(CipherText(key, Iv, data)), Iv>>, k) =
              IF module # Undefined /\ k = key THEN data ELSE Rejected
<1> DEFINE c == CipherText(key, Iv, data)
           t == Tag(c)
           s == <<c, t, Iv>>
<1>1. Len(s) = 3 /\ Last(s) = Iv /\ Front(s) = <<c, t>>
  <2> HIDE DEF c, t
  <2>1. Joined(c, t, Iv)
    BY Parts
  <2> QED BY <2>1 DEF Joined
<1>2. Front(<<c, t>>)[1] = c /\ Last(<<c, t>>) = t /\ <<c, t>>[1] = c /\ <<c, t>>[2] = t
  <2> HIDE DEF c, t
  <2>1. Joined(c, t, Iv)
    BY Parts
  <2> QED BY <2>1 DEF Joined
<1>3. Authenticated(c, t, Iv, k) = IF k = key THEN data ELSE Rejected
  BY DEF Authenticated, CipherText
<1>4. DecryptAsymmetric(s, k) = Rejected
  BY <1>1 DEF DecryptAsymmetric
<1> HIDE DEF c, t, s
<1>5. DecryptSymmetric(module, s, k) =
         IF module # Undefined /\ k = key THEN data ELSE Rejected
  <2>1. CASE module = Browser
    BY <1>1, <1>2, <1>3, <2>1, ValuesAssumption DEF DecryptSymmetric, BrowserDecrypt, Browser, Node
  <2>2. CASE module = Node
    BY <1>1, <1>2, <1>3, <2>2, ValuesAssumption DEF DecryptSymmetric, NodeDecrypt, Browser, Node
  <2>3. CASE module = Undefined
    BY <2>3, ValuesAssumption DEF DecryptSymmetric
  <2> QED BY <2>1, <2>2, <2>3
<1>6. Decrypt(module, s, k) = IF module # Undefined /\ k = key THEN data ELSE Rejected
  BY <1>4, <1>5 DEF Decrypt
<1> QED BY <1>6 DEF c, t, s

(* The private key opens what its public key encrypted, whichever module    *)
(* is asked first.                                                          *)
LEMMA OpensAsymmetric ==
    ASSUME NEW module, NEW data, NEW key, NEW k
    PROVE  Decrypt(module, EncryptAsymmetric(data, key), k) = IF k = key THEN data ELSE Rejected
<1> DEFINE c == CipherText(key, "ecies", data)
<1>1. Len(<<c>>) = 1 /\ <<c>>[1] = c
  <2> HIDE DEF c
  <2> QED OBVIOUS
<1>2. c.iv = "ecies" /\ c.key = key /\ c.data = data
  BY DEF CipherText
<1> HIDE DEF c
<1>3. DecryptSymmetric(module, <<c>>, k) = Rejected
  BY <1>1 DEF DecryptSymmetric
<1>4. DecryptAsymmetric(<<c>>, k) = IF k = key THEN data ELSE Rejected
  BY <1>1, <1>2 DEF DecryptAsymmetric
<1> QED BY <1>3, <1>4 DEF Decrypt, EncryptAsymmetric, c

-----------------------------------------------------------------------------
(* Protobuf, depth by depth *)

(* ProtobufProofs at each depth of WakuProto: in a type of depth 0 messages *)
(* would be embedded as they are.                                           *)
Anything(T, m) == TRUE

P0 == INSTANCE ProtobufProofs WITH
    SubEncode <- Itself, SubDecode <- Itself, SubThrows <- Never,
    SubToJSON <- Itself, SubFromJSON <- Itself, SubFromPartial <- Itself,
    SubIs <- Anything, SubPartial <- Anything, SubKept <- Itself

P1 == INSTANCE ProtobufProofs WITH
    SubEncode <- Depth0!Encode, SubDecode <- Depth0!Decode, SubThrows <- Depth0!Throws,
    SubToJSON <- Depth0!ToJSON,
    SubFromJSON <- Depth0!FromJSON, SubFromPartial <- Depth0!FromPartial,
    SubIs <- P0!Is, SubPartial <- P0!Partial, SubKept <- P0!Kept

P2 == INSTANCE ProtobufProofs WITH
    SubEncode <- Depth1!Encode, SubDecode <- Depth1!Decode, SubThrows <- Depth1!Throws,
    SubToJSON <- Depth1!ToJSON,
    SubFromJSON <- Depth1!FromJSON, SubFromPartial <- Depth1!FromPartial,
    SubIs <- P1!Is, SubPartial <- P1!Partial, SubKept <- P1!Kept

P3 == INSTANCE ProtobufProofs WITH
    SubEncode <- Depth2!Encode, SubDecode <- Depth2!Decode, SubThrows <- Depth2!Throws,
    SubToJSON <- Depth2!ToJSON,
    SubFromJSON <- Depth2!FromJSON, SubFromPartial <- Depth2!FromPartial,
    SubIs <- P2!Is, SubPartial <- P2!Partial, SubKept <- P2!Kept

(* Its theorems are about the functions of that depth. *)
LEMMA Same0 ==
    ASSUME NEW T, NEW x
    PROVE  /\ P0!Encode(T, x) = Depth0!Encode(T, x)
           /\ P0!Decode(T, x) = Depth0!Decode(T, x)
           /\ P0!ToJSON(T, x) = Depth0!ToJSON(T, x)
           /\ P0!FromJSON(T, x) = Depth0!FromJSON(T, x)
           /\ P0!FromPartial(T, x) = Depth0!FromPartial(T, x)
<1>1. P0!Encode(T, x) = Depth0!Encode(T, x)
  BY DEF P0!Encode, P0!EncodeField, P0!FlattenSeq,
         Depth0!Encode, Depth0!EncodeField, Depth0!FlattenSeq
<1>2. P0!Decode(T, x) = Depth0!Decode(T, x)
  BY DEF P0!Decode, P0!DecodeField, P0!Names, P0!FieldOf, P0!Occurrences, P0!FlattenSeq,
         P0!Chosen, P0!Last,
         Depth0!Decode, Depth0!DecodeField, Depth0!Names, Depth0!FieldOf,
         Depth0!Occurrences, Depth0!FlattenSeq, Depth0!Chosen, Depth0!Last
<1>3. P0!ToJSON(T, x) = Depth0!ToJSON(T, x)
  BY DEF P0!ToJSON, P0!ScalarToJSON, P0!EnumToJSON, P0!Base64, P0!Names, P0!FieldOf,
         Depth0!ToJSON, Depth0!ScalarToJSON, Depth0!EnumToJSON, Depth0!Base64,
         Depth0!Names, Depth0!FieldOf
<1>4. P0!FromJSON(T, x) = Depth0!FromJSON(T, x)
  BY DEF P0!FromJSON, P0!ScalarFromJSON, P0!EnumFromJSON, P0!FromBase64, P0!Names,
         P0!FieldOf, P0!ToSet, P0!Unrecognized,
         Depth0!FromJSON, Depth0!ScalarFromJSON, Depth0!EnumFromJSON, Depth0!FromBase64,
         Depth0!Names, Depth0!FieldOf, Depth0!ToSet, Depth0!Unrecognized
<1>5. P0!FromPartial(T, x) = Depth0!FromPartial(T, x)
  BY DEF P0!FromPartial, P0!Given, P0!Names, P0!FieldOf,
         Depth0!FromPartial, Depth0!Given, Depth0!Names, Depth0!FieldOf
<1> QED BY <1>1, <1>2, <1>3, <1>4, <1>5

LEMMA Same1 ==
    ASSUME NEW T, NEW x
    PROVE  /\ P1!Encode(T, x) = Depth1!Encode(T, x)
           /\ P1!Decode(T, x) = Depth1!Decode(T, x)
           /\ P1!ToJSON(T, x) = Depth1!ToJSON(T, x)
           /\ P1!FromJSON(T, x) = Depth1!FromJSON(T, x)
           /\ P1!FromPartial(T, x) = Depth1!FromPartial(T, x)
<1>1. P1!Encode(T, x) = Depth1!Encode(T, x)
  BY DEF P1!Encode, P1!EncodeField, P1!FlattenSeq,
         Depth1!Encode, Depth1!EncodeField, Depth1!FlattenSeq
<1>2. P1!Decode(T, x) = Depth1!Decode(T, x)
  BY DEF P1!Decode, P1!DecodeField, P1!Names, P1!FieldOf, P1!Occurrences, P1!FlattenSeq,
         P1!Chosen, P1!Last,
         Depth1!Decode, Depth1!DecodeField, Depth1!Names, Depth1!FieldOf,
         Depth1!Occurrences, Depth1!FlattenSeq, Depth1!Chosen, Depth1!Last
<1>3. P1!ToJSON(T, x) = Depth1!ToJSON(T, x)
  BY DEF P1!ToJSON, P1!ScalarToJSON, P1!EnumToJSON, P1!Base64, P1!Names, P1!FieldOf,
         Depth1!ToJSON, Depth1!ScalarToJSON, Depth1!EnumToJSON, Depth1!Base64,
         Depth1!Names, Depth1!FieldOf
<1>4. P1!FromJSON(T, x) = Depth1!FromJSON(T, x)
  BY DEF P1!FromJSON, P1!ScalarFromJSON, P1!EnumFromJSON, P1!FromBase64, P1!Names,
         P1!FieldOf, P1!ToSet, P1!Unrecognized,
         Depth1!FromJSON, Depth1!ScalarFromJSON, Depth1!EnumFromJSON, Depth1!FromBase64,
         Depth1!Names, Depth1!FieldOf, Depth1!ToSet, Depth1!Unrecognized
<1>5. P1!FromPartial(T, x) = Depth1!FromPartial(T, x)
  BY DEF P1!FromPartial, P1!Given, P1!Names, P1!FieldOf,
         Depth1!FromPartial, Depth1!Given, Depth1!Names, Depth1!FieldOf
<1> QED BY <1>1, <1>2, <1>3, <1>4, <1>5

LEMMA Same2 ==
    ASSUME NEW T, NEW x
    PROVE  /\ P2!Encode(T, x) = Depth2!Encode(T, x)
           /\ P2!Decode(T, x) = Depth2!Decode(T, x)
           /\ P2!ToJSON(T, x) = Depth2!ToJSON(T, x)
           /\ P2!FromJSON(T, x) = Depth2!FromJSON(T, x)
           /\ P2!FromPartial(T, x) = Depth2!FromPartial(T, x)
<1>1. P2!Encode(T, x) = Depth2!Encode(T, x)
  BY DEF P2!Encode, P2!EncodeField, P2!FlattenSeq,
         Depth2!Encode, Depth2!EncodeField, Depth2!FlattenSeq
<1>2. P2!Decode(T, x) = Depth2!Decode(T, x)
  BY DEF P2!Decode, P2!DecodeField, P2!Names, P2!FieldOf, P2!Occurrences, P2!FlattenSeq,
         P2!Chosen, P2!Last,
         Depth2!Decode, Depth2!DecodeField, Depth2!Names, Depth2!FieldOf,
         Depth2!Occurrences, Depth2!FlattenSeq, Depth2!Chosen, Depth2!Last
<1>3. P2!ToJSON(T, x) = Depth2!ToJSON(T, x)
  BY DEF P2!ToJSON, P2!ScalarToJSON, P2!EnumToJSON, P2!Base64, P2!Names, P2!FieldOf,
         Depth2!ToJSON, Depth2!ScalarToJSON, Depth2!EnumToJSON, Depth2!Base64,
         Depth2!Names, Depth2!FieldOf
<1>4. P2!FromJSON(T, x) = Depth2!FromJSON(T, x)
  BY DEF P2!FromJSON, P2!ScalarFromJSON, P2!EnumFromJSON, P2!FromBase64, P2!Names,
         P2!FieldOf, P2!ToSet, P2!Unrecognized,
         Depth2!FromJSON, Depth2!ScalarFromJSON, Depth2!EnumFromJSON, Depth2!FromBase64,
         Depth2!Names, Depth2!FieldOf, Depth2!ToSet, Depth2!Unrecognized
<1>5. P2!FromPartial(T, x) = Depth2!FromPartial(T, x)
  BY DEF P2!FromPartial, P2!Given, P2!Names, P2!FieldOf,
         Depth2!FromPartial, Depth2!Given, Depth2!Names, Depth2!FieldOf
<1> QED BY <1>1, <1>2, <1>3, <1>4, <1>5

LEMMA Same3 ==
    ASSUME NEW T, NEW x
    PROVE  /\ P3!Encode(T, x) = Depth3!Encode(T, x)
           /\ P3!Decode(T, x) = Depth3!Decode(T, x)
           /\ P3!ToJSON(T, x) = Depth3!ToJSON(T, x)
           /\ P3!FromJSON(T, x) = Depth3!FromJSON(T, x)
           /\ P3!FromPartial(T, x) = Depth3!FromPartial(T, x)
<1>1. P3!Encode(T, x) = Depth3!Encode(T, x)
  BY DEF P3!Encode, P3!EncodeField, P3!FlattenSeq,
         Depth3!Encode, Depth3!EncodeField, Depth3!FlattenSeq
<1>2. P3!Decode(T, x) = Depth3!Decode(T, x)
  BY DEF P3!Decode, P3!DecodeField, P3!Names, P3!FieldOf, P3!Occurrences, P3!FlattenSeq,
         P3!Chosen, P3!Last,
         Depth3!Decode, Depth3!DecodeField, Depth3!Names, Depth3!FieldOf,
         Depth3!Occurrences, Depth3!FlattenSeq, Depth3!Chosen, Depth3!Last
<1>3. P3!ToJSON(T, x) = Depth3!ToJSON(T, x)
  BY DEF P3!ToJSON, P3!ScalarToJSON, P3!EnumToJSON, P3!Base64, P3!Names, P3!FieldOf,
         Depth3!ToJSON, Depth3!ScalarToJSON, Depth3!EnumToJSON, Depth3!Base64,
         Depth3!Names, Depth3!FieldOf
<1>4. P3!FromJSON(T, x) = Depth3!FromJSON(T, x)
  BY DEF P3!FromJSON, P3!ScalarFromJSON, P3!EnumFromJSON, P3!FromBase64, P3!Names,
         P3!FieldOf, P3!ToSet, P3!Unrecognized,
         Depth3!FromJSON, Depth3!ScalarFromJSON, Depth3!EnumFromJSON, Depth3!FromBase64,
         Depth3!Names, Depth3!FieldOf, Depth3!ToSet, Depth3!Unrecognized
<1>5. P3!FromPartial(T, x) = Depth3!FromPartial(T, x)
  BY DEF P3!FromPartial, P3!Given, P3!Names, P3!FieldOf,
         Depth3!FromPartial, Depth3!Given, Depth3!Names, Depth3!FieldOf
<1> QED BY <1>1, <1>2, <1>3, <1>4, <1>5

(* The functions of each depth, from those of the one below: decode gives   *)
(* back what encode takes, fromJSON what is kept of what toJSON takes, and  *)
(* fromPartial a whole message.                                             *)
LEMMA AtDepth0 ==
    ASSUME NEW T, NEW x
    PROVE  /\ P0!Is(T, x) => Depth0!Decode(T, Depth0!Encode(T, x)) = x
           /\ P0!Is(T, x) => Depth0!FromJSON(T, Depth0!ToJSON(T, x)) = P0!Kept(T, x)
           /\ P0!Partial(T, x) => P0!Is(T, Depth0!FromPartial(T, x))
<1>1. /\ \A S, y : Anything(S, y) => Itself(S, Itself(S, y)) = y
      /\ \A S, y : Anything(S, y) => Itself(S, Itself(S, y)) = Itself(S, y)
      /\ \A S, y : Anything(S, y) => Anything(S, Itself(S, y))
  BY DEF Itself, Anything
<1>2. ASSUME P0!Is(T, x) PROVE P0!Decode(T, P0!Encode(T, x)) = x
  BY <1>1, <1>2, P0!DecodedAsEncoded
<1>3. ASSUME P0!Is(T, x) PROVE P0!FromJSON(T, P0!ToJSON(T, x)) = P0!Kept(T, x)
  BY <1>1, <1>3, P0!KeptByJSON
<1>4. ASSUME P0!Partial(T, x) PROVE P0!Is(T, P0!FromPartial(T, x))
  BY <1>1, <1>4, P0!Completed
<1> QED BY <1>2, <1>3, <1>4, Same0

LEMMA AtDepth1 ==
    ASSUME NEW T, NEW x
    PROVE  /\ P1!Is(T, x) => Depth1!Decode(T, Depth1!Encode(T, x)) = x
           /\ P1!Is(T, x) => Depth1!FromJSON(T, Depth1!ToJSON(T, x)) = P1!Kept(T, x)
           /\ P1!Partial(T, x) => P1!Is(T, Depth1!FromPartial(T, x))
<1>1. /\ \A S, y : P0!Is(S, y) => Depth0!Decode(S, Depth0!Encode(S, y)) = y
      /\ \A S, y : P0!Is(S, y) => Depth0!FromJSON(S, Depth0!ToJSON(S, y)) = P0!Kept(S, y)
      /\ \A S, y : P0!Partial(S, y) => P0!Is(S, Depth0!FromPartial(S, y))
  BY AtDepth0
<1>2. ASSUME P1!Is(T, x) PROVE P1!Decode(T, P1!Encode(T, x)) = x
  BY <1>1, <1>2, P1!DecodedAsEncoded
<1>3. ASSUME P1!Is(T, x) PROVE P1!FromJSON(T, P1!ToJSON(T, x)) = P1!Kept(T, x)
  BY <1>1, <1>3, P1!KeptByJSON
<1>4. ASSUME P1!Partial(T, x) PROVE P1!Is(T, P1!FromPartial(T, x))
  BY <1>1, <1>4, P1!Completed
<1> QED BY <1>2, <1>3, <1>4, Same1

LEMMA AtDepth2 ==
    ASSUME NEW T, NEW x
    PROVE  /\ P2!Is(T, x) => Depth2!Decode(T, Depth2!Encode(T, x)) = x
           /\ P2!Is(T, x) => Depth2!FromJSON(T, Depth2!ToJSON(T, x)) = P2!Kept(T, x)
           /\ P2!Partial(T, x) => P2!Is(T, Depth2!FromPartial(T, x))
<1>1. /\ \A S, y : P1!Is(S, y) => Depth1!Decode(S, Depth1!Encode(S, y)) = y
      /\ \A S, y : P1!Is(S, y) => Depth1!FromJSON(S, Depth1!ToJSON(S, y)) = P1!Kept(S, y)
      /\ \A S, y : P1!Partial(S, y) => P1!Is(S, Depth1!FromPartial(S, y))
  BY AtDepth1
<1>2. ASSUME P2!Is(T, x) PROVE P2!Decode(T, P2!Encode(T, x)) = x
  BY <1>1, <1>2, P2!DecodedAsEncoded
<1>3. ASSUME P2!Is(T, x) PROVE P2!FromJSON(T, P2!ToJSON(T, x)) = P2!Kept(T, x)
  BY <1>1, <1>3, P2!KeptByJSON
<1>4. ASSUME P2!Partial(T, x) PROVE P2!Is(T, P2!FromPartial(T, x))
  BY <1>1, <1>4, P2!Completed
<1> QED BY <1>2, <1>3, <1>4, Same2

LEMMA AtDepth3 ==
    ASSUME NEW T, NEW x
    PROVE  /\ P3!Is(T, x) => Depth3!Decode(T, Depth3!Encode(T, x)) = x
           /\ P3!Is(T, x) => Depth3!FromJSON(T, Depth3!ToJSON(T, x)) = P3!Kept(T, x)
           /\ P3!Partial(T, x) => P3!Is(T, Depth3!FromPartial(T, x))
<1>1. /\ \A S, y : P2!Is(S, y) => Depth2!Decode(S, Depth2!Encode(S, y)) = y
      /\ \A S, y : P2!Is(S, y) => Depth2!FromJSON(S, Depth2!ToJSON(S, y)) = P2!Kept(S, y)
      /\ \A S, y : P2!Partial(S, y) => P2!Is(S, Depth2!FromPartial(S, y))
  BY AtDepth2
<1>2. ASSUME P3!Is(T, x) PROVE P3!Decode(T, P3!Encode(T, x)) = x
  BY <1>1, <1>2, P3!DecodedAsEncoded
<1>3. ASSUME P3!Is(T, x) PROVE P3!FromJSON(T, P3!ToJSON(T, x)) = P3!Kept(T, x)
  BY <1>1, <1>3, P3!KeptByJSON
<1>4. ASSUME P3!Partial(T, x) PROVE P3!Is(T, P3!FromPartial(T, x))
  BY <1>1, <1>4, P3!Completed
<1> QED BY <1>2, <1>3, <1>4, Same3

-----------------------------------------------------------------------------
(* The message types, each at the depths it is used at *)

LEMMA NoneIsZero == Undefined # 0
BY ValuesAssumption
LEMMA NoneIsText == Undefined # "" /\ Undefined # "id" /\ Undefined # "pubsub"
BY ValuesAssumption
LEMMA NoneIsFalse == Undefined # FALSE
BY ValuesAssumption

LEMMA Enums ==
    /\ P1!EnumNames(PagingInfo_Direction)
    /\ P2!EnumNames(HistoryResponse_Error)
    /\ \A v \in Int :
          /\ Known(v) = IF v + 1 \in DOMAIN PagingInfo_Direction THEN v ELSE P1!Unrecognized
          /\ Known(v) = IF v + 1 \in DOMAIN HistoryResponse_Error THEN v ELSE P2!Unrecognized
<1>1. P1!EnumNames(PagingInfo_Direction) /\ P2!EnumNames(HistoryResponse_Error)
  BY P1!EnumOfTwo, P2!EnumOfTwo DEF PagingInfo_Direction, HistoryResponse_Error
<1>2. DOMAIN PagingInfo_Direction = 1 .. 2 /\ DOMAIN HistoryResponse_Error = 1 .. 2
  BY DEF PagingInfo_Direction, HistoryResponse_Error
<1>3. \A v \in Int : v + 1 \in 1 .. 2 <=> v \in {0, 1}
  OBVIOUS
<1> QED BY <1>1, <1>2, <1>3 DEF Known, P1!Unrecognized, P2!Unrecognized, Unrecognized

(* What a message of each type is, and what JSON keeps of it.               *)
LEMMA IndexAt0 ==
    ASSUME NEW m
    PROVE  /\ P0!Type(Index)
           /\ P0!ToSet(Index) =
                 {Implicit(1, "digest", Bytes, ""),
                  Implicit(2, "receivedTime", Plain, 0),
                  Implicit(3, "senderTime", Plain, 0)}
           /\ P0!Is(Index, m) <=>
                 /\ m = [digest |-> m.digest, receivedTime |-> m.receivedTime,
                         senderTime |-> m.senderTime]
                 /\ m.digest # Undefined
                 /\ m.receivedTime # Undefined
                 /\ m.senderTime # Undefined
           /\ P0!Is(Index, m) =>
                 P0!Kept(Index, m) =
                    [digest |-> m.digest,
                     receivedTime |-> m.receivedTime,
                     senderTime |-> m.senderTime]
<1> DEFINE a == Implicit(1, "digest", Bytes, "")
           b == Implicit(2, "receivedTime", Plain, 0)
           c == Implicit(3, "senderTime", Plain, 0)
           k == [digest |-> m.digest,
                 receivedTime |-> m.receivedTime,
                 senderTime |-> m.senderTime]
<1>1. /\ a.num = 1 /\ a.name = "digest" /\ a.rule = "implicit"
      /\ a.type.tag # "enum"
  BY DEF Implicit, Bytes
<1>2. /\ b.num = 2 /\ b.name = "receivedTime" /\ b.rule = "implicit"
      /\ b.type.tag # "enum"
  BY DEF Implicit, Plain
<1>3. /\ c.num = 3 /\ c.name = "senderTime" /\ c.rule = "implicit"
      /\ c.type.tag # "enum"
  BY DEF Implicit, Plain
<1>4. Index = <<a, b, c>>
  BY DEF Index
<1>5. a.zero # Undefined
  BY NoneIsText DEF Implicit
<1>6. b.zero # Undefined
  BY NoneIsZero DEF Implicit
<1>7. c.zero # Undefined
  BY NoneIsZero DEF Implicit
<1> HIDE DEF a, b, c, k
<1>8. /\ P0!Field(a)
      /\ P0!Fits(a, m.digest) <=> m.digest # Undefined
      /\ P0!KeptField(a, m.digest) = m.digest
  BY <1>1, P0!OfImplicit, <1>5
<1>9. /\ P0!Field(b)
      /\ P0!Fits(b, m.receivedTime) <=> m.receivedTime # Undefined
      /\ P0!KeptField(b, m.receivedTime) = m.receivedTime
  BY <1>2, P0!OfImplicit, <1>6
<1>10. /\ P0!Field(c)
       /\ P0!Fits(c, m.senderTime) <=> m.senderTime # Undefined
       /\ P0!KeptField(c, m.senderTime) = m.senderTime
  BY <1>3, P0!OfImplicit, <1>7
<1>11. P0!Type(Index) /\ P0!ToSet(Index) = {a, b, c}
  <2>1. \A f \in {a, b, c} : P0!Field(f)
    BY <1>8, <1>9, <1>10
  <2>2. /\ a.num # b.num /\ a.name # b.name
        /\ a.num # c.num /\ a.name # c.name
        /\ b.num # c.num /\ b.name # c.name
    BY <1>1, <1>2, <1>3
  <2> QED BY <1>4, <2>1, <2>2, P0!TypeOfThree
<1>12. {f.name : f \in P0!ToSet(Index)} = {"digest", "receivedTime", "senderTime"}
  BY <1>1, <1>2, <1>3, <1>11
<1>13. P0!Is(Index, m) =>
          /\ m = [name \in {"digest", "receivedTime", "senderTime"} |-> m[name]]
          /\ \A f \in {a, b, c} : P0!Fits(f, m[f.name])
  <2>1. P0!Is(Index, m) =>
           /\ m = [name \in {f.name : f \in P0!ToSet(Index)} |-> m[name]]
           /\ \A f \in P0!ToSet(Index) : P0!Fits(f, m[f.name])
    BY P0!FieldsOfIs
  <2> QED BY <1>11, <1>12, <2>1
<1>14. ASSUME m = [name \in {"digest", "receivedTime", "senderTime"} |-> m[name]],
              \A f \in {a, b, c} : P0!Fits(f, m[f.name])
       PROVE  P0!Is(Index, m)
  BY <1>11, <1>12, <1>14, P0!IsByFields
<1>15. ASSUME P0!Is(Index, m) PROVE P0!Kept(Index, m) = k
  <2>1. /\ k = [name \in {"digest", "receivedTime", "senderTime"} |-> k[name]]
        /\ k.digest = m.digest
        /\ k.receivedTime = m.receivedTime
        /\ k.senderTime = m.senderTime
    BY DEF k
  <2>2. k[a.name] = P0!KeptField(a, m[a.name])
    BY <1>1, <1>8, <2>1
  <2>3. k[b.name] = P0!KeptField(b, m[b.name])
    BY <1>2, <1>9, <2>1
  <2>4. k[c.name] = P0!KeptField(c, m[c.name])
    BY <1>3, <1>10, <2>1
  <2>5. \A f \in {a, b, c} : k[f.name] = P0!KeptField(f, m[f.name])
    BY <2>2, <2>3, <2>4
  <2> QED BY <1>11, <1>12, <2>1, <2>5, P0!KeptByFields
<1>16. (m = [name \in {"digest", "receivedTime", "senderTime"} |-> m[name]]) <=>
          m = [digest |-> m.digest, receivedTime |-> m.receivedTime,
               senderTime |-> m.senderTime]
  OBVIOUS
<1>17. P0!Is(Index, m) <=>
          /\ m = [digest |-> m.digest, receivedTime |-> m.receivedTime,
                  senderTime |-> m.senderTime]
          /\ m.digest # Undefined
          /\ m.receivedTime # Undefined
          /\ m.senderTime # Undefined
  BY <1>1, <1>2, <1>3, <1>8, <1>9, <1>10, <1>13, <1>14, <1>16
<1> QED BY <1>11, <1>15, <1>17 DEF a, b, c, k

LEMMA PagingInfoAt1 ==
    ASSUME NEW m
    PROVE  /\ P1!Type(PagingInfo)
           /\ P1!ToSet(PagingInfo) =
                 {Implicit(1, "pageSize", UInt64, 0),
                  Embedded(2, "cursor", Index),
                  Implicit(3, "direction", Enum(PagingInfo_Direction), 0)}
           /\ P1!Is(PagingInfo, m) <=>
                 /\ m = [pageSize |-> m.pageSize, cursor |-> m.cursor,
                         direction |-> m.direction]
                 /\ m.pageSize # Undefined
                 /\ m.cursor = Undefined \/ P0!Is(Index, m.cursor)
                 /\ m.direction # Undefined /\ m.direction \in Int
           /\ P1!Is(PagingInfo, m) =>
                 P1!Kept(PagingInfo, m) =
                    [pageSize |-> m.pageSize,
                     cursor |-> IF m.cursor = Undefined THEN m.cursor ELSE P0!Kept(Index, m.cursor),
                     direction |-> Known(m.direction)]
<1> DEFINE a == Implicit(1, "pageSize", UInt64, 0)
           b == Embedded(2, "cursor", Index)
           c == Implicit(3, "direction", Enum(PagingInfo_Direction), 0)
           k == [pageSize |-> m.pageSize,
                 cursor |-> IF m.cursor = Undefined THEN m.cursor ELSE P0!Kept(Index, m.cursor),
                 direction |-> Known(m.direction)]
<1>1. /\ a.num = 1 /\ a.name = "pageSize" /\ a.rule = "implicit"
      /\ a.type.tag # "enum"
  BY DEF Implicit, UInt64
<1>2. /\ b.num = 2 /\ b.name = "cursor" /\ b.rule = "message" /\ b.zero = Undefined
      /\ b.type = Index
  BY DEF Embedded
<1>3. /\ c.num = 3 /\ c.name = "direction" /\ c.rule = "implicit" /\ c.zero = 0
      /\ c.type.tag = "enum" /\ c.type.names = PagingInfo_Direction
  BY DEF Implicit, Enum
<1>4. PagingInfo = <<a, b, c>>
  BY DEF PagingInfo
<1>5. a.zero # Undefined
  BY NoneIsZero DEF Implicit
<1> HIDE DEF a, b, c, k
<1>6. /\ P1!Field(a)
      /\ P1!Fits(a, m.pageSize) <=> m.pageSize # Undefined
      /\ P1!KeptField(a, m.pageSize) = m.pageSize
  BY <1>1, P1!OfImplicit, <1>5
<1>7. /\ P1!Field(b)
      /\ P1!Fits(b, m.cursor) <=> m.cursor = Undefined \/ P0!Is(Index, m.cursor)
      /\ P1!KeptField(b, m.cursor) = IF m.cursor = Undefined THEN m.cursor
                                     ELSE P0!Kept(Index, m.cursor)
  BY <1>2, P1!OfEmbedded
<1>8. /\ P1!Field(c)
      /\ P1!Fits(c, m.direction) <=> m.direction # Undefined /\ m.direction \in Int
      /\ m.direction # Undefined /\ m.direction \in Int =>
            P1!KeptField(c, m.direction) = Known(m.direction)
  <2>1. 0 \in Int /\ c.zero # Undefined /\ P1!EnumNames(c.type.names)
    BY <1>3, NoneIsZero, Enums
  <2>2. P1!Field(c) /\ (P1!Fits(c, m.direction) <=> m.direction # Undefined /\ m.direction \in Int)
    BY <1>3, <2>1, P1!OfEnum
  <2>3. m.direction # Undefined =>
           P1!KeptField(c, m.direction) =
              IF m.direction + 1 \in DOMAIN PagingInfo_Direction THEN m.direction
                                          ELSE P1!Unrecognized
    BY <1>3, P1!OfEnum
  <2>4. m.direction \in Int => Known(m.direction) =
           IF m.direction + 1 \in DOMAIN PagingInfo_Direction THEN m.direction
                                                    ELSE P1!Unrecognized
    BY Enums
  <2> QED BY <2>2, <2>3, <2>4
<1>9. P1!Type(PagingInfo) /\ P1!ToSet(PagingInfo) = {a, b, c}
  <2>1. \A f \in {a, b, c} : P1!Field(f)
    BY <1>6, <1>7, <1>8
  <2>2. /\ a.num # b.num /\ a.name # b.name
        /\ a.num # c.num /\ a.name # c.name
        /\ b.num # c.num /\ b.name # c.name
    BY <1>1, <1>2, <1>3
  <2> QED BY <1>4, <2>1, <2>2, P1!TypeOfThree
<1>10. {f.name : f \in P1!ToSet(PagingInfo)} = {"pageSize", "cursor", "direction"}
  BY <1>1, <1>2, <1>3, <1>9
<1>11. P1!Is(PagingInfo, m) =>
          /\ m = [name \in {"pageSize", "cursor", "direction"} |-> m[name]]
          /\ \A f \in {a, b, c} : P1!Fits(f, m[f.name])
  <2>1. P1!Is(PagingInfo, m) =>
           /\ m = [name \in {f.name : f \in P1!ToSet(PagingInfo)} |-> m[name]]
           /\ \A f \in P1!ToSet(PagingInfo) : P1!Fits(f, m[f.name])
    BY P1!FieldsOfIs
  <2> QED BY <1>9, <1>10, <2>1
<1>12. ASSUME m = [name \in {"pageSize", "cursor", "direction"} |-> m[name]],
              \A f \in {a, b, c} : P1!Fits(f, m[f.name])
       PROVE  P1!Is(PagingInfo, m)
  BY <1>9, <1>10, <1>12, P1!IsByFields
<1>13. ASSUME P1!Is(PagingInfo, m) PROVE P1!Kept(PagingInfo, m) = k
  <2>1. /\ k = [name \in {"pageSize", "cursor", "direction"} |-> k[name]]
        /\ k.pageSize = m.pageSize
        /\ k.cursor = (IF m.cursor = Undefined THEN m.cursor ELSE P0!Kept(Index, m.cursor))
        /\ k.direction = Known(m.direction)
    BY DEF k
  <2>2. k[a.name] = P1!KeptField(a, m[a.name])
    BY <1>1, <1>6, <2>1
  <2>3. k[b.name] = P1!KeptField(b, m[b.name])
    BY <1>2, <1>7, <2>1
  <2>4. k[c.name] = P1!KeptField(c, m[c.name])
    <3>1. P1!Fits(c, m[c.name])
      BY <1>11, <1>13
    <3> QED BY <1>3, <1>8, <2>1, <3>1
  <2>5. \A f \in {a, b, c} : k[f.name] = P1!KeptField(f, m[f.name])
    BY <2>2, <2>3, <2>4
  <2> QED BY <1>9, <1>10, <2>1, <2>5, P1!KeptByFields
<1>14. (m = [name \in {"pageSize", "cursor", "direction"} |-> m[name]]) <=>
          m = [pageSize |-> m.pageSize, cursor |-> m.cursor, direction |-> m.direction]
  OBVIOUS
<1>15. P1!Is(PagingInfo, m) <=>
          /\ m = [pageSize |-> m.pageSize, cursor |-> m.cursor,
                  direction |-> m.direction]
          /\ m.pageSize # Undefined
          /\ m.cursor = Undefined \/ P0!Is(Index, m.cursor)
          /\ m.direction # Undefined /\ m.direction \in Int
  BY <1>1, <1>2, <1>3, <1>6, <1>7, <1>8, <1>11, <1>12, <1>14
<1> QED BY <1>9, <1>13, <1>15 DEF a, b, c, k

LEMMA ContentFilterAt1 ==
    ASSUME NEW m
    PROVE  /\ P1!Type(ContentFilter)
           /\ P1!ToSet(ContentFilter) =
                 {Implicit(1, "contentTopic", Plain, "")}
           /\ P1!Is(ContentFilter, m) <=>
                 /\ m = [contentTopic |-> m.contentTopic]
                 /\ m.contentTopic # Undefined
           /\ P1!Is(ContentFilter, m) =>
                 P1!Kept(ContentFilter, m) =
                    [contentTopic |-> m.contentTopic]
<1> DEFINE a == Implicit(1, "contentTopic", Plain, "")
           k == [contentTopic |-> m.contentTopic]
<1>1. /\ a.num = 1 /\ a.name = "contentTopic" /\ a.rule = "implicit"
      /\ a.type.tag # "enum"
  BY DEF Implicit, Plain
<1>2. ContentFilter = <<a>>
  BY DEF ContentFilter
<1>3. a.zero # Undefined
  BY NoneIsText DEF Implicit
<1> HIDE DEF a, k
<1>4. /\ P1!Field(a)
      /\ P1!Fits(a, m.contentTopic) <=> m.contentTopic # Undefined
      /\ P1!KeptField(a, m.contentTopic) = m.contentTopic
  BY <1>1, P1!OfImplicit, <1>3
<1>5. P1!Type(ContentFilter) /\ P1!ToSet(ContentFilter) = {a}
  <2>1. \A f \in {a} : P1!Field(f)
    BY <1>4
  <2> QED BY <1>2, <2>1, P1!TypeOfOne
<1>6. {f.name : f \in P1!ToSet(ContentFilter)} = {"contentTopic"}
  BY <1>1, <1>5
<1>7. P1!Is(ContentFilter, m) =>
         /\ m = [name \in {"contentTopic"} |-> m[name]]
         /\ \A f \in {a} : P1!Fits(f, m[f.name])
  <2>1. P1!Is(ContentFilter, m) =>
           /\ m = [name \in {f.name : f \in P1!ToSet(ContentFilter)} |-> m[name]]
           /\ \A f \in P1!ToSet(ContentFilter) : P1!Fits(f, m[f.name])
    BY P1!FieldsOfIs
  <2> QED BY <1>5, <1>6, <2>1
<1>8. ASSUME m = [name \in {"contentTopic"} |-> m[name]],
             \A f \in {a} : P1!Fits(f, m[f.name])
      PROVE  P1!Is(ContentFilter, m)
  BY <1>5, <1>6, <1>8, P1!IsByFields
<1>9. ASSUME P1!Is(ContentFilter, m) PROVE P1!Kept(ContentFilter, m) = k
  <2>1. /\ k = [name \in {"contentTopic"} |-> k[name]]
        /\ k.contentTopic = m.contentTopic
    BY DEF k
  <2>2. k[a.name] = P1!KeptField(a, m[a.name])
    BY <1>1, <1>4, <2>1
  <2>3. \A f \in {a} : k[f.name] = P1!KeptField(f, m[f.name])
    BY <2>2
  <2> QED BY <1>5, <1>6, <2>1, <2>3, P1!KeptByFields
<1>10. (m = [name \in {"contentTopic"} |-> m[name]]) <=>
          m = [contentTopic |-> m.contentTopic]
  OBVIOUS
<1>11. P1!Is(ContentFilter, m) <=>
          /\ m = [contentTopic |-> m.contentTopic]
          /\ m.contentTopic # Undefined
  BY <1>1, <1>4, <1>7, <1>8, <1>10
<1> QED BY <1>5, <1>9, <1>11 DEF a, k

LEMMA WakuMessageAt1 ==
    ASSUME NEW m
    PROVE  /\ P1!Type(WakuMessage)
           /\ P1!ToSet(WakuMessage) =
                 {Optional(1, "payload", Bytes),
                  Optional(2, "contentTopic", Plain),
                  Optional(3, "version", Plain),
                  Optional(4, "timestamp", Plain)}
           /\ P1!Is(WakuMessage, m) <=>
                 /\ m = [payload |-> m.payload, contentTopic |-> m.contentTopic,
                         version |-> m.version, timestamp |-> m.timestamp]
           /\ P1!Is(WakuMessage, m) =>
                 P1!Kept(WakuMessage, m) =
                    [payload |-> m.payload,
                     contentTopic |-> m.contentTopic,
                     version |-> m.version,
                     timestamp |-> m.timestamp]
<1> DEFINE a == Optional(1, "payload", Bytes)
           b == Optional(2, "contentTopic", Plain)
           c == Optional(3, "version", Plain)
           d == Optional(4, "timestamp", Plain)
           k == [payload |-> m.payload,
                 contentTopic |-> m.contentTopic,
                 version |-> m.version,
                 timestamp |-> m.timestamp]
<1>1. /\ a.num = 1 /\ a.name = "payload" /\ a.rule = "optional" /\ a.zero = Undefined
      /\ a.type.tag # "enum"
  BY DEF Optional, Bytes
<1>2. /\ b.num = 2 /\ b.name = "contentTopic" /\ b.rule = "optional" /\ b.zero = Undefined
      /\ b.type.tag # "enum"
  BY DEF Optional, Plain
<1>3. /\ c.num = 3 /\ c.name = "version" /\ c.rule = "optional" /\ c.zero = Undefined
      /\ c.type.tag # "enum"
  BY DEF Optional, Plain
<1>4. /\ d.num = 4 /\ d.name = "timestamp" /\ d.rule = "optional" /\ d.zero = Undefined
      /\ d.type.tag # "enum"
  BY DEF Optional, Plain
<1>5. WakuMessage = <<a, b, c, d>>
  BY DEF WakuMessage
<1> HIDE DEF a, b, c, d, k
<1>6. /\ P1!Field(a)
      /\ P1!Fits(a, m.payload)
      /\ P1!KeptField(a, m.payload) = m.payload
  BY <1>1, P1!OfOptional
<1>7. /\ P1!Field(b)
      /\ P1!Fits(b, m.contentTopic)
      /\ P1!KeptField(b, m.contentTopic) = m.contentTopic
  BY <1>2, P1!OfOptional
<1>8. /\ P1!Field(c)
      /\ P1!Fits(c, m.version)
      /\ P1!KeptField(c, m.version) = m.version
  BY <1>3, P1!OfOptional
<1>9. /\ P1!Field(d)
      /\ P1!Fits(d, m.timestamp)
      /\ P1!KeptField(d, m.timestamp) = m.timestamp
  BY <1>4, P1!OfOptional
<1>10. P1!Type(WakuMessage) /\ P1!ToSet(WakuMessage) = {a, b, c, d}
  <2>1. \A f \in {a, b, c, d} : P1!Field(f)
    BY <1>6, <1>7, <1>8, <1>9
  <2>2. /\ a.num # b.num /\ a.name # b.name
        /\ a.num # c.num /\ a.name # c.name
        /\ a.num # d.num /\ a.name # d.name
        /\ b.num # c.num /\ b.name # c.name
        /\ b.num # d.num /\ b.name # d.name
        /\ c.num # d.num /\ c.name # d.name
    BY <1>1, <1>2, <1>3, <1>4
  <2> QED BY <1>5, <2>1, <2>2, P1!TypeOfFour
<1>11. {f.name : f \in P1!ToSet(WakuMessage)} = {"payload", "contentTopic", "version", "timestamp"}
  BY <1>1, <1>2, <1>3, <1>4, <1>10
<1>12. P1!Is(WakuMessage, m) =>
          /\ m = [name \in {"payload", "contentTopic", "version", "timestamp"} |-> m[name]]
          /\ \A f \in {a, b, c, d} : P1!Fits(f, m[f.name])
  <2>1. P1!Is(WakuMessage, m) =>
           /\ m = [name \in {f.name : f \in P1!ToSet(WakuMessage)} |-> m[name]]
           /\ \A f \in P1!ToSet(WakuMessage) : P1!Fits(f, m[f.name])
    BY P1!FieldsOfIs
  <2> QED BY <1>10, <1>11, <2>1
<1>13. ASSUME m = [name \in {"payload", "contentTopic", "version", "timestamp"} |-> m[name]],
              \A f \in {a, b, c, d} : P1!Fits(f, m[f.name])
       PROVE  P1!Is(WakuMessage, m)
  BY <1>10, <1>11, <1>13, P1!IsByFields
<1>14. ASSUME P1!Is(WakuMessage, m) PROVE P1!Kept(WakuMessage, m) = k
  <2>1. /\ k = [name \in {"payload", "contentTopic", "version", "timestamp"} |-> k[name]]
        /\ k.payload = m.payload
        /\ k.contentTopic = m.contentTopic
        /\ k.version = m.version
        /\ k.timestamp = m.timestamp
    BY DEF k
  <2>2. k[a.name] = P1!KeptField(a, m[a.name])
    BY <1>1, <1>6, <2>1
  <2>3. k[b.name] = P1!KeptField(b, m[b.name])
    BY <1>2, <1>7, <2>1
  <2>4. k[c.name] = P1!KeptField(c, m[c.name])
    BY <1>3, <1>8, <2>1
  <2>5. k[d.name] = P1!KeptField(d, m[d.name])
    BY <1>4, <1>9, <2>1
  <2>6. \A f \in {a, b, c, d} : k[f.name] = P1!KeptField(f, m[f.name])
    BY <2>2, <2>3, <2>4, <2>5
  <2> QED BY <1>10, <1>11, <2>1, <2>6, P1!KeptByFields
<1>15. (m = [name \in {"payload", "contentTopic", "version", "timestamp"} |-> m[name]]) <=>
          m = [payload |-> m.payload, contentTopic |-> m.contentTopic,
               version |-> m.version, timestamp |-> m.timestamp]
  OBVIOUS
<1>16. P1!Is(WakuMessage, m) <=>
          /\ m = [payload |-> m.payload, contentTopic |-> m.contentTopic,
                  version |-> m.version, timestamp |-> m.timestamp]
  BY <1>1, <1>2, <1>3, <1>4, <1>6, <1>7, <1>8, <1>9, <1>12, <1>13, <1>15
<1> QED BY <1>10, <1>14, <1>16 DEF a, b, c, d, k

LEMMA WakuMessageAt3 ==
    ASSUME NEW m
    PROVE  /\ P3!Type(WakuMessage)
           /\ P3!ToSet(WakuMessage) =
                 {Optional(1, "payload", Bytes),
                  Optional(2, "contentTopic", Plain),
                  Optional(3, "version", Plain),
                  Optional(4, "timestamp", Plain)}
           /\ P3!Is(WakuMessage, m) <=>
                 /\ m = [payload |-> m.payload, contentTopic |-> m.contentTopic,
                         version |-> m.version, timestamp |-> m.timestamp]
           /\ P3!Is(WakuMessage, m) =>
                 P3!Kept(WakuMessage, m) =
                    [payload |-> m.payload,
                     contentTopic |-> m.contentTopic,
                     version |-> m.version,
                     timestamp |-> m.timestamp]
<1> DEFINE a == Optional(1, "payload", Bytes)
           b == Optional(2, "contentTopic", Plain)
           c == Optional(3, "version", Plain)
           d == Optional(4, "timestamp", Plain)
           k == [payload |-> m.payload,
                 contentTopic |-> m.contentTopic,
                 version |-> m.version,
                 timestamp |-> m.timestamp]
<1>1. /\ a.num = 1 /\ a.name = "payload" /\ a.rule = "optional" /\ a.zero = Undefined
      /\ a.type.tag # "enum"
  BY DEF Optional, Bytes
<1>2. /\ b.num = 2 /\ b.name = "contentTopic" /\ b.rule = "optional" /\ b.zero = Undefined
      /\ b.type.tag # "enum"
  BY DEF Optional, Plain
<1>3. /\ c.num = 3 /\ c.name = "version" /\ c.rule = "optional" /\ c.zero = Undefined
      /\ c.type.tag # "enum"
  BY DEF Optional, Plain
<1>4. /\ d.num = 4 /\ d.name = "timestamp" /\ d.rule = "optional" /\ d.zero = Undefined
      /\ d.type.tag # "enum"
  BY DEF Optional, Plain
<1>5. WakuMessage = <<a, b, c, d>>
  BY DEF WakuMessage
<1> HIDE DEF a, b, c, d, k
<1>6. /\ P3!Field(a)
      /\ P3!Fits(a, m.payload)
      /\ P3!KeptField(a, m.payload) = m.payload
  BY <1>1, P3!OfOptional
<1>7. /\ P3!Field(b)
      /\ P3!Fits(b, m.contentTopic)
      /\ P3!KeptField(b, m.contentTopic) = m.contentTopic
  BY <1>2, P3!OfOptional
<1>8. /\ P3!Field(c)
      /\ P3!Fits(c, m.version)
      /\ P3!KeptField(c, m.version) = m.version
  BY <1>3, P3!OfOptional
<1>9. /\ P3!Field(d)
      /\ P3!Fits(d, m.timestamp)
      /\ P3!KeptField(d, m.timestamp) = m.timestamp
  BY <1>4, P3!OfOptional
<1>10. P3!Type(WakuMessage) /\ P3!ToSet(WakuMessage) = {a, b, c, d}
  <2>1. \A f \in {a, b, c, d} : P3!Field(f)
    BY <1>6, <1>7, <1>8, <1>9
  <2>2. /\ a.num # b.num /\ a.name # b.name
        /\ a.num # c.num /\ a.name # c.name
        /\ a.num # d.num /\ a.name # d.name
        /\ b.num # c.num /\ b.name # c.name
        /\ b.num # d.num /\ b.name # d.name
        /\ c.num # d.num /\ c.name # d.name
    BY <1>1, <1>2, <1>3, <1>4
  <2> QED BY <1>5, <2>1, <2>2, P3!TypeOfFour
<1>11. {f.name : f \in P3!ToSet(WakuMessage)} = {"payload", "contentTopic", "version", "timestamp"}
  BY <1>1, <1>2, <1>3, <1>4, <1>10
<1>12. P3!Is(WakuMessage, m) =>
          /\ m = [name \in {"payload", "contentTopic", "version", "timestamp"} |-> m[name]]
          /\ \A f \in {a, b, c, d} : P3!Fits(f, m[f.name])
  <2>1. P3!Is(WakuMessage, m) =>
           /\ m = [name \in {f.name : f \in P3!ToSet(WakuMessage)} |-> m[name]]
           /\ \A f \in P3!ToSet(WakuMessage) : P3!Fits(f, m[f.name])
    BY P3!FieldsOfIs
  <2> QED BY <1>10, <1>11, <2>1
<1>13. ASSUME m = [name \in {"payload", "contentTopic", "version", "timestamp"} |-> m[name]],
              \A f \in {a, b, c, d} : P3!Fits(f, m[f.name])
       PROVE  P3!Is(WakuMessage, m)
  BY <1>10, <1>11, <1>13, P3!IsByFields
<1>14. ASSUME P3!Is(WakuMessage, m) PROVE P3!Kept(WakuMessage, m) = k
  <2>1. /\ k = [name \in {"payload", "contentTopic", "version", "timestamp"} |-> k[name]]
        /\ k.payload = m.payload
        /\ k.contentTopic = m.contentTopic
        /\ k.version = m.version
        /\ k.timestamp = m.timestamp
    BY DEF k
  <2>2. k[a.name] = P3!KeptField(a, m[a.name])
    BY <1>1, <1>6, <2>1
  <2>3. k[b.name] = P3!KeptField(b, m[b.name])
    BY <1>2, <1>7, <2>1
  <2>4. k[c.name] = P3!KeptField(c, m[c.name])
    BY <1>3, <1>8, <2>1
  <2>5. k[d.name] = P3!KeptField(d, m[d.name])
    BY <1>4, <1>9, <2>1
  <2>6. \A f \in {a, b, c, d} : k[f.name] = P3!KeptField(f, m[f.name])
    BY <2>2, <2>3, <2>4, <2>5
  <2> QED BY <1>10, <1>11, <2>1, <2>6, P3!KeptByFields
<1>15. (m = [name \in {"payload", "contentTopic", "version", "timestamp"} |-> m[name]]) <=>
          m = [payload |-> m.payload, contentTopic |-> m.contentTopic,
               version |-> m.version, timestamp |-> m.timestamp]
  OBVIOUS
<1>16. P3!Is(WakuMessage, m) <=>
          /\ m = [payload |-> m.payload, contentTopic |-> m.contentTopic,
                  version |-> m.version, timestamp |-> m.timestamp]
  BY <1>1, <1>2, <1>3, <1>4, <1>6, <1>7, <1>8, <1>9, <1>12, <1>13, <1>15
<1> QED BY <1>10, <1>14, <1>16 DEF a, b, c, d, k

LEMMA HistoryQueryAt2 ==
    ASSUME NEW m
    PROVE  /\ P2!Type(HistoryQuery)
           /\ P2!ToSet(HistoryQuery) =
                 {Optional(2, "pubSubTopic", Plain),
                  Repeated(3, "contentFilters", ContentFilter),
                  Embedded(4, "pagingInfo", PagingInfo),
                  Optional(5, "startTime", Plain),
                  Optional(6, "endTime", Plain)}
           /\ P2!Is(HistoryQuery, m) <=>
                 /\ m = [pubSubTopic |-> m.pubSubTopic,
                         contentFilters |-> m.contentFilters,
                         pagingInfo |-> m.pagingInfo, startTime |-> m.startTime,
                         endTime |-> m.endTime]
                 /\ m.contentFilters \in Seq(P2!ToSet(m.contentFilters))
                 /\ \A i \in DOMAIN m.contentFilters : P1!Is(ContentFilter, m.contentFilters[i])
                 /\ m.pagingInfo = Undefined \/ P1!Is(PagingInfo, m.pagingInfo)
           /\ P2!Is(HistoryQuery, m) =>
                 P2!Kept(HistoryQuery, m) =
                    [pubSubTopic |-> m.pubSubTopic,
                     contentFilters |->
                        [i \in DOMAIN m.contentFilters |->
                            P1!Kept(ContentFilter, m.contentFilters[i])],
                     pagingInfo |-> IF m.pagingInfo = Undefined THEN m.pagingInfo
                                    ELSE P1!Kept(PagingInfo, m.pagingInfo),
                     startTime |-> m.startTime,
                     endTime |-> m.endTime]
<1> DEFINE a == Optional(2, "pubSubTopic", Plain)
           b == Repeated(3, "contentFilters", ContentFilter)
           c == Embedded(4, "pagingInfo", PagingInfo)
           d == Optional(5, "startTime", Plain)
           e == Optional(6, "endTime", Plain)
           k == [pubSubTopic |-> m.pubSubTopic,
                 contentFilters |->
                    [i \in DOMAIN m.contentFilters |->
                        P1!Kept(ContentFilter, m.contentFilters[i])],
                 pagingInfo |-> IF m.pagingInfo = Undefined THEN m.pagingInfo
                                ELSE P1!Kept(PagingInfo, m.pagingInfo),
                 startTime |-> m.startTime,
                 endTime |-> m.endTime]
<1>1. /\ a.num = 2 /\ a.name = "pubSubTopic" /\ a.rule = "optional" /\ a.zero = Undefined
      /\ a.type.tag # "enum"
  BY DEF Optional, Plain
<1>2. /\ b.num = 3 /\ b.name = "contentFilters" /\ b.rule = "repeated" /\ b.zero = <<>>
      /\ b.type = ContentFilter
  BY DEF Repeated
<1>3. /\ c.num = 4 /\ c.name = "pagingInfo" /\ c.rule = "message" /\ c.zero = Undefined
      /\ c.type = PagingInfo
  BY DEF Embedded
<1>4. /\ d.num = 5 /\ d.name = "startTime" /\ d.rule = "optional" /\ d.zero = Undefined
      /\ d.type.tag # "enum"
  BY DEF Optional, Plain
<1>5. /\ e.num = 6 /\ e.name = "endTime" /\ e.rule = "optional" /\ e.zero = Undefined
      /\ e.type.tag # "enum"
  BY DEF Optional, Plain
<1>6. HistoryQuery = <<a, b, c, d, e>>
  BY DEF HistoryQuery
<1> HIDE DEF a, b, c, d, e, k
<1>7. /\ P2!Field(a)
      /\ P2!Fits(a, m.pubSubTopic)
      /\ P2!KeptField(a, m.pubSubTopic) = m.pubSubTopic
  BY <1>1, P2!OfOptional
<1>8. /\ P2!Field(b)
      /\ P2!Fits(b, m.contentFilters) <=> /\ m.contentFilters \in Seq(P2!ToSet(m.contentFilters))
                                          /\ \A i \in DOMAIN m.contentFilters : P1!Is(ContentFilter, m.contentFilters[i])
      /\ P2!KeptField(b, m.contentFilters) =
            [i \in DOMAIN m.contentFilters |-> P1!Kept(ContentFilter, m.contentFilters[i])]
  BY <1>2, P2!OfRepeated
<1>9. /\ P2!Field(c)
      /\ P2!Fits(c, m.pagingInfo) <=> m.pagingInfo = Undefined \/ P1!Is(PagingInfo, m.pagingInfo)
      /\ P2!KeptField(c, m.pagingInfo) = IF m.pagingInfo = Undefined THEN m.pagingInfo
                                         ELSE P1!Kept(PagingInfo, m.pagingInfo)
  BY <1>3, P2!OfEmbedded
<1>10. /\ P2!Field(d)
       /\ P2!Fits(d, m.startTime)
       /\ P2!KeptField(d, m.startTime) = m.startTime
  BY <1>4, P2!OfOptional
<1>11. /\ P2!Field(e)
       /\ P2!Fits(e, m.endTime)
       /\ P2!KeptField(e, m.endTime) = m.endTime
  BY <1>5, P2!OfOptional
<1>12. P2!Type(HistoryQuery) /\ P2!ToSet(HistoryQuery) = {a, b, c, d, e}
  <2>1. \A f \in {a, b, c, d, e} : P2!Field(f)
    BY <1>7, <1>8, <1>9, <1>10, <1>11
  <2>2. /\ a.num # b.num /\ a.name # b.name
        /\ a.num # c.num /\ a.name # c.name
        /\ a.num # d.num /\ a.name # d.name
        /\ a.num # e.num /\ a.name # e.name
        /\ b.num # c.num /\ b.name # c.name
        /\ b.num # d.num /\ b.name # d.name
        /\ b.num # e.num /\ b.name # e.name
        /\ c.num # d.num /\ c.name # d.name
        /\ c.num # e.num /\ c.name # e.name
        /\ d.num # e.num /\ d.name # e.name
    BY <1>1, <1>2, <1>3, <1>4, <1>5
  <2> QED BY <1>6, <2>1, <2>2, P2!TypeOfFive
<1>13. {f.name : f \in P2!ToSet(HistoryQuery)} =
          {"pubSubTopic", "contentFilters", "pagingInfo", "startTime", "endTime"}
  BY <1>1, <1>2, <1>3, <1>4, <1>5, <1>12
<1>14. P2!Is(HistoryQuery, m) =>
          /\ m = [name \in {"pubSubTopic", "contentFilters", "pagingInfo", "startTime",
                            "endTime"} |-> m[name]]
          /\ \A f \in {a, b, c, d, e} : P2!Fits(f, m[f.name])
  <2>1. P2!Is(HistoryQuery, m) =>
           /\ m = [name \in {f.name : f \in P2!ToSet(HistoryQuery)} |-> m[name]]
           /\ \A f \in P2!ToSet(HistoryQuery) : P2!Fits(f, m[f.name])
    BY P2!FieldsOfIs
  <2> QED BY <1>12, <1>13, <2>1
<1>15. ASSUME m = [name \in {"pubSubTopic", "contentFilters", "pagingInfo", "startTime",
                             "endTime"} |-> m[name]],
              \A f \in {a, b, c, d, e} : P2!Fits(f, m[f.name])
       PROVE  P2!Is(HistoryQuery, m)
  BY <1>12, <1>13, <1>15, P2!IsByFields
<1>16. ASSUME P2!Is(HistoryQuery, m) PROVE P2!Kept(HistoryQuery, m) = k
  <2>1. /\ k = [name \in {"pubSubTopic", "contentFilters", "pagingInfo", "startTime",
                          "endTime"} |-> k[name]]
        /\ k.pubSubTopic = m.pubSubTopic
        /\ k.contentFilters =
              [i \in DOMAIN m.contentFilters |->
                  P1!Kept(ContentFilter, m.contentFilters[i])]
        /\ k.pagingInfo = (IF m.pagingInfo = Undefined THEN m.pagingInfo
                           ELSE P1!Kept(PagingInfo, m.pagingInfo))
        /\ k.startTime = m.startTime
        /\ k.endTime = m.endTime
    BY DEF k
  <2>2. k[a.name] = P2!KeptField(a, m[a.name])
    BY <1>1, <1>7, <2>1
  <2>3. k[b.name] = P2!KeptField(b, m[b.name])
    BY <1>2, <1>8, <2>1
  <2>4. k[c.name] = P2!KeptField(c, m[c.name])
    BY <1>3, <1>9, <2>1
  <2>5. k[d.name] = P2!KeptField(d, m[d.name])
    BY <1>4, <1>10, <2>1
  <2>6. k[e.name] = P2!KeptField(e, m[e.name])
    BY <1>5, <1>11, <2>1
  <2>7. \A f \in {a, b, c, d, e} : k[f.name] = P2!KeptField(f, m[f.name])
    BY <2>2, <2>3, <2>4, <2>5, <2>6
  <2> QED BY <1>12, <1>13, <2>1, <2>7, P2!KeptByFields
<1>17. (m = [name \in {"pubSubTopic", "contentFilters", "pagingInfo", "startTime",
                       "endTime"} |-> m[name]]) <=>
          m = [pubSubTopic |-> m.pubSubTopic, contentFilters |-> m.contentFilters,
               pagingInfo |-> m.pagingInfo, startTime |-> m.startTime,
               endTime |-> m.endTime]
  OBVIOUS
<1>18. P2!Is(HistoryQuery, m) <=>
          /\ m = [pubSubTopic |-> m.pubSubTopic, contentFilters |-> m.contentFilters,
                  pagingInfo |-> m.pagingInfo, startTime |-> m.startTime,
                  endTime |-> m.endTime]
          /\ m.contentFilters \in Seq(P2!ToSet(m.contentFilters))
          /\ \A i \in DOMAIN m.contentFilters : P1!Is(ContentFilter, m.contentFilters[i])
          /\ m.pagingInfo = Undefined \/ P1!Is(PagingInfo, m.pagingInfo)
  BY <1>1, <1>2, <1>3, <1>4, <1>5, <1>7, <1>8, <1>9, <1>10, <1>11, <1>14, <1>15, <1>17
<1> QED BY <1>12, <1>16, <1>18 DEF a, b, c, d, e, k

LEMMA HistoryResponseAt2 ==
    ASSUME NEW m
    PROVE  /\ P2!Type(HistoryResponse)
           /\ P2!ToSet(HistoryResponse) =
                 {Repeated(2, "messages", WakuMessage),
                  Embedded(3, "pagingInfo", PagingInfo),
                  Implicit(4, "error", Enum(HistoryResponse_Error), 0)}
           /\ P2!Is(HistoryResponse, m) <=>
                 /\ m = [messages |-> m.messages, pagingInfo |-> m.pagingInfo,
                         error |-> m.error]
                 /\ m.messages \in Seq(P2!ToSet(m.messages))
                 /\ \A i \in DOMAIN m.messages : P1!Is(WakuMessage, m.messages[i])
                 /\ m.pagingInfo = Undefined \/ P1!Is(PagingInfo, m.pagingInfo)
                 /\ m.error # Undefined /\ m.error \in Int
           /\ P2!Is(HistoryResponse, m) =>
                 P2!Kept(HistoryResponse, m) =
                    [messages |-> [i \in DOMAIN m.messages |-> P1!Kept(WakuMessage, m.messages[i])],
                     pagingInfo |-> IF m.pagingInfo = Undefined THEN m.pagingInfo
                                    ELSE P1!Kept(PagingInfo, m.pagingInfo),
                     error |-> Known(m.error)]
<1> DEFINE a == Repeated(2, "messages", WakuMessage)
           b == Embedded(3, "pagingInfo", PagingInfo)
           c == Implicit(4, "error", Enum(HistoryResponse_Error), 0)
           k == [messages |-> [i \in DOMAIN m.messages |-> P1!Kept(WakuMessage, m.messages[i])],
                 pagingInfo |-> IF m.pagingInfo = Undefined THEN m.pagingInfo
                                ELSE P1!Kept(PagingInfo, m.pagingInfo),
                 error |-> Known(m.error)]
<1>1. /\ a.num = 2 /\ a.name = "messages" /\ a.rule = "repeated" /\ a.zero = <<>>
      /\ a.type = WakuMessage
  BY DEF Repeated
<1>2. /\ b.num = 3 /\ b.name = "pagingInfo" /\ b.rule = "message" /\ b.zero = Undefined
      /\ b.type = PagingInfo
  BY DEF Embedded
<1>3. /\ c.num = 4 /\ c.name = "error" /\ c.rule = "implicit" /\ c.zero = 0
      /\ c.type.tag = "enum" /\ c.type.names = HistoryResponse_Error
  BY DEF Implicit, Enum
<1>4. HistoryResponse = <<a, b, c>>
  BY DEF HistoryResponse
<1> HIDE DEF a, b, c, k
<1>5. /\ P2!Field(a)
      /\ P2!Fits(a, m.messages) <=> /\ m.messages \in Seq(P2!ToSet(m.messages))
                                    /\ \A i \in DOMAIN m.messages : P1!Is(WakuMessage, m.messages[i])
      /\ P2!KeptField(a, m.messages) =
            [i \in DOMAIN m.messages |-> P1!Kept(WakuMessage, m.messages[i])]
  BY <1>1, P2!OfRepeated
<1>6. /\ P2!Field(b)
      /\ P2!Fits(b, m.pagingInfo) <=> m.pagingInfo = Undefined \/ P1!Is(PagingInfo, m.pagingInfo)
      /\ P2!KeptField(b, m.pagingInfo) = IF m.pagingInfo = Undefined THEN m.pagingInfo
                                         ELSE P1!Kept(PagingInfo, m.pagingInfo)
  BY <1>2, P2!OfEmbedded
<1>7. /\ P2!Field(c)
      /\ P2!Fits(c, m.error) <=> m.error # Undefined /\ m.error \in Int
      /\ m.error # Undefined /\ m.error \in Int =>
            P2!KeptField(c, m.error) = Known(m.error)
  <2>1. 0 \in Int /\ c.zero # Undefined /\ P2!EnumNames(c.type.names)
    BY <1>3, NoneIsZero, Enums
  <2>2. P2!Field(c) /\ (P2!Fits(c, m.error) <=> m.error # Undefined /\ m.error \in Int)
    BY <1>3, <2>1, P2!OfEnum
  <2>3. m.error # Undefined =>
           P2!KeptField(c, m.error) = IF m.error + 1 \in DOMAIN HistoryResponse_Error THEN m.error
                                      ELSE P2!Unrecognized
    BY <1>3, P2!OfEnum
  <2>4. m.error \in Int => Known(m.error) =
           IF m.error + 1 \in DOMAIN HistoryResponse_Error THEN m.error
                                            ELSE P2!Unrecognized
    BY Enums
  <2> QED BY <2>2, <2>3, <2>4
<1>8. P2!Type(HistoryResponse) /\ P2!ToSet(HistoryResponse) = {a, b, c}
  <2>1. \A f \in {a, b, c} : P2!Field(f)
    BY <1>5, <1>6, <1>7
  <2>2. /\ a.num # b.num /\ a.name # b.name
        /\ a.num # c.num /\ a.name # c.name
        /\ b.num # c.num /\ b.name # c.name
    BY <1>1, <1>2, <1>3
  <2> QED BY <1>4, <2>1, <2>2, P2!TypeOfThree
<1>9. {f.name : f \in P2!ToSet(HistoryResponse)} = {"messages", "pagingInfo", "error"}
  BY <1>1, <1>2, <1>3, <1>8
<1>10. P2!Is(HistoryResponse, m) =>
          /\ m = [name \in {"messages", "pagingInfo", "error"} |-> m[name]]
          /\ \A f \in {a, b, c} : P2!Fits(f, m[f.name])
  <2>1. P2!Is(HistoryResponse, m) =>
           /\ m = [name \in {f.name : f \in P2!ToSet(HistoryResponse)} |-> m[name]]
           /\ \A f \in P2!ToSet(HistoryResponse) : P2!Fits(f, m[f.name])
    BY P2!FieldsOfIs
  <2> QED BY <1>8, <1>9, <2>1
<1>11. ASSUME m = [name \in {"messages", "pagingInfo", "error"} |-> m[name]],
              \A f \in {a, b, c} : P2!Fits(f, m[f.name])
       PROVE  P2!Is(HistoryResponse, m)
  BY <1>8, <1>9, <1>11, P2!IsByFields
<1>12. ASSUME P2!Is(HistoryResponse, m) PROVE P2!Kept(HistoryResponse, m) = k
  <2>1. /\ k = [name \in {"messages", "pagingInfo", "error"} |-> k[name]]
        /\ k.messages = [i \in DOMAIN m.messages |-> P1!Kept(WakuMessage, m.messages[i])]
        /\ k.pagingInfo = (IF m.pagingInfo = Undefined THEN m.pagingInfo
                           ELSE P1!Kept(PagingInfo, m.pagingInfo))
        /\ k.error = Known(m.error)
    BY DEF k
  <2>2. k[a.name] = P2!KeptField(a, m[a.name])
    BY <1>1, <1>5, <2>1
  <2>3. k[b.name] = P2!KeptField(b, m[b.name])
    BY <1>2, <1>6, <2>1
  <2>4. k[c.name] = P2!KeptField(c, m[c.name])
    <3>1. P2!Fits(c, m[c.name])
      BY <1>10, <1>12
    <3> QED BY <1>3, <1>7, <2>1, <3>1
  <2>5. \A f \in {a, b, c} : k[f.name] = P2!KeptField(f, m[f.name])
    BY <2>2, <2>3, <2>4
  <2> QED BY <1>8, <1>9, <2>1, <2>5, P2!KeptByFields
<1>13. (m = [name \in {"messages", "pagingInfo", "error"} |-> m[name]]) <=>
          m = [messages |-> m.messages, pagingInfo |-> m.pagingInfo, error |-> m.error]
  OBVIOUS
<1>14. P2!Is(HistoryResponse, m) <=>
          /\ m = [messages |-> m.messages, pagingInfo |-> m.pagingInfo,
                  error |-> m.error]
          /\ m.messages \in Seq(P2!ToSet(m.messages))
          /\ \A i \in DOMAIN m.messages : P1!Is(WakuMessage, m.messages[i])
          /\ m.pagingInfo = Undefined \/ P1!Is(PagingInfo, m.pagingInfo)
          /\ m.error # Undefined /\ m.error \in Int
  BY <1>1, <1>2, <1>3, <1>5, <1>6, <1>7, <1>10, <1>11, <1>13
<1> QED BY <1>8, <1>12, <1>14 DEF a, b, c, k

LEMMA PushRequestAt2 ==
    ASSUME NEW m
    PROVE  /\ P2!Type(PushRequest)
           /\ P2!ToSet(PushRequest) =
                 {Implicit(1, "pubSubTopic", Plain, ""),
                  Embedded(2, "message", WakuMessage)}
           /\ P2!Is(PushRequest, m) <=>
                 /\ m = [pubSubTopic |-> m.pubSubTopic, message |-> m.message]
                 /\ m.pubSubTopic # Undefined
                 /\ m.message = Undefined \/ P1!Is(WakuMessage, m.message)
           /\ P2!Is(PushRequest, m) =>
                 P2!Kept(PushRequest, m) =
                    [pubSubTopic |-> m.pubSubTopic,
                     message |-> IF m.message = Undefined THEN m.message
                                 ELSE P1!Kept(WakuMessage, m.message)]
<1> DEFINE a == Implicit(1, "pubSubTopic", Plain, "")
           b == Embedded(2, "message", WakuMessage)
           k == [pubSubTopic |-> m.pubSubTopic,
                 message |-> IF m.message = Undefined THEN m.message
                             ELSE P1!Kept(WakuMessage, m.message)]
<1>1. /\ a.num = 1 /\ a.name = "pubSubTopic" /\ a.rule = "implicit"
      /\ a.type.tag # "enum"
  BY DEF Implicit, Plain
<1>2. /\ b.num = 2 /\ b.name = "message" /\ b.rule = "message" /\ b.zero = Undefined
      /\ b.type = WakuMessage
  BY DEF Embedded
<1>3. PushRequest = <<a, b>>
  BY DEF PushRequest
<1>4. a.zero # Undefined
  BY NoneIsText DEF Implicit
<1> HIDE DEF a, b, k
<1>5. /\ P2!Field(a)
      /\ P2!Fits(a, m.pubSubTopic) <=> m.pubSubTopic # Undefined
      /\ P2!KeptField(a, m.pubSubTopic) = m.pubSubTopic
  BY <1>1, P2!OfImplicit, <1>4
<1>6. /\ P2!Field(b)
      /\ P2!Fits(b, m.message) <=> m.message = Undefined \/ P1!Is(WakuMessage, m.message)
      /\ P2!KeptField(b, m.message) = IF m.message = Undefined THEN m.message
                                      ELSE P1!Kept(WakuMessage, m.message)
  BY <1>2, P2!OfEmbedded
<1>7. P2!Type(PushRequest) /\ P2!ToSet(PushRequest) = {a, b}
  <2>1. \A f \in {a, b} : P2!Field(f)
    BY <1>5, <1>6
  <2>2. /\ a.num # b.num /\ a.name # b.name
    BY <1>1, <1>2
  <2> QED BY <1>3, <2>1, <2>2, P2!TypeOfTwo
<1>8. {f.name : f \in P2!ToSet(PushRequest)} = {"pubSubTopic", "message"}
  BY <1>1, <1>2, <1>7
<1>9. P2!Is(PushRequest, m) =>
         /\ m = [name \in {"pubSubTopic", "message"} |-> m[name]]
         /\ \A f \in {a, b} : P2!Fits(f, m[f.name])
  <2>1. P2!Is(PushRequest, m) =>
           /\ m = [name \in {f.name : f \in P2!ToSet(PushRequest)} |-> m[name]]
           /\ \A f \in P2!ToSet(PushRequest) : P2!Fits(f, m[f.name])
    BY P2!FieldsOfIs
  <2> QED BY <1>7, <1>8, <2>1
<1>10. ASSUME m = [name \in {"pubSubTopic", "message"} |-> m[name]],
              \A f \in {a, b} : P2!Fits(f, m[f.name])
       PROVE  P2!Is(PushRequest, m)
  BY <1>7, <1>8, <1>10, P2!IsByFields
<1>11. ASSUME P2!Is(PushRequest, m) PROVE P2!Kept(PushRequest, m) = k
  <2>1. /\ k = [name \in {"pubSubTopic", "message"} |-> k[name]]
        /\ k.pubSubTopic = m.pubSubTopic
        /\ k.message = (IF m.message = Undefined THEN m.message ELSE P1!Kept(WakuMessage, m.message))
    BY DEF k
  <2>2. k[a.name] = P2!KeptField(a, m[a.name])
    BY <1>1, <1>5, <2>1
  <2>3. k[b.name] = P2!KeptField(b, m[b.name])
    BY <1>2, <1>6, <2>1
  <2>4. \A f \in {a, b} : k[f.name] = P2!KeptField(f, m[f.name])
    BY <2>2, <2>3
  <2> QED BY <1>7, <1>8, <2>1, <2>4, P2!KeptByFields
<1>12. (m = [name \in {"pubSubTopic", "message"} |-> m[name]]) <=>
          m = [pubSubTopic |-> m.pubSubTopic, message |-> m.message]
  OBVIOUS
<1>13. P2!Is(PushRequest, m) <=>
          /\ m = [pubSubTopic |-> m.pubSubTopic, message |-> m.message]
          /\ m.pubSubTopic # Undefined
          /\ m.message = Undefined \/ P1!Is(WakuMessage, m.message)
  BY <1>1, <1>2, <1>5, <1>6, <1>9, <1>10, <1>12
<1> QED BY <1>7, <1>11, <1>13 DEF a, b, k

LEMMA PushResponseAt2 ==
    ASSUME NEW m
    PROVE  /\ P2!Type(PushResponse)
           /\ P2!ToSet(PushResponse) =
                 {Implicit(1, "isSuccess", Plain, FALSE),
                  Implicit(2, "info", Plain, "")}
           /\ P2!Is(PushResponse, m) <=>
                 /\ m = [isSuccess |-> m.isSuccess, info |-> m.info]
                 /\ m.isSuccess # Undefined
                 /\ m.info # Undefined
           /\ P2!Is(PushResponse, m) =>
                 P2!Kept(PushResponse, m) =
                    [isSuccess |-> m.isSuccess,
                     info |-> m.info]
<1> DEFINE a == Implicit(1, "isSuccess", Plain, FALSE)
           b == Implicit(2, "info", Plain, "")
           k == [isSuccess |-> m.isSuccess,
                 info |-> m.info]
<1>1. /\ a.num = 1 /\ a.name = "isSuccess" /\ a.rule = "implicit"
      /\ a.type.tag # "enum"
  BY DEF Implicit, Plain
<1>2. /\ b.num = 2 /\ b.name = "info" /\ b.rule = "implicit"
      /\ b.type.tag # "enum"
  BY DEF Implicit, Plain
<1>3. PushResponse = <<a, b>>
  BY DEF PushResponse
<1>4. a.zero # Undefined
  BY NoneIsFalse DEF Implicit
<1>5. b.zero # Undefined
  BY NoneIsText DEF Implicit
<1> HIDE DEF a, b, k
<1>6. /\ P2!Field(a)
      /\ P2!Fits(a, m.isSuccess) <=> m.isSuccess # Undefined
      /\ P2!KeptField(a, m.isSuccess) = m.isSuccess
  BY <1>1, P2!OfImplicit, <1>4
<1>7. /\ P2!Field(b)
      /\ P2!Fits(b, m.info) <=> m.info # Undefined
      /\ P2!KeptField(b, m.info) = m.info
  BY <1>2, P2!OfImplicit, <1>5
<1>8. P2!Type(PushResponse) /\ P2!ToSet(PushResponse) = {a, b}
  <2>1. \A f \in {a, b} : P2!Field(f)
    BY <1>6, <1>7
  <2>2. /\ a.num # b.num /\ a.name # b.name
    BY <1>1, <1>2
  <2> QED BY <1>3, <2>1, <2>2, P2!TypeOfTwo
<1>9. {f.name : f \in P2!ToSet(PushResponse)} = {"isSuccess", "info"}
  BY <1>1, <1>2, <1>8
<1>10. P2!Is(PushResponse, m) =>
          /\ m = [name \in {"isSuccess", "info"} |-> m[name]]
          /\ \A f \in {a, b} : P2!Fits(f, m[f.name])
  <2>1. P2!Is(PushResponse, m) =>
           /\ m = [name \in {f.name : f \in P2!ToSet(PushResponse)} |-> m[name]]
           /\ \A f \in P2!ToSet(PushResponse) : P2!Fits(f, m[f.name])
    BY P2!FieldsOfIs
  <2> QED BY <1>8, <1>9, <2>1
<1>11. ASSUME m = [name \in {"isSuccess", "info"} |-> m[name]],
              \A f \in {a, b} : P2!Fits(f, m[f.name])
       PROVE  P2!Is(PushResponse, m)
  BY <1>8, <1>9, <1>11, P2!IsByFields
<1>12. ASSUME P2!Is(PushResponse, m) PROVE P2!Kept(PushResponse, m) = k
  <2>1. /\ k = [name \in {"isSuccess", "info"} |-> k[name]]
        /\ k.isSuccess = m.isSuccess
        /\ k.info = m.info
    BY DEF k
  <2>2. k[a.name] = P2!KeptField(a, m[a.name])
    BY <1>1, <1>6, <2>1
  <2>3. k[b.name] = P2!KeptField(b, m[b.name])
    BY <1>2, <1>7, <2>1
  <2>4. \A f \in {a, b} : k[f.name] = P2!KeptField(f, m[f.name])
    BY <2>2, <2>3
  <2> QED BY <1>8, <1>9, <2>1, <2>4, P2!KeptByFields
<1>13. (m = [name \in {"isSuccess", "info"} |-> m[name]]) <=>
          m = [isSuccess |-> m.isSuccess, info |-> m.info]
  OBVIOUS
<1>14. P2!Is(PushResponse, m) <=>
          /\ m = [isSuccess |-> m.isSuccess, info |-> m.info]
          /\ m.isSuccess # Undefined
          /\ m.info # Undefined
  BY <1>1, <1>2, <1>6, <1>7, <1>10, <1>11, <1>13
<1> QED BY <1>8, <1>12, <1>14 DEF a, b, k

LEMMA HistoryRPCAt3 ==
    ASSUME NEW m
    PROVE  /\ P3!Type(HistoryRPC)
           /\ P3!ToSet(HistoryRPC) =
                 {Implicit(1, "requestId", Plain, ""),
                  Embedded(2, "query", HistoryQuery),
                  Embedded(3, "response", HistoryResponse)}
           /\ P3!Is(HistoryRPC, m) <=>
                 /\ m = [requestId |-> m.requestId, query |-> m.query,
                         response |-> m.response]
                 /\ m.requestId # Undefined
                 /\ m.query = Undefined \/ P2!Is(HistoryQuery, m.query)
                 /\ m.response = Undefined \/ P2!Is(HistoryResponse, m.response)
           /\ P3!Is(HistoryRPC, m) =>
                 P3!Kept(HistoryRPC, m) =
                    [requestId |-> m.requestId,
                     query |-> IF m.query = Undefined THEN m.query
                               ELSE P2!Kept(HistoryQuery, m.query),
                     response |-> IF m.response = Undefined THEN m.response
                                  ELSE P2!Kept(HistoryResponse, m.response)]
<1> DEFINE a == Implicit(1, "requestId", Plain, "")
           b == Embedded(2, "query", HistoryQuery)
           c == Embedded(3, "response", HistoryResponse)
           k == [requestId |-> m.requestId,
                 query |-> IF m.query = Undefined THEN m.query ELSE P2!Kept(HistoryQuery, m.query),
                 response |-> IF m.response = Undefined THEN m.response
                              ELSE P2!Kept(HistoryResponse, m.response)]
<1>1. /\ a.num = 1 /\ a.name = "requestId" /\ a.rule = "implicit"
      /\ a.type.tag # "enum"
  BY DEF Implicit, Plain
<1>2. /\ b.num = 2 /\ b.name = "query" /\ b.rule = "message" /\ b.zero = Undefined
      /\ b.type = HistoryQuery
  BY DEF Embedded
<1>3. /\ c.num = 3 /\ c.name = "response" /\ c.rule = "message" /\ c.zero = Undefined
      /\ c.type = HistoryResponse
  BY DEF Embedded
<1>4. HistoryRPC = <<a, b, c>>
  BY DEF HistoryRPC
<1>5. a.zero # Undefined
  BY NoneIsText DEF Implicit
<1> HIDE DEF a, b, c, k
<1>6. /\ P3!Field(a)
      /\ P3!Fits(a, m.requestId) <=> m.requestId # Undefined
      /\ P3!KeptField(a, m.requestId) = m.requestId
  BY <1>1, P3!OfImplicit, <1>5
<1>7. /\ P3!Field(b)
      /\ P3!Fits(b, m.query) <=> m.query = Undefined \/ P2!Is(HistoryQuery, m.query)
      /\ P3!KeptField(b, m.query) = IF m.query = Undefined THEN m.query
                                    ELSE P2!Kept(HistoryQuery, m.query)
  BY <1>2, P3!OfEmbedded
<1>8. /\ P3!Field(c)
      /\ P3!Fits(c, m.response) <=> m.response = Undefined \/ P2!Is(HistoryResponse, m.response)
      /\ P3!KeptField(c, m.response) = IF m.response = Undefined THEN m.response
                                       ELSE P2!Kept(HistoryResponse, m.response)
  BY <1>3, P3!OfEmbedded
<1>9. P3!Type(HistoryRPC) /\ P3!ToSet(HistoryRPC) = {a, b, c}
  <2>1. \A f \in {a, b, c} : P3!Field(f)
    BY <1>6, <1>7, <1>8
  <2>2. /\ a.num # b.num /\ a.name # b.name
        /\ a.num # c.num /\ a.name # c.name
        /\ b.num # c.num /\ b.name # c.name
    BY <1>1, <1>2, <1>3
  <2> QED BY <1>4, <2>1, <2>2, P3!TypeOfThree
<1>10. {f.name : f \in P3!ToSet(HistoryRPC)} = {"requestId", "query", "response"}
  BY <1>1, <1>2, <1>3, <1>9
<1>11. P3!Is(HistoryRPC, m) =>
          /\ m = [name \in {"requestId", "query", "response"} |-> m[name]]
          /\ \A f \in {a, b, c} : P3!Fits(f, m[f.name])
  <2>1. P3!Is(HistoryRPC, m) =>
           /\ m = [name \in {f.name : f \in P3!ToSet(HistoryRPC)} |-> m[name]]
           /\ \A f \in P3!ToSet(HistoryRPC) : P3!Fits(f, m[f.name])
    BY P3!FieldsOfIs
  <2> QED BY <1>9, <1>10, <2>1
<1>12. ASSUME m = [name \in {"requestId", "query", "response"} |-> m[name]],
              \A f \in {a, b, c} : P3!Fits(f, m[f.name])
       PROVE  P3!Is(HistoryRPC, m)
  BY <1>9, <1>10, <1>12, P3!IsByFields
<1>13. ASSUME P3!Is(HistoryRPC, m) PROVE P3!Kept(HistoryRPC, m) = k
  <2>1. /\ k = [name \in {"requestId", "query", "response"} |-> k[name]]
        /\ k.requestId = m.requestId
        /\ k.query = (IF m.query = Undefined THEN m.query ELSE P2!Kept(HistoryQuery, m.query))
        /\ k.response = (IF m.response = Undefined THEN m.response
                         ELSE P2!Kept(HistoryResponse, m.response))
    BY DEF k
  <2>2. k[a.name] = P3!KeptField(a, m[a.name])
    BY <1>1, <1>6, <2>1
  <2>3. k[b.name] = P3!KeptField(b, m[b.name])
    BY <1>2, <1>7, <2>1
  <2>4. k[c.name] = P3!KeptField(c, m[c.name])
    BY <1>3, <1>8, <2>1
  <2>5. \A f \in {a, b, c} : k[f.name] = P3!KeptField(f, m[f.name])
    BY <2>2, <2>3, <2>4
  <2> QED BY <1>9, <1>10, <2>1, <2>5, P3!KeptByFields
<1>14. (m = [name \in {"requestId", "query", "response"} |-> m[name]]) <=>
          m = [requestId |-> m.requestId, query |-> m.query, response |-> m.response]
  OBVIOUS
<1>15. P3!Is(HistoryRPC, m) <=>
          /\ m = [requestId |-> m.requestId, query |-> m.query,
                  response |-> m.response]
          /\ m.requestId # Undefined
          /\ m.query = Undefined \/ P2!Is(HistoryQuery, m.query)
          /\ m.response = Undefined \/ P2!Is(HistoryResponse, m.response)
  BY <1>1, <1>2, <1>3, <1>6, <1>7, <1>8, <1>11, <1>12, <1>14
<1> QED BY <1>9, <1>13, <1>15 DEF a, b, c, k

LEMMA PushRPCAt3 ==
    ASSUME NEW m
    PROVE  /\ P3!Type(PushRPC)
           /\ P3!ToSet(PushRPC) =
                 {Implicit(1, "requestId", Plain, ""),
                  Embedded(2, "request", PushRequest),
                  Embedded(3, "response", PushResponse)}
           /\ P3!Is(PushRPC, m) <=>
                 /\ m = [requestId |-> m.requestId, request |-> m.request,
                         response |-> m.response]
                 /\ m.requestId # Undefined
                 /\ m.request = Undefined \/ P2!Is(PushRequest, m.request)
                 /\ m.response = Undefined \/ P2!Is(PushResponse, m.response)
           /\ P3!Is(PushRPC, m) =>
                 P3!Kept(PushRPC, m) =
                    [requestId |-> m.requestId,
                     request |-> IF m.request = Undefined THEN m.request
                                 ELSE P2!Kept(PushRequest, m.request),
                     response |-> IF m.response = Undefined THEN m.response
                                  ELSE P2!Kept(PushResponse, m.response)]
<1> DEFINE a == Implicit(1, "requestId", Plain, "")
           b == Embedded(2, "request", PushRequest)
           c == Embedded(3, "response", PushResponse)
           k == [requestId |-> m.requestId,
                 request |-> IF m.request = Undefined THEN m.request
                             ELSE P2!Kept(PushRequest, m.request),
                 response |-> IF m.response = Undefined THEN m.response
                              ELSE P2!Kept(PushResponse, m.response)]
<1>1. /\ a.num = 1 /\ a.name = "requestId" /\ a.rule = "implicit"
      /\ a.type.tag # "enum"
  BY DEF Implicit, Plain
<1>2. /\ b.num = 2 /\ b.name = "request" /\ b.rule = "message" /\ b.zero = Undefined
      /\ b.type = PushRequest
  BY DEF Embedded
<1>3. /\ c.num = 3 /\ c.name = "response" /\ c.rule = "message" /\ c.zero = Undefined
      /\ c.type = PushResponse
  BY DEF Embedded
<1>4. PushRPC = <<a, b, c>>
  BY DEF PushRPC
<1>5. a.zero # Undefined
  BY NoneIsText DEF Implicit
<1> HIDE DEF a, b, c, k
<1>6. /\ P3!Field(a)
      /\ P3!Fits(a, m.requestId) <=> m.requestId # Undefined
      /\ P3!KeptField(a, m.requestId) = m.requestId
  BY <1>1, P3!OfImplicit, <1>5
<1>7. /\ P3!Field(b)
      /\ P3!Fits(b, m.request) <=> m.request = Undefined \/ P2!Is(PushRequest, m.request)
      /\ P3!KeptField(b, m.request) = IF m.request = Undefined THEN m.request
                                      ELSE P2!Kept(PushRequest, m.request)
  BY <1>2, P3!OfEmbedded
<1>8. /\ P3!Field(c)
      /\ P3!Fits(c, m.response) <=> m.response = Undefined \/ P2!Is(PushResponse, m.response)
      /\ P3!KeptField(c, m.response) = IF m.response = Undefined THEN m.response
                                       ELSE P2!Kept(PushResponse, m.response)
  BY <1>3, P3!OfEmbedded
<1>9. P3!Type(PushRPC) /\ P3!ToSet(PushRPC) = {a, b, c}
  <2>1. \A f \in {a, b, c} : P3!Field(f)
    BY <1>6, <1>7, <1>8
  <2>2. /\ a.num # b.num /\ a.name # b.name
        /\ a.num # c.num /\ a.name # c.name
        /\ b.num # c.num /\ b.name # c.name
    BY <1>1, <1>2, <1>3
  <2> QED BY <1>4, <2>1, <2>2, P3!TypeOfThree
<1>10. {f.name : f \in P3!ToSet(PushRPC)} = {"requestId", "request", "response"}
  BY <1>1, <1>2, <1>3, <1>9
<1>11. P3!Is(PushRPC, m) =>
          /\ m = [name \in {"requestId", "request", "response"} |-> m[name]]
          /\ \A f \in {a, b, c} : P3!Fits(f, m[f.name])
  <2>1. P3!Is(PushRPC, m) =>
           /\ m = [name \in {f.name : f \in P3!ToSet(PushRPC)} |-> m[name]]
           /\ \A f \in P3!ToSet(PushRPC) : P3!Fits(f, m[f.name])
    BY P3!FieldsOfIs
  <2> QED BY <1>9, <1>10, <2>1
<1>12. ASSUME m = [name \in {"requestId", "request", "response"} |-> m[name]],
              \A f \in {a, b, c} : P3!Fits(f, m[f.name])
       PROVE  P3!Is(PushRPC, m)
  BY <1>9, <1>10, <1>12, P3!IsByFields
<1>13. ASSUME P3!Is(PushRPC, m) PROVE P3!Kept(PushRPC, m) = k
  <2>1. /\ k = [name \in {"requestId", "request", "response"} |-> k[name]]
        /\ k.requestId = m.requestId
        /\ k.request = (IF m.request = Undefined THEN m.request ELSE P2!Kept(PushRequest, m.request))
        /\ k.response = (IF m.response = Undefined THEN m.response
                         ELSE P2!Kept(PushResponse, m.response))
    BY DEF k
  <2>2. k[a.name] = P3!KeptField(a, m[a.name])
    BY <1>1, <1>6, <2>1
  <2>3. k[b.name] = P3!KeptField(b, m[b.name])
    BY <1>2, <1>7, <2>1
  <2>4. k[c.name] = P3!KeptField(c, m[c.name])
    BY <1>3, <1>8, <2>1
  <2>5. \A f \in {a, b, c} : k[f.name] = P3!KeptField(f, m[f.name])
    BY <2>2, <2>3, <2>4
  <2> QED BY <1>9, <1>10, <2>1, <2>5, P3!KeptByFields
<1>14. (m = [name \in {"requestId", "request", "response"} |-> m[name]]) <=>
          m = [requestId |-> m.requestId, request |-> m.request,
               response |-> m.response]
  OBVIOUS
<1>15. P3!Is(PushRPC, m) <=>
          /\ m = [requestId |-> m.requestId, request |-> m.request,
                  response |-> m.response]
          /\ m.requestId # Undefined
          /\ m.request = Undefined \/ P2!Is(PushRequest, m.request)
          /\ m.response = Undefined \/ P2!Is(PushResponse, m.response)
  BY <1>1, <1>2, <1>3, <1>6, <1>7, <1>8, <1>11, <1>12, <1>14
<1> QED BY <1>9, <1>13, <1>15 DEF a, b, c, k

LEMMA SameFunction ==
    ASSUME NEW S, NEW s \in Seq(S)
    PROVE  s = [i \in DOMAIN s |-> s[i]]
OBVIOUS

-----------------------------------------------------------------------------
(* What JSON keeps *)

(* Of all but errors and directions, everything. *)
LEMMA IndexKept == ASSUME NEW m, P0!Is(Index, m) PROVE P0!Kept(Index, m) = m
<1>1. /\ m = [digest |-> m.digest, receivedTime |-> m.receivedTime, senderTime |-> m.senderTime]
      /\ P0!Kept(Index, m) =
            [digest |-> m.digest, receivedTime |-> m.receivedTime, senderTime |-> m.senderTime]
  BY IndexAt0
<1> QED BY <1>1, Zenon

LEMMA WakuMessageKept ==
    ASSUME NEW m
    PROVE  /\ P1!Is(WakuMessage, m) => P1!Kept(WakuMessage, m) = m
           /\ P3!Is(WakuMessage, m) => P3!Kept(WakuMessage, m) = m
BY WakuMessageAt1, WakuMessageAt3

LEMMA ContentFilterKept ==
    ASSUME NEW m, P1!Is(ContentFilter, m) PROVE P1!Kept(ContentFilter, m) = m
BY ContentFilterAt1

LEMMA PagingInfoKept ==
    ASSUME NEW m, P1!Is(PagingInfo, m)
    PROVE  /\ m # Undefined => P1!Kept(PagingInfo, m) = KnownPaging(m)
           /\ m.direction \in {0, 1} => P1!Kept(PagingInfo, m) = m
<1>1. /\ m = [pageSize |-> m.pageSize, cursor |-> m.cursor, direction |-> m.direction]
      /\ m.cursor = Undefined \/ P0!Is(Index, m.cursor)
      /\ P1!Kept(PagingInfo, m) =
            [pageSize  |-> m.pageSize,
             cursor    |-> IF m.cursor = Undefined THEN m.cursor ELSE P0!Kept(Index, m.cursor),
             direction |-> Known(m.direction)]
  BY PagingInfoAt1
<1>2. (IF m.cursor = Undefined THEN m.cursor ELSE P0!Kept(Index, m.cursor)) = m.cursor
  BY <1>1, IndexKept
<1>3. P1!Kept(PagingInfo, m) =
         [pageSize |-> m.pageSize, cursor |-> m.cursor, direction |-> Known(m.direction)]
  BY <1>1, <1>2
<1>4. m.direction \in {0, 1} => Known(m.direction) = m.direction
  BY DEF Known
<1>5. [m EXCEPT !.direction = Known(@)] =
         [pageSize |-> m.pageSize, cursor |-> m.cursor, direction |-> Known(m.direction)]
  BY <1>1
<1> QED BY <1>1, <1>3, <1>4, <1>5 DEF KnownPaging

LEMMA HistoryQueryKept ==
    ASSUME NEW m, P2!Is(HistoryQuery, m),
           m.pagingInfo # Undefined => m.pagingInfo.direction \in {0, 1}
    PROVE  P2!Kept(HistoryQuery, m) = m
<1> DEFINE filters == [i \in DOMAIN m.contentFilters |-> P1!Kept(ContentFilter, m.contentFilters[i])]
           paging == IF m.pagingInfo = Undefined THEN m.pagingInfo
                     ELSE P1!Kept(PagingInfo, m.pagingInfo)
<1>1. /\ m = [pubSubTopic |-> m.pubSubTopic, contentFilters |-> m.contentFilters,
              pagingInfo |-> m.pagingInfo, startTime |-> m.startTime, endTime |-> m.endTime]
      /\ m.contentFilters \in Seq(P2!ToSet(m.contentFilters))
      /\ \A i \in DOMAIN m.contentFilters : P1!Is(ContentFilter, m.contentFilters[i])
      /\ m.pagingInfo = Undefined \/ P1!Is(PagingInfo, m.pagingInfo)
  BY HistoryQueryAt2
<1>2. P2!Kept(HistoryQuery, m) =
         [pubSubTopic |-> m.pubSubTopic, contentFilters |-> filters,
          pagingInfo |-> paging, startTime |-> m.startTime, endTime |-> m.endTime]
  BY HistoryQueryAt2
<1>3. filters = m.contentFilters
  <2>1. \A i \in DOMAIN m.contentFilters :
           P1!Kept(ContentFilter, m.contentFilters[i]) = m.contentFilters[i]
    BY <1>1, ContentFilterKept
  <2>2. m.contentFilters = [i \in DOMAIN m.contentFilters |-> m.contentFilters[i]]
    BY <1>1, SameFunction
  <2> QED BY <2>1, <2>2
<1>4. paging = m.pagingInfo
  BY <1>1, PagingInfoKept
<1> QED BY <1>1, <1>2, <1>3, <1>4

LEMMA HistoryResponseKept ==
    ASSUME NEW m, P2!Is(HistoryResponse, m)
    PROVE  P2!Kept(HistoryResponse, m) = KnownResponse(m)
<1> DEFINE msgs == [i \in DOMAIN m.messages |-> P1!Kept(WakuMessage, m.messages[i])]
           paging == IF m.pagingInfo = Undefined THEN m.pagingInfo
                     ELSE P1!Kept(PagingInfo, m.pagingInfo)
           known == KnownPaging(m.pagingInfo)
<1>1. /\ m = [messages |-> m.messages, pagingInfo |-> m.pagingInfo, error |-> m.error]
      /\ m.messages \in Seq(P2!ToSet(m.messages))
      /\ \A i \in DOMAIN m.messages : P1!Is(WakuMessage, m.messages[i])
      /\ m.pagingInfo = Undefined \/ P1!Is(PagingInfo, m.pagingInfo)
  BY HistoryResponseAt2
<1>2. P2!Kept(HistoryResponse, m) =
         [messages |-> msgs, pagingInfo |-> paging, error |-> Known(m.error)]
  BY HistoryResponseAt2
<1>3. msgs = m.messages
  <2>1. \A i \in DOMAIN m.messages : P1!Kept(WakuMessage, m.messages[i]) = m.messages[i]
    BY <1>1, WakuMessageKept
  <2>2. m.messages = [i \in DOMAIN m.messages |-> m.messages[i]]
    BY <1>1, SameFunction
  <2> QED BY <2>1, <2>2
<1>4. paging = known
  BY <1>1, PagingInfoKept DEF KnownPaging
<1> HIDE DEF msgs, paging
<1>5. P2!Kept(HistoryResponse, m) =
         [messages |-> m.messages, pagingInfo |-> known, error |-> Known(m.error)]
  BY <1>2, <1>3, <1>4
<1> HIDE DEF known
<1>6. ASSUME NEW e, NEW q
      PROVE  [m EXCEPT !.error = e, !.pagingInfo = q]
                = [messages |-> m.messages, pagingInfo |-> q, error |-> e]
  <2> DEFINE r == [m EXCEPT !.error = e]
  <2>1. r = [messages |-> m.messages, pagingInfo |-> m.pagingInfo, error |-> e]
    BY <1>1
  <2>2. [m EXCEPT !.error = e, !.pagingInfo = q] = [r EXCEPT !.pagingInfo = q]
    OBVIOUS
  <2> HIDE DEF r
  <2>3. [r EXCEPT !.pagingInfo = q] = [messages |-> m.messages, pagingInfo |-> q, error |-> e]
    BY <2>1
  <2> QED BY <2>2, <2>3
<1> QED BY <1>5, <1>6 DEF known, KnownResponse

LEMMA PushRPCKept == ASSUME NEW m, P3!Is(PushRPC, m) PROVE P3!Kept(PushRPC, m) = m
<1> DEFINE request == IF m.request = Undefined THEN m.request ELSE P2!Kept(PushRequest, m.request)
           response == IF m.response = Undefined THEN m.response
                       ELSE P2!Kept(PushResponse, m.response)
<1>1. /\ m = [requestId |-> m.requestId, request |-> m.request, response |-> m.response]
      /\ m.request = Undefined \/ P2!Is(PushRequest, m.request)
      /\ m.response = Undefined \/ P2!Is(PushResponse, m.response)
      /\ P3!Kept(PushRPC, m) =
            [requestId |-> m.requestId, request |-> request, response |-> response]
  BY PushRPCAt3
<1>2. ASSUME NEW r, P2!Is(PushRequest, r) PROVE P2!Kept(PushRequest, r) = r
  <2> DEFINE message == IF r.message = Undefined THEN r.message ELSE P1!Kept(WakuMessage, r.message)
  <2>1. /\ r = [pubSubTopic |-> r.pubSubTopic, message |-> r.message]
        /\ r.message = Undefined \/ P1!Is(WakuMessage, r.message)
        /\ P2!Kept(PushRequest, r) = [pubSubTopic |-> r.pubSubTopic, message |-> message]
    BY <1>2, PushRequestAt2
  <2>2. message = r.message
    BY <2>1, WakuMessageKept
  <2> QED BY <2>1, <2>2
<1>3. ASSUME NEW r, P2!Is(PushResponse, r) PROVE P2!Kept(PushResponse, r) = r
  BY <1>3, PushResponseAt2
<1>4. request = m.request /\ response = m.response
  BY <1>1, <1>2, <1>3
<1> QED BY <1>1, <1>4

LEMMA HistoryRPCKept ==
    ASSUME NEW m, P3!Is(HistoryRPC, m),
           m.query # Undefined /\ m.query.pagingInfo # Undefined =>
              m.query.pagingInfo.direction \in {0, 1}
    PROVE  P3!Kept(HistoryRPC, m) =
              IF m.response = Undefined THEN m
              ELSE [m EXCEPT !.response = KnownResponse(@)]
<1> DEFINE query == IF m.query = Undefined THEN m.query ELSE P2!Kept(HistoryQuery, m.query)
           response == IF m.response = Undefined THEN m.response
                       ELSE P2!Kept(HistoryResponse, m.response)
<1>1. /\ m = [requestId |-> m.requestId, query |-> m.query, response |-> m.response]
      /\ m.query = Undefined \/ P2!Is(HistoryQuery, m.query)
      /\ m.response = Undefined \/ P2!Is(HistoryResponse, m.response)
      /\ P3!Kept(HistoryRPC, m) = [requestId |-> m.requestId, query |-> query, response |-> response]
  BY HistoryRPCAt3
<1>2. query = m.query
  BY <1>1, HistoryQueryKept
<1>3. response = IF m.response = Undefined THEN m.response ELSE KnownResponse(m.response)
  BY <1>1, HistoryResponseKept
<1>4. P3!Kept(HistoryRPC, m) =
         [requestId |-> m.requestId, query |-> m.query,
          response |-> IF m.response = Undefined THEN m.response ELSE KnownResponse(m.response)]
  BY <1>1, <1>2, <1>3
<1>5. [m EXCEPT !.response = KnownResponse(@)] =
         [requestId |-> m.requestId, query |-> m.query, response |-> KnownResponse(m.response)]
  BY <1>1
<1> QED BY <1>1, <1>4, <1>5

-----------------------------------------------------------------------------
(* What a packet says *)

LEMMA TypesTravelling ==
    ASSUME NEW kind \in Kind
    PROVE  \A i \in DOMAIN TypeOf(kind) :
              TypeOf(kind)[i].rule # "repeated" /\ TypeOf(kind)[i].num # 9
<1> DEFINE T == TypeOf(kind)
<1>1. \A f \in P3!ToSet(T) : f.rule # "repeated" /\ f.num # 9
  <2>1. \A f \in P3!ToSet(WakuMessage) : f.rule # "repeated" /\ f.num # 9
    <3> DEFINE a == Optional(1, "payload", Bytes)
               b == Optional(2, "contentTopic", Plain)
               c == Optional(3, "version", Plain)
               d == Optional(4, "timestamp", Plain)
    <3>1. /\ a.rule = "optional" /\ a.num = 1
          /\ b.rule = "optional" /\ b.num = 2
          /\ c.rule = "optional" /\ c.num = 3
          /\ d.rule = "optional" /\ d.num = 4
      BY DEF Optional
    <3>2. P3!ToSet(WakuMessage) = {a, b, c, d}
      BY WakuMessageAt3
    <3> HIDE DEF a, b, c, d
    <3> QED BY <3>1, <3>2
  <2>2. \A f \in P3!ToSet(PushRPC) : f.rule # "repeated" /\ f.num # 9
    <3> DEFINE a == Implicit(1, "requestId", Plain, "")
               b == Embedded(2, "request", PushRequest)
               c == Embedded(3, "response", PushResponse)
    <3>1. /\ a.rule = "implicit" /\ a.num = 1
          /\ b.rule = "message" /\ b.num = 2
          /\ c.rule = "message" /\ c.num = 3
      BY DEF Embedded, Implicit
    <3>2. P3!ToSet(PushRPC) = {a, b, c}
      BY PushRPCAt3
    <3> HIDE DEF a, b, c
    <3> QED BY <3>1, <3>2
  <2>3. \A f \in P3!ToSet(HistoryRPC) : f.rule # "repeated" /\ f.num # 9
    <3> DEFINE a == Implicit(1, "requestId", Plain, "")
               b == Embedded(2, "query", HistoryQuery)
               c == Embedded(3, "response", HistoryResponse)
    <3>1. /\ a.rule = "implicit" /\ a.num = 1
          /\ b.rule = "message" /\ b.num = 2
          /\ c.rule = "message" /\ c.num = 3
      BY DEF Embedded, Implicit
    <3>2. P3!ToSet(HistoryRPC) = {a, b, c}
      BY HistoryRPCAt3
    <3> HIDE DEF a, b, c
    <3> QED BY <3>1, <3>2
  <2> QED BY <2>1, <2>2, <2>3 DEF TypeOf, Kind
<1> HIDE DEF T
<1>2. \A i \in DOMAIN T : T[i] \in P3!ToSet(T)
  BY DEF P3!ToSet
<1> QED BY <1>1, <1>2 DEF T

(* Whatever encoding a peer has chosen, decode gives the message.           *)
LEMMA EncodingsDecoded ==
    ASSUME NEW kind \in Kind, NEW m, P3!Is(TypeOf(kind), m),
           NEW bytes \in Encodings(kind, Encode(TypeOf(kind), m))
    PROVE  Decode(TypeOf(kind), bytes) = m
<1> DEFINE T == TypeOf(kind)
           w == Encode(T, m)
           e == [num |-> 9, val |-> "new"]
<1>1. w = P3!Encode(T, m) /\ Decode(T, bytes) = P3!Decode(T, bytes)
  BY Same3 DEF Encode, Decode
<1>2. \A S, x : P2!Is(S, x) => Depth2!Decode(S, Depth2!Encode(S, x)) = x
  BY AtDepth2
<1>3. P3!Another(T, w, bytes)
  <2>1. (\A i \in DOMAIN T : T[i].num # e.num)
    BY TypesTravelling
  <2> HIDE DEF T, w, e
  <2>2. \/ bytes = w \/ bytes = Rotated(w) \/ bytes = Append(w, e)
        \/ bytes = <<Older(kind)>> \o w /\ \E i \in DOMAIN w : w[i].num = Older(kind).num
    BY DEF Encodings, T, w, e
  <2>3. Rotated(w) = w \/ (w # <<>> /\ Rotated(w) = Append(Tail(w), Head(w)))
    BY DEF Rotated
  <2> QED BY <2>1, <2>2, <2>3 DEF P3!Another
<1>4. \A i \in DOMAIN T : T[i].rule # "repeated"
  BY TypesTravelling
<1> HIDE DEF T, w
<1>5. P3!Is(T, m)
  BY DEF T
<1>6. P3!Another(T, P3!Encode(T, m), bytes)
  BY <1>1, <1>3
<1>7. P3!Decode(T, bytes) = m
  BY <1>2, <1>4, <1>5, <1>6, P3!DecodedFromAnother
<1> QED BY <1>1, <1>7 DEF T

-----------------------------------------------------------------------------
(* The invariant *)

(* What fromBytes encrypts, and what it makes of it. *)
Envelop(a) == ClearEncode(Written(a), a.length, a.signer)
Content(a) ==
    IF a.lock.alg = "symmetric"
    THEN <<CipherText(a.lock.key, Iv, Envelop(a)), Tag(CipherText(a.lock.key, Iv, Envelop(a))), Iv>>
    ELSE EncryptAsymmetric(Envelop(a), a.lock.key)

(* The message on its way, before and after somebody has opened it.         *)
ProtoOf(a, opened) ==
    IF a.lock = ClearLock \/ opened
    THEN Reading(a).proto
    ELSE [Reading(a).proto EXCEPT !.payload = SealedPayload(Content(a))]

(* Who can read it, as ReadableExactly has it. *)
CanRead(a, r) ==
    \/ a.lock = ClearLock
    \/ /\ ~r.opened /\ a.lock.key \in r.held
       /\ a.lock.alg = "symmetric" => r.module # Undefined
       /\ a.length < Limit

(* What nodes hold and what travels is the author's message, opened if it   *)
(* is held by another node or comes from one.                               *)
Held ==
    \A n \in Site :
        hand[n] # Undefined =>
            /\ authored \in Calls
            /\ hand[n].proto = ProtoOf(authored, n # Author /\ authored.lock # ClearLock)

Travelling ==
    \A p \in packets :
        Carries(p) =>
            /\ authored \in Calls
            /\ p.opened \in BOOLEAN /\ (p.opened => authored.lock # ClearLock)
            /\ p.proto = ProtoOf(authored, p.opened)

(* A decode reads what was written, or nothing. *)
ReadRight ==
    result # Undefined =>
        /\ authored \in Calls
        /\ result.read = IF CanRead(authored, result) THEN Reading(authored) ELSE Undefined

(* A packet holds a message of its type, in one of the encodings of it, and *)
(* in it the message that it carries; what this code asks has a direction   *)
(* that it knows.                                                           *)
KnowsDirection(m) ==
    m.query # Undefined /\ m.query.pagingInfo # Undefined => m.query.pagingInfo.direction \in {0, 1}

Proper(p) ==
    /\ p.kind \in Kind /\ P3!Is(TypeOf(p.kind), p.meant)
    /\ p.bytes \in Encodings(p.kind, Encode(TypeOf(p.kind), p.meant))
    /\ p.kind = "history" => KnowsDirection(p.meant)
    /\ Carries(p) => Unwrap(p.kind, p.meant) = p.proto

AllProper == \A p \in packets : Proper(p)

IInv ==
    /\ symmetric \in [Site -> {Undefined, Browser, Node}] /\ DOMAIN hand = Site
    /\ Held /\ Travelling /\ ReadRight /\ AllProper

(* What is known of a call. *)
LEMMA CallFacts ==
    ASSUME NEW a \in Calls
    PROVE  /\ a.lock = ClearLock \/ (a.lock.alg = "symmetric" /\ a.lock # ClearLock)
                                 \/ (a.lock.alg = "asymmetric" /\ a.lock # ClearLock)
           /\ a.length \in Nat
           /\ a # Undefined /\ Reading(a) # Undefined /\ Envelop(a) # Rejected
           /\ [payload |-> Written(a), signaturePublicKey |-> a.signer] # Failed
<1>1. a.lock \in Lock /\ a.length \in Length
  BY CodecAssumption
<1>2. a.length \in Nat
  <2>1. MaxLength \in Nat
    BY SMT DEF MaxLength
  <2>2. \A n \in Length : n \in Nat
    BY <2>1 DEF Length
  <2> QED BY <1>1, <2>2
<1>3. /\ a.lock = ClearLock \/ (a.lock.alg = "symmetric" /\ a.lock # ClearLock)
                            \/ (a.lock.alg = "asymmetric" /\ a.lock # ClearLock)
  BY <1>1 DEF Lock, ClearLock
<1> QED BY <1>2, <1>3, ValuesAssumption DEF Envelop

-----------------------------------------------------------------------------
(* The messages that are sent *)

LEMMA NoneIsOne == Undefined # 1
BY ValuesAssumption

(* fromBytes makes a whole WakuMessage. *)
LEMMA MessageIs ==
    ASSUME NEW a \in Calls, NEW opened
    PROVE  /\ P1!Is(WakuMessage, ProtoOf(a, opened))
           /\ P3!Is(WakuMessage, ProtoOf(a, opened))
           /\ <<ProtoOf(a, opened)>> # Undefined
<1> DEFINE m == ProtoOf(a, opened)
<1>1. m = [payload |-> m.payload, contentTopic |-> m.contentTopic,
           version |-> m.version, timestamp |-> m.timestamp]
  BY DEF ProtoOf, Reading
<1>2. <<m>> # Undefined
  <2>1. CASE a.lock = ClearLock \/ opened
    BY <2>1, ValuesAssumption DEF ProtoOf
  <2>2. CASE ~(a.lock = ClearLock \/ opened)
    <3>1. Browser \in {Browser, Node} /\ Browser \in {Undefined, Browser, Node}
      OBVIOUS
    <3>2. Sealed(a, Browser) = Content(a)
      <4>1. CASE a.lock.alg = "symmetric"
        <5>1. Sealed(a, Browser) = EncryptSymmetric(Browser, Envelop(a), a.lock.key)
          BY <2>2, <4>1 DEF Sealed, Envelop
        <5> QED BY <3>1, <4>1, <5>1, SymmetricLayout DEF Content
      <4>2. CASE a.lock.alg = "asymmetric"
        BY <2>2, <4>2 DEF Sealed, Envelop, Content
      <4> QED BY <2>2, <4>1, <4>2, CallFacts
    <3>3. FromBytes(a, Browser).proto = m
      BY <2>2, <3>2 DEF FromBytes, ProtoOf, Reading, SealedPayload
    <3> QED BY <3>1, <3>3, ValuesAssumption
  <2> QED BY <2>1, <2>2
<1> HIDE DEF m
<1>3. P1!Is(WakuMessage, m) /\ P3!Is(WakuMessage, m)
  BY <1>1, WakuMessageAt1, WakuMessageAt3
<1> QED BY <1>2, <1>3 DEF m

LEMMA RequestIs ==
    ASSUME NEW m, P1!Is(WakuMessage, m)
    PROVE  P3!Is(PushRPC, CreateRequest(m))
<1> DEFINE r == CreateRequest(m)
           q == r.request
<1>1. /\ r = [requestId |-> r.requestId, request |-> r.request, response |-> r.response]
      /\ r.requestId = "id" /\ r.response = Undefined
      /\ q = [pubSubTopic |-> q.pubSubTopic, message |-> q.message]
      /\ q.pubSubTopic = "pubsub" /\ q.message = m
  BY DEF CreateRequest
<1> HIDE DEF r
<1>2. q.pubSubTopic # Undefined /\ r.requestId # Undefined
  BY <1>1, NoneIsText
<1> HIDE DEF q
<1>3. P2!Is(PushRequest, q)
  BY <1>1, <1>2, PushRequestAt2
<1>4. P3!Is(PushRPC, r)
  BY <1>1, <1>2, <1>3, PushRPCAt3 DEF q
<1> QED BY <1>4 DEF r

LEMMA PushAnswerIs ==
    ASSUME NEW id, id # Undefined, NEW answer \in Answers
    PROVE  P3!Is(PushRPC, [requestId |-> id, request |-> Undefined, response |-> answer])
<1> DEFINE r == [requestId |-> id, request |-> Undefined, response |-> answer]
<1>1. /\ answer = [isSuccess |-> answer.isSuccess, info |-> answer.info]
      /\ answer.isSuccess # Undefined /\ answer.info # Undefined
  BY PeersAssumption
<1>2. P2!Is(PushResponse, answer)
  BY <1>1, PushResponseAt2
<1>3. /\ r = [requestId |-> r.requestId, request |-> r.request, response |-> r.response]
      /\ r.requestId = id /\ r.request = Undefined /\ r.response = answer
  OBVIOUS
<1> HIDE DEF r
<1>4. P3!Is(PushRPC, r)
  BY <1>2, <1>3, PushRPCAt3
<1> QED BY <1>4 DEF r

LEMMA QueryIs ==
    ASSUME NEW params \in Queries
    PROVE  /\ P3!Is(HistoryRPC, CreateQuery(params))
           /\ KnowsDirection(CreateQuery(params))
<1> DEFINE r == CreateQuery(params)
           q == r.query
           g == q.pagingInfo
           d == DirectionToProto(params.direction)
           filters == q.contentFilters
           topics == params.contentTopics
<1>1. /\ r = [requestId |-> r.requestId, query |-> r.query, response |-> r.response]
      /\ r.requestId = "id" /\ r.response = Undefined
      /\ q = [pubSubTopic |-> q.pubSubTopic, contentFilters |-> q.contentFilters,
              pagingInfo |-> q.pagingInfo, startTime |-> q.startTime, endTime |-> q.endTime]
      /\ filters = [i \in DOMAIN topics |-> [contentTopic |-> topics[i]]]
      /\ g = [pageSize |-> g.pageSize, cursor |-> g.cursor, direction |-> g.direction]
      /\ g.pageSize = params.pageSize /\ g.cursor = params.cursor /\ g.direction = d
  BY DEF CreateQuery
<1>2. d \in {0, 1} /\ d # Undefined /\ d \in Int
  BY NoneIsZero, NoneIsOne DEF DirectionToProto
<1>3. /\ topics \in Seq(ToSet(topics)) /\ Undefined \notin ToSet(topics)
      /\ params.pageSize # Undefined
      /\ \/ params.cursor = Undefined
         \/ LET c == params.cursor IN
            /\ c = [digest |-> c.digest, receivedTime |-> c.receivedTime, senderTime |-> c.senderTime]
            /\ c.digest # Undefined /\ c.receivedTime # Undefined /\ c.senderTime # Undefined
  BY PeersAssumption
<1> HIDE DEF r, d, topics
<1>4. params.cursor = Undefined \/ P0!Is(Index, params.cursor)
  <2> DEFINE c == params.cursor
  <2> HIDE DEF c
  <2>1. \/ c = Undefined
        \/ /\ c = [digest |-> c.digest, receivedTime |-> c.receivedTime, senderTime |-> c.senderTime]
           /\ c.digest # Undefined /\ c.receivedTime # Undefined /\ c.senderTime # Undefined
    BY <1>3 DEF c
  <2>2. c = Undefined \/ P0!Is(Index, c)
    BY <2>1, IndexAt0
  <2> QED BY <2>2 DEF c
<1> HIDE DEF q, g, filters
<1>5. P1!Is(PagingInfo, g)
  BY <1>1, <1>2, <1>3, <1>4, PagingInfoAt1
<1>6. filters \in Seq(P2!ToSet(filters)) /\ \A i \in DOMAIN filters : P1!Is(ContentFilter, filters[i])
  <2>1. DOMAIN filters = 1 .. Len(topics) /\ Len(topics) \in Nat /\ DOMAIN topics = 1 .. Len(topics)
    BY <1>1, <1>3
  <2>2. \A i \in 1 .. Len(topics) : filters[i] \in P2!ToSet(filters)
    BY <2>1 DEF P2!ToSet
  <2>3. filters = [i \in 1 .. Len(topics) |-> filters[i]]
    BY <1>1, <2>1
  <2>4. filters \in Seq(P2!ToSet(filters))
    <3> DEFINE S == P2!ToSet(filters)
               n == Len(topics)
    <3>1. n \in Nat /\ (\A i \in 1 .. n : filters[i] \in S) /\ filters = [i \in 1 .. n |-> filters[i]]
      BY <2>1, <2>2, <2>3
    <3> HIDE DEF S, n
    <3>2. filters \in Seq(S)
      <4>1. filters \in [1 .. n -> S]
        BY <3>1
      <4> QED BY <3>1, <4>1
    <3> QED BY <3>2 DEF S
  <2>5. ASSUME NEW i \in DOMAIN filters PROVE P1!Is(ContentFilter, filters[i])
    <3>1. filters[i] = [contentTopic |-> topics[i]] /\ topics[i] \in ToSet(topics)
      BY <1>1, <2>1 DEF ToSet
    <3>2. /\ filters[i] = [contentTopic |-> filters[i].contentTopic]
          /\ filters[i].contentTopic # Undefined
      BY <1>3, <3>1
    <3> QED BY <3>2, ContentFilterAt1
  <2> QED BY <2>4, <2>5
<1>7. P2!Is(HistoryQuery, q)
  BY <1>1, <1>5, <1>6, HistoryQueryAt2 DEF g, filters
<1>8. r.requestId # Undefined
  BY <1>1, NoneIsText
<1>9. P3!Is(HistoryRPC, r)
  BY <1>1, <1>7, <1>8, HistoryRPCAt3 DEF q
<1>10. KnowsDirection(r)
  BY <1>1, <1>2 DEF KnowsDirection, g, q
<1> QED BY <1>9, <1>10 DEF r

(* What fromPartial can complete, and with what. *)
LEMMA IndexPart ==
    ASSUME NEW o
    PROVE  P0!Partial(Index, o)
<1> DEFINE a == Implicit(1, "digest", Bytes, "")
           b == Implicit(2, "receivedTime", Plain, 0)
           c == Implicit(3, "senderTime", Plain, 0)
<1>1. a.name = "digest" /\ a.rule = "implicit" /\ a.type.tag # "enum"
  BY DEF Implicit, Bytes
<1>2. b.name = "receivedTime" /\ b.rule = "implicit" /\ b.type.tag # "enum"
  BY DEF Implicit, Plain
<1>3. c.name = "senderTime" /\ c.rule = "implicit" /\ c.type.tag # "enum"
  BY DEF Implicit, Plain
<1>4. P0!Type(Index) /\ P0!ToSet(Index) = {a, b, c}
  BY IndexAt0
<1> HIDE DEF a, b, c
<1>5. P0!Given(o, a.name) => P0!PartFits(a, o[a.name])
  BY <1>1, P0!OfImplicit DEF P0!Given
<1>6. P0!Given(o, b.name) => P0!PartFits(b, o[b.name])
  BY <1>2, P0!OfImplicit DEF P0!Given
<1>7. P0!Given(o, c.name) => P0!PartFits(c, o[c.name])
  BY <1>3, P0!OfImplicit DEF P0!Given
<1> QED BY <1>4, <1>5, <1>6, <1>7, P0!PartialByFields

LEMMA WakuMessagePart ==
    ASSUME NEW o
    PROVE  P1!Partial(WakuMessage, o)
<1> DEFINE a == Optional(1, "payload", Bytes)
           b == Optional(2, "contentTopic", Plain)
           c == Optional(3, "version", Plain)
           d == Optional(4, "timestamp", Plain)
<1>1. a.name = "payload" /\ a.rule = "optional" /\ a.type.tag # "enum" /\ a.zero = Undefined
  BY DEF Optional, Bytes
<1>2. b.name = "contentTopic" /\ b.rule = "optional" /\ b.type.tag # "enum" /\ b.zero = Undefined
  BY DEF Optional, Plain
<1>3. c.name = "version" /\ c.rule = "optional" /\ c.type.tag # "enum" /\ c.zero = Undefined
  BY DEF Optional, Plain
<1>4. d.name = "timestamp" /\ d.rule = "optional" /\ d.type.tag # "enum" /\ d.zero = Undefined
  BY DEF Optional, Plain
<1>5. P1!Type(WakuMessage) /\ P1!ToSet(WakuMessage) = {a, b, c, d}
  BY WakuMessageAt1
<1> HIDE DEF a, b, c, d
<1>6. P1!Given(o, a.name) => P1!PartFits(a, o[a.name])
  BY <1>1, P1!OfOptional DEF P1!Given
<1>7. P1!Given(o, b.name) => P1!PartFits(b, o[b.name])
  BY <1>2, P1!OfOptional DEF P1!Given
<1>8. P1!Given(o, c.name) => P1!PartFits(c, o[c.name])
  BY <1>3, P1!OfOptional DEF P1!Given
<1>9. P1!Given(o, d.name) => P1!PartFits(d, o[d.name])
  BY <1>4, P1!OfOptional DEF P1!Given
<1> QED BY <1>5, <1>6, <1>7, <1>8, <1>9, P1!PartialByFields

LEMMA PagingInfoPart ==
    ASSUME NEW o,
           "direction" \in DOMAIN o => o.direction \in Int,
           \A c : P0!Partial(Index, c)
    PROVE  P1!Partial(PagingInfo, o)
<1> DEFINE a == Implicit(1, "pageSize", UInt64, 0)
           b == Embedded(2, "cursor", Index)
           c == Implicit(3, "direction", Enum(PagingInfo_Direction), 0)
<1>1. a.name = "pageSize" /\ a.rule = "implicit" /\ a.type.tag # "enum"
  BY DEF Implicit, UInt64
<1>2. b.name = "cursor" /\ b.rule = "message" /\ b.type = Index /\ b.zero = Undefined
  BY DEF Embedded
<1>3. c.name = "direction" /\ c.rule = "implicit" /\ c.type.tag = "enum" /\ c.zero = 0
  BY DEF Implicit, Enum
<1>4. P1!Type(PagingInfo) /\ P1!ToSet(PagingInfo) = {a, b, c}
  BY PagingInfoAt1
<1> HIDE DEF a, b, c
<1>5. P1!Given(o, a.name) => P1!PartFits(a, o[a.name])
  BY <1>1, P1!OfImplicit DEF P1!Given
<1>6. P1!Given(o, b.name) => P1!PartFits(b, o[b.name])
  BY <1>2, P1!OfEmbedded DEF P1!Given
<1>7. P1!Given(o, c.name) => P1!PartFits(c, o[c.name])
  BY <1>3, P1!OfEnum DEF P1!Given
<1> QED BY <1>4, <1>5, <1>6, <1>7, P1!PartialByFields

LEMMA HistoryResponsePart ==
    ASSUME NEW o,
           "error" \in DOMAIN o => o.error \in Int,
           "pagingInfo" \in DOMAIN o => P1!Partial(PagingInfo, o.pagingInfo),
           "messages" \in DOMAIN o =>
              /\ o.messages \in Seq(P2!ToSet(o.messages))
              /\ \A i \in DOMAIN o.messages : P1!Partial(WakuMessage, o.messages[i])
    PROVE  P2!Partial(HistoryResponse, o)
<1> DEFINE a == Repeated(2, "messages", WakuMessage)
           b == Embedded(3, "pagingInfo", PagingInfo)
           c == Implicit(4, "error", Enum(HistoryResponse_Error), 0)
<1>1. a.name = "messages" /\ a.rule = "repeated" /\ a.type = WakuMessage /\ a.zero = <<>>
  BY DEF Repeated
<1>2. b.name = "pagingInfo" /\ b.rule = "message" /\ b.type = PagingInfo /\ b.zero = Undefined
  BY DEF Embedded
<1>3. c.name = "error" /\ c.rule = "implicit" /\ c.type.tag = "enum" /\ c.zero = 0
  BY DEF Implicit, Enum
<1>4. P2!Type(HistoryResponse) /\ P2!ToSet(HistoryResponse) = {a, b, c}
  BY HistoryResponseAt2
<1> HIDE DEF a, b, c
<1>5. P2!Given(o, a.name) => P2!PartFits(a, o[a.name])
  BY <1>1, P2!OfRepeated DEF P2!Given
<1>6. P2!Given(o, b.name) => P2!PartFits(b, o[b.name])
  BY <1>2, P2!OfEmbedded DEF P2!Given
<1>7. P2!Given(o, c.name) => P2!PartFits(c, o[c.name])
  BY <1>3, P2!OfEnum DEF P2!Given
<1> QED BY <1>4, <1>5, <1>6, <1>7, P2!PartialByFields

LEMMA HistoryRPCPart ==
    ASSUME NEW o,
           "query" \notin DOMAIN o,
           "response" \in DOMAIN o => P2!Partial(HistoryResponse, o.response)
    PROVE  P3!Partial(HistoryRPC, o)
<1> DEFINE a == Implicit(1, "requestId", Plain, "")
           b == Embedded(2, "query", HistoryQuery)
           c == Embedded(3, "response", HistoryResponse)
<1>1. a.name = "requestId" /\ a.rule = "implicit" /\ a.type.tag # "enum"
  BY DEF Implicit, Plain
<1>2. b.name = "query" /\ b.rule = "message" /\ b.type = HistoryQuery /\ b.zero = Undefined
  BY DEF Embedded
<1>3. c.name = "response" /\ c.rule = "message" /\ c.type = HistoryResponse /\ c.zero = Undefined
  BY DEF Embedded
<1>4. P3!Type(HistoryRPC) /\ P3!ToSet(HistoryRPC) = {a, b, c}
  BY HistoryRPCAt3
<1> HIDE DEF a, b, c
<1>5. P3!Given(o, a.name) => P3!PartFits(a, o[a.name])
  BY <1>1, P3!OfImplicit DEF P3!Given
<1>6. P3!Given(o, b.name) => P3!PartFits(b, o[b.name])
  BY <1>2, P3!OfEmbedded DEF P3!Given
<1>7. P3!Given(o, c.name) => P3!PartFits(c, o[c.name])
  BY <1>3, P3!OfEmbedded DEF P3!Given
<1> QED BY <1>4, <1>5, <1>6, <1>7, P3!PartialByFields

LEMMA WakuMessageCompleted ==
    ASSUME NEW m, P1!Is(WakuMessage, m)
    PROVE  P1!FromPartial(WakuMessage, m) = m
<1> DEFINE a == Optional(1, "payload", Bytes)
           b == Optional(2, "contentTopic", Plain)
           c == Optional(3, "version", Plain)
           d == Optional(4, "timestamp", Plain)
<1>1. a.name = "payload" /\ a.rule = "optional" /\ a.type.tag # "enum" /\ a.zero = Undefined
  BY DEF Optional, Bytes
<1>2. b.name = "contentTopic" /\ b.rule = "optional" /\ b.type.tag # "enum" /\ b.zero = Undefined
  BY DEF Optional, Plain
<1>3. c.name = "version" /\ c.rule = "optional" /\ c.type.tag # "enum" /\ c.zero = Undefined
  BY DEF Optional, Plain
<1>4. d.name = "timestamp" /\ d.rule = "optional" /\ d.type.tag # "enum" /\ d.zero = Undefined
  BY DEF Optional, Plain
<1>5. P1!Type(WakuMessage) /\ P1!ToSet(WakuMessage) = {a, b, c, d}
  BY WakuMessageAt1
<1> HIDE DEF a, b, c, d
<1>6. P1!Names(WakuMessage) = {"payload", "contentTopic", "version", "timestamp"}
  <2>1. P1!Names(WakuMessage) = {f.name : f \in P1!ToSet(WakuMessage)}
    BY DEF P1!Names, P1!ToSet
  <2> QED BY <1>1, <1>2, <1>3, <1>4, <1>5, <2>1
<1>7. m = [name \in P1!Names(WakuMessage) |-> m[name]]
  BY DEF P1!Is
<1> DEFINE r == P1!FromPartial(WakuMessage, m)
<1>8. r = [name \in P1!Names(WakuMessage) |-> r[name]]
  BY DEF P1!FromPartial
<1>9. ASSUME NEW f \in {a, b, c, d} PROVE r[f.name] = m[f.name]
  <2>1. /\ ~P1!Given(m, f.name) => r[f.name] = f.zero
        /\ P1!Given(m, f.name) /\ f.rule \in {"implicit", "optional"} => r[f.name] = m[f.name]
    BY <1>5, P1!CompletedByFields
  <2>2. f.rule = "optional" /\ f.zero = Undefined /\ f.name \in DOMAIN m
    BY <1>1, <1>2, <1>3, <1>4, <1>6, <1>7
  <2> QED BY <2>1, <2>2 DEF P1!Given
<1> HIDE DEF r
<1>10. r.payload = m.payload /\ r.contentTopic = m.contentTopic
       /\ r.version = m.version /\ r.timestamp = m.timestamp
  BY <1>1, <1>2, <1>3, <1>4, <1>9
<1> QED BY <1>6, <1>7, <1>8, <1>10 DEF r

LEMMA MessagesCompleted ==
    ASSUME NEW o, "messages" \in DOMAIN o, o.messages # Undefined, NEW i \in DOMAIN o.messages
    PROVE  P2!FromPartial(HistoryResponse, o).messages[i] =
              Depth1!FromPartial(WakuMessage, o.messages[i])
<1> DEFINE a == Repeated(2, "messages", WakuMessage)
           b == Embedded(3, "pagingInfo", PagingInfo)
           c == Implicit(4, "error", Enum(HistoryResponse_Error), 0)
<1>1. a.name = "messages" /\ a.rule = "repeated" /\ a.type = WakuMessage /\ a.zero = <<>>
  BY DEF Repeated
<1>2. b.name = "pagingInfo" /\ b.rule = "message" /\ b.type = PagingInfo /\ b.zero = Undefined
  BY DEF Embedded
<1>3. c.name = "error" /\ c.rule = "implicit" /\ c.type.tag = "enum" /\ c.zero = 0
  BY DEF Implicit, Enum
<1>4. P2!Type(HistoryResponse) /\ P2!ToSet(HistoryResponse) = {a, b, c}
  BY HistoryResponseAt2
<1> HIDE DEF a, b, c
<1>5. P2!Given(o, a.name)
  BY <1>1 DEF P2!Given
<1> QED BY <1>1, <1>4, <1>5, P2!EachCompleted

LEMMA ResponseCompleted ==
    ASSUME NEW o, "query" \notin DOMAIN o, "response" \in DOMAIN o
    PROVE  LET r == P3!FromPartial(HistoryRPC, o) IN
           /\ r.query = Undefined
           /\ r.response = IF o.response = Undefined THEN Undefined
                           ELSE Depth2!FromPartial(HistoryResponse, o.response)
<1> DEFINE a == Implicit(1, "requestId", Plain, "")
           b == Embedded(2, "query", HistoryQuery)
           c == Embedded(3, "response", HistoryResponse)
<1>1. a.name = "requestId" /\ a.rule = "implicit" /\ a.type.tag # "enum"
  BY DEF Implicit, Plain
<1>2. b.name = "query" /\ b.rule = "message" /\ b.type = HistoryQuery /\ b.zero = Undefined
  BY DEF Embedded
<1>3. c.name = "response" /\ c.rule = "message" /\ c.type = HistoryResponse /\ c.zero = Undefined
  BY DEF Embedded
<1>4. P3!Type(HistoryRPC) /\ P3!ToSet(HistoryRPC) = {a, b, c}
  BY HistoryRPCAt3
<1> HIDE DEF a, b, c
<1> DEFINE r == P3!FromPartial(HistoryRPC, o)
<1>5. r.query = Undefined
  <2>1. ~P3!Given(o, b.name)
    BY <1>2 DEF P3!Given
  <2> QED BY <1>2, <1>4, <2>1, P3!CompletedByFields
<1>6. o.response = Undefined => r.response = Undefined
  <2>1. o.response = Undefined => ~P3!Given(o, c.name)
    BY <1>3 DEF P3!Given
  <2> QED BY <1>3, <1>4, <2>1, P3!CompletedByFields
<1>7. o.response # Undefined => r.response = Depth2!FromPartial(HistoryResponse, o.response)
  <2>1. o.response # Undefined => P3!Given(o, c.name)
    BY <1>3 DEF P3!Given
  <2> QED BY <1>3, <1>4, <2>1, P3!CompletedByFields
<1> QED BY <1>5, <1>6, <1>7

(* The answer of a store peer is a whole HistoryRPC, with the message.       *)
LEMMA StoreAnswerIs ==
    ASSUME NEW m, P1!Is(WakuMessage, m), <<m>> # Undefined, NEW reply \in Replies
    PROVE  /\ P3!Is(HistoryRPC, StoreAnswer(m, reply))
           /\ StoreAnswer(m, reply).query = Undefined
           /\ StoreAnswer(m, reply).response # Undefined =>
                 StoreAnswer(m, reply).response.messages[1] = m
<1> DEFINE resp == Response(m, reply)
           o == [requestId |-> "id", response |-> resp]
           r == P3!FromPartial(HistoryRPC, o)
<1>1. StoreAnswer(m, reply) = r
  BY Same3 DEF StoreAnswer, FromPartial
<1>2. /\ "messages" \in DOMAIN resp /\ resp.messages = <<m>>
      /\ "error" \in DOMAIN resp => "error" \in DOMAIN reply /\ resp.error = reply.error
      /\ "pagingInfo" \in DOMAIN resp =>
            "pagingInfo" \in DOMAIN reply /\ resp.pagingInfo = reply.pagingInfo
  BY DEF Response
<1>3. "query" \notin DOMAIN o /\ "response" \in DOMAIN o /\ o.response = resp
  OBVIOUS
<1> HIDE DEF resp, o, r
<1>4. "pagingInfo" \in DOMAIN resp => P1!Partial(PagingInfo, resp.pagingInfo)
  <2>1. \A c : P0!Partial(Index, c)
    BY IndexPart
  <2>2. "pagingInfo" \in DOMAIN resp /\ "direction" \in DOMAIN resp.pagingInfo =>
           resp.pagingInfo.direction \in Int
    BY <1>2, PeersAssumption
  <2> QED BY <2>1, <2>2, PagingInfoPart
<1>5. /\ resp.messages \in Seq(P2!ToSet(resp.messages))
      /\ DOMAIN resp.messages = {1} /\ resp.messages[1] = m
  <2>1. P2!ToSet(<<m>>) = {m} /\ DOMAIN <<m>> = {1} /\ <<m>>[1] = m
    BY DEF P2!ToSet
  <2> QED BY <1>2, <2>1
<1>6. \A i \in DOMAIN resp.messages : P1!Partial(WakuMessage, resp.messages[i])
  BY WakuMessagePart
<1>7. "error" \in DOMAIN resp => resp.error \in Int
  BY <1>2, PeersAssumption
<1>8. P2!Partial(HistoryResponse, resp)
  BY <1>4, <1>5, <1>6, <1>7, HistoryResponsePart
<1>9. P3!Partial(HistoryRPC, o)
  BY <1>3, <1>8, HistoryRPCPart
<1>10. P3!Is(HistoryRPC, r)
  BY <1>9, AtDepth3, Same3 DEF r
<1>11. /\ r.query = Undefined
       /\ r.response = IF resp = Undefined THEN Undefined
                       ELSE Depth2!FromPartial(HistoryResponse, resp)
  BY <1>3, ResponseCompleted DEF r
<1>12. Depth2!FromPartial(HistoryResponse, resp).messages[1] = m
  <2>1. Depth2!FromPartial(HistoryResponse, resp) = P2!FromPartial(HistoryResponse, resp)
    BY Same2
  <2>2. Depth1!FromPartial(WakuMessage, m) = m
    BY Same1, WakuMessageCompleted
  <2>3. resp.messages # Undefined
    BY <1>2
  <2>4. P2!FromPartial(HistoryResponse, resp).messages[1] =
           Depth1!FromPartial(WakuMessage, resp.messages[1])
    BY <1>2, <1>5, <2>3, MessagesCompleted
  <2> QED BY <1>5, <2>1, <2>2, <2>4
<1> QED BY <1>1, <1>10, <1>11, <1>12

-----------------------------------------------------------------------------
(* What is read *)

(* Decoding, with any keys and module: the whole of decodeProto.            *)
LEMMA DecodeReads ==
    ASSUME NEW a \in Calls, NEW opened \in BOOLEAN, opened => a.lock # ClearLock,
           NEW held, NEW module \in {Undefined, Browser, Node}
    PROVE  DecodeProto(ProtoOf(a, opened), held, module) =
              IF CanRead(a, [held |-> held, module |-> module, opened |-> opened])
              THEN Reading(a) ELSE Undefined
<1> DEFINE proto == ProtoOf(a, opened)
           r == [held |-> held, module |-> module, opened |-> opened]
           clear == [payload |-> Written(a), signaturePublicKey |-> a.signer]
<1>1. CASE a.lock = ClearLock
  <2>1. proto = Reading(a).proto /\ proto.version = 0 /\ ~(proto.version = 1)
    BY <1>1 DEF ProtoOf, Reading
  <2>2. [proto |-> proto, signaturePublicKey |-> NoSigner] = Reading(a)
    BY <1>1, <2>1 DEF Reading
  <2>3. DecodeProto(proto, held, module) = Reading(a)
    BY <2>1, <2>2 DEF DecodeProto
  <2> QED BY <1>1, <2>3 DEF CanRead
<1>2. CASE a.lock # ClearLock /\ opened
  <2>1. proto = Reading(a).proto /\ proto.version = 1 /\ ~proto.payload.sealed
    BY <1>2 DEF ProtoOf, Reading, ClearPayload
  <2>2. Opened(proto.payload, held, module) = {}
    BY <2>1 DEF Opened
  <2>3. DecodeProto(proto, held, module) = Undefined
    BY <2>1, <2>2 DEF DecodeProto
  <2> QED BY <1>2, <2>3 DEF CanRead
<1>3. CASE a.lock # ClearLock /\ ~opened
  <2> DEFINE can == a.lock.key \in held /\ (a.lock.alg = "symmetric" => module # Undefined)
             all == Opened(proto.payload, held, module)
             decoded == {ClearDecode(dec) : dec \in all}
  <2>1. /\ proto = [payload |-> SealedPayload(Content(a)), timestamp |-> a.timestamp,
                    version |-> 1, contentTopic |-> "topic"]
        /\ proto.version = 1 /\ proto.payload.sealed /\ proto.payload.content = Content(a)
    BY <1>3 DEF ProtoOf, Reading, SealedPayload
  <2>2. \A k : Decrypt(module, Content(a), k) =
                  IF k = a.lock.key /\ (a.lock.alg = "symmetric" => module # Undefined)
                  THEN Envelop(a) ELSE Rejected
    <3>1. CASE a.lock.alg = "symmetric"
      BY <3>1, CallFacts, OpensSymmetric DEF Content
    <3>2. CASE a.lock.alg = "asymmetric"
      BY <3>2, CallFacts, OpensAsymmetric DEF Content
    <3> QED BY <1>3, <3>1, <3>2, CallFacts
  <2>3. all = IF can THEN {Envelop(a)} ELSE {}
    <3>1. all = {Decrypt(module, Content(a), k) : k \in held} \ {Rejected}
      BY <2>1 DEF Opened
    <3> HIDE DEF all
    <3> QED BY <2>2, <3>1, CallFacts
  <2>4. decoded = IF can THEN {ClearDecode(Envelop(a))} ELSE {}
    <3> HIDE DEF all
    <3> QED BY <2>3
  <2>5. ClearDecode(Envelop(a)) = IF a.length < Limit THEN clear ELSE Failed
    <3>1. a.length \in Nat /\ (a.length < Limit \/ a.length >= Limit)
      BY SMT, CallFacts DEF Limit
    <3>2. CASE a.length < Limit
      BY <3>1, <3>2, ClearRoundTrip DEF Envelop
    <3>3. CASE ~(a.length < Limit)
      BY <3>1, <3>3, LongPayloadLost DEF Envelop
    <3> QED BY <3>2, <3>3
  <2>6. CASE can /\ a.length < Limit
    <3>1. decoded = {clear} /\ ~(decoded \subseteq {Failed})
      BY <2>4, <2>5, <2>6, CallFacts
    <3>2. (CHOOSE res \in decoded : TRUE) = clear
      BY <3>1
    <3>3. [proto |-> [proto EXCEPT !.payload = ClearPayload(Written(a))],
           signaturePublicKey |-> a.signer] = Reading(a)
      BY <1>3, <2>1 DEF Reading
    <3>4. DecodeProto(proto, held, module) =
             [proto |-> [proto EXCEPT !.payload = ClearPayload(clear.payload)],
              signaturePublicKey |-> clear.signaturePublicKey]
      <4> HIDE DEF proto, clear
      <4> QED BY <2>1, <3>1, <3>2 DEF DecodeProto
    <3>5. CanRead(a, r)
      BY <1>3, <2>6 DEF CanRead
    <3> QED BY <3>3, <3>4, <3>5
  <2>7. CASE ~(can /\ a.length < Limit)
    <3>1. decoded \subseteq {Failed}
      BY <2>4, <2>5, <2>7
    <3>2. DecodeProto(proto, held, module) = Undefined
      <4> HIDE DEF proto
      <4> QED BY <2>1, <3>1 DEF DecodeProto
    <3>3. ~CanRead(a, r)
      BY <1>3, <2>7 DEF CanRead
    <3> QED BY <3>2, <3>3
  <2> QED BY <2>6, <2>7
<1> QED BY <1>1, <1>2, <1>3

-----------------------------------------------------------------------------

LEMMA InitIInv == Init => IInv
BY DEF Init, IInv, Held, Travelling, ReadRight, AllProper

LEMMA ImportIInv == ASSUME IInv, NEW n \in Site, ImportSymmetric(n) PROVE IInv'
<1>1. symmetric' \in [Site -> {Undefined, Browser, Node}]
  BY DEF IInv, ImportSymmetric
<1>2. UNCHANGED <<authored, hand, packets, result>>
  BY DEF ImportSymmetric
<1> QED BY <1>1, <1>2 DEF IInv, Held, Travelling, ReadRight, Carries, AllProper

(* fromBytes: the message is what Content says.                             *)
LEMMA MakeIInv == ASSUME IInv, NEW a \in Calls, Make(a) PROVE IInv'
<1>1. /\ authored = Undefined /\ UNCHANGED <<symmetric, packets, result>>
      /\ authored \notin Calls
  BY ValuesAssumption DEF Make
<1>2. result = Undefined /\ (\A p \in packets : ~Carries(p)) /\ \A n \in Site : hand[n] = Undefined
  BY <1>1 DEF IInv, ReadRight, Travelling, Held
<1>3. Travelling' /\ ReadRight' /\ AllProper'
  BY <1>1, <1>2 DEF IInv, Travelling, ReadRight, Carries, AllProper
<1>4. CASE Sealed(a, symmetric[Author]) = Rejected
  <2>1. UNCHANGED <<authored, hand>>
    BY <1>4 DEF Make
  <2> QED BY <1>1, <1>3, <2>1 DEF IInv, Held
<1>5. CASE Sealed(a, symmetric[Author]) # Rejected
  <2>1. authored' = a /\ hand' = [hand EXCEPT ![Author] = FromBytes(a, symmetric[Author])]
    BY <1>5 DEF Make
  <2>2. symmetric[Author] \in {Undefined, Browser, Node}
    BY CodecAssumption DEF IInv
  <2>3. FromBytes(a, symmetric[Author]).proto = ProtoOf(a, FALSE)
    <3>1. CASE a.lock = ClearLock
      <4>1. Sealed(a, symmetric[Author]) = Written(a)
        BY <3>1 DEF Sealed, ClearLock
      <4> QED BY <3>1, <4>1 DEF FromBytes, ProtoOf, Reading
    <3>2. CASE a.lock # ClearLock
      <4>1. Sealed(a, symmetric[Author]) = Content(a)
        <5>1. CASE a.lock.alg = "symmetric"
          <6>1. Sealed(a, symmetric[Author]) =
                   EncryptSymmetric(symmetric[Author], Envelop(a), a.lock.key)
            BY <3>2, <5>1 DEF Sealed, Envelop
          <6>2. symmetric[Author] \in {Browser, Node}
            BY <1>5, <2>2, <6>1, ValuesAssumption DEF EncryptSymmetric
          <6> QED BY <5>1, <6>1, <6>2, SymmetricLayout DEF Content
        <5>2. CASE a.lock.alg = "asymmetric"
          BY <3>2, <5>2 DEF Sealed, Envelop, Content
        <5> QED BY <3>2, <5>1, <5>2, CallFacts
      <4> QED BY <3>2, <4>1 DEF FromBytes, ProtoOf, Reading, SealedPayload
    <3> QED BY <3>1, <3>2
  <2>4. Held'
    <3> SUFFICES ASSUME NEW n \in Site, hand'[n] # Undefined
                 PROVE  /\ authored' \in Calls
                        /\ hand'[n].proto =
                              ProtoOf(authored', n # Author /\ authored'.lock # ClearLock)
      BY DEF Held
    <3>1. n = Author
      BY <1>2, <2>1
    <3>2. hand'[n] = FromBytes(a, symmetric[Author])
      BY <2>1, <3>1 DEF IInv
    <3> QED BY <2>1, <2>3, <3>1, <3>2
  <2>5. DOMAIN hand' = Site
    BY <2>1 DEF IInv
  <2> QED BY <1>1, <1>3, <2>4, <2>5 DEF IInv
<1> QED BY <1>4, <1>5

(* One more packet, of which what is said of packets holds, and nothing     *)
(* else.                                                                    *)
LEMMA TransmitIInv ==
    ASSUME IInv, NEW p, Transmit(p), UNCHANGED <<symmetric, authored, hand, result>>, Proper(p),
           Carries(p) => /\ authored \in Calls
                         /\ p.opened \in BOOLEAN /\ (p.opened => authored.lock # ClearLock)
                         /\ p.proto = ProtoOf(authored, p.opened)
    PROVE  IInv'
<1>1. packets' = packets \cup {p}
  BY DEF Transmit
<1>2. Travelling'
  BY <1>1 DEF IInv, Travelling, Carries
<1>3. AllProper'
  BY <1>1 DEF IInv, AllProper
<1> QED BY <1>2, <1>3 DEF IInv, Held, ReadRight

LEMMA SendIInv == ASSUME IInv, NEW n \in Site, NEW kind \in Kind, Send(n, kind) PROVE IInv'
<1> DEFINE proto == hand[n].proto
           opened == n # Author /\ authored.lock # ClearLock
           meant == IF kind = "relay" THEN proto ELSE CreateRequest(proto)
           p == Packet(kind, meant, proto, opened)
<1>1. /\ hand[n] # Undefined /\ kind \in {"relay", "push"}
      /\ Transmit(p) /\ UNCHANGED <<symmetric, authored, hand, result>>
  BY DEF Send
<1>2. /\ p.kind = kind /\ p.meant = meant /\ p.opened = opened /\ p.proto = proto
      /\ p.bytes = Encode(TypeOf(kind), meant)
  BY DEF Packet
<1>3. authored \in Calls /\ proto = ProtoOf(authored, opened)
  BY <1>1 DEF IInv, Held
<1>4. P1!Is(WakuMessage, proto) /\ P3!Is(WakuMessage, proto)
  BY <1>3, MessageIs
<1>5. P3!Is(TypeOf(kind), meant) /\ Unwrap(kind, meant) = proto
  <2>1. CASE kind = "relay"
    BY <1>4, <2>1 DEF TypeOf, Unwrap
  <2>2. CASE kind = "push"
    <3>1. P3!Is(PushRPC, CreateRequest(proto))
      BY <1>4, RequestIs
    <3>2. CreateRequest(proto).request.message = proto
      BY DEF CreateRequest
    <3> QED BY <2>2, <3>1, <3>2 DEF TypeOf, Unwrap
  <2> QED BY <1>1, <2>1, <2>2
<1> HIDE DEF p, proto, meant
<1>6. Proper(p)
  BY <1>1, <1>2, <1>5 DEF Proper, Encodings
<1> QED BY <1>1, <1>2, <1>3, <1>6, TransmitIInv

LEMMA AskIInv == ASSUME IInv, NEW params \in Queries, Ask(params) PROVE IInv'
<1> DEFINE meant == CreateQuery(params)
           p == Packet("history", meant, Undefined, FALSE)
<1>1. Transmit(p) /\ UNCHANGED <<symmetric, authored, hand, result>>
  BY DEF Ask
<1>2. p.kind = "history" /\ p.meant = meant /\ p.bytes = Encode(TypeOf("history"), meant)
  BY DEF Packet
<1>3. P3!Is(TypeOf("history"), meant) /\ KnowsDirection(meant)
  BY QueryIs DEF TypeOf
<1>4. meant.response = Undefined
  BY DEF CreateQuery
<1> HIDE DEF p, meant
<1>5. ~Carries(p)
  BY <1>2, <1>4 DEF Carries
<1>6. Proper(p)
  BY <1>2, <1>3, <1>5 DEF Proper, Encodings, Kind
<1> QED BY <1>1, <1>5, <1>6, TransmitIInv

(* What a peer passes on is what it took out of the packet, which is what   *)
(* was put into it.                                                         *)
LEMMA PassOnIInv ==
    ASSUME IInv, NEW p \in packets, NEW kind \in Kind, NEW reply \in Replies,
           PassOn(p, kind, reply)
    PROVE  IInv'
<1> DEFINE proto == Unwrap(p.kind, p.meant)
           meant == IF kind = "relay" THEN proto ELSE StoreAnswer(proto, reply)
           sent(b) == [kind |-> kind, bytes |-> b, meant |-> meant,
                       proto |-> proto, opened |-> p.opened]
<1>1. /\ Carries(p) /\ kind \in {"relay", "history"}
      /\ UNCHANGED <<symmetric, authored, hand, result>>
      /\ \E bytes \in Encodings(kind, Encode(TypeOf(kind), meant)) : Transmit(sent(bytes))
  BY DEF PassOn
<1>2. PICK bytes \in Encodings(kind, Encode(TypeOf(kind), meant)) : Transmit(sent(bytes))
  BY <1>1
<1> DEFINE q == sent(bytes)
<1>3. /\ q.kind = kind /\ q.bytes = bytes /\ q.meant = meant
      /\ q.proto = proto /\ q.opened = p.opened
  OBVIOUS
<1>4. /\ authored \in Calls
      /\ p.opened \in BOOLEAN /\ (p.opened => authored.lock # ClearLock)
      /\ proto = ProtoOf(authored, p.opened)
  BY <1>1 DEF IInv, Travelling, AllProper, Proper
<1>5. P1!Is(WakuMessage, proto) /\ P3!Is(WakuMessage, proto) /\ <<proto>> # Undefined
  BY <1>4, MessageIs
<1>6. /\ P3!Is(TypeOf(kind), meant)
      /\ kind = "history" => KnowsDirection(meant)
      /\ kind = "relay" \/ meant.response # Undefined => Unwrap(kind, meant) = proto
  <2>1. CASE kind = "relay"
    BY <1>5, <2>1 DEF TypeOf, Unwrap
  <2>2. CASE kind = "history"
    <3>1. /\ P3!Is(HistoryRPC, meant) /\ meant.query = Undefined
          /\ meant.response # Undefined => meant.response.messages[1] = proto
      BY <1>5, <2>2, StoreAnswerIs
    <3> HIDE DEF meant, proto
    <3> QED BY <2>2, <3>1 DEF TypeOf, Unwrap, KnowsDirection
  <2> QED BY <1>1, <2>1, <2>2
<1> HIDE DEF sent, proto, meant, q
<1>7. Proper(q)
  BY <1>1, <1>2, <1>3, <1>6 DEF Proper, Carries
<1> QED BY <1>1, <1>2, <1>3, <1>4, <1>7, TransmitIInv DEF q

LEMMA AnswerIInv ==
    ASSUME IInv, NEW p \in packets, NEW answer \in Answers, AnswerPush(p, answer)
    PROVE  IInv'
<1> DEFINE id == p.meant.requestId
           meant == [requestId |-> id, request |-> Undefined, response |-> answer]
           sent(b) == [kind |-> "push", bytes |-> b, meant |-> meant,
                       proto |-> Undefined, opened |-> FALSE]
<1>1. /\ p.kind = "push" /\ UNCHANGED <<symmetric, authored, hand, result>>
      /\ \E bytes \in Encodings("push", Encode(PushRPC, meant)) : Transmit(sent(bytes))
  BY DEF AnswerPush
<1>2. PICK bytes \in Encodings("push", Encode(PushRPC, meant)) : Transmit(sent(bytes))
  BY <1>1
<1> DEFINE q == sent(bytes)
<1>3. q.kind = "push" /\ q.bytes = bytes /\ q.meant = meant /\ meant.request = Undefined
  OBVIOUS
<1>4. TypeOf("push") = PushRPC
  BY DEF TypeOf
<1>5. id # Undefined
  <2>1. P3!Is(PushRPC, p.meant)
    BY <1>1, <1>4 DEF IInv, AllProper, Proper
  <2> QED BY <2>1, PushRPCAt3
<1>6. P3!Is(PushRPC, meant)
  BY <1>5, PushAnswerIs
<1> HIDE DEF sent, q, meant, id
<1>7. ~Carries(q)
  BY <1>3 DEF Carries
<1>8. Proper(q)
  BY <1>2, <1>3, <1>4, <1>6, <1>7 DEF Proper, Kind
<1> QED BY <1>1, <1>2, <1>7, <1>8, TransmitIInv DEF q

(* decode: the bytes give the message back, and decodeProto reads it.       *)
LEMMA ReceiveIInv ==
    ASSUME IInv, NEW n \in Site, NEW p \in packets, NEW held \in SUBSET Key,
           Receive(n, p, held)
    PROVE  IInv'
<1> DEFINE read == DecodeProto(Unwrap(p.kind, Decode(TypeOf(p.kind), p.bytes)), held, symmetric[n])
           r == [held |-> held, module |-> symmetric[n], opened |-> p.opened, read |-> read]
<1>1. /\ n # Author /\ Carries(p) /\ ~Throws(TypeOf(p.kind), p.bytes)
      /\ result' = r
      /\ hand' = IF read = Undefined THEN hand ELSE [hand EXCEPT ![n] = read]
      /\ UNCHANGED <<symmetric, authored, packets>>
  BY DEF Receive
<1>2. /\ authored \in Calls
      /\ p.opened \in BOOLEAN /\ (p.opened => authored.lock # ClearLock)
      /\ Unwrap(p.kind, Decode(TypeOf(p.kind), p.bytes)) = ProtoOf(authored, p.opened)
  <2>1. Proper(p)
    BY DEF IInv, AllProper
  <2>2. Decode(TypeOf(p.kind), p.bytes) = p.meant
    BY <2>1, EncodingsDecoded DEF Proper
  <2>3. Unwrap(p.kind, Decode(TypeOf(p.kind), p.bytes)) = p.proto
    BY <1>1, <2>1, <2>2 DEF Proper
  <2> QED BY <1>1, <2>3 DEF IInv, Travelling
<1>3. symmetric[n] \in {Undefined, Browser, Node}
  BY DEF IInv
<1>4. read = IF CanRead(authored, [held |-> held, module |-> symmetric[n], opened |-> p.opened])
             THEN Reading(authored) ELSE Undefined
  <2>1. read = DecodeProto(ProtoOf(authored, p.opened), held, symmetric[n])
    BY <1>2
  <2> HIDE DEF read
  <2>2. DecodeProto(ProtoOf(authored, p.opened), held, symmetric[n])
           = IF CanRead(authored, [held |-> held, module |-> symmetric[n], opened |-> p.opened])
             THEN Reading(authored) ELSE Undefined
    BY <1>2, <1>3, DecodeReads
  <2> QED BY <2>1, <2>2
<1> HIDE DEF read
<1>5. ReadRight'
  <2>1. CanRead(authored, r) <=>
           CanRead(authored, [held |-> held, module |-> symmetric[n], opened |-> p.opened])
    BY DEF CanRead
  <2>2. r.read = read
    OBVIOUS
  <2> HIDE DEF r
  <2> QED BY <1>1, <1>2, <1>4, <2>1, <2>2 DEF ReadRight
<1>6. Held'
  <2> SUFFICES ASSUME NEW m \in Site, hand'[m] # Undefined
               PROVE  hand'[m].proto = ProtoOf(authored, m # Author /\ authored.lock # ClearLock)
    BY <1>1, <1>2 DEF Held
  <2>1. CASE hand'[m] = hand[m]
    BY <2>1 DEF IInv, Held
  <2>2. CASE hand'[m] # hand[m]
    <3>1. m = n /\ read # Undefined /\ hand'[m] = read
      BY <1>1, <2>2
    <3>2. read = Reading(authored)
      BY <1>4, <3>1
    <3>3. ProtoOf(authored, m # Author /\ authored.lock # ClearLock) = Reading(authored).proto
      BY <1>1, <3>1 DEF ProtoOf
    <3> QED BY <3>1, <3>2, <3>3
  <2> QED BY <2>1, <2>2
<1>7. Travelling' /\ AllProper'
  BY <1>1 DEF IInv, Travelling, Carries, AllProper
<1>8. DOMAIN hand' = Site
  BY <1>1 DEF IInv
<1> QED BY <1>1, <1>5, <1>6, <1>7, <1>8 DEF IInv

LEMMA NextIInv == IInv /\ [Next]_vars => IInv'
<1> SUFFICES ASSUME IInv, [Next]_vars PROVE IInv'
  OBVIOUS
<1>1. CASE UNCHANGED vars
  BY <1>1 DEF IInv, Held, Travelling, ReadRight, Carries, AllProper, vars
<1>2. ASSUME NEW p \in packets, Lose(p) PROVE IInv'
  BY <1>2 DEF Lose, IInv, Held, Travelling, ReadRight, Carries, AllProper
<1> QED
  BY <1>1, <1>2, ImportIInv, MakeIInv, SendIInv, AskIInv, PassOnIInv, AnswerIInv, ReceiveIInv DEF Next

(* What is known of every packet, every message at hand and every read, for *)
(* every message and every way it takes.                                    *)
THEOREM CodecInvariance == Spec => []IInv
BY InitIInv, NextIInv, PTL DEF Spec

(* Whatever encoding another implementation chooses, decode gives the       *)
(* message it meant; and nothing is lost of what is put into a packet.      *)
THEOREM NothingLostOnTheWire == Spec => []RoundTrip
<1>1. IInv => RoundTrip
  <2> SUFFICES ASSUME IInv, NEW p \in packets
               PROVE  /\ Decode(TypeOf(p.kind), p.bytes) = p.meant
                      /\ Carries(p) => Unwrap(p.kind, p.meant) = p.proto
    BY DEF RoundTrip
  <2>1. Proper(p)
    BY DEF IInv, AllProper
  <2> QED BY <2>1, EncodingsDecoded DEF Proper
<1> QED BY <1>1, CodecInvariance, PTL

(* fromJSON gives back what toJSON was given, but for the errors and        *)
(* directions of peers that this version does not know.                     *)
THEOREM NothingLostInJSON == Spec => []JsonKeeps
<1>1. IInv => JsonKeeps
  <2> SUFFICES ASSUME IInv, NEW p \in packets
               PROVE  FromJSON(TypeOf(p.kind), ToJSON(TypeOf(p.kind), p.meant)) =
                         IF p.kind = "history" /\ p.meant.response # Undefined
                         THEN [p.meant EXCEPT !.response = KnownResponse(@)]
                         ELSE p.meant
    BY DEF JsonKeeps
  <2> DEFINE T == TypeOf(p.kind)
             m == p.meant
  <2>1. /\ p.kind \in Kind /\ P3!Is(T, m)
        /\ p.kind = "history" => KnowsDirection(m)
    BY DEF IInv, AllProper, Proper
  <2> HIDE DEF T, m
  <2>2. FromJSON(T, ToJSON(T, m)) = P3!Kept(T, m)
    BY <2>1, AtDepth3 DEF FromJSON, ToJSON
  <2>3. CASE p.kind = "relay"
    <3>1. T = WakuMessage /\ p.kind # "history"
      BY <2>3 DEF TypeOf, T
    <3> QED BY <2>1, <2>2, <3>1, WakuMessageKept DEF T, m
  <2>4. CASE p.kind = "push"
    <3>1. T = PushRPC /\ p.kind # "history"
      BY <2>4 DEF TypeOf, T
    <3> QED BY <2>1, <2>2, <3>1, PushRPCKept DEF T, m
  <2>5. CASE p.kind = "history"
    <3>1. T = HistoryRPC
      BY <2>5 DEF TypeOf, T
    <3>2. P3!Kept(HistoryRPC, m) = IF m.response = Undefined THEN m
                                   ELSE [m EXCEPT !.response = KnownResponse(@)]
      BY <2>1, <2>5, <3>1, HistoryRPCKept DEF KnowsDirection
    <3> QED BY <2>2, <2>5, <3>1, <3>2 DEF T, m
  <2> QED BY <2>1, <2>3, <2>4, <2>5 DEF Kind
<1> QED BY <1>1, CodecInvariance, PTL

(* A message can be read by those and only those of whom ReadableExactly    *)
(* says so, for any number of nodes, keys, calls and packets.               *)
THEOREM ReadableByThose == Spec => []ReadableExactly
<1>1. IInv => ReadableExactly
  <2> SUFFICES ASSUME IInv, result # Undefined
               PROVE  result.read # Undefined <=> CanRead(authored, result)
    BY SMT DEF ReadableExactly, CanRead, Limit
  <2> QED BY CallFacts DEF IInv, ReadRight
<1> QED BY <1>1, CodecInvariance, PTL

(* And what is read is what the author wrote, with the key that signed it.  *)
THEOREM ReadsWhatWasWritten == Spec => []Authentic
<1>1. IInv => Authentic
  <2> SUFFICES ASSUME IInv, result # Undefined, result.read # Undefined
               PROVE  /\ result.read = Reading(authored)
                      /\ GetTimestamp(result.read) =
                            IF authored.timestamp = 0 THEN Undefined ELSE authored.timestamp
    BY DEF Authentic, Reading
  <2>1. result.read = Reading(authored)
    BY DEF IInv, ReadRight
  <2> QED BY <2>1 DEF GetTimestamp, Reading
<1> QED BY <1>1, CodecInvariance, PTL

=============================================================================
