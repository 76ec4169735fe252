--------------------------------- MODULE Sealing ---------------------------------
(***************************************************************************)
(* Encryption of a version 1 payload (src/lib/waku_message/version_1.ts)   *)
(* and the two symmetric modules, of which symmetric/index.ts imports      *)
(* browser.ts or else node.ts.  The ciphers are ideal: a cipher text opens *)
(* with the key and the initialisation vector it was made with, and only   *)
(* if its tag is the one that was made with it.  How the parts are laid    *)
(* out in the payload is what the two modules have to agree on.            *)
(***************************************************************************)
EXTENDS Sequences, SequencesExt

CONSTANTS
    Iv,       \* what generateIv returns
    Rejected  \* an encryption or decryption that rejects

Browser == "browser"
Node == "node"

(* The cipher text of data, and its tag. *)
CipherText(key, iv, data) == [key |-> key, iv |-> iv, data |-> data]
Tag(cipherText) == [tagOf |-> cipherText]

(* node.ts appends the tag itself, subtle.encrypt of browser.ts has it at   *)
(* the end of its result.                                                   *)
NodeEncrypt(iv, key, clearText) ==
    LET c == CipherText(key, iv, clearText) IN <<c>> \o <<Tag(c)>>
BrowserEncrypt(iv, key, clearText) ==
    LET c == CipherText(key, iv, clearText) IN <<c, Tag(c)>>

(* What an authenticated cipher does with the parts it is given. *)
Authenticated(cipherText, tag, iv, key) ==
    IF tag = Tag(cipherText) /\ cipherText.key = key /\ cipherText.iv = iv
    THEN cipherText.data ELSE Rejected

NodeDecrypt(iv, key, data) == Authenticated(Front(data)[1], Last(data), iv, key)
BrowserDecrypt(iv, key, cipherText) == Authenticated(cipherText[1], cipherText[2], iv, key)

-----------------------------------------------------------------------------

(* encryptSymmetric: cipher text, tag and vector.  Without a module the     *)
(* call of generateIv throws.                                               *)
EncryptSymmetric(module, data, key) ==
    CASE module = Browser -> BrowserEncrypt(Iv, key, data) \o <<Iv>>
      [] module = Node -> NodeEncrypt(Iv, key, data) \o <<Iv>>
      [] OTHER -> Rejected

(* decryptSymmetric takes the vector from the end.  What an asymmetric      *)
(* encryption made is no cipher text with a tag.                            *)
DecryptSymmetric(module, payload, key) ==
    CASE module = Browser /\ Len(payload) = 3 -> BrowserDecrypt(Last(payload), key, Front(payload))
      [] module = Node /\ Len(payload) = 3 -> NodeDecrypt(Last(payload), key, Front(payload))
      [] OTHER -> Rejected

(* ecies: the public key of key encrypts, key itself decrypts. *)
EncryptAsymmetric(data, key) == <<CipherText(key, "ecies", data)>>

DecryptAsymmetric(payload, key) ==
    IF Len(payload) = 1 /\ payload[1].iv = "ecies" /\ payload[1].key = key
    THEN payload[1].data ELSE Rejected

(* Mutant of Decrypt: what fails as symmetric is not tried further. *)
DecryptSymmetricOnly(module, payload, key) == DecryptSymmetric(module, payload, key)

(* One key of decodeProto: first as a symmetric key, then as a private one. *)
Decrypt(module, payload, key) ==
    LET asSymmetric == DecryptSymmetric(module, payload, key) IN
    IF asSymmetric # Rejected THEN asSymmetric ELSE DecryptAsymmetric(payload, key)

=============================================================================
