SPECIFICATION Spec
CONSTANTS
  k1 = k1
  s1 = s1
  Undefined = undefined
  MaxSafeInteger = 3
  NoSigner = nosigner
  Garbled = garbled
  Failed = failed
  Site = {alice, bob}
  HasSubtle = {bob}
  Iv = iv
  Rejected = rejected
  Answers <- MCAnswers
  Author = alice
  Key = {k1, k2}
  Signer = {s1}
  Calls <- MCCalls
  Replies <- MCReplies
  Queries <- MCQueries
  MaxPackets = 2
INVARIANTS RoundTrip JsonKeeps ReadableExactly Authentic
