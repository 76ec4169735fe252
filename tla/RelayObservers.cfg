SPECIFICATION Spec
CONSTANTS
  t1 = t1
  k1 = k1
  Sent <- MCSentAny
  Callback = {c1, c2}
  Throwing = {c2}
  ContentTopic = {t1}
  All = all
  NoTopic = none
  Key = {k1}
  Clear = clear
  MaxMessages = 2
  MaxListeners = 1
INVARIANTS TypeOK KeysAtReceipt ClearInOrder
PROPERTY Served
