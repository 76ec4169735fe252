SPECIFICATION LifecycleSpec
CONSTANTS
  t1 = t1
  k1 = k1
  Sent <- MCSentAny
  Callback = {c1}
  Throwing = {}
  ContentTopic = {t1}
  All = all
  NoTopic = none
  Key = {k1}
  Clear = clear
  MaxMessages = 1
  MaxListeners = 3
  None = none
  Reactions = {"returns", "stops", "starts", "restarts", "throws"}
INVARIANT CallsBounded
PROPERTY OneTimer
