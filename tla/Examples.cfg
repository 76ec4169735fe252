\* Two accounts and three connections, so that the user can come back to the
\* first account; one private message, which two observers could show twice.
\* Three messages make two pages of history, and two retrievals overlap.
CONSTANTS
    a1 = a1
    a2 = a2
    b = b
    c = c
    k1 = k1
    k2 = k2
    k3 = k3
    None = None
    KeyPair = KeyPair
    Loaded = Loaded
    Account = {a1, a2}
    MixedCase = {c}
    Foreign <- MCForeign
    MaxPrivate = 1
    MaxConnects = 3
    MaxPending = 2
    PageSize = 2
    MaxMessages = 3
    MaxRetrievals = 2
SPECIFICATION MCSpec
INVARIANTS RecipientsSigned ShownOnce HistoryStays
PROPERTIES Starts NoRetrievalOnceObserving
CHECK_DEADLOCK FALSE
