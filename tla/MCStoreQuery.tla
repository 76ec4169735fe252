----------------------------- MODULE MCStoreQuery -----------------------------
(* StoreQuery on one peer and a few messages. *)
EXTENDS StoreQuery, TLC

CONSTANTS clear, mine, foreign, broken

MCKind == {clear, mine, foreign, broken}

=============================================================================
