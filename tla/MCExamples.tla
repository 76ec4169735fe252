------------------------------ MODULE MCExamples ------------------------------
(* The pages of the examples for TLC: the reader opens one of them. *)
EXTENDS EthPm, TLC

CONSTANTS a1, a2,       \* accounts of the wallet
          b, c,         \* addresses of others, c spelt in mixed case
          k1, k2, k3,   \* keys of others
          PageSize, MaxMessages, MaxRetrievals

VARIABLES opened, ready, retrieved, ranWith, listening, observing, posted, transit, retrievals, messages

ASSUME ChatAssumption ==
    PageSize \in Nat \ {0} /\ MaxMessages \in Nat /\ MaxRetrievals \in Nat

Chat == INSTANCE WebChat

(* b announces two keys, one after the other; someone else announces a      *)
(* third as b's.                                                            *)
MCForeign ==
    {[address |-> b, key |-> k1, signer |-> b], [address |-> b, key |-> k2, signer |-> b],
     [address |-> b, key |-> k3, signer |-> c], [address |-> c, key |-> k3, signer |-> c]}

chatVars == <<ready, retrieved, ranWith, listening, observing, posted, transit, retrievals, messages>>

MCInit == opened \in {"eth-pm", "web-chat"} /\ Init /\ Chat!Init /\ (wallet => opened = "eth-pm")
MCNext ==
    /\ UNCHANGED opened
    /\ \/ opened = "eth-pm" /\ Next /\ UNCHANGED chatVars
       \/ opened = "web-chat" /\ Chat!Next /\ UNCHANGED vars
MCSpec ==
    /\ MCInit /\ [][MCNext]_<<opened, vars, chatVars>>
    /\ WF_vars(opened = "eth-pm" /\ Created /\ UNCHANGED <<opened, chatVars>>)
    /\ WF_vars(opened = "eth-pm" /\ TimeOut /\ UNCHANGED <<opened, chatVars>>)

(* What the page of eth-pm shows, collects and awaits: see EthPm. *)
Starts == opened = "eth-pm" => StartsOrFails

(* What the chat page shows and when it retrieves: see WebChat. *)
HistoryStays == Chat!HistoryStays
NoRetrievalOnceObserving == Chat!NoRetrievalOnceObserving

===============================================================================
