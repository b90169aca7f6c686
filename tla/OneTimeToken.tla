----------------------------- MODULE OneTimeToken -----------------------------
(***************************************************************************)
(* What the verification_tokens table promises its readers, apart from how *)
(* tokens are sent, looked up and counted: a token is issued once, is live *)
(* until it is spent, and is redeemed by at most one request.  It may also *)
(* be spent for nobody, when the acknowledgement of its consumption is lost.*)
(***************************************************************************)
CONSTANTS Token, Holder

VARIABLES
    state,          \* of each token: "absent", "live" or "spent"
    redeemers       \* of each token: the requests told that they consumed it

vars == <<state, redeemers>>

Init ==
    /\ state = [t \in Token |-> "absent"]
    /\ redeemers = [t \in Token |-> {}]

Issue(t) ==
    /\ state[t] = "absent"
    /\ state' = [state EXCEPT ![t] = "live"]
    /\ UNCHANGED redeemers

Redeem(t, h) ==
    /\ state[t] = "live"
    /\ state' = [state EXCEPT ![t] = "spent"]
    /\ redeemers' = [redeemers EXCEPT ![t] = {h}]

Burn(t) ==
    /\ state[t] = "live"
    /\ state' = [state EXCEPT ![t] = "spent"]
    /\ UNCHANGED redeemers

Next == \E t \in Token : Issue(t) \/ Burn(t) \/ \E h \in Holder : Redeem(t, h)

Spec == Init /\ [][Next]_vars
=============================================================================
