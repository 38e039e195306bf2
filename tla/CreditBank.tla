----------------------------- MODULE CreditBank -----------------------------
(***************************************************************************)
(* What the node promises about compute credits, with no threads, caches,  *)
(* transactions or restarts: the members of a quorum become entitled to a  *)
(* reward once and together, an entitlement is paid once and to everyone   *)
(* who still waits for it at the same moment, allowances and charges move  *)
(* one account, and the supply never passes the cap.                       *)
(***************************************************************************)
EXTENDS Naturals, FiniteSets

CONSTANTS Tasks, Devices, Quorum, Credits, Grant, Prices, MaxSupply

VARIABLES
    entitled,  \* who may be paid how much for a task
    paid,      \* who has been paid for it
    account,   \* credits a device can spend
    supply     \* credits ever minted

bankVars == <<entitled, paid, account, supply>>

Nobody == [to |-> {}, credits |-> 0]

BankInit ==
    /\ entitled = [t \in Tasks |-> Nobody]
    /\ paid = [t \in Tasks |-> {}]
    /\ account = [d \in Devices |-> 0]
    /\ supply = 0

Entitle(t) ==
    /\ entitled[t].to = {}
    /\ \E S \in SUBSET Devices, c \in Credits :
         /\ Cardinality(S) >= Quorum
         /\ entitled' = [entitled EXCEPT ![t] = [to |-> S, credits |-> c]]
    /\ UNCHANGED <<paid, account, supply>>

Pay(t) ==
    LET due == entitled[t].to \ paid[t] IN
    /\ due # {}
    /\ supply' = supply + entitled[t].credits * Cardinality(due)
    /\ supply' <= MaxSupply
    /\ paid' = [paid EXCEPT ![t] = entitled[t].to]
    /\ account' = [d \in Devices |->
         IF d \in due THEN account[d] + entitled[t].credits ELSE account[d]]
    /\ UNCHANGED entitled

Allow(d) ==
    /\ supply' = supply + Grant /\ supply' <= MaxSupply
    /\ account' = [account EXCEPT ![d] = @ + Grant]
    /\ UNCHANGED <<entitled, paid>>

Charge(d) ==
    /\ \E p \in Prices : p <= account[d] /\ account' = [account EXCEPT ![d] = @ - p]
    /\ UNCHANGED <<entitled, paid, supply>>

BankNext ==
    \/ \E t \in Tasks : Entitle(t) \/ Pay(t)
    \/ \E d \in Devices : Allow(d) \/ Charge(d)

BankSpec == BankInit /\ [][BankNext]_bankVars
=============================================================================
