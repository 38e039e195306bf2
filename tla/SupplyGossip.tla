----------------------------- MODULE SupplyGossip -----------------------------
(***************************************************************************)
(* The supply cap across nodes (tfp_demo/server.py): each node mints       *)
(* against its own counter and the largest total it has heard of in        *)
(* kind-30081 events, which every node publishes through a Nostr relay.    *)
(*                                                                         *)
(* Abstracted: an event is its publisher and total.  The relay keeps the   *)
(* newest of each publisher, which reaches the subscribers, the publisher  *)
(* among them, unless it is lost or a damaged copy was remembered in its   *)
(* place; an older event, with some smaller total, may arrive at any time. *)
(***************************************************************************)
EXTENDS Naturals, FiniteSets
LOCAL INSTANCE FiniteSetsExt

CONSTANTS
    Node, NoEvent,
    MaxSupply,            \* MAX_SUPPLY
    Amounts,              \* what one settlement mints
    Buffer, Plausible,    \* TFP_SUPPLY_GOSSIP_BUFFER, the 10000 of the plausibility check
    MaxTroubles           \* bound on rollbacks, restarts and lost or damaged events

ASSUME GossipAssumption ==
    /\ NoEvent \notin Nat
    /\ {MaxSupply, Buffer, Plausible, MaxTroubles} \subseteq Nat
    /\ Amounts \subseteq 1..Buffer

VARIABLES
    minted,     \* supply_ledger.total_minted as committed
    inFlight,   \* the amount of the open settlement transaction, or 0
    heard,      \* _gossiped_supply_total
    newest,     \* the total in each node's newest event, or NoEvent
    unseen,     \* <<m, n>>: n has yet to process m's newest event
    troubles

gossipVars == <<minted, inFlight, heard, newest, unseen, troubles>>

GossipInit ==
    /\ minted \in [Node -> 0..MaxSupply]  \* nodes of any age
    /\ inFlight = [n \in Node |-> 0] /\ heard = [n \in Node |-> 0]
    /\ newest = [n \in Node |-> NoEvent] /\ unseen = {} /\ troubles = 0

Trouble == troubles < MaxTroubles /\ troubles' = troubles + 1

\* What the node's connection reads, its open transaction included.
TotalMinted(n) == minted[n] + inFlight[n]

LocksNothing(n) == TRUE  \* mutant: get_total_minted does not take _db_lock
\* The settlement transaction holds _db_lock from its begin to its end.
DbLockFree(n) == inFlight[n] = 0

EffectiveCap(n) ==
    IF heard[n] = 0 THEN MaxSupply ELSE Min({MaxSupply, heard[n] + Buffer})

-----------------------------------------------------------------------------
IncrementTotalMinted(n, a) ==
    /\ DbLockFree(n) /\ inFlight[n] = 0 /\ minted[n] + a <= EffectiveCap(n)
    /\ inFlight' = [inFlight EXCEPT ![n] = a]
    /\ UNCHANGED <<minted, heard, newest, unseen, troubles>>

CommitMint(n) ==
    /\ inFlight[n] > 0 /\ minted' = [minted EXCEPT ![n] = @ + inFlight[n]]
    /\ inFlight' = [inFlight EXCEPT ![n] = 0]
    /\ UNCHANGED <<heard, newest, unseen, troubles>>

RollBackMint(n) ==
    /\ inFlight[n] > 0 /\ Trouble /\ inFlight' = [inFlight EXCEPT ![n] = 0]
    /\ UNCHANGED <<minted, heard, newest, unseen>>

OthersOnly(n) == Node \ {n}  \* mutant: a node leaves out its own events
\* The subscription filters by kind only: a node's own events come back to it.
\* (A list of trusted keys, where one is set, is taken to hold the node's own.)
Hears(n) == Node

\* Every 30 seconds.
PublishGossip(n) ==
    /\ DbLockFree(n)
    /\ newest' = [newest EXCEPT ![n] = TotalMinted(n)]
    /\ unseen' = unseen \cup {<<n, m>> : m \in {k \in Node : n \in Hears(k)}}
    /\ UNCHANGED <<minted, inFlight, heard, troubles>>

\* _handle_supply_gossip_event: the largest total that is plausible.
Hear(n, t) ==
    /\ DbLockFree(n)
    /\ heard' = IF t <= TotalMinted(n) + Plausible /\ t > heard[n]
                THEN [heard EXCEPT ![n] = t] ELSE heard

ReceiveNewest(m, n) ==
    /\ <<m, n>> \in unseen /\ unseen' = unseen \ {<<m, n>>} /\ Hear(n, newest[m])
    /\ UNCHANGED <<minted, inFlight, newest, troubles>>

\* An older event arrives: this kind has no replay window.
ReceiveOld(m, n) ==
    /\ m \in Hears(n) /\ newest[m] # NoEvent /\ \E t \in 0..newest[m] : Hear(n, t)
    /\ UNCHANGED <<minted, inFlight, newest, unseen, troubles>>

\* The event is lost, or hidden by a damaged copy: its id is remembered before
\* the signature is looked at.
MissNewest(m, n) ==
    /\ <<m, n>> \in unseen /\ unseen' = unseen \ {<<m, n>>} /\ Trouble
    /\ UNCHANGED <<minted, inFlight, heard, newest>>

\* A restarted node has heard nothing and is sent the newest event of each.
RestartNode(n) ==
    /\ Trouble /\ heard' = [heard EXCEPT ![n] = 0] /\ inFlight' = [inFlight EXCEPT ![n] = 0]
    /\ unseen' = unseen \cup {<<m, n>> : m \in {k \in Hears(n) : newest[k] # NoEvent}}
    /\ UNCHANGED <<minted, newest>>

GossipNext ==
    \E n \in Node :
        \/ \E a \in Amounts : IncrementTotalMinted(n, a)
        \/ CommitMint(n) \/ RollBackMint(n) \/ PublishGossip(n) \/ RestartNode(n)
        \/ \E m \in Node : ReceiveNewest(m, n) \/ ReceiveOld(m, n) \/ MissNewest(m, n)

\* Transactions end, the maintenance loop publishes, the relay delivers.
GossipSpec ==
    /\ GossipInit /\ [][GossipNext]_gossipVars
    /\ \A n \in Node : /\ WF_gossipVars(CommitMint(n)) /\ WF_gossipVars(PublishGossip(n))
                       /\ \A m \in Node : WF_gossipVars(ReceiveNewest(m, n))

-----------------------------------------------------------------------------
\* No node is held to a total that was never minted: what is heard is never above
\* every committed counter, though totals are read while settlements run that may
\* still be rolled back (get_total_minted against _credit_transaction).
HeardIsReal == \A n \in Node : \E m \in Node : heard[n] <= minted[m]

\* A refusal below the supply is temporary.  The little that a young node has
\* minted stops an established one, whose counter is far above it, from minting
\* (increment_total_minted's effective cap); it goes on because its own events
\* come back to it, whatever was lost, late, damaged or forgotten before.
RefusalIsTemporary ==
    \A n \in Node, a \in Amounts :
        minted[n] + a <= MaxSupply ~>
            minted[n] + a <= EffectiveCap(n) \/ minted[n] + a > MaxSupply
=============================================================================
