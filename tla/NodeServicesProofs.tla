-------------------------- MODULE NodeServicesProofs --------------------------
(***************************************************************************)
(* Proofs about services of a node that share no state: SupplyGossip for   *)
(* any nodes, amounts and bounds, RateWindow for any limit and window,     *)
(* ChunkCache for any chunks and limits, and ArtifactTransfer for any      *)
(* artifact, on top of the receiver's inductive invariant.                 *)
(***************************************************************************)
EXTENDS SupplyGossip, RateWindow, ChunkCache, ArtifactTransfer, StreamReceiverProofs

(***************************************************************************)
(* SupplyGossip.                                                           *)
(***************************************************************************)

CounterTypes ==
    /\ minted \in [Node -> Nat] /\ inFlight \in [Node -> Nat] /\ heard \in [Node -> Nat]
    /\ newest \in [Node -> Nat \cup {NoEvent}]
    /\ unseen \subseteq Node \X Node

(* Totals are published between settlements, so events never run ahead of what   *)
(* their publishers committed, and only events that exist are on their way.      *)
EventsAreCommitted ==
    /\ \A m \in Node : newest[m] # NoEvent => newest[m] <= minted[m]
    /\ \A x \in unseen : newest[x[1]] # NoEvent

GossipInv == CounterTypes /\ EventsAreCommitted /\ HeardIsReal

(* Committed counters only grow. *)
NoneShrinks == \A m \in Node : minted'[m] >= minted[m]

-----------------------------------------------------------------------------
LEMMA GossipInitial == GossipInit => GossipInv
BY GossipAssumption DEF GossipInit, GossipInv, CounterTypes, EventsAreCommitted, HeardIsReal

\* While nothing new is heard, growing counters keep what was heard real.
LEMMA HeardStaysReal ==
    ASSUME CounterTypes, HeardIsReal, NoneShrinks, minted' \in [Node -> Nat], NEW n \in Node,
           \A k \in Node : heard'[k] \in {heard[k], 0}
    PROVE  \E m \in Node : heard'[n] <= minted'[m]
<1>1. PICK m \in Node : heard[n] <= minted[m]
    BY DEF HeardIsReal
<1>2. heard'[n] <= minted'[m]
    BY <1>1 DEF CounterTypes, NoneShrinks
<1> QED BY <1>2

\* Hearing a total that some node has committed.
LEMMA HearKeepsReal ==
    ASSUME CounterTypes, HeardIsReal, NEW n \in Node, NEW m \in Node, NEW t \in Nat,
           t <= minted[m], Hear(n, t), minted' = minted
    PROVE  heard' \in [Node -> Nat] /\ HeardIsReal'
<1>1. heard' \in [Node -> Nat] /\ \A k \in Node : heard'[k] \in {heard[k], t}
    BY DEF Hear, CounterTypes
<1>2. ASSUME NEW k \in Node PROVE \E j \in Node : heard'[k] <= minted[j]
    BY <1>1, <1>2 DEF HeardIsReal
<1> QED BY <1>1, <1>2 DEF HeardIsReal

LEMMA IncrementKeepsInv ==
    ASSUME GossipInv, NEW n \in Node, NEW a \in Amounts, IncrementTotalMinted(n, a)
    PROVE  GossipInv'
BY GossipAssumption DEF GossipInv, CounterTypes, EventsAreCommitted, HeardIsReal, IncrementTotalMinted

LEMMA CommitKeepsInv ==
    ASSUME GossipInv, NEW n \in Node, CommitMint(n)
    PROVE  GossipInv'
<1>1. minted' \in [Node -> Nat] /\ NoneShrinks
    BY DEF GossipInv, CounterTypes, CommitMint, NoneShrinks
<1>2. CounterTypes'
    BY <1>1 DEF GossipInv, CounterTypes, CommitMint
<1>3. EventsAreCommitted'
    BY <1>1 DEF GossipInv, CounterTypes, EventsAreCommitted, CommitMint, NoneShrinks
<1>4. HeardIsReal'
    BY <1>1, HeardStaysReal DEF GossipInv, CommitMint, HeardIsReal
<1> QED BY <1>2, <1>3, <1>4 DEF GossipInv

LEMMA RollBackKeepsInv ==
    ASSUME GossipInv, NEW n \in Node, RollBackMint(n)
    PROVE  GossipInv'
BY DEF GossipInv, CounterTypes, EventsAreCommitted, HeardIsReal, RollBackMint, Trouble

LEMMA PublishKeepsInv ==
    ASSUME GossipInv, NEW n \in Node, PublishGossip(n)
    PROVE  GossipInv'
<1>1. TotalMinted(n) = minted[n]
    BY DEF GossipInv, CounterTypes, PublishGossip, DbLockFree, TotalMinted
<1>2. newest' = [newest EXCEPT ![n] = minted[n]]
    BY <1>1 DEF PublishGossip
<1>3. CounterTypes'
    BY <1>2 DEF GossipInv, CounterTypes, PublishGossip
<1>4. EventsAreCommitted'
    <2>1. \A m \in Node : newest'[m] # NoEvent => newest'[m] <= minted[m]
        BY <1>2 DEF GossipInv, CounterTypes, EventsAreCommitted
    <2>2. \A x \in unseen' : newest'[x[1]] # NoEvent
        BY <1>2, GossipAssumption DEF GossipInv, CounterTypes, EventsAreCommitted, PublishGossip
    <2> QED BY <2>1, <2>2 DEF EventsAreCommitted, PublishGossip
<1> QED BY <1>3, <1>4 DEF GossipInv, HeardIsReal, PublishGossip

LEMMA ReceiveNewestKeepsInv ==
    ASSUME GossipInv, NEW n \in Node, NEW m \in Node, ReceiveNewest(m, n)
    PROVE  GossipInv'
<1>1. newest[m] \in Nat /\ newest[m] <= minted[m]
    BY DEF GossipInv, CounterTypes, EventsAreCommitted, ReceiveNewest
<1>2. heard' \in [Node -> Nat] /\ HeardIsReal'
    BY <1>1, HearKeepsReal DEF GossipInv, ReceiveNewest
<1> QED BY <1>2 DEF GossipInv, CounterTypes, EventsAreCommitted, ReceiveNewest

LEMMA ReceiveOldKeepsInv ==
    ASSUME GossipInv, NEW n \in Node, NEW m \in Node, ReceiveOld(m, n)
    PROVE  GossipInv'
<1>1. PICK t \in 0..newest[m] : Hear(n, t)
    BY DEF ReceiveOld
<1>2. newest[m] \in Nat /\ newest[m] <= minted[m]
    BY DEF GossipInv, CounterTypes, EventsAreCommitted, ReceiveOld
<1>3. t \in Nat /\ t <= minted[m]
    BY <1>2 DEF GossipInv, CounterTypes
<1>4. heard' \in [Node -> Nat] /\ HeardIsReal'
    BY <1>1, <1>3, HearKeepsReal DEF GossipInv, ReceiveOld
<1> QED BY <1>4 DEF GossipInv, CounterTypes, EventsAreCommitted, ReceiveOld

LEMMA MissKeepsInv ==
    ASSUME GossipInv, NEW n \in Node, NEW m \in Node, MissNewest(m, n)
    PROVE  GossipInv'
BY DEF GossipInv, CounterTypes, EventsAreCommitted, HeardIsReal, MissNewest, Trouble

LEMMA RestartNodeKeepsInv ==
    ASSUME GossipInv, NEW n \in Node, RestartNode(n)
    PROVE  GossipInv'
<1>1. /\ CounterTypes' /\ NoneShrinks
      /\ \A k \in Node : heard'[k] \in {heard[k], 0}
    BY DEF GossipInv, CounterTypes, RestartNode, Trouble, Hears, NoneShrinks
<1>2. HeardIsReal'
    BY <1>1, HeardStaysReal DEF GossipInv, CounterTypes, HeardIsReal
<1>3. EventsAreCommitted'
    BY DEF GossipInv, EventsAreCommitted, RestartNode
<1> QED BY <1>1, <1>2, <1>3 DEF GossipInv

\* The strengthening of HeardIsReal is inductive.
THEOREM GossipInvariance == GossipSpec => []GossipInv
<1>1. GossipInv /\ [GossipNext]_gossipVars => GossipInv'
    <2> SUFFICES ASSUME GossipInv, [GossipNext]_gossipVars PROVE GossipInv'
        OBVIOUS
    <2>1. CASE UNCHANGED gossipVars
        BY <2>1 DEF gossipVars, GossipInv, CounterTypes, EventsAreCommitted, HeardIsReal
    <2>2. CASE GossipNext
        BY <2>2, IncrementKeepsInv, CommitKeepsInv, RollBackKeepsInv, PublishKeepsInv,
           RestartNodeKeepsInv, ReceiveNewestKeepsInv, ReceiveOldKeepsInv, MissKeepsInv DEF GossipNext
    <2> QED BY <2>1, <2>2
<1> QED BY <1>1, GossipInitial, PTL DEF GossipSpec

\* HeardIsReal: for any nodes, cap, amounts and troubles, no node believes a total
\* above every committed counter, though totals are read on the connection whose
\* settlements may still be rolled back (get_total_minted, _credit_transaction).
THEOREM NobodyHeldToUnminted == GossipSpec => []HeardIsReal
BY GossipInvariance, PTL DEF GossipInv

-----------------------------------------------------------------------------
(***************************************************************************)
(* RateWindow.  As long as Redis keeps its counters, no counter passes the *)
(* limit, and until the window after its own is over a counter has not     *)
(* expired: it is the sum of what was granted of its window, in time and   *)
(* late.  A span shorter than a window meets two windows at most, so what  *)
(* was granted in it is bounded by two counters; the weight the script     *)
(* gives to the earlier one when it grants bounds their sum, and a request *)
(* that comes late within its window only weighs it more.                  *)
(***************************************************************************)

GrantedIn(S) == SumFunctionOnSet(granted, S)

Stamped == [step : {"stamped", "connecting", "loading"}, stamp : Ticks]

RateTypes ==
    /\ tick \in Ticks /\ wiped \in BOOLEAN
    /\ counts \in [Windows -> Nat] /\ expires \in [Windows -> Nat]
    /\ granted \in [Ticks -> Nat] /\ late \in [Windows -> Nat]
StampsArePast ==
    /\ request \in [Request -> {Idle} \cup Stamped]
    /\ \A q \in Request : ~At(q, "idle") => request[q].stamp <= tick

NothingAhead     == \A k \in Ticks : k > tick => granted[k] = 0
CountersAreExact == \A w \in Windows :
                       tick < WindowTicks * (w + 2) => counts[w] = GrantedIn(TicksOf(w)) + late[w]
CountersInLimit  == \A w \in Windows : counts[w] <= RateLimit
CountersLast     == \A w \in Windows : counts[w] # 0 => expires[w] >= WindowTicks * (w + 2)

RateInv ==
    /\ RateTypes /\ StampsArePast /\ NothingAhead
    /\ ~wiped => CountersAreExact /\ CountersInLimit /\ CountersLast
    /\ RateBounded

\* The two parts of RateBounded.
SpansBounded ==
    \A i, j \in Ticks : i <= j /\ j - i < WindowTicks =>
        WindowTicks * GrantedIn(i..j) < WindowTicks * (RateLimit + 1) + RateLimit * (j - i)
WindowsBounded == \A w \in Windows : GrantedIn(TicksOf(w)) + late[w] <= RateLimit

LEMMA BoundIs == RateBounded <=> (~wiped => SpansBounded /\ WindowsBounded)
BY DEF RateBounded, SpansBounded, WindowsBounded, GrantedIn

LEMMA TicksAreFinite ==
    /\ IsFiniteSet(Ticks)
    /\ \A w : TicksOf(w) \subseteq Ticks /\ IsFiniteSet(TicksOf(w))
    /\ \A i, j \in Ticks : i..j \subseteq Ticks /\ IsFiniteSet(i..j)
<1>1. LastTick \in Nat
    BY RateAssumption
<1>2. IsFiniteSet(Ticks)
    BY <1>1, FS_Interval DEF Ticks
<1>3. \A w : TicksOf(w) \subseteq Ticks
    BY DEF TicksOf
<1>4. \A i, j \in Ticks : i..j \subseteq Ticks
    BY <1>1 DEF Ticks
<1> QED BY <1>2, <1>3, <1>4, FS_Subset

\* The window of a tick.
LEMMA WindowOf ==
    ASSUME NEW k \in Ticks
    PROVE  /\ k \div WindowTicks \in Windows /\ k \div WindowTicks \in Nat
           /\ k = WindowTicks * (k \div WindowTicks) + (k % WindowTicks)
           /\ (k % WindowTicks) \in Nat /\ (k % WindowTicks) < WindowTicks
<1>1. k \in Nat /\ LastTick \in Nat /\ k <= LastTick /\ WindowTicks \in Nat \ {0}
    BY RateAssumption DEF Ticks
<1>2. k \div WindowTicks \in Nat /\ LastTick \div WindowTicks \in Nat
    BY <1>1, DivMod
<1>3. k \div WindowTicks <= LastTick \div WindowTicks
    BY <1>1, DivMonotone
<1> QED BY <1>1, <1>2, <1>3, DivMod DEF Windows

LEMMA EarlierWindow ==
    ASSUME NEW w \in Windows
    PROVE  w \in Nat /\ (w # 0 => w - 1 \in Windows)
<1>1. LastTick \in Nat /\ WindowTicks \in Nat \ {0}
    BY RateAssumption
<1>2. LastTick \div WindowTicks \in Nat
    BY <1>1, DivMod
<1> QED BY <1>2 DEF Windows

LEMMA CountIs ==
    ASSUME RateTypes, NEW w \in Windows
    PROVE  /\ Count(w) \in Nat
           /\ CountersInLimit => Count(w) <= RateLimit
           /\ CountersLast /\ tick < WindowTicks * (w + 2) => Count(w) = counts[w]
<1>1. /\ counts[w] \in Nat /\ expires[w] \in Nat /\ tick \in Nat /\ RateLimit \in Nat
      /\ WindowTicks \in Nat /\ w \in Nat
    BY EarlierWindow, RateAssumption DEF RateTypes, Ticks
<1>2. WindowTicks * (w + 2) \in Nat
    BY <1>1
<1>3. CountersInLimit => Count(w) <= RateLimit
    BY <1>1 DEF Count, CountersInLimit
<1>4. CountersLast /\ tick < WindowTicks * (w + 2) => Count(w) = counts[w]
    BY <1>1, <1>2 DEF Count, CountersLast
<1> QED BY <1>1, <1>3, <1>4 DEF Count

\* The script's weighted count in plain terms.
LEMMA WeightedIs ==
    ASSUME RateTypes, NEW k \in Ticks, NEW w, w = k \div WindowTicks
    PROVE  /\ Weighted(k) \in Nat
           /\ w = 0 => Weighted(k) = WindowTicks * Count(w)
           /\ w # 0 => /\ w - 1 \in Windows
                       /\ Weighted(k) = WindowTicks * Count(w) + Count(w - 1) * (WindowTicks - (k % WindowTicks))
<1>1. /\ w \in Windows /\ WindowTicks \in Nat
      /\ (k % WindowTicks) \in Nat /\ (k % WindowTicks) < WindowTicks
    BY WindowOf, RateAssumption
<1>2. PICK left \in Nat : left = WindowTicks - (k % WindowTicks)
    BY <1>1
<1>3. Weighted(k) = WindowTicks * Count(w) + (IF w = 0 THEN 0 ELSE Count(w - 1) * left)
    BY <1>2 DEF Weighted
<1>4. Count(w) \in Nat /\ WindowTicks * Count(w) \in Nat
    BY <1>1, CountIs
<1>5. CASE w = 0
    BY <1>3, <1>4, <1>5
<1>6. CASE w # 0
    <2>1. w - 1 \in Windows
        BY <1>1, <1>6, EarlierWindow
    <2>2. PICK p \in Nat : p = Count(w - 1)
        BY <2>1, CountIs
    <2>3. p * left \in Nat
        BY <1>2, <2>2
    <2> QED BY <1>2, <1>3, <1>4, <1>6, <2>1, <2>2, <2>3
<1> QED BY <1>5, <1>6

LEMMA RateInitial == RateInit => RateInv
<1> SUFFICES ASSUME RateInit PROVE RateInv
    OBVIOUS
<1>1. RateTypes /\ NothingAhead /\ StampsArePast
    <2>1. LastTick \in Nat
        BY RateAssumption
    <2>2. RateTypes
        <3>1. tick \in Ticks /\ wiped \in BOOLEAN
            <4>1. tick = 0 /\ 0 \in 0..LastTick
                BY <2>1 DEF RateInit
            <4>2. wiped \in BOOLEAN
                BY Zenon DEF RateInit
            <4> QED BY <4>1, <4>2 DEF Ticks
        <3>2. /\ counts \in [Windows -> Nat] /\ expires \in [Windows -> Nat]
              /\ granted \in [Ticks -> Nat] /\ late \in [Windows -> Nat]
            BY DEF RateInit
        <3> QED BY <3>1, <3>2 DEF RateTypes
    <2>3. NothingAhead
        BY DEF RateInit, NothingAhead, Ticks
    <2>4. StampsArePast
        BY DEF RateInit, StampsArePast, At, Idle
    <2> QED BY <2>2, <2>3, <2>4
<1>2. ASSUME NEW S \in SUBSET Ticks PROVE GrantedIn(S) = 0
    <2>1. IsFiniteSet(S) /\ {} \in SUBSET S /\ \A k \in S : granted[k] = 0
        BY TicksAreFinite, FS_Subset DEF RateInit, Ticks
    <2>2. SumFunctionOnSet(granted, S) = SumFunctionOnSet(granted, {})
        BY <2>1, SumSubset
    <2> QED BY <2>2, SumEmpty DEF GrantedIn
<1>3. \A w \in Windows : counts[w] = 0 /\ late[w] = 0 /\ GrantedIn(TicksOf(w)) = 0
    BY <1>2, TicksAreFinite DEF RateInit
<1>4. CountersAreExact /\ CountersInLimit /\ CountersLast
    BY <1>3, RateAssumption DEF CountersAreExact, CountersInLimit, CountersLast
<1>5. SpansBounded
    <2> SUFFICES ASSUME NEW i \in Ticks, NEW j \in Ticks, i <= j, j - i < WindowTicks
                 PROVE  WindowTicks * GrantedIn(i..j) < WindowTicks * (RateLimit + 1) + RateLimit * (j - i)
        BY DEF SpansBounded
    <2>1. GrantedIn(i..j) = 0
        BY <1>2, TicksAreFinite
    <2>2. j - i \in Nat /\ RateLimit \in Nat /\ WindowTicks \in Nat \ {0}
        BY RateAssumption DEF Ticks
    <2>3. WindowTicks * (RateLimit + 1) > 0 /\ RateLimit * (j - i) >= 0
        BY <2>2
    <2> QED BY <2>1, <2>2, <2>3
<1>6. WindowsBounded
    BY <1>3, RateAssumption DEF WindowsBounded
<1> QED BY <1>1, <1>4, <1>5, <1>6, BoundIs DEF RateInv

\* Steps that grant nothing keep the invariant.
LEMMA NothingGranted ==
    ASSUME RateInv, tick' \in Ticks, tick' >= tick, wiped' \in BOOLEAN, UNCHANGED <<expires, granted, late>>,
           StampsArePast', counts' \in [Windows -> Nat], wiped' \/ (~wiped /\ counts' = counts)
    PROVE  RateInv'
<1>1. RateTypes' /\ NothingAhead'
    BY DEF RateInv, RateTypes, NothingAhead, Ticks
<1>2. ASSUME ~wiped' PROVE CountersAreExact' /\ CountersInLimit' /\ CountersLast'
    <2>1. counts' = counts /\ CountersAreExact /\ CountersInLimit /\ CountersLast
        BY <1>2 DEF RateInv
    <2>2. CountersInLimit' /\ CountersLast'
        BY <2>1 DEF CountersInLimit, CountersLast
    <2>3. ASSUME NEW w \in Windows, tick' < WindowTicks * (w + 2)
          PROVE  counts'[w] = GrantedIn(TicksOf(w))' + late'[w]
        <3>1. tick \in Nat /\ tick' \in Nat
            BY DEF RateInv, RateTypes, Ticks
        <3>3. PICK n \in Nat : n = WindowTicks * (w + 2)
            <4>1. w \in Nat /\ WindowTicks \in Nat
                BY EarlierWindow, RateAssumption
            <4> QED BY <4>1
        <3>2. tick < WindowTicks * (w + 2)
            BY <2>3, <3>1, <3>3
        <3> QED BY <2>1, <3>2 DEF CountersAreExact, GrantedIn
    <2> QED BY <2>2, <2>3 DEF CountersAreExact
<1>3. RateBounded'
    BY DEF RateInv, RateBounded
<1> QED BY <1>1, <1>2, <1>3 DEF RateInv

-----------------------------------------------------------------------------
(* A request is granted. *)

GrantStep(k) ==
    /\ k \in Ticks /\ k <= tick /\ Weighted(k) < RateLimit * WindowTicks
    /\ Grant(k \div WindowTicks) /\ UNCHANGED <<tick, wiped>>

\* Arithmetic of the script: the present counter K and the one before, P, weighted
\* by what is left of the window after R of its W ticks.
LEMMA GrantArithmetic ==
    ASSUME NEW W \in Nat, NEW L \in Nat, NEW K \in Nat, NEW P \in Nat, NEW R \in Nat, NEW D \in Nat,
           R < W, R < D, P <= L, W * K + P * (W - R) < L * W
    PROVE  W * (K + P + 1) < W * (L + 1) + L * D
<1>1. W * (K + P + 1) = W * K + W * P + W /\ W * (L + 1) = L * W + W
    OBVIOUS
<1>2. P * (W - R) = W * P - P * R
    OBVIOUS
<1>3. P * R <= L * R
    <2>1. L * R - P * R = (L - P) * R
        OBVIOUS
    <2>2. (L - P) * R >= 0
        OBVIOUS
    <2>3. L * R \in Nat /\ P * R \in Nat
        OBVIOUS
    <2> QED BY <2>1, <2>2, <2>3
<1>4. L * R <= L * D
    <2>1. L * D - L * R = L * (D - R)
        OBVIOUS
    <2>2. L * (D - R) >= 0
        OBVIOUS
    <2>3. L * R \in Nat /\ L * D \in Nat
        OBVIOUS
    <2> QED BY <2>1, <2>2, <2>3
<1>5. /\ W * K \in Nat /\ W * P \in Nat /\ P * R \in Nat /\ L * R \in Nat
      /\ L * D \in Nat /\ L * W \in Nat
    OBVIOUS
<1> QED BY <1>1, <1>2, <1>3, <1>4, <1>5

LEMMA RoomInWindow ==
    ASSUME RateTypes, NEW k \in Ticks, Weighted(k) < RateLimit * WindowTicks
    PROVE  Count(k \div WindowTicks) \in Nat /\ Count(k \div WindowTicks) + 1 <= RateLimit
<1>1. PICK w \in Windows : w = k \div WindowTicks
    BY WindowOf
<1>2. PICK c \in Nat : c = Count(w)
    BY CountIs
<1>3. PICK W \in Nat \ {0} : W = WindowTicks
    BY RateAssumption
<1>4. PICK L \in Nat : L = RateLimit
    BY RateAssumption
<1>5. W * c < L * W
    <2>1. Weighted(k) < L * W /\ Weighted(k) \in Nat /\ L * W \in Nat /\ W * c \in Nat
        BY <1>1, <1>3, <1>4, WeightedIs
    <2>2. Weighted(k) >= W * c
        <3>1. CASE w = 0
            BY <1>1, <1>2, <1>3, <2>1, <3>1, WeightedIs
        <3>2. CASE w # 0
            <4>1. PICK p \in Nat : p = Count(w - 1)
                BY <1>1, <3>2, WeightedIs, CountIs
            <4>2. PICK left \in Nat : left = W - (k % W)
                BY <1>3, WindowOf
            <4>3. Weighted(k) = W * c + p * left
                BY <1>1, <1>2, <1>3, <3>2, <4>1, <4>2, WeightedIs
            <4>4. p * left \in Nat
                OBVIOUS
            <4> QED BY <2>1, <4>3, <4>4
        <3> QED BY <3>1, <3>2
    <2> QED BY <2>1, <2>2
<1>6. c < L
    <2>1. ASSUME c >= L PROVE FALSE
        <3>1. W * c = W * L + W * (c - L)
            OBVIOUS
        <3>2. W * (c - L) >= 0 /\ W * (c - L) \in Int
            BY <2>1
        <3>3. W * L = L * W /\ L * W \in Nat
            OBVIOUS
        <3> QED BY <1>5, <3>1, <3>2, <3>3
    <2> QED BY <2>1
<1> QED BY <1>1, <1>2, <1>4, <1>6

\* A tick comes in the window of an earlier one, or that many windows after it.
LEMMA WindowEnds ==
    ASSUME NEW k \in Ticks, NEW n \in Ticks, NEW w, w = k \div WindowTicks, NEW v, v = n \div WindowTicks
    PROVE  /\ w \in Windows /\ v \in Windows /\ w \in Nat /\ v \in Nat
           /\ k <= n => w <= v
           /\ v <= w + 1 => n < WindowTicks * (w + 2)
           /\ v > w + 1 => n >= WindowTicks * (w + 2)
           /\ WindowTicks * (w + 2) \in Nat /\ k + 2 * WindowTicks >= WindowTicks * (w + 2)
<1>1. PICK W \in Nat \ {0} : W = WindowTicks
    BY RateAssumption
<1>2. /\ w \in Windows /\ v \in Windows /\ w \in Nat /\ v \in Nat /\ k \in Nat /\ n \in Nat
    BY WindowOf, RateAssumption DEF Ticks
<1>3. PICK r \in Nat : k = W * w + r
    BY <1>1, WindowOf
<1>4. PICK s \in Nat : n = W * v + s /\ s < W
    BY <1>1, WindowOf
<1>5. W * (w + 2) = W * w + 2 * W /\ W * w \in Nat
    BY <1>2
<1>6. k + 2 * W >= W * (w + 2)
    BY <1>3, <1>5
<1>7. ASSUME v <= w + 1 PROVE n < W * (w + 2)
    <2>1. PICK d \in Nat : w + 1 = v + d
        <3>1. w + 1 - v \in Nat /\ w + 1 = v + (w + 1 - v)
            BY <1>2, <1>7
        <3> QED BY <3>1
    <2>2. w + 2 = v + d + 1
        BY <1>2, <2>1
    <2>3. W * (w + 2) = W * v + W * d + W /\ W * d \in Nat /\ W * v \in Nat
        BY <1>2, <2>2
    <2> QED BY <1>4, <2>3
<1>8. ASSUME v > w + 1 PROVE n >= W * (w + 2)
    <2>1. PICK d \in Nat : v = w + 2 + d
        <3>1. v - w - 2 \in Nat /\ v = w + 2 + (v - w - 2)
            BY <1>2, <1>8
        <3> QED BY <3>1
    <2>2. W * v = W * (w + 2) + W * d /\ W * d \in Nat /\ W * (w + 2) \in Nat
        BY <1>2, <2>1
    <2> QED BY <1>4, <2>2
<1>9. k <= n => w <= v
    BY <1>1, <1>2, DivMonotone
<1> QED BY <1>1, <1>2, <1>5, <1>6, <1>7, <1>8, <1>9

\* What was granted in a span up to now, before the grant of a request stamped in
\* the present window.
LEMMA GrantedBefore ==
    ASSUME RateInv, ~wiped, NEW k \in Ticks, k <= tick, k \div WindowTicks = tick \div WindowTicks,
           Weighted(k) < RateLimit * WindowTicks,
           NEW i \in Ticks, i <= tick, tick - i < WindowTicks
    PROVE  /\ GrantedIn(i..tick) \in Nat
           /\ WindowTicks * (GrantedIn(i..tick) + 1)
                < WindowTicks * (RateLimit + 1) + RateLimit * (tick - i)
<1> DEFINE w == tick \div WindowTicks
           r == tick % WindowTicks
           x == k % WindowTicks
           c == Count(w)
<1>1. PICK A : A = {m \in i..tick : m \div WindowTicks = w}
    OBVIOUS
<1>2. PICK B : B = {m \in i..tick : m \div WindowTicks # w}
    OBVIOUS
<1>3. /\ A \subseteq TicksOf(w) /\ A \subseteq Ticks /\ B \subseteq Ticks
      /\ A \cap B = {} /\ i..tick = A \cup B /\ IsFiniteSet(A) /\ IsFiniteSet(B)
    <2>1. i..tick \subseteq Ticks /\ IsFiniteSet(i..tick)
        BY TicksAreFinite DEF RateInv, RateTypes
    <2> QED BY <1>1, <1>2, <2>1, FS_Subset DEF TicksOf
<1>4. \A m \in Ticks : granted[m] \in Nat
    BY DEF RateInv, RateTypes
<1>5. GrantedIn(i..tick) = GrantedIn(A) + GrantedIn(B)
    <2>1. SumFunctionOnSet(granted, A \cup B) = SumFunctionOnSet(granted, A) + SumFunctionOnSet(granted, B)
        BY <1>3, <1>4, SumUnion
    <2> QED BY <1>3, <2>1, Zenon DEF GrantedIn
<1>6. /\ tick \in Ticks /\ w \in Windows /\ w \in Nat /\ c \in Nat /\ r \in Nat /\ r < WindowTicks
      /\ x \in Nat /\ x < WindowTicks /\ tick = WindowTicks * w + r /\ k = WindowTicks * w + x
    BY WindowOf, CountIs DEF RateInv, RateTypes
<1>7. /\ WindowTicks \in Nat \ {0} /\ RateLimit \in Nat /\ tick - i \in Nat /\ tick \in Nat /\ i \in Nat
      /\ k \in Nat
    BY <1>6, RateAssumption DEF Ticks
<1>8. x <= r
    <2>1. WindowTicks * w \in Nat
        BY <1>6, <1>7
    <2> HIDE DEF w, r, x
    <2> QED BY <1>6, <1>7, <2>1
<1>9. ASSUME NEW u \in Windows, NEW S \in SUBSET TicksOf(u), tick < WindowTicks * (u + 2)
      PROVE  /\ GrantedIn(S) \in Nat /\ Count(u) \in Nat /\ GrantedIn(S) <= Count(u)
             /\ Count(u) <= RateLimit
    <2>1. IsFiniteSet(TicksOf(u)) /\ \A m \in TicksOf(u) : granted[m] \in Nat
        BY <1>4, TicksAreFinite
    <2>2. SumFunctionOnSet(granted, S) \in Nat /\ SumFunctionOnSet(granted, TicksOf(u)) \in Nat
          /\ SumFunctionOnSet(granted, S) <= SumFunctionOnSet(granted, TicksOf(u))
        BY <2>1, SumMonotone
    <2>3. Count(u) = counts[u] /\ Count(u) \in Nat /\ Count(u) <= RateLimit
        BY <1>9, CountIs DEF RateInv
    <2>4. counts[u] = SumFunctionOnSet(granted, TicksOf(u)) + late[u] /\ late[u] \in Nat
        BY <1>9 DEF RateInv, RateTypes, CountersAreExact, GrantedIn
    <2> QED BY <2>2, <2>3, <2>4 DEF GrantedIn
<1>10. tick < WindowTicks * (w + 2)
    BY <1>6, WindowEnds
<1>11. GrantedIn(A) \in Nat /\ GrantedIn(A) <= c
    BY <1>3, <1>6, <1>9, <1>10
<1>12. c + 1 <= RateLimit
    BY RoomInWindow DEF RateInv
<1>13. CASE B = {}
    <2>1. GrantedIn(B) = 0
        BY <1>13, SumEmpty DEF GrantedIn
    <2>2. PICK g \in Nat : g = GrantedIn(i..tick)
        BY <1>5, <1>11, <2>1
    <2>3. g + 1 <= RateLimit
        <3> HIDE DEF c
        <3> QED BY <1>5, <1>6, <1>7, <1>11, <1>12, <2>1, <2>2
    <2>4. WindowTicks * (RateLimit + 1) = WindowTicks * (g + 1) + WindowTicks * (RateLimit - g)
        BY <1>7
    <2>5. WindowTicks * (RateLimit - g) > 0
        BY <1>7, <2>3
    <2>6. RateLimit * (tick - i) >= 0
        BY <1>7
    <2>7. /\ WindowTicks * (RateLimit - g) \in Int /\ WindowTicks * (g + 1) \in Int
          /\ RateLimit * (tick - i) \in Int
        BY <1>7
    <2> QED BY <2>2, <2>4, <2>5, <2>6, <2>7
<1>14. CASE B # {}
    <2>1. PICK e \in B : TRUE
        BY <1>14
    <2>2. \A m \in B : m \div WindowTicks = w - 1 /\ w >= 1
        <3> SUFFICES ASSUME NEW m \in B PROVE m \div WindowTicks = w - 1 /\ w >= 1
            OBVIOUS
        <3>1. /\ m \in Ticks /\ m \in Nat /\ i <= m /\ m <= tick /\ m \div WindowTicks # w
              /\ m \div WindowTicks \in Nat
            BY <1>2, <1>3, <1>7, WindowOf DEF Ticks
        <3>2. m \div WindowTicks <= w
            BY <1>7, <3>1, DivMonotone
        <3>3. tick < m + WindowTicks
            BY <1>7, <3>1
        <3>4. w <= (m \div WindowTicks) + 1
            BY <1>7, <3>1, <3>3, DivNext
        <3> HIDE DEF w
        <3> QED BY <1>6, <3>1, <3>2, <3>4
    <2> DEFINE p == Count(w - 1)
    <2>3. w # 0 /\ w - 1 \in Windows /\ w - 1 \in Nat
        BY <1>6, <2>1, <2>2, EarlierWindow
    <2>4. tick < WindowTicks * ((w - 1) + 2)
        <3>1. (w - 1) + 2 = w + 1 /\ WindowTicks * (w + 1) = WindowTicks * w + WindowTicks
            BY <1>6, <1>7
        <3>2. WindowTicks * w \in Nat
            BY <1>6, <1>7
        <3> HIDE DEF w, r
        <3> QED BY <1>6, <1>7, <3>1, <3>2
    <2>5. GrantedIn(B) \in Nat /\ p \in Nat /\ GrantedIn(B) <= p /\ p <= RateLimit
        <3>1. B \in SUBSET TicksOf(w - 1)
            BY <1>3, <2>2 DEF TicksOf
        <3> QED BY <1>9, <2>3, <2>4, <3>1
    <2>6. x < tick - i
        <3>1. e \in Ticks /\ e \in Nat /\ i <= e /\ e \div WindowTicks = w - 1
            BY <1>2, <1>3, <2>1, <2>2 DEF Ticks
        <3>2. e < WindowTicks * (w - 1) + WindowTicks
            BY <1>7, <3>1, WindowOf
        <3>3. WindowTicks * (w - 1) + WindowTicks = WindowTicks * w /\ WindowTicks * w \in Int
            BY <1>6, <1>7
        <3> HIDE DEF w, r, x
        <3> QED BY <1>6, <1>7, <1>8, <3>1, <3>2, <3>3
    <2>7. WindowTicks * c + p * (WindowTicks - x) < RateLimit * WindowTicks
        <3>1. Weighted(k) = WindowTicks * c + p * (WindowTicks - x)
            BY <2>3, WeightedIs DEF RateInv
        <3> QED BY <3>1
    <2>8. WindowTicks * (c + p + 1) < WindowTicks * (RateLimit + 1) + RateLimit * (tick - i)
        <3> HIDE DEF c, p, x, w
        <3> QED BY <1>6, <1>7, <2>5, <2>6, <2>7, GrantArithmetic
    <2>9. PICK g \in Nat : g = GrantedIn(i..tick) /\ g <= c + p
        <3>1. PICK a \in Nat, b \in Nat : a = GrantedIn(A) /\ b = GrantedIn(B)
            BY <1>11, <2>5
        <3>2. a <= c /\ b <= p /\ c \in Nat /\ p \in Nat
            BY <1>6, <1>11, <2>5, <3>1
        <3>3. GrantedIn(i..tick) = a + b
            BY <1>5, <3>1
        <3> HIDE DEF c, p, r, w
        <3>4. a + b \in Nat /\ a + b <= c + p
            BY <3>2
        <3> QED BY <3>3, <3>4
    <2>10. WindowTicks * (c + p + 1) = WindowTicks * (g + 1) + WindowTicks * (c + p - g)
        <3> HIDE DEF c, p, r, w
        <3> QED BY <1>6, <1>7, <2>5
    <2>11. WindowTicks * (c + p - g) >= 0
        <3> HIDE DEF c, p, r, w
        <3>1. PICK h \in Nat : h = c + p - g
            <4>1. c + p - g \in Nat
                BY <1>6, <2>5, <2>9
            <4> QED BY <4>1
        <3>2. WindowTicks * h \in Nat
            BY <1>7
        <3> QED BY <3>1, <3>2
    <2>12. /\ WindowTicks * (c + p - g) \in Int /\ WindowTicks * (g + 1) \in Int
           /\ RateLimit * (tick - i) \in Int /\ WindowTicks * (RateLimit + 1) \in Int
        <3> HIDE DEF c, p, r, w
        <3> QED BY <1>6, <1>7, <2>5
    <2> HIDE DEF c, p, r, w
    <2> QED BY <2>8, <2>9, <2>10, <2>11, <2>12
<1> QED BY <1>13, <1>14

\* A grant in the present window counts in the tick's spans and in no other.
LEMMA GrantCounts ==
    ASSUME RateTypes, granted' = [granted EXCEPT ![tick] = @ + 1], NEW S \in SUBSET Ticks
    PROVE  /\ tick \in S => GrantedIn(S)' = GrantedIn(S) + 1
           /\ tick \notin S => GrantedIn(S)' = GrantedIn(S)
<1>1. PICK new : new = granted'
    OBVIOUS
<1>2. /\ \A k \in S : granted[k] \in Nat /\ (k # tick => new[k] = granted[k])
      /\ tick \in S => new[tick] = granted[tick] + 1
    BY <1>1 DEF RateTypes
<1>3. IsFiniteSet(S)
    BY TicksAreFinite, FS_Subset
<1>4. tick \in S => SumFunctionOnSet(new, S) = SumFunctionOnSet(granted, S) + 1
    BY <1>2, <1>3, SumAdd
<1>5. tick \notin S => SumFunctionOnSet(new, S) = SumFunctionOnSet(granted, S)
    BY <1>2, <1>3, SumSame
<1> QED BY <1>1, <1>4, <1>5 DEF GrantedIn

\* The counters after a grant.
LEMMA GrantCounters ==
    ASSUME RateInv, ~wiped, NEW k, GrantStep(k)
    PROVE  CountersAreExact' /\ CountersInLimit' /\ CountersLast' /\ WindowsBounded'
<1>1. PICK w : w = k \div WindowTicks
    OBVIOUS
<1>2. PICK v : v = tick \div WindowTicks
    OBVIOUS
<1>3. /\ tick \in Ticks /\ k \in Ticks /\ k <= tick /\ tick \in Nat /\ k \in Nat /\ WindowTicks \in Nat
      /\ RateLimit \in Nat
    BY RateAssumption DEF RateInv, RateTypes, GrantStep, Ticks
<1>4. /\ w \in Windows /\ v \in Windows /\ w \in Nat /\ v \in Nat /\ w <= v
      /\ v <= w + 1 => tick < WindowTicks * (w + 2)
      /\ v > w + 1 => tick >= WindowTicks * (w + 2)
      /\ WindowTicks * (w + 2) \in Nat /\ tick + 2 * WindowTicks >= WindowTicks * (w + 2)
    <2>1. k + 2 * WindowTicks >= WindowTicks * (w + 2) /\ WindowTicks * (w + 2) \in Nat
        BY <1>1, <1>2, <1>3, WindowEnds
    <2>2. w \in Windows /\ v \in Windows /\ w \in Nat /\ v \in Nat /\ w <= v
        BY <1>1, <1>2, <1>3, WindowEnds
    <2>3. /\ v <= w + 1 => tick < WindowTicks * (w + 2)
          /\ v > w + 1 => tick >= WindowTicks * (w + 2)
        BY <1>1, <1>2, <1>3, WindowEnds
    <2>4. tick + 2 * WindowTicks >= WindowTicks * (w + 2)
        <3>1. PICK n \in Nat : n = WindowTicks * (w + 2)
            BY <2>1
        <3>2. PICK j \in Nat : j = 2 * WindowTicks
            BY <1>3
        <3>3. k + j >= n
            BY <2>1, <3>1, <3>2
        <3>4. tick + j >= n
            BY <1>3, <3>1, <3>2, <3>3
        <3> QED BY <3>1, <3>2, <3>4
    <2> QED BY <2>1, <2>2, <2>3, <2>4
<1>5. PICK n \in Nat : n = Count(w) /\ n + 1 <= RateLimit
    BY <1>1, <1>3, RoomInWindow DEF RateInv, GrantStep
<1>6. /\ counts' = [counts EXCEPT ![w] = n + 1]
      /\ expires' = [expires EXCEPT ![w] = tick + 2 * WindowTicks]
      /\ granted' = IF tick \in TicksOf(w) THEN [granted EXCEPT ![tick] = @ + 1] ELSE granted
      /\ late' = IF v = w + 1 THEN [late EXCEPT ![w] = @ + 1] ELSE late
      /\ UNCHANGED tick
    BY <1>1, <1>2, <1>5 DEF GrantStep, Grant
<1>7. /\ counts \in [Windows -> Nat] /\ expires \in [Windows -> Nat] /\ late \in [Windows -> Nat]
      /\ CountersAreExact /\ CountersInLimit /\ CountersLast /\ WindowsBounded
    BY BoundIs DEF RateInv, RateTypes
<1>8. CountersInLimit'
    BY <1>3, <1>4, <1>5, <1>6, <1>7 DEF CountersInLimit
<1>9. CountersLast'
    BY <1>3, <1>4, <1>6, <1>7 DEF CountersLast
<1>10. \A u \in Windows : tick \in TicksOf(u) <=> u = v
    BY <1>2, <1>3 DEF TicksOf
<1>11. ASSUME NEW u \in Windows, u # w PROVE GrantedIn(TicksOf(u))' = GrantedIn(TicksOf(u)) /\ late'[u] = late[u]
    <2>1. late'[u] = late[u]
        BY <1>6, <1>7, <1>11
    <2>2. CASE granted' = granted
        BY <2>1, <2>2 DEF GrantedIn
    <2>3. CASE granted' = [granted EXCEPT ![tick] = @ + 1] /\ tick \in TicksOf(w)
        <3>1. tick \notin TicksOf(u) /\ TicksOf(u) \in SUBSET Ticks
            BY <1>4, <1>10, <1>11, <2>3 DEF TicksOf
        <3>2. GrantedIn(TicksOf(u))' = GrantedIn(TicksOf(u))
            BY <2>3, <3>1, GrantCounts DEF RateInv, GrantedIn
        <3> QED BY <2>1, <3>2
    <2> QED BY <1>6, <2>2, <2>3
<1>12. GrantedIn(TicksOf(w)) \in Nat /\ late[w] \in Nat
    <2>1. IsFiniteSet(TicksOf(w)) /\ \A m \in TicksOf(w) : granted[m] \in Nat
        BY TicksAreFinite DEF RateInv, RateTypes
    <2>2. SumFunctionOnSet(granted, TicksOf(w)) \in Nat
        BY <2>1, SumMonotone
    <2> QED BY <1>4, <1>7, <2>2 DEF GrantedIn
<1>13. CASE v <= w + 1
    <2>1. GrantedIn(TicksOf(w))' + late'[w] = GrantedIn(TicksOf(w)) + late[w] + 1
        <3>1. CASE v = w
            <4>1. late' = late /\ granted' = [granted EXCEPT ![tick] = @ + 1] /\ tick \in TicksOf(w)
                BY <1>4, <1>6, <1>10, <3>1
            <4>2. GrantedIn(TicksOf(w))' = GrantedIn(TicksOf(w)) + 1
                <5>1. TicksOf(w) \in SUBSET Ticks
                    BY DEF TicksOf
                <5> QED BY <4>1, <5>1, GrantCounts DEF RateInv, GrantedIn
            <4> QED BY <1>12, <4>1, <4>2
        <3>2. CASE v = w + 1
            <4>1. tick \notin TicksOf(w)
                BY <1>4, <1>10, <3>2
            <4>2. granted' = granted /\ late'[w] = late[w] + 1
                BY <1>4, <1>6, <1>7, <3>2, <4>1
            <4>3. GrantedIn(TicksOf(w))' = GrantedIn(TicksOf(w))
                BY <4>2 DEF GrantedIn
            <4> QED BY <1>12, <4>2, <4>3
        <3> QED BY <1>4, <1>13, <3>1, <3>2
    <2>2. n = counts[w]
        BY <1>4, <1>5, <1>7, <1>13, CountIs DEF RateInv
    <2>3. counts'[w] = GrantedIn(TicksOf(w))' + late'[w]
        <3>1. counts[w] = GrantedIn(TicksOf(w)) + late[w]
            BY <1>4, <1>7, <1>13 DEF CountersAreExact
        <3>2. counts'[w] = n + 1
            BY <1>4, <1>6, <1>7
        <3> QED BY <1>12, <2>1, <2>2, <3>1, <3>2
    <2>4. CountersAreExact'
        <3> SUFFICES ASSUME NEW u \in Windows, tick < WindowTicks * (u + 2)
                     PROVE  counts'[u] = GrantedIn(TicksOf(u))' + late'[u]
            BY <1>6 DEF CountersAreExact, GrantedIn, TicksOf
        <3>1. CASE u = w
            BY <2>3, <3>1
        <3>2. CASE u # w
            BY <1>6, <1>7, <1>11, <3>2 DEF CountersAreExact
        <3> QED BY <3>1, <3>2
    <2>5. counts'[w] <= RateLimit
        BY <1>4, <1>8 DEF CountersInLimit
    <2>6. WindowsBounded'
        <3> SUFFICES ASSUME NEW u \in Windows PROVE GrantedIn(TicksOf(u))' + late'[u] <= RateLimit
            BY DEF WindowsBounded, GrantedIn, TicksOf
        <3>1. CASE u = w
            BY <2>3, <2>5, <3>1
        <3>2. CASE u # w
            BY <1>7, <1>11, <3>2 DEF WindowsBounded
        <3> QED BY <3>1, <3>2
    <2> QED BY <1>8, <1>9, <2>4, <2>6
<1>14. CASE v > w + 1
    <2>1. tick \notin TicksOf(w) /\ v # w + 1 /\ ~(tick < WindowTicks * (w + 2))
        BY <1>3, <1>4, <1>10, <1>14
    <2>2. UNCHANGED <<tick, granted, late>>
        BY <1>6, <2>1
    <2>3. WindowsBounded'
        BY <1>7, <2>2 DEF WindowsBounded, GrantedIn
    <2>4. \A u \in Windows : u # w => counts'[u] = counts[u]
        BY <1>6, <1>7
    <2>5. CountersAreExact'
        BY <1>7, <2>1, <2>2, <2>4 DEF CountersAreExact, GrantedIn
    <2> QED BY <1>8, <1>9, <2>3, <2>5
<1> QED BY <1>4, <1>13, <1>14

\* The spans after a grant.
LEMMA GrantSpans ==
    ASSUME RateInv, ~wiped, NEW k, GrantStep(k)
    PROVE  SpansBounded'
<1>1. UNCHANGED tick /\ tick \in Ticks /\ k \in Ticks /\ k <= tick /\ Weighted(k) < RateLimit * WindowTicks
    BY DEF RateInv, RateTypes, GrantStep
<1>2. SpansBounded
    BY BoundIs DEF RateInv
<1>3. CASE granted' = granted
    BY <1>2, <1>3 DEF SpansBounded, GrantedIn
<1>4. CASE granted' # granted
    <2>1. granted' = [granted EXCEPT ![tick] = @ + 1] /\ k \div WindowTicks = tick \div WindowTicks
        BY <1>4 DEF GrantStep, Grant, TicksOf
    <2> SUFFICES ASSUME NEW i \in Ticks, NEW j \in Ticks, i <= j, j - i < WindowTicks
                 PROVE  WindowTicks * GrantedIn(i..j)' < WindowTicks * (RateLimit + 1) + RateLimit * (j - i)
        BY DEF SpansBounded, GrantedIn
    <2>2. i..j \in SUBSET Ticks /\ IsFiniteSet(i..j)
        BY TicksAreFinite
    <2>3. tick \in Nat /\ i \in Nat /\ j \in Nat /\ RateLimit \in Nat /\ WindowTicks \in Nat
        BY <1>1, RateAssumption DEF Ticks
    <2>4. CASE tick \notin i..j
        <3>1. GrantedIn(i..j)' = GrantedIn(i..j)
            BY <2>1, <2>2, <2>4, GrantCounts DEF RateInv, GrantedIn
        <3> QED BY <1>2, <3>1 DEF SpansBounded
    <2>5. CASE tick \in i..j
        <3>1. i <= tick /\ tick <= j /\ tick - i < WindowTicks
            BY <2>3, <2>5
        <3>2. i..tick \in SUBSET (i..j) /\ \A m \in (i..j) \ (i..tick) : granted[m] = 0
            BY <2>2, <2>3, <3>1 DEF RateInv, NothingAhead, Ticks
        <3>3. GrantedIn(i..j) = GrantedIn(i..tick)
            <4>1. \A m \in i..j : granted[m] \in Nat
                BY <2>2 DEF RateInv, RateTypes
            <4>2. SumFunctionOnSet(granted, i..j) = SumFunctionOnSet(granted, i..tick)
                BY <2>2, <3>2, <4>1, SumSubset
            <4> QED BY <4>2 DEF GrantedIn
        <3>4. /\ GrantedIn(i..tick) \in Nat
              /\ WindowTicks * (GrantedIn(i..tick) + 1)
                   < WindowTicks * (RateLimit + 1) + RateLimit * (tick - i)
            BY <1>1, <2>1, <3>1, GrantedBefore
        <3>5. RateLimit * (tick - i) <= RateLimit * (j - i)
            <4>1. RateLimit * (j - i) = RateLimit * (tick - i) + RateLimit * (j - tick)
                BY <2>3
            <4>2. RateLimit * (j - tick) >= 0
                BY <2>3, <3>1
            <4>3. RateLimit * (tick - i) \in Int /\ RateLimit * (j - tick) \in Int
                BY <2>3
            <4> QED BY <4>1, <4>2, <4>3
        <3>6. GrantedIn(i..j)' = GrantedIn(i..tick) + 1
            BY <2>1, <2>2, <2>5, <3>3, GrantCounts DEF RateInv, GrantedIn
        <3>7. PICK g \in Nat : g = GrantedIn(i..tick)
            BY <3>4
        <3>8. /\ WindowTicks * (g + 1) \in Int /\ WindowTicks * (RateLimit + 1) \in Int
              /\ RateLimit * (tick - i) \in Int /\ RateLimit * (j - i) \in Int
            BY <2>3
        <3>9. WindowTicks * (g + 1) < WindowTicks * (RateLimit + 1) + RateLimit * (tick - i)
            BY <3>4, <3>7
        <3> QED BY <3>5, <3>6, <3>7, <3>8, <3>9
    <2> QED BY <2>4, <2>5
<1> QED BY <1>3, <1>4

LEMMA GrantKeepsInv ==
    ASSUME RateInv, NEW k, GrantStep(k), StampsArePast'
    PROVE  RateInv'
<1>1. tick \in Ticks /\ k \in Ticks /\ UNCHANGED <<tick, wiped>>
    BY DEF RateInv, RateTypes, GrantStep
<1>2. Count(k \div WindowTicks) \in Nat /\ k \div WindowTicks \in Windows
    BY <1>1, WindowOf, CountIs DEF RateInv
<1>3. tick + 2 * WindowTicks \in Nat
    BY <1>1, RateAssumption DEF Ticks
<1>4. RateTypes'
    <2>1. counts' \in [Windows -> Nat] /\ expires' \in [Windows -> Nat]
        BY <1>2, <1>3 DEF RateInv, RateTypes, GrantStep, Grant
    <2>2. granted' \in [Ticks -> Nat] /\ late' \in [Windows -> Nat]
        <3>1. granted \in [Ticks -> Nat] /\ late \in [Windows -> Nat]
            BY DEF RateInv, RateTypes
        <3>2. granted[tick] + 1 \in Nat /\ late[k \div WindowTicks] + 1 \in Nat
            BY <1>1, <1>2, <3>1
        <3>3. /\ [granted EXCEPT ![tick] = @ + 1] \in [Ticks -> Nat]
              /\ [late EXCEPT ![k \div WindowTicks] = @ + 1] \in [Windows -> Nat]
            BY <3>1, <3>2
        <3>4. /\ granted' = granted \/ granted' = [granted EXCEPT ![tick] = @ + 1]
              /\ late' = late \/ late' = [late EXCEPT ![k \div WindowTicks] = @ + 1]
            BY DEF GrantStep, Grant
        <3> QED BY <3>1, <3>3, <3>4
    <2> QED BY <1>1, <2>1, <2>2 DEF RateInv, RateTypes
<1>5. NothingAhead'
    <2>1. \A m \in Ticks : m > tick => granted'[m] = granted[m]
        BY <1>1 DEF RateInv, RateTypes, GrantStep, Grant, Ticks
    <2> QED BY <1>1, <2>1 DEF RateInv, NothingAhead
<1>6. ~wiped' => CountersAreExact' /\ CountersInLimit' /\ CountersLast' /\ WindowsBounded' /\ SpansBounded'
    BY <1>1, GrantCounters, GrantSpans
<1>7. RateBounded'
    BY <1>6 DEF RateBounded, SpansBounded, WindowsBounded, GrantedIn
<1> QED BY <1>4, <1>5, <1>6, <1>7 DEF RateInv

-----------------------------------------------------------------------------
(* The steps of the requests. *)

\* A request that goes on keeps its stamp; one that ends has none.
LEMMA StampsStay ==
    ASSUME StampsArePast, tick' = tick, NEW q \in Request,
           \/ request' = request
           \/ \E s \in {"stamped", "connecting", "loading"} : ~At(q, "idle") /\ Goes(q, s)
           \/ Leaves(q)
    PROVE  StampsArePast'
<1>1. request \in [Request -> {Idle} \cup Stamped] /\ Idle.step = "idle"
    BY DEF StampsArePast, Idle
<1>2. CASE request' = request
    BY <1>2 DEF StampsArePast, At
<1>3. ASSUME NEW s \in {"stamped", "connecting", "loading"}, ~At(q, "idle"), Goes(q, s)
      PROVE  StampsArePast'
    <2>1. request[q] \in Stamped
        BY <1>1, <1>3 DEF At
    <2>2. PICK x : x = [request[q] EXCEPT !.step = s]
        OBVIOUS
    <2>3. x \in Stamped /\ x.stamp = request[q].stamp
        BY <2>1, <2>2 DEF Stamped
    <2>4. request' = [request EXCEPT ![q] = x]
        BY <1>3, <2>2 DEF Goes
    <2> QED BY <1>1, <1>3, <2>3, <2>4 DEF StampsArePast, At
<1>4. CASE Leaves(q)
    BY <1>1, <1>4 DEF Leaves, StampsArePast, At
<1> QED BY <1>2, <1>3, <1>4

\* The counters, the limit and the bound together are inductive.
THEOREM RateInvariance == RateSpec => []RateInv
<1>1. RateInv /\ [RateNext]_rateVars => RateInv'
    <2> SUFFICES ASSUME RateInv, [RateNext]_rateVars PROVE RateInv'
        OBVIOUS
    <2>1. /\ tick \in Ticks /\ tick \in Nat /\ wiped \in BOOLEAN /\ counts \in [Windows -> Nat]
          /\ StampsArePast /\ request \in [Request -> {Idle} \cup Stamped]
          /\ Idle.step = "idle"
        BY RateAssumption DEF RateInv, RateTypes, StampsArePast, Ticks, Idle
    <2>2. ASSUME UNCHANGED <<tick, wiped, counts, expires, granted, late>>, StampsArePast' PROVE RateInv'
        BY <2>1, <2>2, NothingGranted
    <2>3. CASE UNCHANGED rateVars
        BY <2>1, <2>2, <2>3 DEF rateVars, StampsArePast, At
    <2>4. ASSUME NEW q \in Request, StampRequest(q) PROVE RateInv'
        <3>1. PICK x : x = [step |-> "stamped", stamp |-> tick]
            OBVIOUS
        <3>2. x \in Stamped /\ x.stamp = tick
            BY <2>1, <3>1 DEF Stamped
        <3>3. request' = [request EXCEPT ![q] = x] /\ UNCHANGED <<tick, wiped, counts, expires, granted, late>>
            BY <2>4, <3>1 DEF StampRequest
        <3>4. StampsArePast'
            BY <2>1, <3>2, <3>3 DEF StampsArePast, At
        <3> QED BY <2>2, <3>3, <3>4
    <2>5. ASSUME NEW q \in Request, Connect(q) \/ MakeClient(q) \/ LoadScript(q) PROVE RateInv'
        <3>1. UNCHANGED <<tick, wiped, counts, expires, granted, late>>
            BY <2>5 DEF Connect, MakeClient, LoadScript
        <3>2. \/ \E s \in {"stamped", "connecting", "loading"} : ~At(q, "idle") /\ Goes(q, s)
              \/ Leaves(q)
            BY <2>5 DEF Connect, MakeClient, LoadScript, At
        <3>3. StampsArePast'
            BY <2>1, <3>1, <3>2, StampsStay
        <3> QED BY <2>2, <3>1, <3>3
    <2>6. ASSUME NEW q \in Request, CheckRateLimit(q) PROVE RateInv'
        <3>1. At(q, "stamped") /\ Leaves(q) /\ UNCHANGED <<tick, wiped>>
            BY <2>6 DEF CheckRateLimit
        <3>2. StampsArePast'
            BY <2>1, <3>1, StampsStay
        <3>3. CASE UNCHANGED <<counts, expires, granted, late>>
            BY <2>2, <3>1, <3>2, <3>3
        <3>4. CASE ~UNCHANGED <<counts, expires, granted, late>>
            <4>1. PICK k : k = request[q].stamp
                OBVIOUS
            <4>2. k \in Ticks /\ k <= tick
                BY <2>1, <3>1, <4>1 DEF StampsArePast, Stamped, At
            <4>3. RunScript(k)
                BY <2>6, <3>4, <4>1 DEF CheckRateLimit
            <4>4. Weighted(k) \in Nat /\ RateLimit * WindowTicks \in Nat
                BY <4>2, WeightedIs, RateAssumption DEF RateInv
            <4>5. GrantStep(k)
                BY <3>1, <3>4, <4>2, <4>3, <4>4 DEF RunScript, GrantStep
            <4> QED BY <3>2, <4>5, GrantKeepsInv
        <3> QED BY <3>3, <3>4
    <2>7. ASSUME NEW p \in Worker, RestartWorker(p) PROVE RateInv'
        <3>1. UNCHANGED <<tick, wiped, counts, expires, granted, late>>
            BY <2>7 DEF RestartWorker
        <3>2. request' = [q \in Request |-> IF process[q] = p THEN Idle ELSE request[q]]
            BY <2>7 DEF RestartWorker
        <3>3. StampsArePast'
            BY <2>1, <3>1, <3>2 DEF StampsArePast, At
        <3> QED BY <2>2, <3>1, <3>3
    <2>8. CASE Tick
        <3>1. tick' \in Ticks /\ tick' >= tick /\ tick' = tick + 1
            BY <2>1, <2>8, RateAssumption DEF Tick, Ticks
        <3>2. request' = request
            BY <2>8 DEF Tick
        <3>3. StampsArePast'
            <4>1. \A q \in Request : ~At(q, "idle") => request[q].stamp \in Nat
                BY <2>1, RateAssumption DEF StampsArePast, Stamped, At, Ticks
            <4> QED BY <2>1, <3>1, <3>2, <4>1 DEF StampsArePast, At
        <3> QED BY <2>1, <2>8, <3>1, <3>3, NothingGranted DEF Tick
    <2>9. CASE RedisStops
        <3>1. UNCHANGED <<tick, request, wiped, counts, expires, granted, late>>
            BY <2>9 DEF RedisStops
        <3> QED BY <2>1, <2>2, <3>1 DEF StampsArePast, At
    <2>10. CASE RedisAnswers
        <3>1. UNCHANGED <<tick, request, expires, granted, late>>
            BY <2>10 DEF RedisAnswers
        <3>2. StampsArePast'
            BY <2>1, <3>1 DEF StampsArePast, At
        <3>3. CASE UNCHANGED <<counts, wiped>>
            BY <2>2, <3>1, <3>2, <3>3
        <3>4. CASE counts' = [w \in Windows |-> 0] /\ wiped' = TRUE
            <4>1. counts' \in [Windows -> Nat]
                BY <3>4
            <4> QED BY <2>1, <3>1, <3>2, <3>4, <4>1, NothingGranted
        <3> QED BY <2>10, <3>3, <3>4 DEF RedisAnswers
    <2> QED BY <2>3, <2>4, <2>5, <2>6, <2>7, <2>8, <2>9, <2>10 DEF RateNext
<1> QED BY <1>1, RateInitial, PTL DEF RateSpec

\* RateBounded: for any number of processes and requests in flight, limit and
\* length of the window: in any span shorter than a window no more than the limit
\* and its share of the span is granted to requests whose script runs in the
\* window they were stamped in, and no more than the limit in a window and the
\* next one to those stamped in it, through slow requests, outages, restarts and
\* reloads of the script, unless Redis lost counters (SLIDING_WINDOW_SCRIPT,
\* check_rate_limit).
THEOREM SpanIsBounded == RateSpec => []RateBounded
BY RateInvariance, PTL DEF RateInv

-----------------------------------------------------------------------------
(***************************************************************************)
(* ChunkCache.  Between two uses of a chunk the tracker keeps its order, so *)
(* no chunk is tracked twice.  As long as clear() was never called, what is *)
(* tracked is what is cached, with one chunk at most left out: then the     *)
(* eviction ends only within the limits or with that one chunk left.       *)
(***************************************************************************)

CacheTypes ==
    /\ size \in [Shard -> Nat] /\ IsFiniteSet(CachedIn(size))
    /\ order \in Seq(Shard)
    /\ \A p \in Thread : pinning[p] \in Shard \cup {NoShard}
    /\ \A c \in Shard : <<c, c>> \notin usedBefore

CacheInv == CacheTypes /\ CacheWithinLimits /\ EvictionOrderIsUse

(* The tracker q lists its chunks in the order of their use. *)
UsedInOrder(q, used) == \A i, j \in 1..Len(q) : i < j => <<q[i], q[j]>> \in used

(* All that is cached is tracked, with one exception at most. *)
AllButOne(q, cached) == \E ghost \in Shard \cup {NoShard} : ToSet(q) = cached \ {ghost}

LEMMA OrderIs == EvictionOrderIsUse <=> (~cleared => AllButOne(order, CachedIn(size)) /\ UsedInOrder(order, usedBefore))
BY Zenon DEF EvictionOrderIsUse, AllButOne, UsedInOrder

LEMMA TrackedIs == ASSUME NEW q \in Seq(Shard) PROVE ToSet(q) = {q[i] : i \in 1..Len(q)} /\ ToSet(q) \subseteq Shard
BY DEF ToSet

\* A tracker in order has no chunk twice: it is as long as the set of its chunks.
LEMMA NoneTwice ==
    ASSUME NEW q \in Seq(Shard), NEW used, UsedInOrder(q, used), \A c \in Shard : <<c, c>> \notin used
    PROVE  /\ \A i, j \in 1..Len(q) : q[i] = q[j] => i = j
           /\ IsFiniteSet(ToSet(q)) /\ Cardinality(ToSet(q)) = Len(q)
<1>1. \A i, j \in 1..Len(q) : i < j => q[i] # q[j]
    <2> SUFFICES ASSUME NEW i \in 1..Len(q), NEW j \in 1..Len(q), i < j, q[i] = q[j] PROVE FALSE
        OBVIOUS
    <2>1. <<q[i], q[i]>> \in used
        BY Zenon DEF UsedInOrder
    <2>2. q[i] \in Shard
        OBVIOUS
    <2> QED BY <2>1, <2>2
<1>2. \A i, j \in 1..Len(q) : q[i] = q[j] => i = j
    <2> SUFFICES ASSUME NEW i \in 1..Len(q), NEW j \in 1..Len(q), q[i] = q[j], i # j PROVE FALSE
        OBVIOUS
    <2>1. i < j \/ j < i
        OBVIOUS
    <2> QED BY <1>1, <2>1
<1>3. Len(q) \in Nat /\ IsFiniteSet(1..Len(q)) /\ Cardinality(1..Len(q)) = Len(q)
    <2>1. Len(q) \in Nat
        OBVIOUS
    <2>2. IsFiniteSet(1..Len(q)) /\ Cardinality(1..Len(q)) = IF 1 > Len(q) THEN 0 ELSE Len(q) - 1 + 1
        BY <2>1, FS_Interval
    <2> QED BY <2>1, <2>2
<1>4. PICK f : f = [i \in 1..Len(q) |-> q[i]]
    OBVIOUS
<1>5. ExistsBijection(1..Len(q), ToSet(q))
    <2>1. f \in Injection(1..Len(q), ToSet(q))
        <3>1. f \in [1..Len(q) -> ToSet(q)]
            BY <1>4, TrackedIs
        <3>2. \A i, j \in 1..Len(q) : f[i] = f[j] => i = j
            BY <1>2, <1>4
        <3> QED BY <3>1, <3>2 DEF Injection, IsInjective
    <2>2. f \in Surjection(1..Len(q), ToSet(q))
        BY <1>4, TrackedIs DEF Surjection
    <2> QED BY <2>1, <2>2 DEF ExistsBijection, Bijection
<1>6. IsFiniteSet(ToSet(q)) /\ Cardinality(ToSet(q)) = Cardinality(1..Len(q))
    BY <1>3, <1>5, FS_Bijection
<1> QED BY <1>2, <1>3, <1>6

-----------------------------------------------------------------------------
(* Bytes. *)

LEMMA BytesOver ==
    ASSUME NEW sizes \in [Shard -> Nat], NEW S \in SUBSET Shard, IsFiniteSet(S), CachedIn(sizes) \subseteq S
    PROVE  IsFiniteSet(CachedIn(sizes)) /\ Bytes(sizes) = SumFunctionOnSet(sizes, S) /\ Bytes(sizes) \in Nat
<1>1. IsFiniteSet(CachedIn(sizes)) /\ \A c \in S : sizes[c] \in Nat
    BY FS_Subset
<1>2. CachedIn(sizes) \in SUBSET S /\ \A c \in S \ CachedIn(sizes) : sizes[c] = 0
    BY DEF CachedIn
<1>3. SumFunctionOnSet(sizes, S) = SumFunctionOnSet(sizes, CachedIn(sizes))
    BY <1>1, <1>2, SumSubset
<1>4. SumFunctionOnSet(sizes, S) \in Nat
    BY <1>1, SumType
<1> QED BY <1>1, <1>3, <1>4 DEF Bytes

\* One chunk gets another size, which may be 0.
LEMMA BytesOfOne ==
    ASSUME NEW sizes \in [Shard -> Nat], IsFiniteSet(CachedIn(sizes)), NEW c \in Shard,
           NEW new \in [Shard -> Nat], \A d \in Shard \ {c} : new[d] = sizes[d]
    PROVE  /\ IsFiniteSet(CachedIn(new))
           /\ \E rest \in Nat : Bytes(sizes) = sizes[c] + rest /\ Bytes(new) = new[c] + rest
<1>1. PICK S : S = CachedIn(sizes) \cup {c}
    OBVIOUS
<1>2. PICK R : R = S \ {c}
    OBVIOUS
<1>3. /\ IsFiniteSet(S) /\ IsFiniteSet(R) /\ S \in SUBSET Shard /\ c \in S
      /\ CachedIn(new) \subseteq S /\ CachedIn(sizes) \subseteq S
    BY <1>1, <1>2, FS_AddElement, FS_Subset DEF CachedIn
<1>4. /\ Bytes(sizes) = SumFunctionOnSet(sizes, S) /\ Bytes(new) = SumFunctionOnSet(new, S)
      /\ IsFiniteSet(CachedIn(new))
    BY <1>3, BytesOver
<1>5. \A d \in S : sizes[d] \in Nat /\ new[d] \in Nat
    BY <1>3
<1>6. \A d \in R : d \in S /\ sizes[d] = new[d]
    BY <1>2, <1>3
<1>7. SumFunctionOnSet(sizes, R) = SumFunctionOnSet(new, R) /\ SumFunctionOnSet(sizes, R) \in Nat
    BY <1>3, <1>5, <1>6, SumSame, SumType
<1>8. /\ SumFunctionOnSet(sizes, S) = sizes[c] + SumFunctionOnSet(sizes, R)
      /\ SumFunctionOnSet(new, S) = new[c] + SumFunctionOnSet(new, R)
    BY <1>2, <1>3, <1>5, SumElement
<1> QED BY <1>4, <1>7, <1>8

-----------------------------------------------------------------------------
(* The tracker and a use of a chunk. *)

LEMMA TouchedType ==
    ASSUME NEW c \in Shard, order \in Seq(Shard)
    PROVE  Tracked(c) \in Seq(Shard)
<1>1. RemoveFirst(order, c) \in Seq(Shard)
    BY RemoveFirstIs
<1> DEFINE q == Append(RemoveFirst(order, c), c)
<1>2. q \in Seq(Shard) /\ q # <<>>
    BY <1>1
<1>3. Tracked(c) = IF Len(q) > CacheLimit THEN Tail(q) ELSE q
    BY DEF Tracked
<1> HIDE DEF q
<1> QED BY <1>2, <1>3

\* What remains of an ordered tracker without c, and c behind it.
LEMMA AppendedInOrder ==
    ASSUME CacheTypes, NEW c \in Shard, UsedInOrder(order, usedBefore)
    PROVE  LET r == RemoveFirst(order, c)
               q == Append(r, c)
           IN  /\ r \in Seq(Shard) /\ ToSet(r) = ToSet(order) \ {c}
               /\ Len(r) = IF c \in ToSet(order) THEN Len(order) - 1 ELSE Len(order)
               /\ UsedInOrder(q, NowUsed(c))
<1> DEFINE r == RemoveFirst(order, c)
           q == Append(r, c)
<1>1. order \in Seq(Shard) /\ \A i, j \in 1..Len(order) : order[i] = order[j] => i = j
    BY NoneTwice DEF CacheTypes
<1>2. r \in Seq(Shard) /\ ToSet(r) = ToSet(order) \ {c} /\ UsedInOrder(r, usedBefore)
      /\ Len(r) = IF c \in ToSet(order) THEN Len(order) - 1 ELSE Len(order)
    <2>1. CASE r = order /\ \A i \in 1..Len(order) : order[i] # c
        BY <1>1, <2>1, TrackedIs
    <2>2. CASE \E k \in 1..Len(order) :
                 /\ order[k] = c /\ r \in Seq(Shard) /\ Len(r) = Len(order) - 1
                 /\ \A i \in 1..(Len(order) - 1) : r[i] = IF i < k THEN order[i] ELSE order[i + 1]
        <3>1. PICK k \in 1..Len(order) :
                 /\ order[k] = c /\ r \in Seq(Shard) /\ Len(r) = Len(order) - 1
                 /\ \A i \in 1..(Len(order) - 1) : r[i] = IF i < k THEN order[i] ELSE order[i + 1]
            BY <2>2
        <3>2. PICK x : x = r
            OBVIOUS
        <3> HIDE DEF r
        <3>3. c \in ToSet(order)
            BY <1>1, <3>1, TrackedIs
        <3>4. \A i \in 1..Len(x) : /\ i \in 1..(Len(order) - 1) /\ i \in 1..Len(order) /\ i + 1 \in 1..Len(order)
                                   /\ (i < k /\ x[i] = order[i]) \/ (i >= k /\ x[i] = order[i + 1])
            BY <1>1, <3>1, <3>2
        <3>5. ToSet(x) = ToSet(order) \ {c}
            <4>1. \A i \in 1..Len(x) : x[i] \in ToSet(order) \ {c}
                BY <1>1, <3>1, <3>4, TrackedIs
            <4>2. \A i \in 1..Len(order) : order[i] # c => \E j \in 1..Len(x) : x[j] = order[i]
                <5> SUFFICES ASSUME NEW i \in 1..Len(order), order[i] # c PROVE \E j \in 1..Len(x) : x[j] = order[i]
                    OBVIOUS
                <5>1. CASE i < k
                    <6>1. i \in 1..Len(x)
                        BY <1>1, <3>1, <3>2, <5>1
                    <6> QED BY <3>4, <5>1, <6>1
                <5>2. CASE i > k
                    <6>1. i - 1 \in 1..Len(x) /\ ~(i - 1 < k) /\ (i - 1) + 1 = i
                        BY <1>1, <3>1, <3>2, <5>2
                    <6> QED BY <3>4, <6>1
                <5> QED BY <3>1, <5>1, <5>2
            <4>3. ToSet(x) = {x[i] : i \in 1..Len(x)} /\ ToSet(order) = {order[i] : i \in 1..Len(order)}
                BY <1>1, <3>1, <3>2, TrackedIs
            <4> QED BY <4>1, <4>2, <4>3
        <3>6. UsedInOrder(x, usedBefore)
            <4> SUFFICES ASSUME NEW i \in 1..Len(x), NEW j \in 1..Len(x), i < j
                         PROVE  <<x[i], x[j]>> \in usedBefore
                BY DEF UsedInOrder
            <4>1. PICK a \in {i, i + 1} : a \in 1..Len(order) /\ x[i] = order[a] /\ (a = i + 1 => i >= k)
                BY <3>4
            <4>2. PICK b \in {j, j + 1} : b \in 1..Len(order) /\ x[j] = order[b] /\ (b = j => j < k)
                BY <3>4
            <4>3. a < b
                BY <4>1, <4>2, <3>1
            <4> QED BY <4>1, <4>2, <4>3 DEF UsedInOrder
        <3> QED BY <3>1, <3>2, <3>3, <3>5, <3>6
    <2> QED BY <1>1, <2>1, <2>2, RemoveFirstIs
<1>3. UsedInOrder(q, NowUsed(c))
    <2>1. PICK x : x = r
        OBVIOUS
    <2> HIDE DEF r
    <2>2. x \in Seq(Shard) /\ Len(q) = Len(x) + 1 /\ q[Len(q)] = c /\ \A i \in 1..Len(x) : q[i] = x[i]
        BY <1>2, <2>1
    <2>3. \A i \in 1..Len(x) : x[i] \in Shard \ {c}
        BY <1>2, <2>1, TrackedIs
    <2> SUFFICES ASSUME NEW i \in 1..Len(q), NEW j \in 1..Len(q), i < j
                 PROVE  <<q[i], q[j]>> \in NowUsed(c)
        BY DEF UsedInOrder
    <2>4. i \in 1..Len(x) /\ q[i] \in Shard \ {c}
        BY <2>2, <2>3
    <2>5. CASE j = Len(q)
        BY <2>2, <2>4, <2>5 DEF NowUsed
    <2>6. CASE j # Len(q)
        <3>1. j \in 1..Len(x)
            BY <2>2, <2>6
        <3>2. <<x[i], x[j]>> \in usedBefore
            BY <1>2, <2>1, <2>4, <3>1 DEF UsedInOrder
        <3>3. <<q[i], q[j]>> \in usedBefore
            BY <2>2, <2>4, <3>1, <3>2
        <3> QED BY <2>4, <3>3 DEF NowUsed
    <2> QED BY <2>5, <2>6
<1> HIDE DEF r
<1> QED BY <1>2, <1>3 DEF r

\* A use of c when the limits hold and all but one of the chunks are tracked: then
\* all but one of them and c are.  Only a full tracker forgets one, its oldest, and
\* then it tracked all the chunks there were.
LEMMA TouchedInOrder ==
    ASSUME CacheTypes, NEW c \in Shard, UsedInOrder(order, usedBefore),
           AllButOne(order, CachedIn(size)), Cardinality(CachedIn(size)) <= CacheLimit
    PROVE  /\ UsedInOrder(Tracked(c), NowUsed(c)) /\ c \in ToSet(Tracked(c))
           /\ AllButOne(Tracked(c), CachedIn(size) \cup {c})
<1> DEFINE r == RemoveFirst(order, c)
           q == Append(r, c)
<1>1. /\ r \in Seq(Shard) /\ ToSet(r) = ToSet(order) \ {c} /\ UsedInOrder(q, NowUsed(c))
      /\ Len(r) = IF c \in ToSet(order) THEN Len(order) - 1 ELSE Len(order)
    BY AppendedInOrder
<1>2. PICK ghost \in Shard \cup {NoShard} : ToSet(order) = CachedIn(size) \ {ghost}
    BY DEF AllButOne
<1>3. /\ order \in Seq(Shard) /\ IsFiniteSet(CachedIn(size)) /\ Cardinality(ToSet(order)) = Len(order)
      /\ CacheLimit \in Nat \ {0} /\ NoShard \notin Shard /\ CachedIn(size) \subseteq Shard
      /\ Cardinality(CachedIn(size)) \in Nat
    BY NoneTwice, CacheAssumption, FS_CardinalityType DEF CacheTypes, CachedIn
<1>4. /\ Cardinality(ToSet(order)) <= Cardinality(CachedIn(size))
      /\ Cardinality(ToSet(order)) = Cardinality(CachedIn(size)) => ToSet(order) = CachedIn(size)
    <2>1. ToSet(order) \in SUBSET CachedIn(size)
        BY <1>2
    <2> QED BY <1>3, <2>1, FS_Subset
<1>5. q \in Seq(Shard) /\ Len(q) = Len(r) + 1 /\ q[Len(q)] = c /\ \A i \in 1..Len(r) : q[i] = r[i]
    BY <1>1
<1>6. PICK x : x = r
    OBVIOUS
<1>7. PICK y : y = q
    OBVIOUS
<1>8. Tracked(c) = IF Len(y) > CacheLimit THEN Tail(y) ELSE y
    BY <1>7 DEF Tracked
<1> HIDE DEF r, q
<1>9. ToSet(y) = ToSet(x) \cup {c}
    <2>1. ToSet(y) = {y[i] : i \in 1..Len(y)} /\ ToSet(x) = {x[i] : i \in 1..Len(x)}
        BY <1>1, <1>5, <1>6, <1>7, TrackedIs
    <2>2. \A i \in 1..Len(y) : i \in 1..Len(x) \/ i = Len(y)
        BY <1>1, <1>5, <1>6, <1>7
    <2>3. 1..Len(x) \subseteq 1..Len(y) /\ Len(y) \in 1..Len(y)
        BY <1>1, <1>5, <1>6, <1>7
    <2> QED BY <1>5, <1>6, <1>7, <2>1, <2>2, <2>3
<1>10. CASE Len(y) <= CacheLimit
    <2>1. Tracked(c) = y
        BY <1>5, <1>7, <1>8, <1>3, <1>10
    <2>2. ToSet(y) = (ToSet(order) \ {c}) \cup {c}
        BY <1>1, <1>6, <1>9
    <2>3. AllButOne(y, CachedIn(size) \cup {c})
        <3>1. CASE ghost = c
            BY <1>2, <1>3, <2>2, <3>1 DEF AllButOne
        <3>2. CASE ghost # c
            BY <1>2, <2>2, <3>2 DEF AllButOne
        <3> QED BY <3>1, <3>2
    <2> QED BY <1>1, <1>7, <2>1, <2>2, <2>3
<1>11. CASE Len(y) > CacheLimit
    <2>1. c \notin ToSet(order) /\ Len(order) = CacheLimit /\ ToSet(order) = CachedIn(size)
        BY <1>1, <1>3, <1>4, <1>5, <1>6, <1>7, <1>11
    <2>2. Tracked(c) = Tail(y) /\ y \in Seq(Shard) /\ Len(y) > 1 /\ UsedInOrder(y, NowUsed(c)) /\ y[Len(y)] = c
        BY <1>1, <1>3, <1>5, <1>7, <1>8, <1>11
    <2>3. PICK z : z = Tail(y)
        OBVIOUS
    <2>4. z \in Seq(Shard) /\ Len(z) = Len(y) - 1 /\ \A i \in 1..Len(z) : z[i] = y[i + 1]
        BY <2>2, <2>3
    <2>5. UsedInOrder(z, NowUsed(c))
        <3> SUFFICES ASSUME NEW i \in 1..Len(z), NEW j \in 1..Len(z), i < j
                     PROVE  <<z[i], z[j]>> \in NowUsed(c)
            BY DEF UsedInOrder
        <3>1. i + 1 \in 1..Len(y) /\ j + 1 \in 1..Len(y) /\ i + 1 < j + 1
            BY <2>2, <2>4
        <3>2. <<y[i + 1], y[j + 1]>> \in NowUsed(c)
            BY <2>2, <3>1 DEF UsedInOrder
        <3> QED BY <2>4, <3>2
    <2>6. c \in ToSet(z)
        <3>1. Len(y) - 1 \in 1..Len(z) /\ z[Len(y) - 1] = c
            BY <2>2, <2>4
        <3> QED BY <2>4, <3>1, TrackedIs
    <2>7. ToSet(z) = ToSet(y) \ {y[1]} /\ y[1] \in Shard
        <3>1. ToSet(y) = {y[i] : i \in 1..Len(y)} /\ ToSet(z) = {z[i] : i \in 1..Len(z)}
            BY <2>2, <2>4, TrackedIs
        <3>2. \A i \in 1..Len(z) : i + 1 \in 1..Len(y) /\ y[i + 1] # y[1]
            <4> SUFFICES ASSUME NEW i \in 1..Len(z) PROVE i + 1 \in 1..Len(y) /\ y[i + 1] # y[1]
                OBVIOUS
            <4>1. i + 1 \in 1..Len(y) /\ 1 \in 1..Len(y) /\ i + 1 # 1
                BY <2>2, <2>4
            <4>2. \A d \in Shard : <<d, d>> \notin NowUsed(c)
                BY DEF CacheTypes, NowUsed
            <4>3. \A j, k \in 1..Len(y) : y[j] = y[k] => j = k
                BY <2>2, <4>2, NoneTwice
            <4> QED BY <4>1, <4>3
        <3>3. \A i \in 1..Len(y) : i # 1 => i - 1 \in 1..Len(z) /\ z[i - 1] = y[i]
            BY <2>2, <2>4
        <3>4. y[1] \in Shard
            BY <2>2
        <3> QED BY <2>4, <3>1, <3>2, <3>3, <3>4
    <2>8. ToSet(z) = (CachedIn(size) \cup {c}) \ {y[1]}
        BY <1>1, <1>6, <1>9, <2>1, <2>7
    <2>9. AllButOne(z, CachedIn(size) \cup {c})
        BY <2>7, <2>8 DEF AllButOne
    <2> QED BY <2>2, <2>3, <2>5, <2>6, <2>9
<1>12. Len(y) \in Nat
    BY <1>5, <1>7
<1> QED BY <1>3, <1>10, <1>11, <1>12

-----------------------------------------------------------------------------
(* The eviction. *)

InLimits(sizes) == Cardinality(CachedIn(sizes)) <= CacheLimit /\ Bytes(sizes) <= ByteLimit

\* _enforce_limits stops: within the limits, with nothing left to evict, or at a
\* chunk that is not cached.
LEMMA VictimsEnd ==
    ASSUME NEW sizes, NEW q \in Seq(Shard)
    PROVE  /\ Victims(sizes, q) \in 0..Len(q)
           /\ \/ InLimits(Without(sizes, q, Victims(sizes, q)))
              \/ Victims(sizes, q) = Len(q)
              \/ q[Victims(sizes, q) + 1] \notin CachedIn(sizes)
<1> DEFINE Ends(n) == \/ InLimits(Without(sizes, q, n))
                      \/ n = Len(q)
                      \/ q[n + 1] \notin CachedIn(sizes)
           T == {n \in 0..Len(q) : Ends(n)}
<1>1. T \in SUBSET Nat /\ T # {}
    <2>1. Len(q) \in 0..Len(q) /\ Ends(Len(q))
        OBVIOUS
    <2> HIDE DEF Ends
    <2> QED BY <2>1
<1>2. \E n \in 0..Len(q) : Ends(n) /\ \A m \in 0..(n - 1) : ~Ends(m)
    <2> HIDE DEF Ends
    <2>1. PICK n \in T : \A m \in T : n <= m
        <3> HIDE DEF T
        <3> QED BY <1>1, LeastNumber
    <2>2. n \in 0..Len(q) /\ Ends(n)
        OBVIOUS
    <2>3. ASSUME NEW m \in 0..(n - 1) PROVE ~Ends(m)
        <3>1. m \in 0..Len(q) /\ ~(n <= m)
            BY <2>2
        <3> QED BY <2>1, <3>1
    <2> QED BY <2>2, <2>3
<1>3. Victims(sizes, q) = CHOOSE n \in 0..Len(q) : Ends(n) /\ \A m \in 0..(n - 1) : ~Ends(m)
    BY Zenon DEF Victims, InLimits
<1> HIDE DEF Ends
<1>4. Victims(sizes, q) \in 0..Len(q) /\ Ends(Victims(sizes, q))
    BY <1>2, <1>3
<1> QED BY <1>4 DEF Ends

\* The sizes, the tracker and the limits after a put.
LEMMA EvictedFits ==
    ASSUME NEW sizes \in [Shard -> Nat], IsFiniteSet(CachedIn(sizes)), NEW q \in Seq(Shard),
           NEW n \in 0..Len(q)
    PROVE  /\ Without(sizes, q, n) \in [Shard -> Nat]
           /\ CachedIn(Without(sizes, q, n)) = CachedIn(sizes) \ {q[i] : i \in 1..n}
           /\ IsFiniteSet(CachedIn(Without(sizes, q, n)))
           /\ SubSeq(q, n + 1, Len(q)) \in Seq(Shard)
<1>1. Without(sizes, q, n) \in [Shard -> Nat]
    BY DEF Without
<1>2. CachedIn(Without(sizes, q, n)) = CachedIn(sizes) \ {q[i] : i \in 1..n}
    BY DEF CachedIn, Without
<1> QED BY <1>1, <1>2, FS_Subset

\* When all chunks but one are tracked, the eviction ends within the limits: if
\* everything tracked had to go, the chunk that is left was there before the put.
LEMMA EvictionReachesLimits ==
    ASSUME CacheTypes, CacheWithinLimits, ~cleared, NEW c \in Shard, NEW k \in Nat,
           NEW sizes, sizes = [size EXCEPT ![c] = k],
           NEW q \in Seq(Shard), c \in ToSet(q), AllButOne(q, CachedIn(sizes)),
           NEW new, new = Without(sizes, q, Victims(sizes, q))
    PROVE  InLimits(new)
<1>1. PICK n \in 0..Len(q) : n = Victims(sizes, q)
    BY VictimsEnd
<1>2. sizes \in [Shard -> Nat] /\ IsFiniteSet(CachedIn(sizes))
    BY BytesOfOne DEF CacheTypes
<1>3. InLimits(new) \/ n = Len(q) \/ q[n + 1] \notin CachedIn(sizes)
    BY <1>1, VictimsEnd
<1>4. PICK ghost \in Shard \cup {NoShard} : ToSet(q) = CachedIn(sizes) \ {ghost}
    BY DEF AllButOne
<1>5. CASE n # Len(q) /\ q[n + 1] \notin CachedIn(sizes)
    <2>1. n + 1 \in 1..Len(q)
        BY <1>5
    <2>2. q[n + 1] \in ToSet(q)
        BY <2>1, TrackedIs
    <2> QED BY <1>4, <1>5, <2>2
<1>6. CASE n = Len(q)
    <2>1. new \in [Shard -> Nat] /\ CachedIn(new) = CachedIn(sizes) \ ToSet(q) /\ IsFiniteSet(CachedIn(new))
        <3>1. /\ new \in [Shard -> Nat] /\ IsFiniteSet(CachedIn(new))
              /\ CachedIn(new) = CachedIn(sizes) \ {q[i] : i \in 1..n}
            BY <1>1, <1>2, EvictedFits
        <3>2. {q[i] : i \in 1..n} = ToSet(q)
            BY <1>6, TrackedIs
        <3> QED BY <3>1, <3>2
    <2>2. CachedIn(new) \subseteq {ghost}
        BY <1>4, <2>1
    <2>3. Cardinality(CachedIn(new)) <= CacheLimit
        <3>1. IsFiniteSet({ghost}) /\ Cardinality({ghost}) = 1
            BY FS_Singleton
        <3>2. Cardinality(CachedIn(new)) <= 1 /\ Cardinality(CachedIn(new)) \in Nat
            BY <2>1, <2>2, <3>1, FS_Subset, FS_CardinalityType
        <3> QED BY <3>2, CacheAssumption
    <2>4. Bytes(new) <= ByteLimit
        <3>1. CASE ghost \in CachedIn(new)
            <4>1. ghost \in Shard /\ ghost # c /\ ghost \notin ToSet(q)
                BY <1>4, <2>1, <3>1 DEF CachedIn
            <4>2. new[ghost] = size[ghost]
                <5>1. new[ghost] = sizes[ghost]
                    BY <1>1, <1>6, <4>1, TrackedIs DEF Without
                <5> QED BY <4>1, <5>1 DEF CacheTypes
            <4>3. Bytes(new) = new[ghost]
                <5>1. PICK e : e = [new EXCEPT ![ghost] = 0]
                    OBVIOUS
                <5>2. e \in [Shard -> Nat] /\ e[ghost] = 0 /\ \A d \in Shard \ {ghost} : e[d] = new[d]
                    BY <2>1, <4>1, <5>1
                <5>3. PICK rest \in Nat : Bytes(new) = new[ghost] + rest /\ Bytes(e) = e[ghost] + rest
                    BY <2>1, <4>1, <5>2, BytesOfOne
                <5>4. Bytes(e) = 0
                    <6>1. ASSUME NEW d \in Shard PROVE ~(e[d] > 0)
                        <7>1. CASE d = ghost
                            BY <5>2, <7>1
                        <7>2. CASE d # ghost
                            <8>1. ~(new[d] > 0) /\ e[d] = new[d]
                                BY <2>2, <5>2, <7>2 DEF CachedIn
                            <8> QED BY <8>1
                        <7> QED BY <7>1, <7>2
                    <6>2. CachedIn(e) = {}
                        BY <6>1 DEF CachedIn
                    <6> QED BY <6>2, SumEmpty DEF Bytes
                <5>5. new[ghost] \in Nat
                    BY <2>1, <4>1
                <5> QED BY <5>2, <5>3, <5>4, <5>5
            <4>4. PICK rest \in Nat : Bytes(size) = size[ghost] + rest
                BY <4>1, BytesOfOne DEF CacheTypes
            <4>5. size[ghost] \in Nat /\ total = Bytes(size) /\ total <= ByteLimit /\ ByteLimit \in Nat
                BY <4>1, CacheAssumption DEF CacheTypes, CacheWithinLimits
            <4> QED BY <4>2, <4>3, <4>4, <4>5
        <3>2. CASE ghost \notin CachedIn(new)
            <4>1. CachedIn(new) = {}
                BY <2>2, <3>2
            <4>2. Bytes(new) = 0
                BY <4>1, SumEmpty DEF Bytes
            <4> QED BY <4>2, CacheAssumption
        <3> QED BY <3>1, <3>2
    <2> QED BY <2>3, <2>4 DEF InLimits
<1> QED BY <1>3, <1>5, <1>6


-----------------------------------------------------------------------------
(* The calls of the store. *)

LEMMA CacheInitial == CacheInit => CacheInv
<1> SUFFICES ASSUME CacheInit PROVE CacheInv
    OBVIOUS
<1>1. CachedIn(size) = {} /\ size \in [Shard -> Nat] /\ order = <<>> /\ usedBefore = {}
    BY DEF CacheInit, CachedIn
<1>2. CacheTypes
    <2>1. IsFiniteSet(CachedIn(size)) /\ order \in Seq(Shard)
        BY <1>1, FS_EmptySet
    <2>2. \A p \in Thread : pinning[p] \in Shard \cup {NoShard}
        BY DEF CacheInit
    <2> QED BY <1>1, <2>1, <2>2 DEF CacheTypes
<1>3. Bytes(size) = 0 /\ Cardinality(CachedIn(size)) = 0
    BY <1>1, SumEmpty, FS_EmptySet DEF Bytes
<1>4. CacheWithinLimits
    BY <1>1, <1>3, CacheAssumption DEF CacheInit, CacheWithinLimits
<1>5. EvictionOrderIsUse
    <2>1. ToSet(order) = CachedIn(size) \ {NoShard}
        BY <1>1 DEF ToSet
    <2>2. Len(order) = 0
        BY <1>1
    <2> QED BY <2>1, <2>2 DEF EvictionOrderIsUse
<1> QED BY <1>2, <1>4, <1>5 DEF CacheInv

\* A thread's look into the store changes nothing in it.
LEMMA PinningKeepsInv ==
    ASSUME CacheInv, UNCHANGED <<size, total, order, bloomed, usedBefore, cleared>>,
           \A p \in Thread : pinning'[p] \in Shard \cup {NoShard}
    PROVE  CacheInv'
<1>1. CacheTypes'
    BY DEF CacheInv, CacheTypes
<1>2. CacheWithinLimits'
    BY DEF CacheInv, CacheWithinLimits
<1>3. EvictionOrderIsUse'
    BY Zenon DEF CacheInv, EvictionOrderIsUse
<1> QED BY <1>1, <1>2, <1>3 DEF CacheInv

LEMMA PutKeepsInv ==
    ASSUME CacheInv, NEW c \in Shard, NEW k \in Sizes, CachePut(c, k),
           \A p \in Thread : pinning'[p] \in Shard \cup {NoShard}
    PROVE  CacheInv'
<1>1. PICK sizes : sizes = [size EXCEPT ![c] = k]
    OBVIOUS
<1>2. PICK q : q = Tracked(c)
    OBVIOUS
<1>3. PICK n : n = Victims(sizes, q)
    OBVIOUS
<1>4. PICK new : new = Without(sizes, q, n)
    OBVIOUS
<1>5. /\ size' = new /\ order' = SubSeq(q, n + 1, Len(q))
      /\ total' = (total - size[c]) + k - (Bytes(sizes) - Bytes(new))
      /\ bloomed' = bloomed \cup {c} /\ usedBefore' = NowUsed(c) /\ cleared' = cleared
    BY <1>1, <1>2, <1>3, <1>4, Zenon DEF CachePut
<1>6. k \in Nat /\ k # 0 /\ CacheTypes /\ size[c] \in Nat
    BY CacheAssumption DEF CacheInv, CacheTypes
<1>7. /\ sizes \in [Shard -> Nat] /\ CachedIn(sizes) = CachedIn(size) \cup {c}
      /\ IsFiniteSet(CachedIn(sizes))
      /\ \E rest \in Nat : Bytes(size) = size[c] + rest /\ Bytes(sizes) = k + rest
    <2>1. size \in [Shard -> Nat] /\ IsFiniteSet(CachedIn(size))
        BY <1>6 DEF CacheTypes
    <2>2. sizes \in [Shard -> Nat] /\ sizes[c] = k /\ \A d \in Shard \ {c} : sizes[d] = size[d]
        BY <1>1, <1>6, <2>1
    <2>3. CachedIn(sizes) = CachedIn(size) \cup {c}
        BY <1>1, <1>6, <2>1 DEF CachedIn
    <2>4. /\ IsFiniteSet(CachedIn(sizes))
          /\ \E rest \in Nat : Bytes(size) = size[c] + rest /\ Bytes(sizes) = sizes[c] + rest
        BY <2>1, <2>2, BytesOfOne
    <2> QED BY <2>2, <2>3, <2>4
<1>8. q \in Seq(Shard) /\ n \in 0..Len(q)
    BY <1>2, <1>3, <1>6, TouchedType, VictimsEnd DEF CacheTypes
<1>9. /\ new \in [Shard -> Nat] /\ CachedIn(new) = CachedIn(sizes) \ {q[i] : i \in 1..n}
      /\ IsFiniteSet(CachedIn(new)) /\ SubSeq(q, n + 1, Len(q)) \in Seq(Shard)
    BY <1>4, <1>7, <1>8, EvictedFits
<1>10. Bytes(new) \in Nat
    BY <1>9, BytesOver DEF CachedIn
<1>11. total' = Bytes(new)
    BY <1>5, <1>6, <1>7, <1>10 DEF CacheInv, CacheWithinLimits
<1>12. CacheTypes'
    <2>1. \A d \in Shard : <<d, d>> \notin NowUsed(c)
        BY <1>6 DEF CacheTypes, NowUsed
    <2> QED BY <1>5, <1>9, <2>1 DEF CacheTypes
<1>13. CachedIn(new) \subseteq bloomed'
    BY <1>5, <1>7, <1>9 DEF CacheInv, CacheWithinLimits
<1>14. CASE cleared
    BY <1>5, <1>11, <1>12, <1>13, <1>14 DEF CacheInv, CacheWithinLimits, EvictionOrderIsUse
<1>15. CASE ~cleared
    <2>1. /\ UsedInOrder(q, NowUsed(c)) /\ c \in ToSet(q) /\ AllButOne(q, CachedIn(sizes))
        <3>1. /\ UsedInOrder(order, usedBefore) /\ AllButOne(order, CachedIn(size))
              /\ Cardinality(CachedIn(size)) <= CacheLimit
            BY <1>15, OrderIs DEF CacheInv, CacheWithinLimits
        <3> QED BY <1>2, <1>6, <1>7, <3>1, TouchedInOrder
    <2>2. InLimits(new)
        BY <1>1, <1>3, <1>4, <1>6, <1>7, <1>8, <1>15, <2>1, EvictionReachesLimits DEF CacheInv
    <2>3. CacheWithinLimits'
        BY <1>5, <1>11, <1>13, <2>2 DEF CacheWithinLimits, InLimits
    <2>4. PICK r : r = SubSeq(q, n + 1, Len(q))
        OBVIOUS
    <2>5. r \in Seq(Shard) /\ Len(r) = Len(q) - n /\ \A i \in 1..Len(r) : r[i] = q[i + n] /\ i + n \in 1..Len(q)
        BY <1>8, <2>4
    <2>6. UsedInOrder(r, NowUsed(c))
        <3> SUFFICES ASSUME NEW i \in 1..Len(r), NEW j \in 1..Len(r), i < j
                     PROVE  <<r[i], r[j]>> \in NowUsed(c)
            BY DEF UsedInOrder
        <3>1. i + n \in 1..Len(q) /\ j + n \in 1..Len(q) /\ i + n < j + n
            BY <1>8, <2>5
        <3>2. <<q[i + n], q[j + n]>> \in NowUsed(c)
            BY <2>1, <3>1 DEF UsedInOrder
        <3> QED BY <2>5, <3>2
    <2>7. ToSet(r) = ToSet(q) \ {q[i] : i \in 1..n}
        <3>1. ToSet(q) = {q[i] : i \in 1..Len(q)} /\ ToSet(r) = {r[i] : i \in 1..Len(r)}
            BY <1>8, <2>5, TrackedIs
        <3>2. \A i, j \in 1..Len(q) : q[i] = q[j] => i = j
            <4>1. \A d \in Shard : <<d, d>> \notin NowUsed(c)
                BY <1>6 DEF CacheTypes, NowUsed
            <4> QED BY <1>8, <2>1, <4>1, NoneTwice
        <3>3. \A i \in 1..Len(r) : i + n \in 1..Len(q) /\ r[i] = q[i + n] /\ \A j \in 1..n : q[j] # q[i + n]
            <4> SUFFICES ASSUME NEW i \in 1..Len(r), NEW j \in 1..n PROVE q[j] # q[i + n]
                BY <2>5
            <4>1. j \in 1..Len(q) /\ i + n \in 1..Len(q) /\ j # i + n
                BY <1>8, <2>5
            <4> QED BY <3>2, <4>1
        <3>4. \A i \in 1..Len(q) : i \notin 1..n => i - n \in 1..Len(r) /\ r[i - n] = q[i]
            <4> SUFFICES ASSUME NEW i \in 1..Len(q), i \notin 1..n PROVE i - n \in 1..Len(r) /\ r[i - n] = q[i]
                OBVIOUS
            <4>1. i - n \in 1..Len(r) /\ (i - n) + n = i
                BY <1>8, <2>5
            <4> QED BY <2>5, <4>1
        <3>5. ToSet(r) \subseteq ToSet(q) \ {q[i] : i \in 1..n}
            BY <3>1, <3>3
        <3>6. ToSet(q) \ {q[i] : i \in 1..n} \subseteq ToSet(r)
            BY <3>1, <3>4
        <3> QED BY <3>5, <3>6
    <2>8. AllButOne(r, CachedIn(new))
        BY <1>9, <2>1, <2>7 DEF AllButOne
    <2>9. EvictionOrderIsUse'
        BY <1>5, <2>4, <2>6, <2>8, Zenon DEF EvictionOrderIsUse, AllButOne, UsedInOrder
    <2> QED BY <1>12, <2>3, <2>9 DEF CacheInv
<1> QED BY <1>14, <1>15 DEF CacheInv, CacheWithinLimits

LEMMA GetKeepsInv ==
    ASSUME CacheInv, NEW c \in Shard, CacheGet(c)
    PROVE  CacheInv'
<1>1. /\ c \in CachedIn(size) /\ order' = Tracked(c) /\ usedBefore' = NowUsed(c)
      /\ size' = size /\ total' = total /\ bloomed' = bloomed /\ pinning' = pinning /\ cleared' = cleared
    BY DEF CacheGet, CachedIn
<1>2. CacheTypes'
    <2>1. \A d \in Shard : <<d, d>> \notin NowUsed(c)
        BY DEF CacheInv, CacheTypes, NowUsed
    <2>2. Tracked(c) \in Seq(Shard)
        BY TouchedType DEF CacheInv, CacheTypes
    <2> QED BY <1>1, <2>1, <2>2 DEF CacheInv, CacheTypes
<1>3. CacheWithinLimits'
    BY <1>1 DEF CacheInv, CacheWithinLimits
<1>4. EvictionOrderIsUse'
    <2>1. CASE cleared
        BY <1>1, <2>1 DEF EvictionOrderIsUse
    <2>2. CASE ~cleared
        <3>1. /\ UsedInOrder(order, usedBefore) /\ AllButOne(order, CachedIn(size))
              /\ Cardinality(CachedIn(size)) <= CacheLimit
            BY <2>2, OrderIs DEF CacheInv, CacheWithinLimits
        <3>2. UsedInOrder(Tracked(c), NowUsed(c)) /\ AllButOne(Tracked(c), CachedIn(size) \cup {c})
            BY <3>1, TouchedInOrder DEF CacheInv
        <3>3. CachedIn(size) \cup {c} = CachedIn(size)
            BY <1>1
        <3>4. AllButOne(Tracked(c), CachedIn(size))
            BY <3>2, <3>3, Zenon
        <3> QED BY <1>1, <3>2, <3>4, Zenon DEF EvictionOrderIsUse, AllButOne, UsedInOrder
    <2> QED BY <2>1, <2>2
<1> QED BY <1>2, <1>3, <1>4 DEF CacheInv

LEMMA DeleteKeepsInv ==
    ASSUME CacheInv, NEW c \in Shard, CacheDelete(c)
    PROVE  CacheInv'
<1>1. PICK new : new = [size EXCEPT ![c] = 0]
    OBVIOUS
<1>2. PICK r : r = RemoveFirst(order, c)
    OBVIOUS
<1>3. /\ c \in CachedIn(size) /\ size' = new /\ total' = total - size[c] /\ order' = r
      /\ usedBefore' = usedBefore /\ bloomed' = bloomed /\ pinning' = pinning /\ cleared' = cleared
    BY <1>1, <1>2 DEF CacheDelete, CachedIn
<1>4. /\ new \in [Shard -> Nat] /\ CachedIn(new) = CachedIn(size) \ {c} /\ IsFiniteSet(CachedIn(new))
      /\ Bytes(new) \in Nat /\ Bytes(size) = size[c] + Bytes(new)
    <2>1. size \in [Shard -> Nat] /\ IsFiniteSet(CachedIn(size))
        BY DEF CacheInv, CacheTypes
    <2>2. /\ new \in [Shard -> Nat] /\ new[c] = 0 /\ \A d \in Shard \ {c} : new[d] = size[d]
          /\ CachedIn(new) = CachedIn(size) \ {c}
        BY <1>1, <2>1 DEF CachedIn
    <2>3. /\ IsFiniteSet(CachedIn(new))
          /\ \E rest \in Nat : Bytes(size) = size[c] + rest /\ Bytes(new) = new[c] + rest
        BY <2>1, <2>2, BytesOfOne
    <2> QED BY <2>2, <2>3
<1>5. size[c] \in Nat
    BY DEF CacheInv, CacheTypes
<1>6. r \in Seq(Shard)
    BY <1>2, RemoveFirstIs DEF CacheInv, CacheTypes
<1>7. CacheTypes'
    BY <1>3, <1>4, <1>6 DEF CacheInv, CacheTypes
<1>8. CacheWithinLimits'
    <2>1. total' = Bytes(new) /\ total' <= total
        BY <1>3, <1>4, <1>5 DEF CacheInv, CacheWithinLimits
    <2>2. /\ Cardinality(CachedIn(new)) <= Cardinality(CachedIn(size))
          /\ Cardinality(CachedIn(new)) \in Nat /\ Cardinality(CachedIn(size)) \in Nat
        BY <1>4, FS_Subset, FS_CardinalityType DEF CacheInv, CacheTypes
    <2>3. total \in Nat
        BY <1>4, <1>5 DEF CacheInv, CacheWithinLimits
    <2>4. ~cleared => Cardinality(CachedIn(new)) <= CacheLimit /\ total' <= ByteLimit
        BY <1>4, <2>1, <2>2, <2>3, CacheAssumption DEF CacheInv, CacheWithinLimits
    <2> QED BY <1>3, <1>4, <2>1, <2>4 DEF CacheInv, CacheWithinLimits
<1>9. EvictionOrderIsUse'
    <2>1. CASE cleared
        BY <1>3, <2>1 DEF EvictionOrderIsUse
    <2>2. CASE ~cleared
        <3>1. UsedInOrder(order, usedBefore) /\ AllButOne(order, CachedIn(size))
            BY <2>2, OrderIs DEF CacheInv
        <3>2. ToSet(r) = ToSet(order) \ {c} /\ UsedInOrder(Append(r, c), NowUsed(c))
            BY <1>2, <3>1, AppendedInOrder DEF CacheInv
        <3>3. UsedInOrder(r, usedBefore)
            <4> SUFFICES ASSUME NEW i \in 1..Len(r), NEW j \in 1..Len(r), i < j
                         PROVE  <<r[i], r[j]>> \in usedBefore
                BY DEF UsedInOrder
            <4>1. PICK q : q = Append(r, c)
                OBVIOUS
            <4>2. i \in 1..Len(q) /\ j \in 1..Len(q) /\ q[i] = r[i] /\ q[j] = r[j]
                BY <1>6, <4>1
            <4>3. <<r[i], r[j]>> \in NowUsed(c)
                BY <3>2, <4>1, <4>2 DEF UsedInOrder
            <4>4. r[j] # c
                BY <1>6, <3>2, TrackedIs
            <4> QED BY <4>3, <4>4 DEF NowUsed
        <3>4. AllButOne(r, CachedIn(new))
            BY <1>4, <3>1, <3>2 DEF AllButOne
        <3> QED BY <1>3, <3>3, <3>4, Zenon DEF EvictionOrderIsUse, AllButOne, UsedInOrder
    <2> QED BY <2>1, <2>2
<1> QED BY <1>7, <1>8, <1>9 DEF CacheInv

LEMMA ClearKeepsInv ==
    ASSUME CacheInv, CacheClear
    PROVE  CacheInv'
<1>1. PICK new : new = [c \in Shard |-> 0]
    OBVIOUS
<1>2. /\ size' = new /\ total' = 0 /\ cleared' /\ order' = order
      /\ usedBefore' = usedBefore /\ pinning' = pinning
    BY <1>1 DEF CacheClear
<1>3. new \in [Shard -> Nat] /\ CachedIn(new) = {}
    BY <1>1 DEF CachedIn
<1>4. Bytes(new) = 0 /\ IsFiniteSet(CachedIn(new))
    BY <1>3, SumEmpty, FS_EmptySet DEF Bytes
<1> QED BY <1>2, <1>3, <1>4 DEF CacheInv, CacheTypes, CacheWithinLimits, EvictionOrderIsUse

LEMMA CacheStep ==
    ASSUME CacheInv, CacheNext
    PROVE  CacheInv'
<1>1. ASSUME NEW p \in Thread, PinShard(p) PROVE CacheInv'
    <2>1. PICK k \in Sizes : CachePut(pinning[p], k)
        BY <1>1 DEF PinShard
    <2>2. pinning[p] \in Shard /\ \A x \in Thread : pinning'[x] \in Shard \cup {NoShard}
        BY <1>1 DEF PinShard, CacheInv, CacheTypes
    <2> QED BY <2>1, <2>2, PutKeepsInv
<1>2. ASSUME NEW p \in Thread, NEW c \in Shard, FindMissing(p, c) PROVE CacheInv'
    <2>1. UNCHANGED <<size, total, order, bloomed, usedBefore, cleared>>
        BY <1>2 DEF FindMissing
    <2>2. \A x \in Thread : pinning'[x] \in Shard \cup {NoShard}
        BY <1>2 DEF FindMissing, CacheInv, CacheTypes
    <2> QED BY <2>1, <2>2, PinningKeepsInv
<1> QED BY <1>1, <1>2, GetKeepsInv, DeleteKeepsInv, ClearKeepsInv DEF CacheNext

\* For any chunks, sizes, threads and limits, the cache's invariant holds after
\* any calls of put, get, delete and clear in any order.
THEOREM CacheInvariance == CacheSpec => []CacheInv
<1>1. CacheInv /\ UNCHANGED cacheVars => CacheInv'
    BY PinningKeepsInv DEF cacheVars, CacheInv, CacheTypes
<1> QED BY <1>1, CacheInitial, CacheStep, PTL DEF CacheSpec

\* CacheWithinLimits: the byte count is exact, the Bloom filter misses nothing,
\* and, until clear() is called, _enforce_limits reaches both limits although it
\* stops at the first name it does not find and cannot see a chunk the tracker
\* has forgotten.
THEOREM CacheKeepsLimits == CacheSpec => []CacheWithinLimits
BY CacheInvariance, PTL DEF CacheInv

\* EvictionOrderIsUse: until clear() is called, at most one chunk is cached that the
\* tracker has forgotten, and the others are evicted in the order of their last use.
THEOREM EvictionFollowsUse == CacheSpec => []EvictionOrderIsUse
BY CacheInvariance, PTL DEF CacheInv

(***************************************************************************)
(* ArtifactTransfer.                                                       *)
(***************************************************************************)

(* Only the artifact's manifest is ever let in, and only under its session id,   *)
(* so that no other can be in memory or in a checkpoint.                         *)
OnlyWanted ==
    \A t \in Session : \A k \in Media :
        manifest[t] = k \/ <<"manifest", k>> \in disk[t] => t = WantedSession /\ k = Wanted

(* As long as no file operation failed, checkpointed chunks of the artifact have *)
(* its manifest beside them: a transfer that is not resumed has none to lose.    *)
NothingOrphaned == faults = 0 /\ Rebuilt # {} => manifest[WantedSession] = Wanted

TransferInv ==
    /\ WholeInv /\ OnlyWanted /\ NothingOrphaned
    /\ stage = "done" => latest # NoSession

(* What a step of the receiver does to the artifact's checkpoints. *)
Keeps == live' \subseteq {WantedSession} /\ <<"dir", WantedSession>> \notin expired /\ faults' = 0
          => Rebuilt \subseteq Rebuilt'
GoodStep == OnlyWanted' /\ NothingOrphaned' /\ Keeps

-----------------------------------------------------------------------------
\* There is one session at most.
LEMMA OneAtATime ==
    ASSUME WholeInv, NEW s \in live, NEW t \in live
    PROVE  s = t
<1>1. IsFiniteSet(live) /\ Cardinality(live) <= 1 /\ Cardinality(live) \in Nat
    BY TransferAssumption, FS_CardinalityType DEF WholeInv
<1>2. IsFiniteSet(live \ {s}) /\ Cardinality(live \ {s}) = Cardinality(live) - 1
    BY <1>1, FS_RemoveElement
<1>3. Cardinality(live \ {s}) \in Nat
    BY <1>2, FS_CardinalityType
<1>4. Cardinality(live \ {s}) = 0
    BY <1>1, <1>2, <1>3
<1>5. live \ {s} = {}
    BY <1>2, <1>4, FS_EmptySet
<1> QED BY <1>5

\* An arrival for another session takes its place.
LEMMA OtherIsEvicted ==
    ASSUME WholeInv, NEW s \in Session, NEW t \in live, t # s
    PROVE  t \in Evicted(s)
<1> DEFINE known == live \ ExpiredSessions(s)
           later == {u \in known : Before(<<"used", t>>, <<"used", u>>)}
<1>1. s \notin live
    BY OneAtATime
<1>2. s \notin known
    BY <1>1
<1>3. CASE t \in ExpiredSessions(s)
    BY <1>3 DEF Evicted
<1>4. CASE t \notin ExpiredSessions(s)
    <2>1. IsFiniteSet(live) /\ later \subseteq live
        BY DEF WholeInv
    <2> HIDE DEF later
    <2>2. Cardinality(later) \in Nat
        BY <2>1, FS_Subset, FS_CardinalityType
    <2>3. Cardinality(later) >= MaxSessions - 1
        BY <2>2, TransferAssumption
    <2>4. t \in Surplus("used", known, MaxSessions - 1)
        BY <1>4, <2>3 DEF Surplus, later
    <2> QED BY <1>2, <2>4 DEF Evicted
<1> QED BY <1>3, <1>4

\* The default manifest is the artifact's whenever the artifact's is there.
LEMMA LatestIsWanted ==
    ASSUME WholeInv, OnlyWanted
    PROVE  /\ latest # NoSession => latest = WantedSession /\ manifest[latest] = Wanted
           /\ latest = NoSession => manifest[WantedSession] # Wanted
<1>1. /\ latest = NoSession => \A t \in Session : manifest[t] = NoMedia
      /\ latest # NoSession => latest \in Session /\ manifest[latest] # NoMedia
    BY DEF WholeInv, LatestIsRegistered
<1>2. manifest \in [Session -> Media \cup {NoMedia}]
    BY DEF WholeInv, ReceiverInv, SessionsAreReal
<1> QED BY <1>1, <1>2, MediaAreNone, TransferAssumption DEF OnlyWanted

\* A directory that stays although its session goes is a failed file operation.
LEMMA StaysAreFaults ==
    ASSUME WholeInv, NEW s \in Session, NEW r \in Removals(Evicted(s)),
           NEW n, NEW me, NEW bu, NEW ch, NEW d, NEW tail, NEW cut,
           Arriving(s, r, n, me, bu, ch, d, tail, cut), faults' = 0
    PROVE  r.stays = {}
<1>1. PICK gone \in SUBSET (Session \ {s}) : gone = Evicted(s)
    BY EvictionSpares DEF WholeInv, ReceiverInv
<1>2. PICK k \in Nat : k = Cardinality(r.stays) /\ (k = 0 => r.stays = {})
    BY <1>1, RemovalCounts
<1>3. PICK fails \in BOOLEAN : faults' = faults + k + (IF fails THEN 1 ELSE 0)
    BY <1>2 DEF Arriving
<1>4. PICK j \in Nat : j = IF fails THEN 1 ELSE 0
    OBVIOUS
<1>5. faults \in Nat /\ faults' = faults + k + j
    BY <1>3, <1>4 DEF WholeInv
<1>6. faults' = 0 => k = 0
    BY <1>5
<1> QED BY <1>2, <1>6

\* A droplet of the artifact adds to its checkpoints; another's takes its place.
LEMMA PacketIsGood ==
    ASSUME WholeInv, OnlyWanted, NothingOrphaned, NEW s \in Session, NEW m \in Media,
           m = Wanted <=> s = WantedSession, LatestMatches,
           NEW c \in Chunks(m), NEW i, IngestPacket(s, m, c, i)
    PROVE  GoodStep
<1>1. WantedSession \in live /\ manifest[WantedSession] = Wanted
    <2>1. manifest[WantedSession] = Wanted
        BY LatestIsWanted DEF LatestMatches
    <2> QED BY <2>1, MediaAreNone, TransferAssumption DEF WholeInv, SessionInv
<1>2. PICK r \in Removals(Evicted(s)), o \in AfterDroplet(s, m, c, i) :
         \E d : \E tail \in Tails(s) : PacketEffect(s, c, r, o, d, tail)
    BY PacketIs
<1>3. PICK d : \E tail \in Tails(s) : PacketEffect(s, c, r, o, d, tail)
    BY <1>2
<1>4. PICK tail \in Tails(s) : PacketEffect(s, c, r, o, d, tail)
    BY <1>3
<1>11. PICK cut \in SUBSET {s} : cut = unpruned \cap {s}
    OBVIOUS
<1>12. PICK n \in Media \cup {NoMedia} : n = manifest[s]
    BY DEF WholeInv, ReceiverInv, SessionsAreReal
<1>13. PICK me, bu, ch : me = o.meta /\ bu = o.buffer /\ ch = o.chunks
    OBVIOUS
<1>5. /\ Arriving(s, r, n, me, bu, ch, d, tail, cut)
      /\ d = disk[s] \/ d = disk[s] \cup {<<"chunk", c, o.chunks[c]>>}
      /\ faults' = 0 => faults = 0
    BY <1>4, <1>11, <1>12, <1>13 DEF PacketEffect
<1>6. /\ manifest'[s] = manifest[s] /\ disk'[s] = d
      /\ \A t \in Evicted(s) : manifest'[t] = NoMedia /\ disk'[t] \subseteq disk[t] /\ (t \notin r.stays => disk'[t] = {})
      /\ \A t \in Session \ {s} : t \notin Evicted(s) => manifest'[t] = manifest[t] /\ disk'[t] = disk[t]
    BY <1>5, <1>12, ArrivingIs
<1>7. \A k : <<"manifest", k>> \in d <=> <<"manifest", k>> \in disk[s]
    BY <1>5
<1>8. OnlyWanted'
    <2> SUFFICES ASSUME NEW t \in Session, NEW k \in Media, manifest'[t] = k \/ <<"manifest", k>> \in disk'[t]
                 PROVE  manifest[t] = k \/ <<"manifest", k>> \in disk[t]
        BY DEF OnlyWanted
    <2> QED BY <1>6, <1>7, MediaAreNone
<1>9. CASE s = WantedSession
    <2>1. manifest'[WantedSession] = Wanted /\ disk[WantedSession] \subseteq disk'[WantedSession]
        BY <1>1, <1>5, <1>6, <1>9
    <2> QED BY <1>8, <2>1 DEF GoodStep, NothingOrphaned, Keeps, Rebuilt
<1>10. CASE s # WantedSession
    <2>1. WantedSession \in Evicted(s)
        BY <1>1, <1>10, OtherIsEvicted
    <2>2. faults' = 0 => disk'[WantedSession] = {}
        BY <1>5, <1>6, <2>1, StaysAreFaults
    <2>3. s \in live'
        BY <1>5 DEF Arriving, Arrival
    <2> QED BY <1>8, <1>10, <2>2, <2>3 DEF GoodStep, NothingOrphaned, Keeps, Rebuilt
<1> QED BY <1>9, <1>10

\* The artifact's manifest leaves its chunks as they are.
LEMMA ManifestIsGood ==
    ASSUME WholeInv, OnlyWanted, IngestManifest(WantedSession, Wanted)
    PROVE  GoodStep
<1> DEFINE s == WantedSession
           saved == Replaced(s, Wanted)
<1>1. s \in Session /\ Wanted \in Media
    BY TransferAssumption
<1> HIDE DEF s
<1>2. PICK r \in Removals(Evicted(s)) :
        \E o, d : \E tail \in Tails(s), cut \in SUBSET {s} : ManifestEffect(s, Wanted, r, o, d, tail, cut)
    BY <1>1, ManifestIs DEF s
<1>3. PICK o, d : \E tail \in Tails(s), cut \in SUBSET {s} : ManifestEffect(s, Wanted, r, o, d, tail, cut)
    BY <1>2
<1>4. PICK tail \in Tails(s), cut \in SUBSET {s} : ManifestEffect(s, Wanted, r, o, d, tail, cut)
    BY <1>3
<1>9. PICK me, bu, ch : me = o.meta /\ bu = o.buffer /\ ch = o.chunks
    OBVIOUS
<1>5. /\ Arriving(s, r, Wanted, me, bu, ch, d, tail, cut)
      /\ d = disk[s] \/ d = Replaced(s, Wanted)
    BY <1>4, <1>9 DEF ManifestEffect
<1>6. /\ manifest'[s] = Wanted /\ disk'[s] = d
      /\ \A t \in Evicted(s) : manifest'[t] = NoMedia /\ disk'[t] \subseteq disk[t]
      /\ \A t \in Session \ {s} : t \notin Evicted(s) => manifest'[t] = manifest[t] /\ disk'[t] = disk[t]
    BY <1>1, <1>5, ArrivingIs
<1>7. /\ \A k \in Media : <<"manifest", k>> \in d => k = Wanted \/ <<"manifest", k>> \in disk[s]
      /\ \A x, y : <<"chunk", x, y>> \in disk[s] => <<"chunk", x, y>> \in d
    BY <1>5 DEF Replaced
<1>8. OnlyWanted'
    <2> SUFFICES ASSUME NEW t \in Session, NEW k \in Media, manifest'[t] = k \/ <<"manifest", k>> \in disk'[t]
                 PROVE  t = s /\ k = Wanted
        BY DEF OnlyWanted, s
    <2>1. t # s \/ k # Wanted => manifest[t] = k \/ <<"manifest", k>> \in disk[t]
        BY <1>6, <1>7, MediaAreNone
    <2> QED BY <2>1 DEF OnlyWanted, s
<1> QED BY <1>6, <1>7, <1>8 DEF GoodStep, NothingOrphaned, Keeps, Rebuilt, s

\* A reset comes only when there is nothing of the artifact to lose.
LEMMA ResetIsGood ==
    ASSUME WholeInv, OnlyWanted, NothingOrphaned, ~LatestMatches, ResetAll
    PROVE  GoodStep
<1>1. PICK r \in Removals(Session) :
        /\ manifest' = [t \in Session |-> IF t \in Session THEN NoMedia ELSE manifest[t]]
        /\ disk' = DiskWithout(Session, r) /\ faults' = faults + Cardinality(r.stays)
    BY DEF ResetAll, Reset
<1>2. \A t \in Session : manifest'[t] = NoMedia /\ disk'[t] \subseteq disk[t]
    <2>1. \A t \in Session : DiskWithout(Session, r)[t] \subseteq disk[t]
        BY DirectoriesAfter
    <2> QED BY <1>1, <2>1
<1>3. faults' = 0 => faults = 0
    <2>1. PICK k \in Nat : k = Cardinality(r.stays)
        BY RemovalCounts
    <2>2. faults \in Nat /\ faults' = faults + k
        BY <1>1, <2>1 DEF WholeInv
    <2> QED BY <2>2
<1>4. manifest[WantedSession] # Wanted
    BY LatestIsWanted DEF LatestMatches
<1>5. faults' = 0 => Rebuilt = {}
    BY <1>3, <1>4 DEF NothingOrphaned
<1>6. OnlyWanted'
    BY <1>2, MediaAreNone DEF OnlyWanted
<1> QED BY <1>2, <1>5, <1>6, TransferAssumption DEF GoodStep, NothingOrphaned, Keeps, Rebuilt

\* A restart resumes the artifact, or finds it too old.
LEMMA RestartIsGood ==
    ASSUME WholeInv, OnlyWanted, NothingOrphaned, Restart
    PROVE  GoodStep
<1> DEFINE gone == Expiring \cup (Fresh \ Restored)
<1>1. PICK r \in Removals(gone) :
        /\ manifest' = [s \in Session |-> RestoredMedia(s)]
        /\ disk' = DiskWithout(gone, r) /\ faults' = faults + Cardinality(r.stays)
    BY Zenon DEF Restart
<1>2. gone \in SUBSET Session /\ gone \cap Restored = {} /\ Expiring \subseteq gone
    BY DEF Restored, Fresh, Expiring
<1>3. \A s \in Session : /\ s \notin Restored => RestoredMedia(s) = NoMedia
                         /\ s \in Restored => Saved(s) = {RestoredMedia(s)}
    BY RestoredHas
<1> HIDE DEF gone
<1>4. \A t \in Session : /\ disk'[t] \subseteq disk[t] /\ (t \notin gone => disk'[t] = disk[t])
                         /\ t \in gone \ r.stays => disk'[t] = {}
    <2>1. \A t \in Session : /\ DiskWithout(gone, r)[t] \subseteq disk[t]
                             /\ t \notin gone => DiskWithout(gone, r)[t] = disk[t]
                             /\ t \in gone \ r.stays => DiskWithout(gone, r)[t] = {}
        BY <1>2, DirectoriesAfter
    <2> QED BY <1>1, <2>1
<1>5. faults' = 0 => faults = 0 /\ r.stays = {}
    <2>1. PICK k \in Nat : k = Cardinality(r.stays) /\ (k = 0 => r.stays = {})
        BY <1>2, RemovalCounts
    <2>2. faults \in Nat /\ faults' = faults + k
        BY <1>1, <2>1 DEF WholeInv
    <2>3. k \in Nat /\ faults' = 0 => faults = 0 /\ k = 0
        BY <2>2
    <2> QED BY <2>1, <2>3
<1>6. \A t \in Session : manifest'[t] = RestoredMedia(t)
    BY <1>1
<1>7. OnlyWanted'
    <2> SUFFICES ASSUME NEW t \in Session, NEW k \in Media, manifest'[t] = k \/ <<"manifest", k>> \in disk'[t]
                 PROVE  <<"manifest", k>> \in disk[t]
        BY DEF OnlyWanted
    <2> QED BY <1>3, <1>4, <1>6, MediaAreNone DEF Saved
<1>8. ASSUME faults' = 0, Rebuilt # {}
      PROVE  IF <<"dir", WantedSession>> \in expired THEN disk'[WantedSession] = {}
             ELSE manifest'[WantedSession] = Wanted /\ disk'[WantedSession] = disk[WantedSession]
    <2>1. manifest[WantedSession] = Wanted /\ faults = 0
        BY <1>5, <1>8 DEF NothingOrphaned
    <2>2. WantedSession \in Session /\ Wanted \in Media
        BY TransferAssumption
    <2>3. CASE <<"dir", WantedSession>> \in expired
        <3>1. Wanted \in Saved(WantedSession)
            BY <2>1, <2>2 DEF WholeInv, SessionInv, Backs, Saved
        <3>2. WantedSession \in gone
            BY <1>2, <2>2, <2>3, <3>1 DEF Expiring
        <3> QED BY <1>4, <1>5, <1>8, <2>2, <2>3, <3>2
    <2>4. CASE <<"dir", WantedSession>> \notin expired
        <3>1. RestartWouldResume
            BY InvResumes
        <3>2. RestoredMedia(WantedSession) = Wanted
            BY <2>1, <2>2, <2>4, <3>1, MediaAreNone DEF RestartWouldResume
        <3>3. WantedSession \notin gone
            BY <1>2, <1>3, <2>2, <3>2, MediaAreNone
        <3> QED BY <1>4, <1>6, <2>2, <2>4, <3>2, <3>3
    <2> QED BY <2>3, <2>4
<1>9. Rebuilt' \subseteq Rebuilt
    BY <1>4, TransferAssumption DEF Rebuilt
<1>10. NothingOrphaned'
    BY <1>8, <1>9 DEF NothingOrphaned, Rebuilt
<1>11. Keeps
    BY <1>8 DEF Keeps, Rebuilt
<1> QED BY <1>7, <1>10, <1>11 DEF GoodStep

\* Steps that touch neither manifests nor directories.
LEMMA QuietIsGood ==
    ASSUME OnlyWanted, NothingOrphaned, UNCHANGED <<manifest, disk, faults>>
    PROVE  GoodStep
<1>1. Rebuilt' = Rebuilt
    BY DEF Rebuilt
<1> QED BY <1>1 DEF GoodStep, Keeps, OnlyWanted, NothingOrphaned

LEMMA TransferStep ==
    ASSUME TransferInv, [TransferNext]_transferVars
    PROVE  TransferInv' /\ Keeps /\ (stage' = "done" => manifest[latest] = Wanted)
<1>1. WholeInv /\ OnlyWanted /\ NothingOrphaned
    BY DEF TransferInv
<1>2. stage = "done" => latest # NoSession /\ manifest[latest] = Wanted
    BY <1>1, LatestIsWanted DEF TransferInv
<1>3. ASSUME UNCHANGED vars PROVE WholeInv' /\ GoodStep
    <2>1. UNCHANGED <<manifest, disk, faults>>
        BY <1>3 DEF vars, memory
    <2> QED BY <1>1, <1>3, <2>1, QuietIsGood, UnchangedKeepsInv
<1>4. CASE OpenTransfer
    BY <1>1, <1>4, RestartIsGood, RestartKeepsInv DEF OpenTransfer, TransferInv, GoodStep
<1>5. CASE KeepOrReset
    <2>1. CASE UNCHANGED vars
        BY <1>3, <1>5, <2>1 DEF KeepOrReset, TransferInv, GoodStep
    <2>2. CASE ~LatestMatches /\ ResetAll
        <3>1. WholeInv'
            BY <1>1, <2>2, ResetKeepsInv DEF ResetAll
        <3>2. GoodStep
            BY <1>1, <2>2, ResetIsGood
        <3> QED BY <1>5, <3>1, <3>2 DEF KeepOrReset, TransferInv, GoodStep
    <2> QED BY <1>5, <2>1, <2>2 DEF KeepOrReset, Resumes
<1>6. CASE ManifestArrives
    <2>1. IngestManifest(WantedSession, Wanted) /\ stage' # "done"
        BY <1>6 DEF ManifestArrives
    <2>2. WholeInv'
        BY <1>1, <2>1, ManifestKeepsInv, TransferAssumption
    <2>3. GoodStep
        BY <1>1, <2>1, ManifestIsGood
    <2> QED BY <2>1, <2>2, <2>3 DEF TransferInv, GoodStep
<1>7. CASE \E sm \in Carries : DropletArrives(sm[1], sm[2])
    <2>1. PICK sm \in Carries : DropletArrives(sm[1], sm[2])
        BY <1>7
    <2>2. PICK s \in Session, m \in Media : s = sm[1] /\ m = sm[2] /\ (m = Wanted <=> s = WantedSession)
        BY ReceiverAssumption, TransferAssumption
    <2>3. LatestMatches /\ stage' # "done"
        BY <2>1 DEF DropletArrives
    <2>4. PICK c \in Chunks(m) : \E i \in Seeds[m][c] : IngestPacket(s, m, c, i)
        BY <2>1, <2>2 DEF DropletArrives
    <2>5. PICK i : IngestPacket(s, m, c, i)
        BY <2>4
    <2>6. WholeInv'
        BY <1>1, <2>5, PacketKeepsInv
    <2>7. GoodStep
        BY <1>1, <2>2, <2>3, <2>5, PacketIsGood
    <2> QED BY <2>3, <2>6, <2>7 DEF TransferInv, GoodStep
<1>8. CASE Deliver
    <2>1. latest # NoSession /\ latest' = latest /\ UNCHANGED vars
        BY <1>8 DEF Deliver, IsComplete, vars, memory
    <2> QED BY <1>1, <1>3, <2>1, LatestIsWanted DEF TransferInv, GoodStep
<1>9. CASE StopTransfer
    BY <1>3, <1>9 DEF StopTransfer, TransferInv, GoodStep
<1>10. CASE TimePasses /\ UNCHANGED stage
    <2>1. UNCHANGED <<manifest, disk, faults, latest>>
        BY <1>10 DEF TimePasses, memory
    <2>2. WholeInv'
        BY <1>1, <1>10, TimeKeepsInv
    <2> QED BY <1>1, <1>2, <1>10, <2>1, <2>2, QuietIsGood DEF TransferInv, GoodStep
<1>11. CASE UNCHANGED transferVars
    <2>1. UNCHANGED vars /\ UNCHANGED stage /\ UNCHANGED latest
        BY <1>11 DEF transferVars, vars, memory
    <2> QED BY <1>2, <1>3, <2>1 DEF TransferInv, GoodStep
<1> QED BY <1>4, <1>5, <1>6, <1>7, <1>8, <1>9, <1>10, <1>11 DEF TransferNext

LEMMA TransferInitial == TransferInit => TransferInv
<1> SUFFICES ASSUME TransferInit PROVE TransferInv
    OBVIOUS
<1>1. WholeInv /\ stage = "stopped"
    BY WholeInitial DEF TransferInit
<1>2. \A t \in Session : manifest[t] = NoMedia /\ disk[t] = {}
    BY DEF TransferInit, Init
<1>3. OnlyWanted
    BY <1>2, MediaAreNone DEF OnlyWanted
<1>4. Rebuilt = {}
    BY <1>2, TransferAssumption DEF Rebuilt
<1> QED BY <1>1, <1>3, <1>4 DEF TransferInv, NothingOrphaned

\* The receiver's invariant, and what the filter in front of it adds, hold
\* through time-outs, restarts, resets and failed file operations.
THEOREM TransferInvariance == TransferSpec => []TransferInv
<1>1. TransferInv /\ [TransferNext]_transferVars => TransferInv'
    BY TransferStep
<1> QED BY <1>1, TransferInitial, PTL DEF TransferSpec

\* A chunk of the artifact, once rebuilt, survives time-outs, restarts, repeated
\* manifests and wrong droplets, and what is delivered is the artifact
\* (receive_artifact over _load_checkpoints).
THEOREM ProgressIsKept == TransferSpec => TransferKeepsProgress
<1>1. TransferInv /\ [TransferNext]_transferVars =>
        [ /\ live' \subseteq {WantedSession} /\ <<"dir", WantedSession>> \notin expired /\ faults' = 0
               => Rebuilt \subseteq Rebuilt'
          /\ stage' = "done" => manifest[latest] = Wanted ]_transferVars
    BY TransferStep DEF Keeps
<1> QED BY <1>1, TransferInvariance, PTL DEF TransferSpec, TransferKeepsProgress
=============================================================================
