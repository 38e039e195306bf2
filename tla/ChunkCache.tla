------------------------------ MODULE ChunkCache ------------------------------
(***************************************************************************)
(* ChunkStore (tfp_client/lib/cache/chunk_store.py) as the demo server's   *)
(* get_shard uses it from several threads: it asks whether a shard is      *)
(* cached and puts it in a second call.  Each call of the store is atomic  *)
(* (one RLock).  The other calls of the store, get, delete and clear, may  *)
(* come at any time.                                                       *)
(*                                                                         *)
(* Abstracted: a chunk's data is its size, 0 for a chunk that is not       *)
(* cached; the Bloom filter is the set of what was added to it.            *)
(***************************************************************************)
EXTENDS Naturals, SequencesExt

CONSTANTS
    Shard, NoShard, Sizes,     \* chunk ids, and the sizes of their data
    Thread,                    \* the server's threads
    CacheLimit, ByteLimit      \* max_chunks, max_bytes

ASSUME CacheAssumption ==
    /\ NoShard \notin Shard /\ Sizes \subseteq Nat \ {0}
    /\ CacheLimit \in Nat \ {0} /\ ByteLimit \in Nat \ {0}

VARIABLES
    size,       \* _chunks: the size of each cached chunk
    total,      \* _total_bytes
    order,      \* _lru._access_order
    bloomed,    \* what _bloom holds
    pinning,    \* the shard each thread found missing
    usedBefore, \* history: <<c, d>> when d was used after the last use of c
    cleared     \* history: has clear() been called

cacheVars == <<size, total, order, bloomed, pinning, usedBefore, cleared>>

CacheInit ==
    /\ size = [c \in Shard |-> 0] /\ total = 0 /\ order = <<>> /\ bloomed = {}
    /\ pinning = [p \in Thread |-> NoShard] /\ usedBefore = {} /\ cleared = FALSE

CachedIn(sizes) == {c \in Shard : sizes[c] > 0}
Bytes(sizes)    == SumFunctionOnSet(sizes, CachedIn(sizes))

NowUsed(c) == {x \in usedBefore : x[1] # c} \cup {<<d, c>> : d \in Shard \ {c}}

TrackedOnce(c) ==  \* mutant: a chunk that is tracked keeps its place
    IF Contains(order, c) THEN order ELSE Append(order, c)

\* track_access: the tracker has a limit of its own, and forgets its oldest.
Tracked(c) ==
    LET q == Append(RemoveFirst(order, c), c)
    IN  IF Len(q) > CacheLimit THEN Tail(q) ELSE q

Without(sizes, q, n) == [c \in Shard |-> IF \E i \in 1..n : q[i] = c THEN 0 ELSE sizes[c]]

VictimsByCount(sizes, q) ==  \* mutant: bytes do not count
    CHOOSE n \in 0..Len(q) : n = Cardinality(CachedIn(sizes)) - CacheLimit \/ n = 0

\* _enforce_limits: how many of the tracked are evicted, from the front.  It
\* stops where the tracker is empty or names a chunk that is not cached.
Victims(sizes, q) ==
    LET Ends(n) == \/ /\ Cardinality(CachedIn(Without(sizes, q, n))) <= CacheLimit
                      /\ Bytes(Without(sizes, q, n)) <= ByteLimit
                   \/ n = Len(q)
                   \/ q[n + 1] \notin CachedIn(sizes)
    IN  CHOOSE n \in 0..Len(q) : Ends(n) /\ \A m \in 0..(n - 1) : ~Ends(m)

CachePut(c, k) ==
    LET sizes == [size EXCEPT ![c] = k]
        q     == Tracked(c)
        n     == Victims(sizes, q)
    IN  /\ size' = Without(sizes, q, n)
        /\ total' = (total - size[c]) + k - (Bytes(sizes) - Bytes(size'))
        /\ order' = SubSeq(q, n + 1, Len(q))
        /\ bloomed' = bloomed \cup {c}
        /\ usedBefore' = NowUsed(c)
        /\ UNCHANGED cleared

\* get_shard: the shard is not in the store ...
FindMissing(p, c) ==
    /\ pinning[p] = NoShard /\ size[c] = 0 /\ pinning' = [pinning EXCEPT ![p] = c]
    /\ UNCHANGED <<size, total, order, bloomed, usedBefore, cleared>>

\* ... and is put, though another thread may have done so meanwhile.
PinShard(p) ==
    /\ pinning[p] # NoShard /\ pinning' = [pinning EXCEPT ![p] = NoShard]
    /\ \E k \in Sizes : CachePut(pinning[p], k)

CacheGet(c) ==
    /\ size[c] > 0 /\ order' = Tracked(c) /\ usedBefore' = NowUsed(c)
    /\ UNCHANGED <<size, total, bloomed, pinning, cleared>>

CacheDelete(c) ==
    /\ size[c] > 0 /\ size' = [size EXCEPT ![c] = 0] /\ total' = total - size[c]
    /\ order' = RemoveFirst(order, c)
    /\ UNCHANGED <<bloomed, pinning, usedBefore, cleared>>

\* The tracker is not cleared with the chunks.
CacheClear ==
    /\ size' = [c \in Shard |-> 0] /\ total' = 0 /\ bloomed' = {}
    /\ cleared' = TRUE /\ UNCHANGED <<order, pinning, usedBefore>>

CacheNext ==
    \/ \E p \in Thread : PinShard(p) \/ \E c \in Shard : FindMissing(p, c)
    \/ \E c \in Shard : CacheGet(c) \/ CacheDelete(c)
    \/ CacheClear

CacheSpec == CacheInit /\ [][CacheNext]_cacheVars

-----------------------------------------------------------------------------
\* After any calls in any order the byte count is exact, the Bloom filter has no
\* false negative, and both limits hold: also when the tracker has forgotten a
\* chunk, which _enforce_limits can then never evict.  Only after a clear(),
\* which leaves the tracker full of names that stop the eviction, may the limits
\* be exceeded.
CacheWithinLimits ==
    /\ total = Bytes(size) /\ CachedIn(size) \subseteq bloomed
    /\ ~cleared => Cardinality(CachedIn(size)) <= CacheLimit /\ total <= ByteLimit

\* Chunks are evicted in the order of their last use, with one exception at most:
\* the one chunk that track_access dropped from a full tracker before the limit
\* was enforced stays although it is the oldest.
EvictionOrderIsUse ==
    ~cleared =>
      /\ \E ghost \in Shard \cup {NoShard} : ToSet(order) = CachedIn(size) \ {ghost}
      /\ \A i, j \in 1..Len(order) : i < j => <<order[i], order[j]>> \in usedBefore
=============================================================================
