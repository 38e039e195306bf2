------------------------- MODULE StreamReceiverProofs -------------------------
(***************************************************************************)
(* Proofs about StreamReceiver for any sessions, media, droplets, limits   *)
(* and losses of the checkpoint directories.                               *)
(***************************************************************************)
EXTENDS StreamReceiver, DataTheorems, SequenceTheorems, TLAPS

(* ChunksMatchManifest is inductive once the sessions are known to be sessions. *)
SessionsAreReal ==
    /\ live \subseteq Session /\ unpruned \subseteq live
    /\ manifest \in [Session -> Media \cup {NoMedia}] /\ DOMAIN chunks = Session
ReceiverInv == SessionsAreReal /\ ChunksMatchManifest

-----------------------------------------------------------------------------
(* What a session's part of the state becomes. *)

\* A packet's own session is not evicted for it.
LEMMA EvictionSpares ==
    ASSUME SessionsAreReal, NEW s \in Session
    PROVE  Evicted(s) \in SUBSET (Session \ {s})
<1>1. ExpiredSessions(s) \subseteq live \ {s}
    BY DEF ExpiredSessions
<1>2. Surplus("used", live \ ExpiredSessions(s), MaxSessions - 1) \subseteq live \ ExpiredSessions(s)
    BY DEF Surplus
<1> QED BY <1>1, <1>2 DEF Evicted, SessionsAreReal

\* One session gets manifest n and chunks f, those evicted for it start afresh;
\* cut is empty or that session, when its manifest's pruning did not take place.
Arrival(s, gone, n, f, cut) ==
    /\ live' = (live \ gone) \cup {s}
    /\ manifest' = After(manifest, gone, NoMedia, s, n)
    /\ chunks' = After(chunks, gone, NoChunks, s, f)
    /\ unpruned' = (unpruned \ (gone \cup {s})) \cup cut
    /\ UNCHANGED restarts

LEMMA ArrivalIs ==
    ASSUME SessionsAreReal, NEW s \in Session, NEW n \in Media \cup {NoMedia}, NEW f, NEW cut \in SUBSET {s},
           Arrival(s, Evicted(s), n, f, cut)
    PROVE  /\ SessionsAreReal'
           /\ manifest' = [t \in Session |-> manifest'[t]]
           /\ manifest'[s] = n /\ chunks'[s] = f /\ (s \in unpruned' <=> cut # {})
           /\ \A t \in Evicted(s) : manifest'[t] = NoMedia /\ chunks'[t] = NoChunks /\ t \notin unpruned'
           /\ \A t \in Session : t \notin Evicted(s) /\ t # s =>
                /\ manifest'[t] = manifest[t] /\ chunks'[t] = chunks[t]
                /\ t \in unpruned' <=> t \in unpruned
<1> DEFINE gone == Evicted(s)
<1>1. gone \in SUBSET (Session \ {s})
    BY EvictionSpares
<1> HIDE DEF gone
<1>2. manifest' = [t \in Session |-> CASE t = s -> n [] t \in gone -> NoMedia [] OTHER -> manifest[t]]
    BY DEF Arrival, After, gone
<1>3. chunks' = [t \in Session |-> CASE t = s -> f [] t \in gone -> NoChunks [] OTHER -> chunks[t]]
    BY DEF Arrival, After, gone
<1>4. \A t \in Session : /\ t = s => manifest'[t] = n
                         /\ t \in gone => manifest'[t] = NoMedia
                         /\ t \notin gone /\ t # s => manifest'[t] = manifest[t]
    BY <1>1, <1>2
<1>5. \A t \in Session : /\ t = s => chunks'[t] = f
                         /\ t \in gone => chunks'[t] = NoChunks
                         /\ t \notin gone /\ t # s => chunks'[t] = chunks[t]
    BY <1>1, <1>3
<1>6. manifest' = [t \in Session |-> manifest'[t]] /\ DOMAIN chunks' = Session
    BY <1>2, <1>3
<1>7. unpruned' = (unpruned \ (gone \cup {s})) \cup cut /\ live' = (live \ gone) \cup {s}
    BY DEF Arrival, gone
<1>8. live' \subseteq Session /\ unpruned' \subseteq live'
    BY <1>7 DEF SessionsAreReal
<1>9. \A t \in Session : manifest'[t] \in Media \cup {NoMedia}
    BY <1>4 DEF SessionsAreReal
<1>10. SessionsAreReal'
    BY <1>6, <1>8, <1>9 DEF SessionsAreReal
<1>11. /\ s \in unpruned' <=> cut # {}
       /\ \A t \in gone : t \notin unpruned'
       /\ \A t \in Session : t \notin gone /\ t # s => (t \in unpruned' <=> t \in unpruned)
    BY <1>1, <1>7
<1> QED BY <1>1, <1>4, <1>5, <1>6, <1>10, <1>11 DEF gone

\* A session's chunks fit a manifest.
Match(f, n) == n # NoMedia => \A c \in DOMAIN f : c \in Chunks(n) /\ f[c] = n

\* A droplet finds the chunks there are, or all but its own, which is another's.
LEMMA KeptIs ==
    ASSUME NEW s \in Session, NEW c
    PROVE  /\ DOMAIN Kept(s, c) \subseteq DOMAIN chunks[s] /\ DOMAIN chunks[s] \subseteq DOMAIN Kept(s, c) \cup {c}
           /\ \A d \in DOMAIN Kept(s, c) : Kept(s, c)[d] = chunks[s][d]
           /\ \/ Kept(s, c) = chunks[s]
              \/ c \in DOMAIN chunks[s] /\ c \notin DOMAIN Kept(s, c) /\ ~Verified(s, chunks[s][c])
BY DEF Kept, Forget

\* What a droplet makes of its session.
LEMMA DropletCases ==
    ASSUME NEW s \in Session, NEW m \in Media, NEW c \in Chunks(m), NEW i,
           NEW o \in AfterDroplet(s, m, c, i)
    PROVE  LET k    == Symbols[m][c]
               me   == [meta[s] EXCEPT ![c] = k]
               b    == Put(buffer[s][c], i, m)
               kept == Kept(s, c)
           IN  \/ o = Part(meta[s], buffer[s], chunks[s])
               \/ o = Part(me, buffer[s], kept) /\ c \notin DOMAIN kept
               \/ /\ o = Part(me, [buffer[s] EXCEPT ![c] = b], kept) /\ c \notin DOMAIN kept
                  /\ ~(Cardinality(DOMAIN buffer[s][c]) >= MaxDroplets)
               \/ \E x \in Decoded(b, k) :
                     /\ o = Part(me, [buffer[s] EXCEPT ![c] = NoBuffer], Put(kept, c, x))
                     /\ c \notin DOMAIN kept /\ x # NoMedia /\ Verified(s, x)
<1>1. PICK kept : kept = Kept(s, c)
    OBVIOUS
<1>2. c \in DOMAIN kept => kept = chunks[s]
    BY <1>1, KeptIs
<1> QED BY <1>1, <1>2 DEF AfterDroplet, Undecodable

\* What becomes of the session's chunks: the same, fewer by one that was not the
\* manifest's, or that and one more that is.
LEMMA DropletChunks ==
    ASSUME NEW s \in Session, NEW m \in Media, NEW c \in Chunks(m), NEW i,
           NEW o \in AfterDroplet(s, m, c, i)
    PROVE  \/ o.chunks = chunks[s]
           \/ o.chunks = Kept(s, c) /\ c \notin DOMAIN Kept(s, c)
           \/ /\ c \notin DOMAIN Kept(s, c)
              /\ \E x : o.chunks = Put(Kept(s, c), c, x) /\ Verified(s, x)
BY DropletCases DEF Part

\* The chunks go on fitting the manifest, and those that are the manifest's stay
\* or become one more.
LEMMA DropletAdds ==
    ASSUME NEW s \in Session, NEW m \in Media, NEW c \in Chunks(m), NEW i,
           Admitted(s, m, c), NEW o \in AfterDroplet(s, m, c, i)
    PROVE  /\ Match(chunks[s], manifest[s]) => Match(o.chunks, manifest[s])
           /\ \/ Own(o.chunks, manifest[s]) = Own(chunks[s], manifest[s])
              \/ /\ Own(o.chunks, manifest[s]) = Own(chunks[s], manifest[s]) \cup {c}
                 /\ manifest[s] # NoMedia /\ c \in Chunks(manifest[s]) /\ c \notin Own(chunks[s], manifest[s])
<1>1. CASE manifest[s] = NoMedia
    BY <1>1 DEF Match, Own
<1>2. CASE manifest[s] # NoMedia
    <2>1. PICK n : n = manifest[s] /\ n # NoMedia
        BY <1>2
    <2>2. PICK kept : kept = Kept(s, c)
        OBVIOUS
    <2>3. c \in Chunks(n)
        BY <1>2, <2>1 DEF Admitted
    <2>4. /\ DOMAIN kept \subseteq DOMAIN chunks[s] /\ DOMAIN chunks[s] \subseteq DOMAIN kept \cup {c}
          /\ \A d \in DOMAIN kept : kept[d] = chunks[s][d]
          /\ c \in DOMAIN chunks[s] /\ c \notin DOMAIN kept => chunks[s][c] # n
        BY <2>1, <2>2, KeptIs DEF Verified
    <2>5. Own(kept, n) = Own(chunks[s], n) /\ (Match(chunks[s], n) => Match(kept, n))
        BY <2>4 DEF Own, Match
    <2>6. CASE o.chunks = chunks[s] \/ o.chunks = kept
        BY <2>1, <2>5, <2>6
    <2>7. ASSUME c \notin DOMAIN kept, NEW x, o.chunks = Put(kept, c, x), Verified(s, x)
          PROVE  /\ Match(chunks[s], n) => Match(o.chunks, n)
                 /\ Own(o.chunks, n) = Own(chunks[s], n) \cup {c} /\ c \notin Own(chunks[s], n)
        <3>1. x = n
            BY <2>1, <2>7 DEF Verified
        <3>2. /\ DOMAIN o.chunks = DOMAIN kept \cup {c} /\ o.chunks[c] = n
              /\ \A d \in DOMAIN kept : o.chunks[d] = kept[d]
            BY <2>7, <3>1 DEF Put
        <3>3. Match(chunks[s], n) => Match(o.chunks, n)
            BY <2>3, <2>5, <3>2 DEF Match
        <3>4. Own(o.chunks, n) = Own(kept, n) \cup {c} /\ c \notin Own(kept, n)
            BY <2>1, <2>3, <2>7, <3>2 DEF Own
        <3> QED BY <2>5, <3>3, <3>4
    <2> QED BY <1>2, <2>1, <2>2, <2>3, <2>6, <2>7, DropletChunks
<1> QED BY <1>1, <1>2

LEMMA PruningFits ==
    ASSUME NEW s \in Session, NEW m \in Media
    PROVE  /\ Match(Pruned(s, m).chunks, m)
           /\ DOMAIN Pruned(s, m).chunks = {c \in DOMAIN chunks[s] : c \in Chunks(m) /\ chunks[s][c] = m}
BY DEF Pruned, Part, Match

-----------------------------------------------------------------------------
(* The invariant. *)

LEMMA InvariantIs ==
    ReceiverInv <=> SessionsAreReal /\ \A s \in Session : s \notin unpruned => Match(chunks[s], manifest[s])
BY DEF ReceiverInv, ChunksMatchManifest, Match

LEMMA MediaAreNone == \A m \in Media : m # NoMedia
BY ReceiverAssumption DEF Contents

\* What the actions of the receiver do to the manifests and the chunks.
ResetStep(gone) ==
    /\ live' = live \ gone /\ unpruned' = unpruned \ gone
    /\ manifest' = [t \in Session |-> IF t \in gone THEN NoMedia ELSE manifest[t]]
    /\ chunks' = [t \in Session |-> IF t \in gone THEN NoChunks ELSE chunks[t]]
    /\ UNCHANGED restarts
RestartStep ==
    /\ live' = Restored /\ unpruned' = {} /\ manifest' = [s \in Session |-> RestoredMedia(s)]
    /\ chunks' = [s \in Session |-> [c \in RestoredChunks(s) |-> RestoredMedia(s)]]
    /\ restarts' = restarts + 1

\* What a manifest leaves of its session's chunks.
Registered(s, m, f, cut) ==
    \/ cut = {} /\ f = Pruned(s, m).chunks
    \/ cut = {s} /\ f = chunks[s]

LEMMA StepsAre ==
    ASSUME SessionsAreReal, Next
    PROVE  \/ \E s \in Session, m \in Media : \E c \in Chunks(m) : \E i :
                /\ Admitted(s, m, c)
                /\ \E o \in AfterDroplet(s, m, c, i) :
                      Arrival(s, Evicted(s), manifest[s], o.chunks, unpruned \cap {s})
           \/ \E s \in Session, m \in Media : \E f : \E cut \in SUBSET {s} :
                Registered(s, m, f, cut) /\ Arrival(s, Evicted(s), m, f, cut)
           \/ \E s \in Session, m \in Media : Misjudge(s, m)
           \/ \E gone \in SUBSET Session : ResetStep(gone)
           \/ UNCHANGED <<live, manifest, chunks, unpruned, restarts>>
           \/ RestartStep
<1> USE ReceiverAssumption
<1>1. CASE \E sm \in Carries : \E c \in Chunks(sm[2]) : \E i \in Seeds[sm[2]][c] :
             IngestPacket(sm[1], sm[2], c, i)
    <2>1. PICK sm \in Carries : \E c \in Chunks(sm[2]) : \E i \in Seeds[sm[2]][c] :
             IngestPacket(sm[1], sm[2], c, i)
        BY <1>1
    <2>2. PICK s \in Session, m \in Media : s = sm[1] /\ m = sm[2]
        OBVIOUS
    <2>3. PICK c \in Chunks(m) : \E i \in Seeds[m][c] : IngestPacket(s, m, c, i)
        BY <2>1, <2>2
    <2>4. PICK i \in Seeds[m][c] : IngestPacket(s, m, c, i)
        BY <2>3
    <2>5. unpruned \ Evicted(s) = (unpruned \ (Evicted(s) \cup {s})) \cup (unpruned \cap {s})
        BY EvictionSpares
    <2>6. PICK o \in AfterDroplet(s, m, c, i) :
             /\ live' = (live \ Evicted(s)) \cup {s}
             /\ manifest' = After(manifest, Evicted(s), NoMedia, s, manifest[s])
             /\ chunks' = After(chunks, Evicted(s), NoChunks, s, o.chunks)
             /\ unpruned' = unpruned \ Evicted(s)
        BY <2>4, Zenon DEF IngestPacket
    <2>7. Admitted(s, m, c) /\ UNCHANGED restarts
        BY <2>4 DEF IngestPacket
    <2>8. Arrival(s, Evicted(s), manifest[s], o.chunks, unpruned \cap {s})
        BY <2>5, <2>6, <2>7 DEF Arrival
    <2> QED BY <2>7, <2>8
<1>2. CASE \E sm \in Carries : IngestManifest(sm[1], sm[2]) \/ Misjudge(sm[1], sm[2])
    <2>1. PICK s \in Session, m \in Media : IngestManifest(s, m) \/ Misjudge(s, m)
        BY <1>2
    <2>2. ASSUME IngestManifest(s, m)
          PROVE  \E f : \E cut \in SUBSET {s} : Registered(s, m, f, cut) /\ Arrival(s, Evicted(s), m, f, cut)
        <3>1. PICK write \in ManifestWrites(s) :
                 /\ live' = (live \ Evicted(s)) \cup {s}
                 /\ manifest' = After(manifest, Evicted(s), NoMedia, s, m)
                 /\ chunks' = After(chunks, Evicted(s), NoChunks, s, AfterManifest(s, m, write).chunks)
                 /\ unpruned' = (unpruned \ (Evicted(s) \cup {s})) \cup {t \in {s} : CutShort(write)}
            BY <2>2, Zenon DEF IngestManifest
        <3>2. PICK cut \in SUBSET {s} : cut = {t \in {s} : CutShort(write)}
            OBVIOUS
        <3>2a. (CutShort(write) => cut = {s}) /\ (~CutShort(write) => cut = {})
            BY <3>2
        <3>3. PICK f : f = AfterManifest(s, m, write).chunks
            OBVIOUS
        <3>4. Registered(s, m, f, cut)
            <4>1. CASE CutShort(write)
                <5>1. f = chunks[s]
                    BY <3>3, <4>1 DEF AfterManifest, Part
                <5> QED BY <3>2a, <4>1, <5>1, Zenon DEF Registered
            <4>2. CASE ~CutShort(write)
                <5>1. f = Pruned(s, m).chunks
                    BY <3>3, <4>2 DEF AfterManifest
                <5> QED BY <3>2a, <4>2, <5>1, Zenon DEF Registered
            <4> QED BY <4>1, <4>2
        <3>5. UNCHANGED restarts
            BY <2>2 DEF IngestManifest
        <3>6. chunks' = After(chunks, Evicted(s), NoChunks, s, f)
            BY <3>1, <3>3
        <3>7. unpruned' = (unpruned \ (Evicted(s) \cup {s})) \cup cut
            BY <3>1, <3>2, Zenon
        <3>8. Arrival(s, Evicted(s), m, f, cut)
            BY <3>1, <3>5, <3>6, <3>7, Zenon DEF Arrival
        <3> QED BY <3>4, <3>8
    <2> QED BY <2>1, <2>2
<1>3. CASE (\E s \in Session : ResetOne(s)) \/ ResetAll
    <2>1. PICK gone \in SUBSET Session : Reset(gone)
        BY <1>3 DEF ResetOne, ResetAll
    <2>2. ResetStep(gone)
        BY <2>1 DEF Reset, ResetStep
    <2> QED BY <2>2
<1>4. CASE TimePasses
    BY <1>4 DEF TimePasses, memory
<1>5. CASE Restart
    BY <1>5 DEF Restart, RestartStep
<1> QED BY <1>1, <1>2, <1>3, <1>4, <1>5 DEF Next

\* Chunks restored from disk belong to the manifest found there.
LEMMA RestoredFits == \A s \in Session : /\ RestoredMedia(s) \in Media \cup {NoMedia}
                                         /\ RestoredMedia(s) = NoMedia => RestoredChunks(s) = {}
                                         /\ RestoredMedia(s) # NoMedia => RestoredChunks(s) \subseteq Chunks(RestoredMedia(s))
<1> SUFFICES ASSUME NEW s \in Session
             PROVE  /\ RestoredMedia(s) \in Media \cup {NoMedia}
                    /\ RestoredMedia(s) = NoMedia => RestoredChunks(s) = {}
                    /\ RestoredMedia(s) # NoMedia => RestoredChunks(s) \subseteq Chunks(RestoredMedia(s))
    OBVIOUS
<1>1. CASE s \in Restored
    <2>1. \E m \in Media : m \in Saved(s)
        BY <1>1 DEF Restored, Fresh, Saved
    <2>2. RestoredMedia(s) \in Media
        BY <1>1, <2>1 DEF RestoredMedia
    <2> QED BY <1>1, <2>2, MediaAreNone DEF RestoredChunks
<1>2. CASE s \notin Restored
    BY <1>2 DEF RestoredMedia, RestoredChunks
<1> QED BY <1>1, <1>2

\* The session that gets chunks gets some that fit; the others keep theirs.
LEMMA ArrivalKeeps ==
    ASSUME ReceiverInv, NEW s \in Session, NEW n \in Media \cup {NoMedia}, NEW f, NEW cut \in SUBSET {s},
           cut # {} \/ Match(f, n), Arrival(s, Evicted(s), n, f, cut)
    PROVE  ReceiverInv'
<1>1. SessionsAreReal'
    BY ArrivalIs DEF ReceiverInv
<1>2. ASSUME NEW t \in Session, t \notin unpruned' PROVE Match(chunks'[t], manifest'[t])
    <2>1. CASE t = s
        BY <1>2, <2>1, ArrivalIs DEF ReceiverInv
    <2>2. CASE t \in Evicted(s)
        BY <2>2, ArrivalIs DEF ReceiverInv, Match
    <2>3. CASE t \notin Evicted(s) /\ t # s
        BY <1>2, <2>3, ArrivalIs, InvariantIs DEF ReceiverInv
    <2> QED BY <2>1, <2>2, <2>3
<1> QED BY <1>1, <1>2 DEF ReceiverInv, ChunksMatchManifest, Match

LEMMA ReceiverStep ==
    ASSUME ReceiverInv, Next
    PROVE  ReceiverInv'
<1> USE DEF ReceiverInv
<1>1. ASSUME NEW s \in Session, NEW m \in Media, NEW c \in Chunks(m), NEW i, Admitted(s, m, c),
             NEW o \in AfterDroplet(s, m, c, i),
             Arrival(s, Evicted(s), manifest[s], o.chunks, unpruned \cap {s})
      PROVE  ReceiverInv'
    <2>1. unpruned \cap {s} # {} \/ Match(o.chunks, manifest[s])
        BY <1>1, InvariantIs, DropletAdds
    <2>2. manifest[s] \in Media \cup {NoMedia}
        BY DEF SessionsAreReal
    <2>3. PICK cut \in SUBSET {s} : cut = unpruned \cap {s}
        OBVIOUS
    <2>4. PICK f : f = o.chunks
        OBVIOUS
    <2>5. PICK n \in Media \cup {NoMedia} : n = manifest[s]
        BY <2>2
    <2>6. Arrival(s, Evicted(s), n, f, cut)
        BY <1>1, <2>3, <2>4, <2>5
    <2>7. cut # {} \/ Match(f, n)
        BY <2>1, <2>3, <2>4, <2>5
    <2> HIDE DEF ReceiverInv
    <2> QED BY <2>6, <2>7, ArrivalKeeps
<1>2. ASSUME NEW s \in Session, NEW m \in Media, NEW f, NEW cut \in SUBSET {s},
             Registered(s, m, f, cut), Arrival(s, Evicted(s), m, f, cut)
      PROVE  ReceiverInv'
    BY <1>2, PruningFits, ArrivalKeeps DEF Registered
<1>3. ASSUME NEW s \in Session, NEW m \in Media, Misjudge(s, m) PROVE ReceiverInv'
    <2>1. PICK c : chunks' = [chunks EXCEPT ![s] = Forget(@, c)]
        BY <1>3 DEF Misjudge
    <2>2. UNCHANGED <<live, manifest, unpruned>>
        BY <1>3 DEF Misjudge
    <2>3. SessionsAreReal'
        BY <2>1, <2>2 DEF SessionsAreReal
    <2>4. \A t \in Session : t \notin unpruned' => Match(chunks'[t], manifest'[t])
        BY <2>1, <2>2, InvariantIs DEF SessionsAreReal, Match, Forget
    <2> QED BY <2>3, <2>4 DEF ChunksMatchManifest, Match
<1>4. ASSUME NEW gone \in SUBSET Session, ResetStep(gone) PROVE ReceiverInv'
    BY <1>4, MediaAreNone DEF ResetStep, SessionsAreReal, ChunksMatchManifest
<1>5. CASE UNCHANGED <<live, manifest, chunks, unpruned, restarts>>
    BY <1>5 DEF SessionsAreReal, ChunksMatchManifest
<1>6. CASE RestartStep
    <2>1. Restored \subseteq Session
        BY DEF Restored, Fresh
    <2>2. SessionsAreReal'
        BY <1>6, <2>1, RestoredFits DEF RestartStep, SessionsAreReal
    <2>3. ChunksMatchManifest'
        BY <1>6, RestoredFits DEF RestartStep, ChunksMatchManifest
    <2> QED BY <2>2, <2>3
<1> QED BY <1>1, <1>2, <1>3, <1>4, <1>5, <1>6, StepsAre

LEMMA ReceiverInitial == Init => ReceiverInv
BY DEF Init, ReceiverInv, SessionsAreReal, ChunksMatchManifest

\* Whatever packets and manifests arrive, are evicted, lost and restored: the
\* receiver's sessions satisfy its inductive invariant.
THEOREM ReceiverInvariance == Spec => []ReceiverInv
<1>1. ReceiverInv /\ UNCHANGED vars => ReceiverInv'
    BY DEF ReceiverInv, SessionsAreReal, ChunksMatchManifest, vars, memory
<1> QED BY <1>1, ReceiverInitial, ReceiverStep, PTL DEF Spec

\* A session with a manifest holds only chunks of that media with its hash,
\* whether they were rebuilt before or after the manifest came or read back from
\* disk (ingest_packet, ingest_manifest's pruning, _load_checkpoints), unless its
\* pruning was cut short by what writing the manifest's file raised.
THEOREM ChunksAlwaysMatch == Spec => []ChunksMatchManifest
<1>1. ReceiverInv => ChunksMatchManifest
    BY DEF ReceiverInv
<1> QED BY <1>1, ReceiverInvariance, PTL

-----------------------------------------------------------------------------
(* Every step of the receiver is one of the collector, or none. *)

LEMMA PacketCollects ==
    ASSUME ReceiverInv, NEW s \in Session, NEW m \in Media, NEW c \in Chunks(m), NEW i,
           Admitted(s, m, c), NEW o \in AfterDroplet(s, m, c, i),
           Arrival(s, Evicted(s), manifest[s], o.chunks, unpruned \cap {s})
    PROVE  C!Collect(s, c) \/ C!Drop
<1> DEFINE gone == Evicted(s)
<1>1. gone \in SUBSET (Session \ {s})
    BY EvictionSpares DEF ReceiverInv
<1>2. /\ manifest' = [t \in Session |-> manifest'[t]]
      /\ manifest'[s] = manifest[s] /\ chunks'[s] = o.chunks
      /\ \A t \in gone : manifest'[t] = NoMedia
      /\ \A t \in Session : t \notin gone /\ t # s =>
           manifest'[t] = manifest[t] /\ chunks'[t] = chunks[t]
    <2>1. manifest[s] \in Media \cup {NoMedia}
        BY DEF ReceiverInv, SessionsAreReal
    <2>2. PICK cut \in SUBSET {s} : cut = unpruned \cap {s}
        OBVIOUS
    <2>3. PICK f : f = o.chunks
        OBVIOUS
    <2>4. PICK n \in Media \cup {NoMedia} : n = manifest[s]
        BY <2>1
    <2>5. Arrival(s, Evicted(s), n, f, cut)
        BY <2>2, <2>3, <2>4
    <2> QED BY <2>3, <2>4, <2>5, ArrivalIs DEF ReceiverInv
<1> HIDE DEF gone
<1>3. manifest' = [t \in Session |-> IF t \in gone THEN NoMedia ELSE manifest[t]]
    BY <1>1, <1>2
<1>4. Have' = [t \in Session |-> Own(chunks'[t], manifest'[t])]
    BY DEF Have
<1>5. \A t \in Session : t # s => Have'[t] = IF t \in gone THEN {} ELSE Have[t]
    BY <1>2, <1>4 DEF Have, Own
<1>6. UNCHANGED restarts
    BY DEF Arrival
<1>7. Have[s] = Own(chunks[s], manifest[s]) /\ Have'[s] = Own(o.chunks, manifest[s])
    BY <1>2, <1>4 DEF Have
<1>8. ASSUME Have'[s] = Have[s] \cup {c}, manifest[s] # NoMedia, c \in Chunks(manifest[s]), c \notin Have[s]
      PROVE  C!Collect(s, c)
    <2>1. c \in C!Chunks(manifest[s]) \ Have[s]
        BY <1>8 DEF Chunks, C!Chunks
    <2>2. Have' = [t \in Session |-> CASE t = s -> Have[s] \cup {c}
                                       [] t \in gone -> {}
                                       [] OTHER -> Have[t]]
        BY <1>1, <1>4, <1>5, <1>8
    <2> QED BY <1>1, <1>3, <1>6, <1>8, <2>1, <2>2 DEF C!Collect
<1>9. ASSUME Have'[s] = Have[s] PROVE C!Drop
    <2>1. Have' = [t \in Session |-> IF t \in gone THEN {} ELSE Have[t]]
        BY <1>1, <1>4, <1>5, <1>9
    <2>2. C!Without(gone)
        BY <1>3, <1>6, <2>1 DEF C!Without
    <2> QED BY <1>1, <2>2 DEF C!Drop
<1> QED BY <1>7, <1>8, <1>9, DropletAdds

LEMMA ManifestRegisters ==
    ASSUME ReceiverInv, NEW s \in Session, NEW m \in Media, NEW f, NEW cut \in SUBSET {s},
           Registered(s, m, f, cut), Arrival(s, Evicted(s), m, f, cut)
    PROVE  C!Register(s, m)
<1> DEFINE gone  == Evicted(s)
           early == Own(chunks[s], m)
<1>1. gone \in SUBSET (Session \ {s})
    BY EvictionSpares DEF ReceiverInv
<1>2. /\ manifest' = [t \in Session |-> manifest'[t]]
      /\ manifest'[s] = m /\ chunks'[s] = f
      /\ \A t \in gone : manifest'[t] = NoMedia
      /\ \A t \in Session : t \notin gone /\ t # s =>
           manifest'[t] = manifest[t] /\ chunks'[t] = chunks[t]
    BY ArrivalIs DEF ReceiverInv
<1>3. m # NoMedia
    BY MediaAreNone
<1>4. Own(f, m) = early
    <2>1. CASE f = chunks[s]
        BY <2>1
    <2>2. CASE f = Pruned(s, m).chunks
        BY <1>3, <2>2, PruningFits DEF Own, Match
    <2> QED BY <2>1, <2>2 DEF Registered
<1>5. early \in SUBSET C!Chunks(m)
    BY DEF Own, Chunks, C!Chunks
<1>6. manifest[s] = m => early = Have[s]
    BY DEF Have
<1> HIDE DEF gone, early
<1>7. manifest' = [t \in Session |-> CASE t = s -> m
                                       [] t \in gone -> NoMedia
                                       [] OTHER -> manifest[t]]
    BY <1>1, <1>2
<1>8. Have' = [t \in Session |-> CASE t = s -> IF manifest[s] = m THEN Have[s] ELSE early
                                   [] t \in gone -> {}
                                   [] OTHER -> Have[t]]
    <2>1. Have' = [t \in Session |-> Own(chunks'[t], manifest'[t])]
        BY DEF Have
    <2>2. Have'[s] = early
        BY <1>2, <1>4, <2>1
    <2>3. \A t \in Session : t # s => Have'[t] = IF t \in gone THEN {} ELSE Have[t]
        BY <1>2, <2>1 DEF Have, Own
    <2> QED BY <1>1, <1>6, <2>1, <2>2, <2>3
<1>9. UNCHANGED restarts
    BY DEF Arrival
<1> QED BY <1>1, <1>5, <1>7, <1>8, <1>9 DEF C!Register

LEMMA MisjudgedLosesOne ==
    ASSUME ReceiverInv, NEW s \in Session, NEW m \in Media, Misjudge(s, m)
    PROVE  C!Misjudge(s) \/ UNCHANGED C!vars
<1>1. PICK c \in DOMAIN chunks[s] : chunks' = [chunks EXCEPT ![s] = Forget(@, c)]
    BY DEF Misjudge
<1>2. manifest[s] # NoMedia /\ UNCHANGED <<manifest, restarts>>
    BY DEF Misjudge
<1>3. DOMAIN chunks = Session
    BY DEF ReceiverInv, SessionsAreReal
<1>4. Have' = [t \in Session |-> Own(chunks'[t], manifest[t])]
    BY <1>2 DEF Have
<1>5. /\ chunks'[s] = Forget(chunks[s], c)
      /\ \A t \in Session \ {s} : chunks'[t] = chunks[t]
    BY <1>1, <1>3
<1>6. Own(chunks'[s], manifest[s]) = Own(chunks[s], manifest[s]) \ {c}
    BY <1>5 DEF Own, Forget
<1>7. Have' = [Have EXCEPT ![s] = @ \ {c}]
    BY <1>4, <1>5, <1>6 DEF Have
<1>8. CASE c \in Have[s]
    BY <1>2, <1>7, <1>8 DEF C!Misjudge
<1>9. CASE c \notin Have[s]
    <2>1. \A t \in Session : Have'[t] = Have[t]
        BY <1>4, <1>5, <1>6, <1>9 DEF Have
    <2>2. Have = [t \in Session |-> Have[t]] /\ Have' = [t \in Session |-> Have'[t]]
        BY DEF Have
    <2>3. Have' = Have
        BY <2>1, <2>2
    <2> QED BY <1>2, <2>3 DEF C!vars
<1> QED BY <1>8, <1>9

LEMMA ResetDrops ==
    ASSUME NEW gone \in SUBSET Session, ResetStep(gone)
    PROVE  C!Drop
<1>1. manifest' = [t \in Session |-> IF t \in gone THEN NoMedia ELSE manifest[t]]
    BY DEF ResetStep
<1>2. Have' = [t \in Session |-> IF t \in gone THEN {} ELSE Have[t]]
    BY <1>1 DEF ResetStep, Have, Own
<1>3. C!Without(gone)
    BY <1>1, <1>2 DEF C!Without, ResetStep
<1> QED BY <1>3 DEF C!Drop

LEMMA RestartRestarts ==
    ASSUME RestartStep
    PROVE  C!Restart
<1>1. manifest' \in [Session -> Media \cup {NoMedia}]
    BY RestoredFits DEF RestartStep
<1>2. \A s \in Session :
         IF manifest'[s] = NoMedia THEN Have'[s] = {} ELSE Have'[s] \subseteq C!Chunks(manifest'[s])
    BY RestoredFits DEF RestartStep, Have, Own, Chunks, C!Chunks
<1> QED BY <1>1, <1>2 DEF RestartStep, C!Restart

\* FountainStreamReceiver keeps what it promises its callers, per session: chunks
\* are added one at a time and only of the registered media, and are lost only
\* with their whole session, at a restart or by a query for another media.
THEOREM ReceiverImplementsCollector == Spec => ImplementsCollector
<1>1. Init => C!CollectorInit
    BY DEF Init, C!CollectorInit, Have, Own
<1>2. ReceiverInv /\ [Next]_vars => [C!CollectorNext]_(C!vars)
    <2> SUFFICES ASSUME ReceiverInv, [Next]_vars PROVE C!CollectorNext \/ UNCHANGED C!vars
        OBVIOUS
    <2>1. CASE UNCHANGED <<manifest, chunks, restarts>>
        BY <2>1 DEF C!vars, Have
    <2>2. ASSUME NEW s \in Session, NEW m \in Media, NEW c \in Chunks(m), NEW i,
                 Admitted(s, m, c), NEW o \in AfterDroplet(s, m, c, i),
                 Arrival(s, Evicted(s), manifest[s], o.chunks, unpruned \cap {s})
          PROVE  C!CollectorNext
        <3>1. c \in UNION {C!Chunks(n) : n \in Media}
            BY DEF Chunks, C!Chunks
        <3> QED BY <2>2, <3>1, PacketCollects DEF C!CollectorNext
    <2>3. ASSUME NEW s \in Session, NEW m \in Media, NEW f, NEW cut \in SUBSET {s},
                 Registered(s, m, f, cut), Arrival(s, Evicted(s), m, f, cut)
          PROVE  C!CollectorNext
        BY <2>3, ManifestRegisters DEF C!CollectorNext
    <2>7. ASSUME NEW s \in Session, NEW m \in Media, Misjudge(s, m)
          PROVE  C!CollectorNext \/ UNCHANGED C!vars
        BY <2>7, MisjudgedLosesOne DEF C!CollectorNext
    <2>4. ASSUME NEW gone \in SUBSET Session, ResetStep(gone) PROVE C!CollectorNext
        BY <2>4, ResetDrops DEF C!CollectorNext
    <2>5. CASE RestartStep
        BY <2>5, RestartRestarts DEF C!CollectorNext
    <2>6. CASE UNCHANGED vars
        BY <2>1, <2>6 DEF vars, memory
    <2> QED BY <2>1, <2>2, <2>3, <2>4, <2>5, <2>6, <2>7, StepsAre DEF ReceiverInv
<1> QED BY <1>1, <1>2, ReceiverInvariance, PTL DEF Spec, ImplementsCollector, C!Collector

-----------------------------------------------------------------------------
(* Time. *)

Mark == {"used", "dir"} \X Session

\* order is a strict total order of the marks in known.
IsOrder(known, order) ==
    /\ order \subseteq known \X known
    /\ \A x \in known : <<x, x>> \notin order
    /\ \A x, y, z \in known : <<x, y>> \in order /\ <<y, z>> \in order => <<x, z>> \in order
    /\ \A x, y \in known : x = y \/ <<x, y>> \in order \/ <<y, x>> \in order

ClockInv ==
    /\ marks \subseteq Mark /\ IsFiniteSet(marks) /\ expired \subseteq marks
    /\ IsOrder(marks, earlier)

\* Marks that are touched once each become the newest, in turn.
LEMMA AdvanceKeepsClock ==
    ASSUME ClockInv, NEW gone, NEW touched \in Seq(Mark), Advance(gone, touched),
           \A i, j \in 1..Len(touched) : touched[i] = touched[j] => i = j
    PROVE  /\ ClockInv' /\ marks' = (marks \ gone) \cup ToSet(touched)
           /\ \A x \in marks' : \A y \in ToSet(touched) : x \notin ToSet(touched) => <<x, y>> \in earlier'
           /\ \A i, j \in 1..Len(touched) : i < j => <<touched[i], touched[j]>> \in earlier'
<1> DEFINE now == ToSet(touched)
           stays == marks \ (gone \cup now)
<1>1. now = {touched[i] : i \in 1..Len(touched)} /\ now \subseteq Mark
    BY DEF ToSet
<1>2. PICK e : e = InTurn(touched)
    OBVIOUS
<1>3. /\ e \subseteq now \X now
      /\ \A i, j \in 1..Len(touched) : <<touched[i], touched[j]>> \in e <=> i < j
    <2>1. \A x : x \in e <=> /\ x \in now \X now
                             /\ \E i, j \in 1..Len(touched) : i < j /\ x = <<touched[i], touched[j]>>
        BY <1>2 DEF InTurn
    <2>2. e \subseteq now \X now
        BY <2>1
    <2>3. ASSUME NEW i \in 1..Len(touched), NEW j \in 1..Len(touched)
          PROVE  <<touched[i], touched[j]>> \in e <=> i < j
        <3>1. ASSUME i < j PROVE <<touched[i], touched[j]>> \in e
            BY <1>1, <2>1, <3>1
        <3>2. ASSUME <<touched[i], touched[j]>> \in e PROVE i < j
            <4>1. PICK a, b \in 1..Len(touched) : a < b /\ <<touched[i], touched[j]>> = <<touched[a], touched[b]>>
                BY <2>1, <3>2
            <4>2. a = i /\ b = j
                BY <4>1
            <4> QED BY <4>1, <4>2
        <3> QED BY <3>1, <3>2
    <2> QED BY <2>2, <2>3
<1>4. /\ marks' = stays \cup now /\ expired' = expired \cap stays
      /\ earlier' = (earlier \cap (stays \X stays)) \cup (stays \X now) \cup e
    BY <1>2 DEF Advance
<1>5. IsFiniteSet(now)
    <2>1. IsFiniteSet(1..Len(touched))
        BY FS_Interval
    <2> DEFINE f == [i \in 1..Len(touched) |-> touched[i]]
    <2>2. f = [i \in 1..Len(touched) |-> f[i]]
        OBVIOUS
    <2>3. now = {f[i] : i \in 1..Len(touched)}
        BY <1>1
    <2> HIDE DEF f, now
    <2> QED BY <2>1, <2>2, <2>3, FiniteImage
<1>6. \A x \in now : \E i \in 1..Len(touched) : x = touched[i]
    BY <1>1
<1>7. stays \cap now = {} /\ stays \subseteq marks
    OBVIOUS
<1> HIDE DEF now, stays
<1>8. \A x, y \in stays \cup now :
         <<x, y>> \in earlier' <=> \/ x \in stays /\ y \in stays /\ <<x, y>> \in earlier
                                   \/ x \in stays /\ y \in now
                                   \/ x \in now /\ y \in now /\ <<x, y>> \in e
    BY <1>3, <1>4, <1>7
<1>9. IsOrder(now, e)
    <2>1. \A x \in now : <<x, x>> \notin e
        <3> SUFFICES ASSUME NEW i \in 1..Len(touched) PROVE <<touched[i], touched[i]>> \notin e
            BY <1>6
        <3> QED BY <1>3
    <2>2. \A x, y, z \in now : <<x, y>> \in e /\ <<y, z>> \in e => <<x, z>> \in e
        <3> SUFFICES ASSUME NEW i \in 1..Len(touched), NEW j \in 1..Len(touched), NEW k \in 1..Len(touched),
                            <<touched[i], touched[j]>> \in e, <<touched[j], touched[k]>> \in e
                     PROVE  <<touched[i], touched[k]>> \in e
            BY <1>6
        <3>1. i < j /\ j < k
            BY <1>3
        <3>2. i < k
            BY <3>1
        <3> QED BY <1>3, <3>2
    <2>3. \A x, y \in now : x = y \/ <<x, y>> \in e \/ <<y, x>> \in e
        <3> SUFFICES ASSUME NEW i \in 1..Len(touched), NEW j \in 1..Len(touched), i # j
                     PROVE  <<touched[i], touched[j]>> \in e \/ <<touched[j], touched[i]>> \in e
            BY <1>6
        <3>1. i < j \/ j < i
            OBVIOUS
        <3> QED BY <1>3, <3>1
    <2> QED BY <1>3, <2>1, <2>2, <2>3 DEF IsOrder
<1>10. IsOrder(marks', earlier')
    <2>1. earlier' \subseteq marks' \X marks'
        BY <1>3, <1>4
    <2>2. \A x \in stays \cup now : <<x, x>> \notin earlier'
        BY <1>7, <1>8, <1>9 DEF IsOrder, ClockInv
    <2>3. ASSUME NEW x \in stays \cup now, NEW y \in stays \cup now, NEW z \in stays \cup now,
                 <<x, y>> \in earlier', <<y, z>> \in earlier'
          PROVE  <<x, z>> \in earlier'
        <3>1. CASE z \in stays
            <4>1. x \in stays /\ y \in stays /\ <<x, y>> \in earlier /\ <<y, z>> \in earlier
                BY <1>7, <1>8, <2>3, <3>1
            <4> QED BY <1>7, <1>8, <3>1, <4>1 DEF IsOrder, ClockInv
        <3>2. CASE z \in now /\ x \in stays
            BY <1>8, <3>2
        <3>3. CASE z \in now /\ x \in now
            <4>1. y \in now /\ <<x, y>> \in e /\ <<y, z>> \in e
                BY <1>7, <1>8, <2>3, <3>3
            <4> QED BY <1>8, <1>9, <3>3, <4>1 DEF IsOrder
        <3> QED BY <3>1, <3>2, <3>3
    <2>4. \A x, y \in stays \cup now : x = y \/ <<x, y>> \in earlier' \/ <<y, x>> \in earlier'
        BY <1>7, <1>8, <1>9 DEF IsOrder, ClockInv
    <2> QED BY <1>4, <2>1, <2>2, <2>3, <2>4 DEF IsOrder
<1>11. ClockInv'
    <2>1. marks' \subseteq Mark /\ expired' \subseteq marks'
        BY <1>1, <1>4, <1>7 DEF ClockInv, now
    <2>2. IsFiniteSet(stays)
        BY <1>7, FS_Subset DEF ClockInv
    <2>3. IsFiniteSet(marks')
        BY <1>4, <1>5, <2>2, FS_Union
    <2> QED BY <1>10, <2>1, <2>3 DEF ClockInv
<1>12. marks' = (marks \ gone) \cup now
    BY <1>4 DEF stays
<1>13. \A x \in marks' : \A y \in now : x \notin now => <<x, y>> \in earlier'
    BY <1>4
<1> QED BY <1>3, <1>4, <1>11, <1>12, <1>13 DEF now

-----------------------------------------------------------------------------
(* Which sessions are surplus. *)

\* One of a kind of marks of finitely many sessions is the first, and one the last.
LEMMA FirstSession ==
    ASSUME ClockInv, NEW kind \in {"used", "dir"}, NEW S \in SUBSET Session, IsFiniteSet(S), S # {},
           \A u \in S : <<kind, u>> \in marks
    PROVE  \E x \in S : \A u \in S \ {x} : Before(<<kind, x>>, <<kind, u>>)
<1> DEFINE R == {p \in S \X S : Before(<<kind, p[1]>>, <<kind, p[2]>>)}
<1>1. \A x, y \in S : <<x, y>> \in R <=> Before(<<kind, x>>, <<kind, y>>)
    OBVIOUS
<1>2. /\ \A x \in S : <<x, x>> \notin R
      /\ \A x, y, z \in S : <<x, y>> \in R /\ <<y, z>> \in R => <<x, z>> \in R
    BY <1>1 DEF ClockInv, IsOrder, Before
<1> HIDE DEF R
<1>3. PICK x \in S : \A y \in S : <<y, x>> \notin R
    BY <1>2, MinimalElement
<1>4. ASSUME NEW u \in S \ {x} PROVE Before(<<kind, x>>, <<kind, u>>)
    <2>1. ~Before(<<kind, u>>, <<kind, x>>) /\ <<kind, u>> # <<kind, x>>
        BY <1>1, <1>3
    <2> QED BY <2>1 DEF ClockInv, IsOrder, Before
<1> QED BY <1>4

LEMMA LastSession ==
    ASSUME ClockInv, NEW kind \in {"used", "dir"}, NEW S \in SUBSET Session, IsFiniteSet(S), S # {},
           \A u \in S : <<kind, u>> \in marks
    PROVE  \E x \in S : \A u \in S \ {x} : Before(<<kind, u>>, <<kind, x>>)
<1> DEFINE R == {p \in S \X S : Before(<<kind, p[2]>>, <<kind, p[1]>>)}
<1>1. \A x, y \in S : <<x, y>> \in R <=> Before(<<kind, y>>, <<kind, x>>)
    OBVIOUS
<1>2. /\ \A x \in S : <<x, x>> \notin R
      /\ \A x, y, z \in S : <<x, y>> \in R /\ <<y, z>> \in R => <<x, z>> \in R
    BY <1>1 DEF ClockInv, IsOrder, Before
<1> HIDE DEF R
<1>3. PICK x \in S : \A y \in S : <<y, x>> \notin R
    BY <1>2, MinimalElement
<1>4. ASSUME NEW u \in S \ {x} PROVE Before(<<kind, u>>, <<kind, x>>)
    <2>1. ~Before(<<kind, x>>, <<kind, u>>) /\ <<kind, u>> # <<kind, x>>
        BY <1>1, <1>3
    <2> QED BY <2>1 DEF ClockInv, IsOrder, Before
<1> QED BY <1>4

\* Without the surplus no more than limit are left.
LEMMA SurplusLeaves ==
    ASSUME ClockInv, NEW kind \in {"used", "dir"}, NEW S \in SUBSET Session, IsFiniteSet(S),
           \A u \in S : <<kind, u>> \in marks, NEW limit \in Nat
    PROVE  /\ IsFiniteSet(S \ Surplus(kind, S, limit))
           /\ Cardinality(S \ Surplus(kind, S, limit)) <= limit
<1> DEFINE Later(x) == {u \in S : Before(<<kind, x>>, <<kind, u>>)}
           K == {x \in S : ~(Cardinality(Later(x)) >= limit)}
<1>1. K = S \ Surplus(kind, S, limit)
    BY DEF Surplus
<1>2. IsFiniteSet(K) /\ K \subseteq S /\ \A u \in K : <<kind, u>> \in marks
    BY FS_Subset
<1> SUFFICES Cardinality(K) <= limit
    BY <1>1, <1>2
<1>3. CASE K = {}
    <2> HIDE DEF K
    <2> QED BY <1>3, FS_EmptySet
<1>4. CASE K # {}
    <2>1. PICK x \in K : \A u \in K \ {x} : Before(<<kind, x>>, <<kind, u>>)
        <3> HIDE DEF K
        <3> QED BY <1>2, <1>4, FirstSession
    <2>2. K \ {x} \subseteq Later(x) /\ IsFiniteSet(Later(x))
        BY <1>2, <2>1, FS_Subset
    <2>3. /\ Cardinality(K \ {x}) <= Cardinality(Later(x))
          /\ Cardinality(Later(x)) \in Nat /\ Cardinality(K \ {x}) \in Nat
        BY <2>2, FS_Subset, FS_CardinalityType
    <2>4. Cardinality(Later(x)) < limit
        BY <2>3
    <2>5. Cardinality(K \ {x}) = Cardinality(K) - 1 /\ Cardinality(K) \in Nat
        <3> HIDE DEF K
        <3> QED BY <1>2, FS_RemoveElement, FS_CardinalityType
    <2> QED BY <2>3, <2>4, <2>5
<1> QED BY <1>3, <1>4

\* A session that is not surplus is later than one that is.
LEMMA SurplusIsEarlier ==
    ASSUME ClockInv, NEW kind \in {"used", "dir"}, NEW S \in SUBSET Session, IsFiniteSet(S),
           \A u \in S : <<kind, u>> \in marks, NEW limit \in Nat,
           NEW x \in Surplus(kind, S, limit), NEW y \in S \ Surplus(kind, S, limit)
    PROVE  Before(<<kind, x>>, <<kind, y>>)
<1> DEFINE Later(z) == {u \in S : Before(<<kind, z>>, <<kind, u>>)}
<1>1. x \in S /\ Cardinality(Later(x)) >= limit /\ ~(Cardinality(Later(y)) >= limit) /\ x # y
    BY DEF Surplus
<1>2. ASSUME Before(<<kind, y>>, <<kind, x>>) PROVE FALSE
    <2>1. Later(x) \subseteq Later(y)
        BY <1>1, <1>2 DEF ClockInv, IsOrder, Before
    <2>2. IsFiniteSet(Later(y)) /\ IsFiniteSet(Later(x))
        BY FS_Subset
    <2>3. /\ Cardinality(Later(x)) <= Cardinality(Later(y))
          /\ Cardinality(Later(x)) \in Nat /\ Cardinality(Later(y)) \in Nat
        <3> HIDE DEF Later
        <3> QED BY <2>1, <2>2, FS_Subset, FS_CardinalityType
    <2> HIDE DEF Later
    <2> QED BY <1>1, <2>3
<1> QED BY <1>1, <1>2 DEF ClockInv, IsOrder, Before

-----------------------------------------------------------------------------
(* One session in memory: its chunk sizes, buffers and chunks. *)

\* The chunks that are begun or done.
Active(me, ch) == DOMAIN ch \cup {c \in Index : me[c] # 0}

Sound(me, bu, ch) ==
    /\ me \in [Index -> Nat] /\ DOMAIN bu = Index /\ DOMAIN ch \subseteq Index
    /\ \A c \in DOMAIN ch : ch[c] \in Contents
    /\ \A c \in Index : /\ IsFiniteSet(DOMAIN bu[c]) /\ Cardinality(DOMAIN bu[c]) <= MaxDroplets
                        /\ \A i \in DOMAIN bu[c] : bu[c][i] \in Media
                        /\ bu[c] # NoBuffer => me[c] # 0 /\ c \notin DOMAIN ch
    /\ IsFiniteSet(Active(me, ch)) /\ Cardinality(Active(me, ch)) <= MaxChunks

LEMMA NothingIsSound == Sound(NoMeta, Nothing, NoChunks)
<1>1. MaxDroplets \in Nat /\ MaxChunks \in Nat
    BY ReceiverAssumption
<1>2. NoMeta \in [Index -> Nat] /\ DOMAIN Nothing = Index /\ DOMAIN NoChunks = {} /\ DOMAIN NoBuffer = {}
    BY DEF NoMeta, Nothing, NoChunks, NoBuffer
<1>3. Active(NoMeta, NoChunks) = {}
    BY <1>2 DEF Active, NoMeta
<1>4. \A c \in Index : Nothing[c] = NoBuffer
    BY DEF Nothing
<1> QED BY <1>1, <1>2, <1>3, <1>4, FS_EmptySet DEF Sound

\* Chunk numbers and sizes.
LEMMA SizesAre ==
    ASSUME NEW m \in Media, NEW c \in Chunks(m)
    PROVE  c \in Index /\ Symbols[m][c] \in Nat /\ Symbols[m][c] # 0
BY ReceiverAssumption DEF Index

\* A part whose active chunks are among finitely many, few enough.
LEMMA StaysWithin ==
    ASSUME NEW A, IsFiniteSet(A), Cardinality(A) <= MaxChunks, NEW B \in SUBSET A
    PROVE  IsFiniteSet(B) /\ Cardinality(B) <= MaxChunks
<1>1. /\ IsFiniteSet(B) /\ Cardinality(B) <= Cardinality(A)
      /\ Cardinality(B) \in Nat /\ Cardinality(A) \in Nat /\ MaxChunks \in Nat
    BY FS_Subset, FS_CardinalityType, ReceiverAssumption
<1> QED BY <1>1

\* What droplets decode to, when they do, is a content.
LEMMA DecodedIs ==
    ASSUME NEW b, NEW k, \A i \in DOMAIN b : b[i] \in Media, NEW x \in Decoded(b, k), x # NoMedia
    PROVE  x \in Contents
<1> DEFINE sources(seeds) == {b[i] : i \in seeds}
<1>1. CASE 0..(k - 1) \subseteq DOMAIN b
    <2>1. x \in sources(0..(k - 1)) \/ x = Garbled
        BY <1>1, Zenon DEF Decoded
    <2> QED BY <1>1, <2>1 DEF Contents
<1>2. CASE ~(0..(k - 1) \subseteq DOMAIN b)
    <2>1. x \in sources(DOMAIN b) \/ x = Garbled \/ x \in Media
        BY <1>2 DEF Decoded
    <2> QED BY <2>1 DEF Contents
<1> QED BY <1>1, <1>2

\* A packet that is admitted keeps the limits, whatever becomes of its droplet.
LEMMA AdmittedWithin ==
    ASSUME NEW s \in Session, NEW m \in Media, NEW c \in Chunks(m), Admitted(s, m, c),
           Sound(meta[s], buffer[s], chunks[s])
    PROVE  /\ IsFiniteSet(Active(meta[s], chunks[s]) \cup {c})
           /\ Cardinality(Active(meta[s], chunks[s]) \cup {c}) <= MaxChunks
<1> DEFINE A == Active(meta[s], chunks[s])
<1>1. IsFiniteSet(A) /\ Cardinality(A) \in Nat /\ MaxChunks \in Nat /\ Cardinality(A) <= MaxChunks
    BY FS_CardinalityType, ReceiverAssumption DEF Sound
<1>2. c \in A \/ Cardinality(A) < MaxChunks
    BY DEF Admitted, Active
<1>3. /\ IsFiniteSet(A \cup {c})
      /\ Cardinality(A \cup {c}) = IF c \in A THEN Cardinality(A) ELSE Cardinality(A) + 1
    BY <1>1, FS_AddElement
<1> HIDE DEF A
<1> QED BY <1>1, <1>2, <1>3 DEF A

LEMMA DropletKeepsSound ==
    ASSUME NEW s \in Session, NEW m \in Media, NEW c \in Chunks(m), NEW i, Admitted(s, m, c),
           Sound(meta[s], buffer[s], chunks[s]), NEW o \in AfterDroplet(s, m, c, i)
    PROVE  Sound(o.meta, o.buffer, o.chunks)
<1> DEFINE k  == Symbols[m][c]
           me == [meta[s] EXCEPT ![c] = k]
           b  == Put(buffer[s][c], i, m)
<1>0a. PICK kept : kept = Kept(s, c)
    OBVIOUS
<1>0b. /\ DOMAIN kept \subseteq DOMAIN chunks[s] /\ DOMAIN chunks[s] \subseteq DOMAIN kept \cup {c}
       /\ \A e \in DOMAIN kept : kept[e] = chunks[s][e]
    BY <1>0a, KeptIs
<1>1. c \in Index /\ k \in Nat /\ k # 0
    BY SizesAre
<1>2. /\ me \in [Index -> Nat] /\ me[c] = k /\ me[c] # 0
      /\ \A d \in Index : d # c => me[d] = meta[s][d]
    BY <1>1 DEF Sound
<1>3. {d \in Index : me[d] # 0} = {d \in Index : meta[s][d] # 0} \cup {c}
    BY <1>1, <1>2
<1> HIDE DEF k, me
<1>4. CASE o = Part(meta[s], buffer[s], chunks[s])
    BY <1>4 DEF Part
<1>5. Active(me, kept) = Active(meta[s], chunks[s]) \cup {c}
    BY <1>3, <1>0b DEF Active
<1>6. CASE o = Part(me, buffer[s], kept) /\ c \notin DOMAIN kept
    <2>1. o.meta = me /\ o.buffer = buffer[s] /\ o.chunks = kept
        BY <1>6 DEF Part
    <2>2. \A d \in Index : buffer[s][d] # NoBuffer => me[d] # 0 /\ d \notin DOMAIN kept
        BY <1>2, <1>6, <1>0b DEF Sound
    <2>3. IsFiniteSet(Active(me, kept)) /\ Cardinality(Active(me, kept)) <= MaxChunks
        BY <1>5, AdmittedWithin
    <2>4. /\ DOMAIN buffer[s] = Index /\ DOMAIN kept \subseteq Index
          /\ \A d \in DOMAIN kept : kept[d] \in Contents
          /\ \A d \in Index : /\ IsFiniteSet(DOMAIN buffer[s][d]) /\ Cardinality(DOMAIN buffer[s][d]) <= MaxDroplets
                               /\ \A j \in DOMAIN buffer[s][d] : buffer[s][d][j] \in Media
        BY <1>0b DEF Sound
    <2>5. Sound(me, buffer[s], kept)
        BY <1>2, <2>2, <2>3, <2>4 DEF Sound
    <2> QED BY <2>1, <2>5
<1>7. CASE /\ o = Part(me, [buffer[s] EXCEPT ![c] = b], kept) /\ c \notin DOMAIN kept
           /\ ~(Cardinality(DOMAIN buffer[s][c]) >= MaxDroplets)
    <2>1. o.meta = me /\ o.buffer = [buffer[s] EXCEPT ![c] = b] /\ o.chunks = kept
        BY <1>7 DEF Part
    <2>2. /\ DOMAIN o.buffer = Index /\ o.buffer[c] = b
          /\ \A d \in Index : d # c => o.buffer[d] = buffer[s][d]
        BY <1>1, <2>1 DEF Sound
    <2>3. DOMAIN b = DOMAIN buffer[s][c] \cup {i} /\ \A j \in DOMAIN b : b[j] \in Media
        BY <1>1 DEF Sound, Put
    <2>4. IsFiniteSet(DOMAIN b) /\ Cardinality(DOMAIN b) <= MaxDroplets
        <3>1. IsFiniteSet(DOMAIN buffer[s][c]) /\ MaxDroplets \in Nat
            BY <1>1, ReceiverAssumption DEF Sound
        <3>2. Cardinality(DOMAIN buffer[s][c]) \in Nat
            BY <3>1, FS_CardinalityType
        <3>3. /\ IsFiniteSet(DOMAIN b)
              /\ \/ Cardinality(DOMAIN b) = Cardinality(DOMAIN buffer[s][c])
                 \/ Cardinality(DOMAIN b) = Cardinality(DOMAIN buffer[s][c]) + 1
            BY <2>3, <3>1, FS_AddElement
        <3> QED BY <1>7, <3>1, <3>2, <3>3
    <2> HIDE DEF b
    <2>5. \A d \in Index :
             /\ IsFiniteSet(DOMAIN o.buffer[d]) /\ Cardinality(DOMAIN o.buffer[d]) <= MaxDroplets
             /\ \A j \in DOMAIN o.buffer[d] : o.buffer[d][j] \in Media
             /\ o.buffer[d] # NoBuffer => me[d] # 0 /\ d \notin DOMAIN kept
        <3> SUFFICES ASSUME NEW d \in Index
                     PROVE  /\ IsFiniteSet(DOMAIN o.buffer[d]) /\ Cardinality(DOMAIN o.buffer[d]) <= MaxDroplets
                            /\ \A j \in DOMAIN o.buffer[d] : o.buffer[d][j] \in Media
                            /\ o.buffer[d] # NoBuffer => me[d] # 0 /\ d \notin DOMAIN kept
            OBVIOUS
        <3>1. CASE d = c
            BY <1>2, <1>7, <2>2, <2>3, <2>4, <3>1
        <3>2. CASE d # c
            BY <1>2, <1>0b, <2>2, <3>2 DEF Sound
        <3> QED BY <3>1, <3>2
    <2>6. IsFiniteSet(Active(me, kept)) /\ Cardinality(Active(me, kept)) <= MaxChunks
        BY <1>5, AdmittedWithin
    <2>7. DOMAIN kept \subseteq Index /\ \A d \in DOMAIN kept : kept[d] \in Contents
        BY <1>0b DEF Sound
    <2>8. Sound(me, o.buffer, kept)
        BY <1>2, <2>2, <2>5, <2>6, <2>7 DEF Sound
    <2> QED BY <2>1, <2>8
<1>8. ASSUME NEW x \in Decoded(b, k), o = Part(me, [buffer[s] EXCEPT ![c] = NoBuffer], Put(kept, c, x)),
             c \notin DOMAIN kept, x # NoMedia
      PROVE  Sound(o.meta, o.buffer, o.chunks)
    <2>1. o.meta = me /\ o.buffer = [buffer[s] EXCEPT ![c] = NoBuffer] /\ o.chunks = Put(kept, c, x)
        BY <1>8 DEF Part
    <2>2. /\ DOMAIN o.buffer = Index /\ o.buffer[c] = NoBuffer
          /\ \A d \in Index : d # c => o.buffer[d] = buffer[s][d]
        BY <1>1, <2>1 DEF Sound
    <2>3. x \in Contents
        <3>1. \A j \in DOMAIN b : b[j] \in Media
            BY <1>1 DEF Sound, Put
        <3> QED BY <1>8, <3>1, DecodedIs
    <2>4. /\ DOMAIN o.chunks = DOMAIN kept \cup {c}
          /\ \A d \in DOMAIN o.chunks : o.chunks[d] \in Contents
        BY <1>0b, <2>1, <2>3 DEF Put, Sound
    <2>5. \A d \in Index :
             /\ IsFiniteSet(DOMAIN o.buffer[d]) /\ Cardinality(DOMAIN o.buffer[d]) <= MaxDroplets
             /\ \A j \in DOMAIN o.buffer[d] : o.buffer[d][j] \in Media
             /\ o.buffer[d] # NoBuffer => me[d] # 0 /\ d \notin DOMAIN o.chunks
        <3> SUFFICES ASSUME NEW d \in Index
                     PROVE  /\ IsFiniteSet(DOMAIN o.buffer[d]) /\ Cardinality(DOMAIN o.buffer[d]) <= MaxDroplets
                            /\ \A j \in DOMAIN o.buffer[d] : o.buffer[d][j] \in Media
                            /\ o.buffer[d] # NoBuffer => me[d] # 0 /\ d \notin DOMAIN o.chunks
            OBVIOUS
        <3>1. CASE d = c
            <4>1. DOMAIN NoBuffer = {} /\ MaxDroplets \in Nat
                BY ReceiverAssumption DEF NoBuffer
            <4> QED BY <2>2, <3>1, <4>1, FS_EmptySet
        <3>2. CASE d # c
            BY <1>2, <1>0b, <2>2, <2>4, <3>2 DEF Sound
        <3> QED BY <3>1, <3>2
    <2>6. Active(me, o.chunks) = Active(meta[s], chunks[s]) \cup {c}
        BY <1>3, <1>0b, <2>4 DEF Active
    <2>7. DOMAIN o.chunks \subseteq Index
        BY <1>1, <1>0b, <2>4 DEF Sound
    <2>8. IsFiniteSet(Active(me, o.chunks)) /\ Cardinality(Active(me, o.chunks)) <= MaxChunks
        BY <2>6, AdmittedWithin
    <2>9. Sound(me, o.buffer, o.chunks)
        BY <1>2, <2>2, <2>4, <2>5, <2>7, <2>8 DEF Sound
    <2> QED BY <2>1, <2>9
<1> QED BY <1>4, <1>6, <1>7, <1>8, <1>0a, DropletCases DEF k, me

LEMMA PrunedIsSound ==
    ASSUME NEW s \in Session, NEW m \in Media, Sound(meta[s], buffer[s], chunks[s])
    PROVE  Sound(Pruned(s, m).meta, Pruned(s, m).buffer, Pruned(s, m).chunks)
<1> DEFINE o     == Pruned(s, m)
           wrong == {c \in Index : c \notin Chunks(m) \/ meta[s][c] # Symbols[m][c]}
           good  == {c \in DOMAIN chunks[s] : c \in Chunks(m) /\ chunks[s][c] = m}
<1>1. /\ o.meta = [c \in Index |-> IF c \in wrong \cup (DOMAIN chunks[s] \ good) THEN 0 ELSE meta[s][c]]
      /\ o.buffer = [c \in Index |-> IF c \in wrong THEN NoBuffer ELSE buffer[s][c]]
      /\ o.chunks = [c \in good |-> chunks[s][c]]
    BY DEF Pruned, Part
<1>2. good \subseteq DOMAIN chunks[s]
    OBVIOUS
<1> HIDE DEF o, good
<1>3. o.meta \in [Index -> Nat] /\ DOMAIN o.buffer = Index /\ DOMAIN o.chunks = good
    BY <1>1 DEF Sound
<1>4. DOMAIN o.chunks \subseteq Index /\ \A c \in DOMAIN o.chunks : o.chunks[c] \in Contents
    BY <1>1, <1>2, <1>3 DEF Sound
<1>5. \A c \in Index :
         /\ IsFiniteSet(DOMAIN o.buffer[c]) /\ Cardinality(DOMAIN o.buffer[c]) <= MaxDroplets
         /\ \A i \in DOMAIN o.buffer[c] : o.buffer[c][i] \in Media
         /\ o.buffer[c] # NoBuffer => o.meta[c] # 0 /\ c \notin DOMAIN o.chunks
    <2> SUFFICES ASSUME NEW c \in Index
                 PROVE  /\ IsFiniteSet(DOMAIN o.buffer[c]) /\ Cardinality(DOMAIN o.buffer[c]) <= MaxDroplets
                        /\ \A i \in DOMAIN o.buffer[c] : o.buffer[c][i] \in Media
                        /\ o.buffer[c] # NoBuffer => o.meta[c] # 0 /\ c \notin DOMAIN o.chunks
        OBVIOUS
    <2>1. CASE c \in wrong
        <3>1. o.buffer[c] = NoBuffer /\ DOMAIN NoBuffer = {} /\ MaxDroplets \in Nat
            BY <1>1, <2>1, ReceiverAssumption DEF NoBuffer
        <3> QED BY <3>1, FS_EmptySet
    <2>2. CASE c \notin wrong
        <3>1. o.buffer[c] = buffer[s][c]
            BY <1>1, <2>2
        <3>2. /\ IsFiniteSet(DOMAIN buffer[s][c]) /\ Cardinality(DOMAIN buffer[s][c]) <= MaxDroplets
              /\ \A i \in DOMAIN buffer[s][c] : buffer[s][c][i] \in Media
              /\ buffer[s][c] # NoBuffer => meta[s][c] # 0 /\ c \notin DOMAIN chunks[s]
            BY DEF Sound
        <3>3. c \notin DOMAIN chunks[s] => o.meta[c] = meta[s][c] /\ c \notin DOMAIN o.chunks
            BY <1>1, <1>2, <1>3, <2>2
        <3> QED BY <3>1, <3>2, <3>3
    <2> QED BY <2>1, <2>2
<1>6. Active(o.meta, o.chunks) \subseteq Active(meta[s], chunks[s])
    BY <1>1, <1>2, <1>3 DEF Active
<1>7. IsFiniteSet(Active(o.meta, o.chunks)) /\ Cardinality(Active(o.meta, o.chunks)) <= MaxChunks
    BY <1>6, StaysWithin DEF Sound
<1> QED BY <1>3, <1>4, <1>5, <1>7 DEF Sound, o

LEMMA ForgettingKeepsSound ==
    ASSUME NEW s \in Session, Sound(meta[s], buffer[s], chunks[s]), NEW e \in DOMAIN chunks[s]
    PROVE  Sound([meta[s] EXCEPT ![e] = 0], buffer[s], Forget(chunks[s], e))
<1>1. PICK me : me = [meta[s] EXCEPT ![e] = 0]
    OBVIOUS
<1>2. PICK ch : ch = Forget(chunks[s], e)
    OBVIOUS
<1>3. /\ me \in [Index -> Nat] /\ \A c \in Index : c # e => me[c] = meta[s][c]
      /\ \A c \in Index : me[c] # 0 => meta[s][c] # 0
    BY <1>1 DEF Sound
<1>4. DOMAIN ch = DOMAIN chunks[s] \ {e} /\ \A c \in DOMAIN ch : ch[c] = chunks[s][c]
    BY <1>2 DEF Forget
<1>5. \A c \in Index : buffer[s][c] # NoBuffer => me[c] # 0 /\ c \notin DOMAIN ch
    BY <1>3, <1>4 DEF Sound
<1>6. Active(me, ch) \subseteq Active(meta[s], chunks[s])
    BY <1>3, <1>4 DEF Active
<1>7. IsFiniteSet(Active(me, ch)) /\ Cardinality(Active(me, ch)) <= MaxChunks
    BY <1>6, StaysWithin DEF Sound
<1>8. Sound(me, buffer[s], ch)
    BY <1>3, <1>4, <1>5, <1>7 DEF Sound
<1> QED BY <1>1, <1>2, <1>8

\* What is read back from disk.
LEMMA RestoredIsSound ==
    ASSUME NEW m \in Media, Fits(m), NEW S \in SUBSET Chunks(m)
    PROVE  Sound(NoMeta, Nothing, [c \in S |-> m])
<1>1. PICK ch : ch = [c \in S |-> m]
    OBVIOUS
<1>2. DOMAIN ch = S /\ S \subseteq Index /\ \A c \in DOMAIN ch : ch[c] \in Contents
    BY <1>1 DEF Index, Contents
<1>3. Active(NoMeta, ch) = S
    BY <1>2 DEF Active, NoMeta
<1>4. IsFiniteSet(S) /\ Cardinality(S) <= MaxChunks
    <2>1. ChunkCount[m] \in Nat \ {0} /\ ChunkCount[m] <= MaxChunks
        BY ReceiverAssumption DEF Fits
    <2>2. PICK k \in Nat : k + 1 = ChunkCount[m]
        <3>1. ChunkCount[m] - 1 \in Nat /\ (ChunkCount[m] - 1) + 1 = ChunkCount[m]
            BY <2>1
        <3> QED BY <3>1
    <2>3. IsFiniteSet(0..k) /\ Cardinality(0..k) = k + 1
        BY FS_Interval
    <2>4. Chunks(m) = 0..k
        BY <2>2 DEF Chunks
    <2>5. Cardinality(Chunks(m)) <= MaxChunks /\ IsFiniteSet(Chunks(m))
        BY <2>1, <2>2, <2>3, <2>4
    <2> QED BY <2>5, StaysWithin
<1>5. /\ NoMeta \in [Index -> Nat] /\ DOMAIN Nothing = Index
      /\ \A c \in Index : Nothing[c] = NoBuffer
    BY DEF NoMeta, Nothing
<1>6. \A c \in Index : /\ IsFiniteSet(DOMAIN Nothing[c]) /\ Cardinality(DOMAIN Nothing[c]) <= MaxDroplets
                       /\ \A i \in DOMAIN Nothing[c] : Nothing[c][i] \in Media
    BY NothingIsSound DEF Sound
<1>7. Sound(NoMeta, Nothing, ch)
    BY <1>2, <1>3, <1>4, <1>5, <1>6 DEF Sound
<1> QED BY <1>1, <1>7

-----------------------------------------------------------------------------
(* The whole receiver. *)

\* A directory holds at most one manifest.
OneManifest(d) == \A m, n \in Media : <<"manifest", m>> \in d /\ <<"manifest", n>> \in d => m = n

\* A directory holds exactly what a session with manifest n and chunks ch needs.
Backs(d, n, ch) ==
    /\ \A m \in Media : <<"manifest", m>> \in d <=> m = n
    /\ \A c \in DOMAIN ch : <<"chunk", c, ch[c]>> \in d

SessionInv(s) ==
    /\ Sound(meta[s], buffer[s], chunks[s])
    /\ manifest[s] # NoMedia => Fits(manifest[s])
    /\ disk[s] \subseteq Files /\ OneManifest(disk[s]) /\ (disk[s] # {} => HasDir(s))
    /\ s \in live <=> <<"used", s>> \in marks
    /\ s \notin live => /\ manifest[s] = NoMedia /\ meta[s] = NoMeta
                        /\ buffer[s] = Nothing /\ chunks[s] = NoChunks
    /\ faults = 0 => s \notin unpruned /\ Backs(disk[s], manifest[s], chunks[s])

Tables == DOMAIN meta = Session /\ DOMAIN buffer = Session /\ DOMAIN disk = Session

WholeInv ==
    /\ ReceiverInv /\ ClockInv /\ Tables /\ faults \in Nat
    /\ IsFiniteSet(live) /\ Cardinality(live) <= MaxSessions
    /\ latest \in Session \cup {NoSession} /\ LatestIsRegistered
    /\ \A s \in Session : SessionInv(s)

-----------------------------------------------------------------------------
(* What eviction and reset do to the directories and the marks. *)

\* At most one directory stays, with some of its files.
LEMMA RemovalIs ==
    ASSUME NEW gone \in SUBSET Session, NEW r \in Removals(gone)
    PROVE  r.stays = {} \/ \E t \in gone : r.stays = {t} /\ HasDir(t) /\ r.files \subseteq disk[t]
<1>1. CASE r \in [stays : {{}}, files : {{}}]
    BY <1>1
<1>2. CASE r \in UNION {[stays : {{t}}, files : SUBSET disk[t]] : t \in {u \in gone : HasDir(u)}}
    <2>1. PICK t \in gone : HasDir(t) /\ r \in [stays : {{t}}, files : SUBSET disk[t]]
        BY <1>2
    <2> QED BY <2>1
<1> QED BY <1>1, <1>2 DEF Removals

LEMMA RemovalCounts ==
    ASSUME NEW gone \in SUBSET Session, NEW r \in Removals(gone)
    PROVE  /\ r.stays \subseteq gone
           /\ Cardinality(r.stays) \in Nat /\ (Cardinality(r.stays) = 0 => r.stays = {})
<1>1. CASE r.stays = {}
    BY <1>1, FS_EmptySet
<1>2. CASE \E t \in gone : r.stays = {t}
    <2>1. PICK t \in gone : r.stays = {t}
        BY <1>2
    <2>2. Cardinality({t}) = 1
        BY FS_Singleton
    <2> QED BY <2>1, <2>2
<1> QED BY <1>1, <1>2, RemovalIs

LEMMA DirectoriesAfter ==
    ASSUME NEW gone \in SUBSET Session, NEW r \in Removals(gone)
    PROVE  /\ DOMAIN DiskWithout(gone, r) = Session
           /\ \A t \in Session : /\ DiskWithout(gone, r)[t] \subseteq disk[t]
                                 /\ t \notin gone => DiskWithout(gone, r)[t] = disk[t]
                                 /\ t \in gone \ r.stays => DiskWithout(gone, r)[t] = {}
                                 /\ t \in r.stays => HasDir(t)
<1>1. PICK d : d = DiskWithout(gone, r)
    OBVIOUS
<1>2. r.stays = {} \/ \E t \in gone : r.stays = {t} /\ HasDir(t) /\ r.files \subseteq disk[t]
    BY RemovalIs
<1>3. d = [t \in Session |-> CASE t \in r.stays -> r.files
                               [] t \in gone \ r.stays -> {}
                               [] OTHER -> disk[t]]
    BY <1>1 DEF DiskWithout
<1>4. \A t \in Session : /\ t \in r.stays => d[t] = r.files
                         /\ t \in gone \ r.stays => d[t] = {}
                         /\ t \notin r.stays /\ t \notin gone => d[t] = disk[t]
    BY <1>3
<1>5. ASSUME NEW t \in Session
      PROVE  /\ d[t] \subseteq disk[t] /\ (t \notin gone => d[t] = disk[t])
             /\ t \in gone \ r.stays => d[t] = {}
             /\ t \in r.stays => HasDir(t)
    <2>1. CASE t \in r.stays
        BY <1>2, <1>4, <2>1
    <2>2. CASE t \notin r.stays
        BY <1>2, <1>4, <2>2
    <2> QED BY <2>1, <2>2
<1>6. DOMAIN d = Session
    BY <1>3
<1> QED BY <1>1, <1>5, <1>6

\* Only the directory that stays is touched by a removal.
LEMMA TouchedIs ==
    ASSUME NEW gone \in SUBSET Session, NEW r \in Removals(gone)
    PROVE  \/ Touched(r) = <<>> /\ Shrunk(r) = {}
           \/ \E t \in r.stays : Touched(r) = <<<<"dir", t>>>> /\ Shrunk(r) = {t}
<1>1. CASE Shrunk(r) = {}
    BY <1>1 DEF Touched
<1>2. CASE Shrunk(r) # {}
    <2>1. PICK t \in gone : r.stays = {t}
        BY <1>2, RemovalIs DEF Shrunk
    <2>2. Shrunk(r) = {t}
        BY <1>2, <2>1 DEF Shrunk
    <2>3. (CHOOSE x \in Shrunk(r) : TRUE) = t
        BY <2>2
    <2>4. Touched(r) = <<<<"dir", t>>>>
        BY <1>2, <2>3 DEF Touched
    <2> QED BY <2>1, <2>2, <2>4
<1> QED BY <1>1, <1>2

\* A sequence of marks without repetition.
Once(q) == q \in Seq(Mark) /\ \A i, j \in 1..Len(q) : q[i] = q[j] => i = j

\* What a short sequence of distinct marks is, and how it is put together.
LEMMA NoMarks == Once(<<>>) /\ ToSet(<<>>) = {}
<1>1. Len(<<>>) = 0 /\ <<>> \in Seq(Mark)
    OBVIOUS
<1> QED BY <1>1 DEF ToSet, Once

LEMMA OneMark ==
    ASSUME NEW x \in Mark
    PROVE  Once(<<x>>) /\ ToSet(<<x>>) = {x}
BY DEF ToSet, Once

LEMMA TwoMarks ==
    ASSUME NEW x \in Mark, NEW y \in Mark, x # y
    PROVE  Once(<<x, y>>) /\ ToSet(<<x, y>>) = {x, y} /\ <<x>> \o <<y>> = <<x, y>>
<1>1. Len(<<x, y>>) = 2 /\ <<x, y>>[1] = x /\ <<x, y>>[2] = y /\ <<x, y>> \in Seq(Mark)
    OBVIOUS
<1>2. 1..Len(<<x, y>>) = {1, 2}
    BY <1>1
<1>3. ToSet(<<x, y>>) = {x, y}
    BY <1>1, <1>2 DEF ToSet
<1>4. \A i, j \in {1, 2} : <<x, y>>[i] = <<x, y>>[j] => i = j
    BY <1>1
<1>5. PICK q : q = <<x>> \o <<y>>
    OBVIOUS
<1>6. q \in Seq(Mark) /\ Len(q) = 2 /\ q[1] = x /\ q[2] = y
    BY <1>5
<1>7. q = <<x, y>>
    BY <1>1, <1>2, <1>6, SeqEqual
<1> QED BY <1>1, <1>2, <1>3, <1>4, <1>5, <1>7 DEF Once

LEMMA ThreeMarks ==
    ASSUME NEW x \in Mark, NEW y \in Mark, NEW z \in Mark, x # y, y # z, x # z
    PROVE  Once(<<x, y, z>>) /\ ToSet(<<x, y, z>>) = {x, y, z} /\ <<x, y>> \o <<z>> = <<x, y, z>>
<1>1. /\ Len(<<x, y, z>>) = 3 /\ <<x, y, z>> \in Seq(Mark)
      /\ <<x, y, z>>[1] = x /\ <<x, y, z>>[2] = y /\ <<x, y, z>>[3] = z
    OBVIOUS
<1>2. 1..Len(<<x, y, z>>) = {1, 2, 3}
    BY <1>1
<1>3. ToSet(<<x, y, z>>) = {x, y, z}
    BY <1>1, <1>2 DEF ToSet
<1>4. \A i, j \in {1, 2, 3} : <<x, y, z>>[i] = <<x, y, z>>[j] => i = j
    BY <1>1
<1>5. PICK q : q = <<x, y>> \o <<z>>
    OBVIOUS
<1>6. q \in Seq(Mark) /\ Len(q) = 3 /\ q[1] = x /\ q[2] = y /\ q[3] = z
    BY <1>5
<1>7. q = <<x, y, z>>
    BY <1>1, <1>2, <1>6, SeqEqual
<1> QED BY <1>1, <1>2, <1>3, <1>4, <1>5, <1>7 DEF Once

LEMMA NothingAdded ==
    ASSUME NEW q \in Seq(Mark)
    PROVE  q \o <<>> = q /\ <<>> \o q = q
OBVIOUS

\* An arrival may touch its session's directory last.
Tails(s) == {<<>>, <<<<"dir", s>>>>}
Saving(s, tail) == {x \in {<<"dir", s>>} : tail # <<>>}

\* The marks an arrival touches, in turn.
Touching(r, s, tail) == Touched(r) \o <<<<"used", s>>>> \o tail

\* The marks an arrival touches are touched once each.
LEMMA ArrivalTouches ==
    ASSUME NEW s \in Session, NEW gone \in SUBSET (Session \ {s}), NEW r \in Removals(gone),
           NEW tail \in Tails(s), NEW touched,
           touched = Touching(r, s, tail)
    PROVE  /\ Once(touched)
           /\ ToSet(touched) = DirMarks(Shrunk(r)) \cup {<<"used", s>>} \cup Saving(s, tail)
<1>1. PICK used \in Mark : used = <<"used", s>>
    BY DEF Mark
<1>2. PICK dir \in Mark : dir = <<"dir", s>>
    BY DEF Mark
<1>3. used # dir
    BY <1>1, <1>2
<1>4. touched = Touched(r) \o <<used>> \o tail
    BY <1>1 DEF Touching
<1>5. \/ tail = <<>> /\ Saving(s, tail) = {}
      \/ tail = <<dir>> /\ Saving(s, tail) = {dir}
    BY <1>2 DEF Tails, Saving
<1>6. SUFFICES /\ Once(touched)
               /\ ToSet(touched) = DirMarks(Shrunk(r)) \cup {used} \cup Saving(s, tail)
    BY <1>1, <1>2, <1>4
<1>7. CASE Touched(r) = <<>> /\ Shrunk(r) = {}
    <2>1. DirMarks(Shrunk(r)) = {}
        BY <1>7 DEF DirMarks
    <2>2. Touched(r) \o <<used>> = <<used>>
        BY <1>7, OneMark, NothingAdded
    <2>3. CASE tail = <<>> /\ Saving(s, tail) = {}
        <3>1. touched = <<used>>
            BY <1>4, <2>2, <2>3, OneMark, NothingAdded
        <3> QED BY <2>1, <2>3, <3>1, OneMark
    <2>4. CASE tail = <<dir>> /\ Saving(s, tail) = {dir}
        <3>1. touched = <<used, dir>>
            BY <1>3, <1>4, <2>2, <2>4, TwoMarks
        <3>2. Once(touched)
            BY <1>3, <3>1, TwoMarks
        <3>3. ToSet(touched) = {used, dir}
            BY <1>3, <3>1, TwoMarks
        <3> QED BY <2>1, <2>4, <3>2, <3>3
    <2> QED BY <1>5, <2>3, <2>4
<1>8. ASSUME NEW t \in r.stays, Touched(r) = <<<<"dir", t>>>>, Shrunk(r) = {t}
      PROVE  /\ Once(touched)
             /\ ToSet(touched) = DirMarks(Shrunk(r)) \cup {used} \cup Saving(s, tail)
    <2>1. t \in gone
        BY RemovalCounts
    <2>2. PICK x \in Mark : x = <<"dir", t>>
        BY <2>1 DEF Mark
    <2>3. x # used /\ x # dir
        BY <1>1, <1>2, <2>1, <2>2
    <2>4. DirMarks(Shrunk(r)) = {x}
        BY <1>8, <2>2 DEF DirMarks
    <2>5. Touched(r) \o <<used>> = <<x, used>>
        BY <1>8, <2>2, <2>3, TwoMarks
    <2>6. CASE tail = <<>> /\ Saving(s, tail) = {}
        <3>1. touched = <<x, used>>
            BY <1>4, <2>3, <2>5, <2>6, TwoMarks, NothingAdded
        <3>2. Once(touched)
            BY <2>3, <3>1, TwoMarks
        <3>3. ToSet(touched) = {x, used}
            BY <2>3, <3>1, TwoMarks
        <3> QED BY <2>4, <2>6, <3>2, <3>3
    <2>7. CASE tail = <<dir>> /\ Saving(s, tail) = {dir}
        <3>1. touched = <<x, used, dir>>
            <4>1. <<x, used>> \o <<dir>> = <<x, used, dir>>
                BY <1>3, <2>3, ThreeMarks
            <4> QED BY <1>4, <2>5, <2>7, <4>1
        <3>2. Once(touched)
            <4>1. Once(<<x, used, dir>>)
                BY <1>3, <2>3, ThreeMarks
            <4> QED BY <3>1, <4>1, Zenon
        <3>3. ToSet(touched) = {x, used, dir}
            BY <1>3, <2>3, <3>1, ThreeMarks
        <3> QED BY <2>4, <2>7, <3>2, <3>3
    <2> QED BY <1>5, <2>6, <2>7
<1> QED BY <1>7, <1>8, TouchedIs

\* No session was used after s.
UsedLast(known, order, s) ==
    /\ <<"used", s>> \in known
    /\ \A t \in Session \ {s} : <<"used", t>> \in known => <<<<"used", t>>, <<"used", s>>>> \in order

\* The marks after an arrival: the session used is the newest, the directories
\* that are left keep theirs.
LEMMA ArrivalClock ==
    ASSUME ClockInv, NEW s \in Session, NEW gone \in SUBSET (Session \ {s}), NEW r \in Removals(gone),
           NEW tail \in Tails(s), NEW left, NEW touched,
           left = UsedMarks(gone) \cup DirMarks(gone \ r.stays),
           touched = Touching(r, s, tail),
           Advance(left, touched)
    PROVE  /\ ClockInv'
           /\ \A t \in Session : <<"used", t>> \in marks' <=> t = s \/ (t \notin gone /\ <<"used", t>> \in marks)
           /\ \A t \in Session : HasDir(t) /\ t \notin gone \ r.stays => <<"dir", t>> \in marks'
           /\ tail # <<>> => <<"dir", s>> \in marks'
           /\ UsedLast(marks', earlier', s)
<1>1. /\ Once(touched)
      /\ ToSet(touched) = DirMarks(Shrunk(r)) \cup {<<"used", s>>} \cup Saving(s, tail)
    BY ArrivalTouches
<1> DEFINE now == ToSet(touched)
<1>2. /\ ClockInv' /\ marks' = (marks \ left) \cup now
      /\ \A x \in marks' : \A y \in now : x \notin now => <<x, y>> \in earlier'
    BY <1>1, AdvanceKeepsClock DEF Once
<1>3. \A t \in Session : <<"used", t>> \in now <=> t = s
    BY <1>1 DEF DirMarks, Saving
<1>4. \A t \in Session : <<"used", t>> \in left <=> t \in gone
    BY DEF UsedMarks, DirMarks
<1>5. \A t \in Session : <<"dir", t>> \in left <=> t \in gone \ r.stays
    BY DEF UsedMarks, DirMarks
<1>6. tail # <<>> => <<"dir", s>> \in now
    BY <1>1 DEF Saving
<1> HIDE DEF now
<1> QED BY <1>2, <1>3, <1>4, <1>5, <1>6 DEF HasDir, UsedLast

\* The same for a reset.
LEMMA ResetClock ==
    ASSUME ClockInv, NEW gone \in SUBSET Session, NEW r \in Removals(gone),
           Advance(UsedMarks(gone) \cup DirMarks(gone \ r.stays), Touched(r))
    PROVE  /\ ClockInv'
           /\ \A t \in Session : <<"used", t>> \in marks' <=> t \notin gone /\ <<"used", t>> \in marks
           /\ \A t \in Session : HasDir(t) /\ t \notin gone \ r.stays => <<"dir", t>> \in marks'
<1> DEFINE now  == ToSet(Touched(r))
           left == UsedMarks(gone) \cup DirMarks(gone \ r.stays)
<1>1. /\ Once(Touched(r))
      /\ now \subseteq DirMarks(Session)
    <2>1. CASE Touched(r) = <<>>
        BY <2>1, NoMarks
    <2>2. ASSUME NEW t \in r.stays, Touched(r) = <<<<"dir", t>>>>
          PROVE  /\ Once(Touched(r))
                 /\ now \subseteq DirMarks(Session)
        <3>1. t \in Session /\ <<"dir", t>> \in Mark
            BY RemovalCounts DEF Mark
        <3>2. now \subseteq DirMarks(Session)
            BY <2>2, <3>1, OneMark DEF DirMarks
        <3> HIDE DEF now
        <3> QED BY <2>2, <3>1, <3>2, OneMark
    <2> QED BY <2>1, <2>2, TouchedIs
<1>2. ClockInv' /\ marks' = (marks \ left) \cup now
    BY <1>1, AdvanceKeepsClock DEF Once
<1>3. \A t \in Session : <<"used", t>> \notin now
    BY <1>1 DEF DirMarks
<1>4. \A t \in Session : <<"used", t>> \in left <=> t \in gone
    BY DEF UsedMarks, DirMarks
<1>5. \A t \in Session : <<"dir", t>> \in left <=> t \in gone \ r.stays
    BY DEF UsedMarks, DirMarks
<1> HIDE DEF now, left
<1> QED BY <1>2, <1>3, <1>4, <1>5 DEF HasDir

-----------------------------------------------------------------------------
(* A packet or a manifest arrives. *)

\* Eviction makes room for one more session.
LEMMA RoomIsMade ==
    ASSUME WholeInv, NEW s \in Session
    PROVE  IsFiniteSet((live \ Evicted(s)) \cup {s}) /\ Cardinality((live \ Evicted(s)) \cup {s}) <= MaxSessions
<1> DEFINE known == live \ ExpiredSessions(s)
           stay  == live \ Evicted(s)
<1>1. IsFiniteSet(live) /\ Cardinality(live) <= MaxSessions /\ Cardinality(live) \in Nat /\ MaxSessions \in Nat \ {0}
    BY FS_CardinalityType, ReceiverAssumption DEF WholeInv
<1>2. CASE s \in live
    <2>1. stay \cup {s} \subseteq live
        BY <1>2
    <2>2. IsFiniteSet(stay \cup {s}) /\ Cardinality(stay \cup {s}) <= Cardinality(live)
        BY <1>1, <2>1, FS_Subset
    <2>3. Cardinality(stay \cup {s}) \in Nat
        BY <2>2, FS_CardinalityType
    <2> HIDE DEF stay
    <2>4. Cardinality(stay \cup {s}) <= MaxSessions
        BY <1>1, <2>2, <2>3
    <2> QED BY <2>2, <2>4 DEF stay
<1>3. CASE s \notin live
    <2>1. PICK limit \in Nat : limit + 1 = MaxSessions /\ limit = MaxSessions - 1
        <3>1. MaxSessions - 1 \in Nat /\ (MaxSessions - 1) + 1 = MaxSessions
            BY <1>1
        <3> QED BY <3>1
    <2>2. known \in SUBSET Session /\ IsFiniteSet(known) /\ \A u \in known : <<"used", u>> \in marks
        <3>1. live \subseteq Session /\ \A u \in live : <<"used", u>> \in marks
            BY DEF WholeInv, ReceiverInv, SessionsAreReal, SessionInv
        <3> QED BY <1>1, <3>1, FS_Subset
    <2>3. stay = known \ Surplus("used", known, limit)
        BY <1>3, <2>1 DEF Evicted
    <2> HIDE DEF known, stay
    <2>4. IsFiniteSet(stay) /\ Cardinality(stay) <= limit
        BY <2>2, <2>3, SurplusLeaves DEF WholeInv
    <2>5. /\ IsFiniteSet(stay \cup {s}) /\ Cardinality(stay) \in Nat
          /\ \/ Cardinality(stay \cup {s}) = Cardinality(stay)
             \/ Cardinality(stay \cup {s}) = Cardinality(stay) + 1
        BY <2>4, FS_AddElement, FS_CardinalityType
    <2>6. Cardinality(stay \cup {s}) <= MaxSessions
        BY <2>1, <2>4, <2>5
    <2> QED BY <2>5, <2>6 DEF stay
<1> QED BY <1>2, <1>3

\* The default manifest moves with its session.
LEMMA LatestMoves ==
    ASSUME WholeInv, NEW gone \in SUBSET Session, NEW x \in LatestWithout(gone)
    PROVE  \/ x \in Session \ gone /\ manifest[x] # NoMedia
           \/ x = NoSession /\ \A t \in Session \ gone : manifest[t] = NoMedia
<1>1. /\ latest = NoSession => \A t \in Session : manifest[t] = NoMedia
      /\ latest # NoSession => latest \in Session /\ manifest[latest] # NoMedia
    BY DEF WholeInv, LatestIsRegistered
<1>2. CASE latest \notin gone
    <2>1. x = latest
        BY <1>2 DEF LatestWithout
    <2> QED BY <1>1, <1>2, <2>1
<1>3. CASE latest \in gone
    BY <1>3 DEF LatestWithout
<1> QED BY <1>2, <1>3

\* One session gets manifest n, sizes me, buffers bu, chunks ch and directory d.
Arriving(s, r, n, me, bu, ch, d, tail, cut) ==
    /\ Arrival(s, Evicted(s), n, ch, cut)
    /\ meta' = After(meta, Evicted(s), NoMeta, s, me)
    /\ buffer' = After(buffer, Evicted(s), Nothing, s, bu)
    /\ disk' = [DiskWithout(Evicted(s), r) EXCEPT ![s] = d]
    /\ Advance(UsedMarks(Evicted(s)) \cup DirMarks(Evicted(s) \ r.stays), Touching(r, s, tail))
    /\ \E fails \in BOOLEAN : faults' = faults + Cardinality(r.stays) + (IF fails THEN 1 ELSE 0)

\* It changes its own session; the others it leaves as they are or evicts.
LEMMA ArrivingIs ==
    ASSUME WholeInv, NEW s \in Session, NEW r \in Removals(Evicted(s)),
           NEW n \in Media \cup {NoMedia}, NEW me, NEW bu, NEW ch, NEW d, NEW tail,
           NEW cut \in SUBSET {s}, Arriving(s, r, n, me, bu, ch, d, tail, cut)
    PROVE  /\ SessionsAreReal' /\ Tables'
           /\ manifest'[s] = n /\ meta'[s] = me /\ buffer'[s] = bu /\ chunks'[s] = ch /\ disk'[s] = d
           /\ s \in unpruned' <=> cut # {}
           /\ \A t \in Evicted(s) :
                /\ manifest'[t] = NoMedia /\ meta'[t] = NoMeta /\ buffer'[t] = Nothing /\ chunks'[t] = NoChunks
                /\ disk'[t] \subseteq disk[t] /\ (t \notin r.stays => disk'[t] = {}) /\ (t \in r.stays => HasDir(t))
                /\ t \notin unpruned'
           /\ \A t \in Session \ {s} : t \notin Evicted(s) =>
                /\ manifest'[t] = manifest[t] /\ meta'[t] = meta[t] /\ buffer'[t] = buffer[t]
                /\ chunks'[t] = chunks[t] /\ disk'[t] = disk[t] /\ (t \in unpruned' <=> t \in unpruned)
<1>1. /\ SessionsAreReal' /\ manifest'[s] = n /\ chunks'[s] = ch /\ (s \in unpruned' <=> cut # {})
      /\ \A t \in Evicted(s) : manifest'[t] = NoMedia /\ chunks'[t] = NoChunks /\ t \notin unpruned'
      /\ \A t \in Session : t \notin Evicted(s) /\ t # s =>
           manifest'[t] = manifest[t] /\ chunks'[t] = chunks[t] /\ (t \in unpruned' <=> t \in unpruned)
    BY ArrivalIs DEF Arriving, WholeInv, ReceiverInv
<1>2. PICK gone \in SUBSET (Session \ {s}) : gone = Evicted(s)
    BY EvictionSpares DEF WholeInv, ReceiverInv
<1>3. /\ DOMAIN meta' = Session /\ meta'[s] = me /\ \A t \in gone : meta'[t] = NoMeta
      /\ \A t \in Session \ {s} : t \notin gone => meta'[t] = meta[t]
    <2>1. meta' = [t \in Session |-> CASE t = s -> me [] t \in gone -> NoMeta [] OTHER -> meta[t]]
        BY <1>2 DEF Arriving, After
    <2> QED BY <1>2, <2>1
<1>4. /\ DOMAIN buffer' = Session /\ buffer'[s] = bu /\ \A t \in gone : buffer'[t] = Nothing
      /\ \A t \in Session \ {s} : t \notin gone => buffer'[t] = buffer[t]
    <2>1. buffer' = [t \in Session |-> CASE t = s -> bu [] t \in gone -> Nothing [] OTHER -> buffer[t]]
        BY <1>2 DEF Arriving, After
    <2> QED BY <1>2, <2>1
<1>5. PICK w : w = DiskWithout(gone, r)
    OBVIOUS
<1>6. /\ DOMAIN w = Session
      /\ \A t \in Session : /\ w[t] \subseteq disk[t] /\ (t \notin gone => w[t] = disk[t])
                            /\ t \in gone \ r.stays => w[t] = {}
                            /\ t \in r.stays => HasDir(t)
    BY <1>2, <1>5, DirectoriesAfter
<1>7. disk' = [w EXCEPT ![s] = d]
    BY <1>2, <1>5 DEF Arriving
<1>8. DOMAIN disk' = Session /\ disk'[s] = d /\ \A t \in Session \ {s} : disk'[t] = w[t]
    BY <1>6, <1>7
<1>9. Tables'
    BY <1>3, <1>4, <1>8 DEF Tables
<1> QED BY <1>1, <1>2, <1>3, <1>4, <1>6, <1>8, <1>9

\* A session that gets what is sound, saved and fitting keeps the invariant.
LEMMA ArrivingKeeps ==
    ASSUME WholeInv, NEW s \in Session, NEW r \in Removals(Evicted(s)),
           NEW n \in Media \cup {NoMedia}, NEW me, NEW bu, NEW ch, NEW d, NEW tail \in Tails(s),
           NEW cut \in SUBSET {s}, Arriving(s, r, n, me, bu, ch, d, tail, cut),
           Sound(me, bu, ch), cut # {} \/ Match(ch, n), n # NoMedia => Fits(n),
           d \subseteq Files, OneManifest(d), d # {} => disk[s] # {} \/ tail # <<>>,
           faults' = 0 => cut = {} /\ Backs(d, n, ch),
           latest' \in Session \cup {NoSession}, LatestIsRegistered'
    PROVE  WholeInv'
<1>1. /\ SessionsAreReal' /\ Tables'
      /\ manifest'[s] = n /\ meta'[s] = me /\ buffer'[s] = bu /\ chunks'[s] = ch /\ disk'[s] = d
      /\ s \in unpruned' <=> cut # {}
      /\ \A t \in Evicted(s) :
           /\ manifest'[t] = NoMedia /\ meta'[t] = NoMeta /\ buffer'[t] = Nothing /\ chunks'[t] = NoChunks
           /\ disk'[t] \subseteq disk[t] /\ (t \notin r.stays => disk'[t] = {}) /\ (t \in r.stays => HasDir(t))
           /\ t \notin unpruned'
      /\ \A t \in Session \ {s} : t \notin Evicted(s) =>
           /\ manifest'[t] = manifest[t] /\ meta'[t] = meta[t] /\ buffer'[t] = buffer[t]
           /\ chunks'[t] = chunks[t] /\ disk'[t] = disk[t] /\ (t \in unpruned' <=> t \in unpruned)
    BY ArrivingIs
<1>2. PICK gone \in SUBSET (Session \ {s}) : gone = Evicted(s)
    BY EvictionSpares DEF WholeInv, ReceiverInv
<1>3. /\ ClockInv'
      /\ \A t \in Session : <<"used", t>> \in marks' <=> t = s \/ (t \notin gone /\ <<"used", t>> \in marks)
      /\ \A t \in Session : HasDir(t) /\ t \notin gone \ r.stays => HasDir(t)'
      /\ tail # <<>> => HasDir(s)'
    <2>1. ClockInv /\ r \in Removals(gone)
        BY <1>2 DEF WholeInv
    <2>2. PICK left, touched : /\ left = UsedMarks(gone) \cup DirMarks(gone \ r.stays)
                               /\ touched = Touching(r, s, tail)
                               /\ Advance(left, touched)
        BY <1>2, Zenon DEF Arriving
    <2>3. /\ ClockInv'
          /\ \A t \in Session : <<"used", t>> \in marks' <=> t = s \/ (t \notin gone /\ <<"used", t>> \in marks)
          /\ \A t \in Session : HasDir(t) /\ t \notin gone \ r.stays => <<"dir", t>> \in marks'
          /\ tail # <<>> => <<"dir", s>> \in marks'
        BY <2>1, <2>2, ArrivalClock
    <2> QED BY <2>3 DEF HasDir
<1>4. faults' \in Nat /\ (faults' = 0 => faults = 0 /\ r.stays = {})
    <2>1. PICK k \in Nat : k = Cardinality(r.stays) /\ (k = 0 => r.stays = {})
        BY <1>2, RemovalCounts
    <2>2. PICK fails \in BOOLEAN : faults' = faults + k + (IF fails THEN 1 ELSE 0)
        BY <2>1 DEF Arriving
    <2>3. PICK j \in Nat : j = IF fails THEN 1 ELSE 0
        OBVIOUS
    <2>4. faults \in Nat /\ faults' = faults + k + j
        BY <2>2, <2>3 DEF WholeInv
    <2> QED BY <2>1, <2>4
<1>5. live' = (live \ gone) \cup {s}
    BY <1>2 DEF Arriving, Arrival
<1>6. IsFiniteSet(live') /\ Cardinality(live') <= MaxSessions
    BY <1>2, <1>5, RoomIsMade
<1>7. SessionInv(s)'
    <2>1. disk[s] # {} => HasDir(s)
        BY DEF WholeInv, SessionInv
    <2>2. HasDir(s) => HasDir(s)'
        BY <1>2, <1>3
    <2> QED BY <1>1, <1>3, <1>5, <2>1, <2>2 DEF SessionInv
<1>8. ASSUME NEW t \in gone PROVE SessionInv(t)'
    <2>1. /\ manifest'[t] = NoMedia /\ meta'[t] = NoMeta /\ buffer'[t] = Nothing /\ chunks'[t] = NoChunks
          /\ disk'[t] \subseteq disk[t] /\ (t \notin r.stays => disk'[t] = {}) /\ (t \in r.stays => HasDir(t))
          /\ t \notin unpruned'
        BY <1>1, <1>2
    <2>2. disk[t] \subseteq Files /\ OneManifest(disk[t])
        BY DEF WholeInv, SessionInv
    <2>3. disk'[t] \subseteq Files /\ OneManifest(disk'[t])
        BY <2>1, <2>2 DEF OneManifest
    <2>4. disk'[t] # {} => HasDir(t)'
        BY <1>3, <2>1
    <2>5. t \notin live' /\ <<"used", t>> \notin marks'
        BY <1>3, <1>5
    <2>6. faults' = 0 => Backs(disk'[t], manifest'[t], chunks'[t])
        <3>1. faults' = 0 => disk'[t] = {}
            BY <1>4, <2>1
        <3> QED BY <2>1, <3>1, MediaAreNone DEF Backs, NoChunks
    <2> QED BY <2>1, <2>3, <2>4, <2>5, <2>6, NothingIsSound DEF SessionInv
<1>9. ASSUME NEW t \in Session \ {s}, t \notin gone PROVE SessionInv(t)'
    <2>1. /\ manifest'[t] = manifest[t] /\ meta'[t] = meta[t] /\ buffer'[t] = buffer[t]
          /\ chunks'[t] = chunks[t] /\ disk'[t] = disk[t] /\ (t \in unpruned' <=> t \in unpruned)
        BY <1>1, <1>2, <1>9
    <2>2. SessionInv(t)
        BY DEF WholeInv
    <2>3. HasDir(t) => HasDir(t)'
        BY <1>3, <1>9
    <2>4. /\ <<"used", t>> \in marks' <=> <<"used", t>> \in marks
          /\ t \in live' <=> t \in live
        BY <1>3, <1>5, <1>9
    <2> QED BY <1>4, <2>1, <2>2, <2>3, <2>4 DEF SessionInv
<1>10. \A t \in Session : SessionInv(t)'
    BY <1>7, <1>8, <1>9
<1>11. ChunksMatchManifest'
    <2>1. \A t \in Session : t \notin unpruned' => Match(chunks'[t], manifest'[t])
        <3> SUFFICES ASSUME NEW t \in Session, t \notin unpruned' PROVE Match(chunks'[t], manifest'[t])
            OBVIOUS
        <3>1. CASE t = s
            BY <1>1, <3>1
        <3>2. CASE t \in gone
            BY <1>1, <1>2, <3>2 DEF Match
        <3>3. CASE t # s /\ t \notin gone
            BY <1>1, <1>2, <3>3, InvariantIs DEF WholeInv
        <3> QED BY <3>1, <3>2, <3>3
    <2> QED BY <2>1 DEF ChunksMatchManifest, Match
<1> QED BY <1>1, <1>3, <1>4, <1>6, <1>10, <1>11 DEF WholeInv, ReceiverInv

-----------------------------------------------------------------------------
(* Packets and manifests. *)

\* A droplet of chunk c makes o of its session and d of its directory.
PacketEffect(s, c, r, o, d, tail) ==
    /\ Arriving(s, r, manifest[s], o.meta, o.buffer, o.chunks, d, tail, unpruned \cap {s})
    /\ latest' \in LatestWithout(Evicted(s))
    /\ d = disk[s] \/ (d = disk[s] \cup {<<"chunk", c, o.chunks[c]>>} /\ Saves(s, c, o) /\ tail # <<>>)
    /\ faults' = 0 => faults = 0 /\ (Saves(s, c, o) => <<"chunk", c, o.chunks[c]>> \in d)

LEMMA PacketIs ==
    ASSUME WholeInv, NEW s \in Session, NEW m \in Media, NEW c \in Chunks(m), NEW i, IngestPacket(s, m, c, i)
    PROVE  /\ Admitted(s, m, c)
           /\ \E r \in Removals(Evicted(s)), o \in AfterDroplet(s, m, c, i) :
                \E d : \E tail \in Tails(s) : PacketEffect(s, c, r, o, d, tail)
<1>1. Admitted(s, m, c)
    BY DEF IngestPacket
<1>2. PICK gone \in SUBSET (Session \ {s}) : gone = Evicted(s)
    BY EvictionSpares DEF WholeInv, ReceiverInv
<1>3. PICK r \in Removals(gone), o \in AfterDroplet(s, m, c, i), write \in Writes(s) :
        LET saving == Saves(s, c, o)
            file   == IF saving /\ write = "saved" THEN {<<"chunk", c, o.chunks[c]>>} ELSE {}
        IN  /\ live' = (live \ gone) \cup {s}
            /\ manifest' = After(manifest, gone, NoMedia, s, manifest[s])
            /\ meta' = After(meta, gone, NoMeta, s, o.meta)
            /\ buffer' = After(buffer, gone, Nothing, s, o.buffer)
            /\ chunks' = After(chunks, gone, NoChunks, s, o.chunks)
            /\ latest' \in LatestWithout(gone) /\ unpruned' = unpruned \ gone
            /\ disk' = [DiskWithout(gone, r) EXCEPT ![s] = @ \cup file]
            /\ Advance(UsedMarks(gone) \cup DirMarks(gone \ r.stays),
                       Touched(r) \o <<<<"used", s>>>> \o DirTouched(s, saving /\ write # "refused"))
            /\ faults' = faults + Cardinality(r.stays) + Failed(write)
    BY <1>2, Zenon DEF IngestPacket
<1>4. PICK tail \in Tails(s) : /\ tail = DirTouched(s, Saves(s, c, o) /\ write # "refused")
                               /\ Saves(s, c, o) /\ write = "saved" => tail # <<>>
    BY DEF Tails, DirTouched
<1>5. Advance(UsedMarks(gone) \cup DirMarks(gone \ r.stays), Touching(r, s, tail))
    BY <1>3, <1>4, Zenon DEF Touching
<1>6. PICK file : file = IF Saves(s, c, o) /\ write = "saved" THEN {<<"chunk", c, o.chunks[c]>>} ELSE {}
    OBVIOUS
<1>7. disk' = [DiskWithout(gone, r) EXCEPT ![s] = disk[s] \cup file]
    <2>1. disk' = [DiskWithout(gone, r) EXCEPT ![s] = @ \cup file]
        BY <1>3, <1>6, Zenon
    <2>2. DiskWithout(gone, r)[s] = disk[s]
        BY <1>2, DirectoriesAfter
    <2> QED BY <2>1, <2>2
<1>8. Arriving(s, r, manifest[s], o.meta, o.buffer, o.chunks, disk[s] \cup file, tail, unpruned \cap {s})
    <2>1. UNCHANGED restarts
        BY DEF IngestPacket
    <2>2. unpruned' = (unpruned \ (gone \cup {s})) \cup (unpruned \cap {s})
        BY <1>2, <1>3
    <2>3. Arrival(s, Evicted(s), manifest[s], o.chunks, unpruned \cap {s})
        BY <1>2, <1>3, <2>1, <2>2 DEF Arrival
    <2>4. /\ meta' = After(meta, Evicted(s), NoMeta, s, o.meta)
          /\ buffer' = After(buffer, Evicted(s), Nothing, s, o.buffer)
        BY <1>2, <1>3
    <2>5. \E f \in BOOLEAN : faults' = faults + Cardinality(r.stays) + (IF f THEN 1 ELSE 0)
        BY <1>3 DEF Failed
    <2> QED BY <1>2, <1>5, <1>7, <2>3, <2>4, <2>5 DEF Arriving
<1>9. faults' = 0 => faults = 0 /\ write = "saved"
    <2>1. PICK k \in Nat : k = Cardinality(r.stays)
        BY <1>2, RemovalCounts
    <2>2. faults' = faults + k + Failed(write)
        BY <1>3, <2>1
    <2>3. faults \in Nat
        BY DEF WholeInv
    <2>4. CASE write # "saved"
        BY <2>2, <2>3, <2>4 DEF Failed
    <2>5. CASE write = "saved"
        BY <2>2, <2>3, <2>5 DEF Failed
    <2> QED BY <2>4, <2>5
<1>10. latest' \in LatestWithout(Evicted(s))
    BY <1>2, <1>3
<1>11. \/ disk[s] \cup file = disk[s]
       \/ disk[s] \cup file = disk[s] \cup {<<"chunk", c, o.chunks[c]>>} /\ Saves(s, c, o) /\ tail # <<>>
    BY <1>4, <1>6
<1>12. faults' = 0 => faults = 0 /\ (Saves(s, c, o) => <<"chunk", c, o.chunks[c]>> \in disk[s] \cup file)
    BY <1>6, <1>9
<1>13. PICK d : d = disk[s] \cup file
    OBVIOUS
<1>14. PacketEffect(s, c, r, o, d, tail)
    BY <1>8, <1>10, <1>11, <1>12, <1>13 DEF PacketEffect
<1>15. r \in Removals(Evicted(s))
    BY <1>2
<1> QED BY <1>1, <1>14, <1>15

\* The default manifest is one of those that are left.
LEMMA LatestFollows ==
    ASSUME WholeInv, NEW s \in Session, NEW gone \in SUBSET (Session \ {s}), latest' \in LatestWithout(gone),
           manifest'[s] = manifest[s], \A t \in gone : manifest'[t] = NoMedia,
           \A t \in Session \ {s} : t \notin gone => manifest'[t] = manifest[t]
    PROVE  latest' \in Session \cup {NoSession} /\ LatestIsRegistered'
<1>1. \/ latest' \in Session \ gone /\ manifest[latest'] # NoMedia
      \/ latest' = NoSession /\ \A t \in Session \ gone : manifest[t] = NoMedia
    BY LatestMoves
<1>2. NoSession \notin Session
    BY ReceiverAssumption
<1> QED BY <1>1, <1>2 DEF LatestIsRegistered

LEMMA PacketKeepsInv ==
    ASSUME WholeInv, NEW s \in Session, NEW m \in Media, NEW c \in Chunks(m), NEW i, IngestPacket(s, m, c, i)
    PROVE  WholeInv'
<1>1. PICK r \in Removals(Evicted(s)), o \in AfterDroplet(s, m, c, i) :
         \E d : \E tail \in Tails(s) : PacketEffect(s, c, r, o, d, tail)
    BY PacketIs
<1>2. PICK d : \E tail \in Tails(s) : PacketEffect(s, c, r, o, d, tail)
    BY <1>1
<1>3. PICK tail \in Tails(s) : PacketEffect(s, c, r, o, d, tail)
    BY <1>2
<1>4. /\ Arriving(s, r, manifest[s], o.meta, o.buffer, o.chunks, d, tail, unpruned \cap {s})
      /\ latest' \in LatestWithout(Evicted(s))
      /\ d = disk[s] \/ (d = disk[s] \cup {<<"chunk", c, o.chunks[c]>>} /\ Saves(s, c, o) /\ tail # <<>>)
      /\ faults' = 0 => faults = 0 /\ (Saves(s, c, o) => <<"chunk", c, o.chunks[c]>> \in d)
    BY <1>3 DEF PacketEffect
<1>5. Admitted(s, m, c)
    BY PacketIs
<1>6. SessionInv(s) /\ manifest[s] \in Media \cup {NoMedia}
    BY DEF WholeInv, ReceiverInv, SessionsAreReal
<1>7. Sound(o.meta, o.buffer, o.chunks)
    BY <1>5, <1>6, DropletKeepsSound DEF SessionInv
<1>8. unpruned \cap {s} # {} \/ Match(o.chunks, manifest[s])
    BY <1>5, DropletAdds, InvariantIs DEF WholeInv
<1>9. c \in Index
    BY SizesAre
<1>10. PICK kept : kept = Kept(s, c)
    OBVIOUS
<1>11. \A e \in DOMAIN o.chunks : \/ e \in DOMAIN chunks[s] /\ o.chunks[e] = chunks[s][e]
                                  \/ e = c /\ Saves(s, c, o)
    <2>1. /\ \A e \in DOMAIN kept : e \in DOMAIN chunks[s] /\ kept[e] = chunks[s][e]
          /\ c \in DOMAIN chunks[s] /\ c \notin DOMAIN kept => ~Verified(s, chunks[s][c])
        BY <1>10, KeptIs
    <2>2. CASE o.chunks = chunks[s] \/ o.chunks = kept
        BY <2>1, <2>2
    <2>3. ASSUME c \notin DOMAIN kept, NEW x, o.chunks = Put(kept, c, x), Verified(s, x)
          PROVE  \A e \in DOMAIN o.chunks : \/ e \in DOMAIN chunks[s] /\ o.chunks[e] = chunks[s][e]
                                            \/ e = c /\ Saves(s, c, o)
        <3>1. /\ DOMAIN o.chunks = DOMAIN kept \cup {c} /\ o.chunks[c] = x
              /\ \A e \in DOMAIN kept : o.chunks[e] = kept[e]
            BY <2>3 DEF Put
        <3>2. Saves(s, c, o)
            BY <2>1, <2>3, <3>1 DEF Saves
        <3> QED BY <2>1, <3>1, <3>2
    <2> QED BY <1>10, <2>2, <2>3, DropletChunks
<1>12. /\ d \subseteq disk[s] \cup {<<"chunk", c, o.chunks[c]>>} /\ disk[s] \subseteq d
       /\ d # disk[s] => c \in DOMAIN o.chunks /\ tail # <<>>
    BY <1>4 DEF Saves
<1>13. d \subseteq Files
    <2>1. disk[s] \subseteq Files
        BY <1>6 DEF SessionInv
    <2>2. c \in DOMAIN o.chunks => <<"chunk", c, o.chunks[c]>> \in Files
        BY <1>7, <1>9 DEF Sound, Files
    <2> QED BY <1>12, <2>1, <2>2
<1>14. \A n \in Media : <<"manifest", n>> \in d <=> <<"manifest", n>> \in disk[s]
    <2>1. \A n \in Media : <<"manifest", n>> # <<"chunk", c, o.chunks[c]>>
        OBVIOUS
    <2> QED BY <1>12, <2>1
<1>15. OneManifest(d)
    BY <1>6, <1>14 DEF SessionInv, OneManifest
<1>16. d # {} => disk[s] # {} \/ tail # <<>>
    BY <1>12
<1>17. faults' = 0 => unpruned \cap {s} = {} /\ Backs(d, manifest[s], o.chunks)
    <2> SUFFICES ASSUME faults' = 0 PROVE unpruned \cap {s} = {} /\ Backs(d, manifest[s], o.chunks)
        OBVIOUS
    <2>1. /\ s \notin unpruned /\ Backs(disk[s], manifest[s], chunks[s])
          /\ Saves(s, c, o) => <<"chunk", c, o.chunks[c]>> \in d
        BY <1>4, <1>6 DEF SessionInv
    <2>2. \A n \in Media : <<"manifest", n>> \in d <=> n = manifest[s]
        BY <1>14, <2>1 DEF Backs
    <2>3. ASSUME NEW e \in DOMAIN o.chunks PROVE <<"chunk", e, o.chunks[e]>> \in d
        <3>1. CASE e \in DOMAIN chunks[s] /\ o.chunks[e] = chunks[s][e]
            BY <1>12, <2>1, <3>1 DEF Backs
        <3>2. CASE e = c /\ Saves(s, c, o)
            BY <2>1, <3>2
        <3> QED BY <1>11, <3>1, <3>2
    <2> QED BY <2>1, <2>2, <2>3 DEF Backs
<1>18. latest' \in Session \cup {NoSession} /\ LatestIsRegistered'
    <2>1. /\ manifest'[s] = manifest[s] /\ \A t \in Evicted(s) : manifest'[t] = NoMedia
          /\ \A t \in Session \ {s} : t \notin Evicted(s) => manifest'[t] = manifest[t]
        BY <1>4, <1>6, ArrivingIs
    <2>2. Evicted(s) \in SUBSET (Session \ {s})
        BY EvictionSpares DEF WholeInv, ReceiverInv
    <2> QED BY <1>4, <2>1, <2>2, LatestFollows
<1>19. manifest[s] # NoMedia => Fits(manifest[s])
    BY <1>6 DEF SessionInv
<1> QED BY <1>4, <1>6, <1>7, <1>8, <1>13, <1>15, <1>16, <1>17, <1>18, <1>19, ArrivingKeeps

\* Manifest m makes o of its session and d of its directory, the manifest in it
\* replaced unless saving it failed.
Replaced(s, m) == (disk[s] \ {<<"manifest", n>> : n \in Media}) \cup {<<"manifest", m>>}
ManifestEffect(s, m, r, o, d, tail, cut) ==
    /\ Arriving(s, r, m, o.meta, o.buffer, o.chunks, d, tail, cut)
    /\ \/ cut = {} /\ o = Pruned(s, m)
       \/ cut = {s} /\ o = Part(meta[s], buffer[s], chunks[s])
    /\ d = disk[s] \/ (d = Replaced(s, m) /\ tail # <<>>)
    /\ faults' = 0 => faults = 0 /\ d = Replaced(s, m) /\ cut = {}

LEMMA ManifestIs ==
    ASSUME WholeInv, NEW s \in Session, NEW m \in Media, IngestManifest(s, m)
    PROVE  /\ Fits(m) /\ latest' = s
           /\ \E r \in Removals(Evicted(s)) : \E o, d : \E tail \in Tails(s), cut \in SUBSET {s} :
                 ManifestEffect(s, m, r, o, d, tail, cut)
<1>1. Fits(m) /\ latest' = s
    BY DEF IngestManifest
<1>2. PICK gone \in SUBSET (Session \ {s}) : gone = Evicted(s)
    BY EvictionSpares DEF WholeInv, ReceiverInv
<1>3. PICK saved : saved = Replaced(s, m)
    OBVIOUS
<1>4. PICK r \in Removals(gone), write \in ManifestWrites(s) :
        LET o == AfterManifest(s, m, write)
        IN  /\ live' = (live \ gone) \cup {s}
            /\ manifest' = After(manifest, gone, NoMedia, s, m)
            /\ meta' = After(meta, gone, NoMeta, s, o.meta)
            /\ buffer' = After(buffer, gone, Nothing, s, o.buffer)
            /\ chunks' = After(chunks, gone, NoChunks, s, o.chunks)
            /\ unpruned' = (unpruned \ (gone \cup {s})) \cup {t \in {s} : CutShort(write)}
            /\ disk' = [DiskWithout(gone, r) EXCEPT ![s] = IF write = "saved" THEN saved ELSE @]
            /\ Advance(UsedMarks(gone) \cup DirMarks(gone \ r.stays),
                       Touched(r) \o <<<<"used", s>>>> \o DirTouched(s, write # "refused"))
            /\ faults' = faults + Cardinality(r.stays) + Failed(write)
    BY <1>2, <1>3, Zenon DEF IngestManifest, Replaced
<1>5. PICK o : o = AfterManifest(s, m, write)
    OBVIOUS
<1>6. PICK tail \in Tails(s) : tail = DirTouched(s, write # "refused") /\ (write = "saved" => tail # <<>>)
    BY DEF Tails, DirTouched
<1>7. Advance(UsedMarks(gone) \cup DirMarks(gone \ r.stays), Touching(r, s, tail))
    BY <1>4, <1>6, Zenon DEF Touching
<1>8. PICK d : d = IF write = "saved" THEN saved ELSE disk[s]
    OBVIOUS
<1>9. disk' = [DiskWithout(gone, r) EXCEPT ![s] = d]
    <2>1. DiskWithout(gone, r)[s] = disk[s]
        BY <1>2, DirectoriesAfter
    <2>2. disk' = [DiskWithout(gone, r) EXCEPT ![s] = IF write = "saved" THEN saved ELSE @]
        BY <1>4, Zenon
    <2> QED BY <1>8, <2>1, <2>2
<1>10. PICK cut \in SUBSET {s} : /\ cut = {t \in {s} : CutShort(write)}
                                 /\ CutShort(write) => cut = {s}
                                 /\ ~CutShort(write) => cut = {}
    OBVIOUS
<1>11. Arriving(s, r, m, o.meta, o.buffer, o.chunks, d, tail, cut)
    <2>1. UNCHANGED restarts
        BY DEF IngestManifest
    <2>2. Arrival(s, Evicted(s), m, o.chunks, cut)
        BY <1>2, <1>4, <1>5, <1>10, <2>1 DEF Arrival
    <2>3. /\ meta' = After(meta, Evicted(s), NoMeta, s, o.meta)
          /\ buffer' = After(buffer, Evicted(s), Nothing, s, o.buffer)
        BY <1>2, <1>4, <1>5
    <2>4. \E f \in BOOLEAN : faults' = faults + Cardinality(r.stays) + (IF f THEN 1 ELSE 0)
        BY <1>4 DEF Failed
    <2> QED BY <1>2, <1>7, <1>9, <2>2, <2>3, <2>4 DEF Arriving
<1>12. \/ cut = {} /\ o = Pruned(s, m)
       \/ cut = {s} /\ o = Part(meta[s], buffer[s], chunks[s])
    BY <1>5, <1>10 DEF AfterManifest
<1>13. faults' = 0 => faults = 0 /\ write = "saved"
    <2>1. PICK k \in Nat : k = Cardinality(r.stays)
        BY <1>2, RemovalCounts
    <2>2. faults' = faults + k + Failed(write)
        BY <1>4, <2>1
    <2>3. faults \in Nat
        BY DEF WholeInv
    <2>4. CASE write # "saved"
        BY <2>2, <2>3, <2>4 DEF Failed
    <2>5. CASE write = "saved"
        BY <2>2, <2>3, <2>5 DEF Failed
    <2> QED BY <2>4, <2>5
<1>14. d = disk[s] \/ (d = saved /\ tail # <<>>)
    BY <1>6, <1>8
<1>15. faults' = 0 => faults = 0 /\ d = saved /\ cut = {}
    BY <1>8, <1>10, <1>13 DEF CutShort
<1>16. r \in Removals(Evicted(s))
    BY <1>2
<1>17. ManifestEffect(s, m, r, o, d, tail, cut)
    BY <1>3, <1>11, <1>12, <1>14, <1>15 DEF ManifestEffect
<1> QED BY <1>1, <1>16, <1>17

LEMMA ManifestKeepsInv ==
    ASSUME WholeInv, NEW s \in Session, NEW m \in Media, IngestManifest(s, m)
    PROVE  WholeInv'
<1>1. Fits(m) /\ latest' = s
    BY ManifestIs
<1>2. PICK saved : saved = Replaced(s, m)
    OBVIOUS
<1>3. PICK r \in Removals(Evicted(s)) : \E o, d : \E tail \in Tails(s), cut \in SUBSET {s} :
         ManifestEffect(s, m, r, o, d, tail, cut)
    BY ManifestIs
<1>4. PICK o, d : \E tail \in Tails(s), cut \in SUBSET {s} : ManifestEffect(s, m, r, o, d, tail, cut)
    BY <1>3
<1>5. PICK tail \in Tails(s) : \E cut \in SUBSET {s} : ManifestEffect(s, m, r, o, d, tail, cut)
    BY <1>4
<1>6. PICK cut \in SUBSET {s} : ManifestEffect(s, m, r, o, d, tail, cut)
    BY <1>5
<1>7. /\ Arriving(s, r, m, o.meta, o.buffer, o.chunks, d, tail, cut)
      /\ \/ cut = {} /\ o = Pruned(s, m)
         \/ cut = {s} /\ o = Part(meta[s], buffer[s], chunks[s])
      /\ d = disk[s] \/ (d = saved /\ tail # <<>>)
      /\ faults' = 0 => faults = 0 /\ d = saved /\ cut = {}
    BY <1>2, <1>6 DEF ManifestEffect
<1>8. SessionInv(s)
    BY DEF WholeInv
<1>9. Sound(o.meta, o.buffer, o.chunks)
    <2>1. CASE o = Pruned(s, m)
        BY <1>8, <2>1, PrunedIsSound DEF SessionInv
    <2>2. CASE o = Part(meta[s], buffer[s], chunks[s])
        BY <1>8, <2>2 DEF SessionInv, Part
    <2> QED BY <1>7, <2>1, <2>2
<1>10. cut = {} => /\ Match(o.chunks, m)
                   /\ DOMAIN o.chunks = {c \in DOMAIN chunks[s] : c \in Chunks(m) /\ chunks[s][c] = m}
    BY <1>7, PruningFits
<1>11. \A n \in Media : <<"manifest", n>> \in saved <=> n = m
    BY <1>2 DEF Replaced
<1>12. d \subseteq Files /\ OneManifest(d)
    <2>1. disk[s] \subseteq Files /\ OneManifest(disk[s])
        BY <1>8 DEF SessionInv
    <2>2. <<"manifest", m>> \in Files
        BY DEF Files
    <2>3. OneManifest(saved)
        BY <1>11 DEF OneManifest
    <2> QED BY <1>2, <1>7, <2>1, <2>2, <2>3 DEF Replaced
<1>13. faults' = 0 => cut = {} /\ Backs(d, m, o.chunks)
    <2> SUFFICES ASSUME faults' = 0 PROVE Backs(saved, m, o.chunks)
        BY <1>7
    <2>1. Backs(disk[s], manifest[s], chunks[s]) /\ cut = {}
        BY <1>7, <1>8 DEF SessionInv
    <2>2. ASSUME NEW c \in DOMAIN o.chunks PROVE <<"chunk", c, o.chunks[c]>> \in saved
        <3>1. m # NoMedia
            BY MediaAreNone
        <3>2. o.chunks[c] = chunks[s][c] /\ c \in DOMAIN chunks[s]
            BY <1>10, <2>1, <3>1 DEF Match
        <3>3. <<"chunk", c, o.chunks[c]>> \in disk[s]
            BY <2>1, <3>2 DEF Backs
        <3>4. <<"chunk", c, o.chunks[c]>> \notin {<<"manifest", n>> : n \in Media}
            OBVIOUS
        <3> QED BY <1>2, <3>3, <3>4 DEF Replaced
    <2> QED BY <1>11, <2>2 DEF Backs
<1>14. latest' \in Session \cup {NoSession} /\ LatestIsRegistered'
    <2>1. manifest'[s] = m
        BY <1>7, ArrivingIs
    <2>2. s # NoSession /\ m # NoMedia
        BY ReceiverAssumption, MediaAreNone
    <2> QED BY <1>1, <2>1, <2>2 DEF LatestIsRegistered
<1>15. (cut # {} \/ Match(o.chunks, m)) /\ (d # {} => disk[s] # {} \/ tail # <<>>)
    BY <1>7, <1>10
<1>16. PICK n \in Media \cup {NoMedia} : n = m
    OBVIOUS
<1>17. Arriving(s, r, n, o.meta, o.buffer, o.chunks, d, tail, cut)
    BY <1>7, <1>16
<1>18. cut # {} \/ Match(o.chunks, n)
    BY <1>15, <1>16
<1>19. faults' = 0 => cut = {} /\ Backs(d, n, o.chunks)
    BY <1>13, <1>16
<1>20. n # NoMedia => Fits(n)
    BY <1>1, <1>16
<1>21. d # {} => disk[s] # {} \/ tail # <<>>
    BY <1>15
<1>22. PICK me, bu, ch : me = o.meta /\ bu = o.buffer /\ ch = o.chunks
    OBVIOUS
<1>23. /\ Arriving(s, r, n, me, bu, ch, d, tail, cut) /\ Sound(me, bu, ch) /\ (cut # {} \/ Match(ch, n))
       /\ faults' = 0 => cut = {} /\ Backs(d, n, ch)
    BY <1>9, <1>17, <1>18, <1>19, <1>22
<1> QED BY <1>12, <1>14, <1>20, <1>21, <1>23, ArrivingKeeps

-----------------------------------------------------------------------------
(* The other actions. *)

LEMMA MisjudgeKeepsInv ==
    ASSUME WholeInv, NEW s \in Session, NEW m \in Media, Misjudge(s, m)
    PROVE  WholeInv'
<1>9. PICK e \in DOMAIN chunks[s] : /\ chunks' = [chunks EXCEPT ![s] = Forget(@, e)]
                                    /\ meta' = [meta EXCEPT ![s][e] = 0]
    BY DEF Misjudge
<1>1. /\ manifest[s] # NoMedia
      /\ UNCHANGED <<live, manifest, buffer, latest, unpruned, disk, marks, earlier, expired, faults>>
    BY DEF Misjudge
<1>2. Tables /\ DOMAIN chunks = Session /\ SessionInv(s)
    BY DEF WholeInv, ReceiverInv, SessionsAreReal
<1>3. /\ chunks'[s] = Forget(chunks[s], e) /\ meta'[s] = [meta[s] EXCEPT ![e] = 0]
      /\ \A t \in Session \ {s} : chunks'[t] = chunks[t] /\ meta'[t] = meta[t]
      /\ DOMAIN chunks' = Session /\ DOMAIN meta' = Session
    BY <1>2, <1>9 DEF Tables
<1>4. DOMAIN chunks'[s] \subseteq DOMAIN chunks[s] /\ \A c \in DOMAIN chunks'[s] : chunks'[s][c] = chunks[s][c]
    BY <1>3 DEF Forget
<1>5. SessionInv(s)'
    <2>1. Sound(meta'[s], buffer'[s], chunks'[s])
        BY <1>1, <1>2, <1>3, ForgettingKeepsSound DEF SessionInv
    <2>2. s \in live
        BY <1>1, <1>2 DEF SessionInv
    <2>3. faults' = 0 => Backs(disk'[s], manifest'[s], chunks'[s])
        BY <1>1, <1>2, <1>4 DEF SessionInv, Backs
    <2> QED BY <1>1, <1>2, <2>1, <2>2, <2>3 DEF SessionInv, HasDir
<1>6. ASSUME NEW t \in Session \ {s} PROVE SessionInv(t)'
    <2>1. SessionInv(t)
        BY DEF WholeInv
    <2> QED BY <1>1, <1>3, <2>1 DEF SessionInv, HasDir
<1>7. ReceiverInv'
    <2>1. ChunksMatchManifest'
        BY <1>1, <1>3, <1>4 DEF WholeInv, ReceiverInv, ChunksMatchManifest
    <2> QED BY <1>1, <1>3, <2>1 DEF WholeInv, ReceiverInv, SessionsAreReal
<1>8. ClockInv' /\ Tables' /\ LatestIsRegistered'
    BY <1>1, <1>3 DEF WholeInv, ClockInv, Tables, LatestIsRegistered
<1> QED BY <1>1, <1>5, <1>6, <1>7, <1>8 DEF WholeInv

LEMMA ResetKeepsInv ==
    ASSUME WholeInv, NEW gone \in SUBSET Session, Reset(gone)
    PROVE  WholeInv'
<1>1. PICK r \in Removals(gone) :
        /\ live' = live \ gone
        /\ manifest' = [t \in Session |-> IF t \in gone THEN NoMedia ELSE manifest[t]]
        /\ meta' = [t \in Session |-> IF t \in gone THEN NoMeta ELSE meta[t]]
        /\ buffer' = [t \in Session |-> IF t \in gone THEN Nothing ELSE buffer[t]]
        /\ chunks' = [t \in Session |-> IF t \in gone THEN NoChunks ELSE chunks[t]]
        /\ latest' \in LatestWithout(gone) /\ unpruned' = unpruned \ gone
        /\ disk' = DiskWithout(gone, r)
        /\ Advance(UsedMarks(gone) \cup DirMarks(gone \ r.stays), Touched(r))
        /\ faults' = faults + Cardinality(r.stays)
    BY Zenon DEF Reset
<1>2. /\ DOMAIN disk' = Session
      /\ \A t \in Session : /\ disk'[t] \subseteq disk[t] /\ (t \notin gone => disk'[t] = disk[t])
                            /\ t \in gone \ r.stays => disk'[t] = {}
                            /\ t \in r.stays => HasDir(t)
    BY <1>1, DirectoriesAfter
<1>3. /\ ClockInv'
      /\ \A t \in Session : <<"used", t>> \in marks' <=> t \notin gone /\ <<"used", t>> \in marks
      /\ \A t \in Session : HasDir(t) /\ t \notin gone \ r.stays => <<"dir", t>> \in marks'
    BY <1>1, ResetClock DEF WholeInv
<1>4. \A t \in Session : HasDir(t) /\ t \notin gone \ r.stays => HasDir(t)'
    BY <1>3 DEF HasDir
<1>5. faults' \in Nat /\ (faults' = 0 => faults = 0 /\ r.stays = {})
    <2>1. PICK k \in Nat : k = Cardinality(r.stays) /\ (k = 0 => r.stays = {})
        BY RemovalCounts
    <2>2. faults \in Nat /\ faults' = faults + k
        BY <1>1, <2>1 DEF WholeInv
    <2> QED BY <2>1, <2>2
<1>6. /\ \A t \in gone : manifest'[t] = NoMedia /\ meta'[t] = NoMeta /\ buffer'[t] = Nothing /\ chunks'[t] = NoChunks
      /\ \A t \in Session \ gone : /\ manifest'[t] = manifest[t] /\ meta'[t] = meta[t]
                                   /\ buffer'[t] = buffer[t] /\ chunks'[t] = chunks[t]
    BY <1>1
<1>7. ASSUME NEW t \in gone PROVE SessionInv(t)'
    <2>1. disk[t] \subseteq Files /\ OneManifest(disk[t])
        BY DEF WholeInv, SessionInv
    <2>2. disk'[t] \subseteq Files /\ OneManifest(disk'[t])
        BY <1>2, <2>1 DEF OneManifest
    <2>3. disk'[t] # {} => HasDir(t)'
        BY <1>2, <1>4
    <2>4. t \notin live' /\ <<"used", t>> \notin marks'
        BY <1>1, <1>3
    <2>5. faults' = 0 => Backs(disk'[t], manifest'[t], chunks'[t])
        <3>1. faults' = 0 => disk'[t] = {}
            BY <1>2, <1>5
        <3> QED BY <1>6, <3>1, MediaAreNone DEF Backs, NoChunks
    <2> QED BY <1>1, <1>6, <2>2, <2>3, <2>4, <2>5, NothingIsSound DEF SessionInv
<1>8. ASSUME NEW t \in Session \ gone PROVE SessionInv(t)'
    <2>1. SessionInv(t)
        BY DEF WholeInv
    <2>2. HasDir(t) => HasDir(t)'
        BY <1>4
    <2>3. /\ <<"used", t>> \in marks' <=> <<"used", t>> \in marks
          /\ t \in live' <=> t \in live
        BY <1>1, <1>3
    <2> QED BY <1>1, <1>2, <1>5, <1>6, <2>1, <2>2, <2>3 DEF SessionInv
<1>9. IsFiniteSet(live') /\ Cardinality(live') <= MaxSessions
    <2>1. live' \subseteq live /\ IsFiniteSet(live) /\ Cardinality(live) <= MaxSessions /\ MaxSessions \in Nat
        BY <1>1, ReceiverAssumption DEF WholeInv
    <2>2. /\ IsFiniteSet(live') /\ Cardinality(live') <= Cardinality(live)
          /\ Cardinality(live') \in Nat /\ Cardinality(live) \in Nat
        BY <2>1, FS_Subset, FS_CardinalityType
    <2> QED BY <2>1, <2>2
<1>10. latest' \in Session \cup {NoSession} /\ LatestIsRegistered'
    <2>1. \/ latest' \in Session \ gone /\ manifest[latest'] # NoMedia
          \/ latest' = NoSession /\ \A t \in Session \ gone : manifest[t] = NoMedia
        BY <1>1, LatestMoves
    <2>2. NoSession \notin Session
        BY ReceiverAssumption
    <2> QED BY <1>6, <2>1, <2>2 DEF LatestIsRegistered
<1>11. ReceiverInv' /\ Tables'
    <2>1. ResetStep(gone)
        BY <1>1 DEF ResetStep, Reset
    <2>2. ReceiverInv'
        BY <2>1, MediaAreNone DEF WholeInv, ReceiverInv, ResetStep, SessionsAreReal, ChunksMatchManifest
    <2> QED BY <1>1, <1>2, <2>2 DEF Tables
<1> QED BY <1>3, <1>5, <1>7, <1>8, <1>9, <1>10, <1>11 DEF WholeInv

LEMMA TimeKeepsInv ==
    ASSUME WholeInv, TimePasses
    PROVE  WholeInv'
<1>1. UNCHANGED <<live, manifest, meta, buffer, chunks, latest, unpruned, disk, marks, earlier, faults>>
    BY DEF TimePasses, memory
<1>2. expired' \subseteq marks
    BY DEF TimePasses
<1>3. ClockInv'
    BY <1>1, <1>2 DEF WholeInv, ClockInv
<1>4. ReceiverInv' /\ Tables' /\ LatestIsRegistered'
    BY <1>1 DEF WholeInv, ReceiverInv, SessionsAreReal, ChunksMatchManifest, Tables, LatestIsRegistered
<1>5. \A t \in Session : SessionInv(t)'
    BY <1>1 DEF WholeInv, SessionInv, HasDir
<1> QED BY <1>1, <1>3, <1>4, <1>5 DEF WholeInv

-----------------------------------------------------------------------------
(* Restart. *)

\* What a restart restores has a directory and a manifest that fits.
LEMMA RestoredHas ==
    ASSUME WholeInv
    PROVE  /\ Fresh \subseteq Session /\ IsFiniteSet(Fresh) /\ \A s \in Fresh : HasDir(s)
           /\ Restored \subseteq Fresh /\ Cardinality(Restored) <= MaxSessions
           /\ \A s \in Restored : /\ RestoredMedia(s) \in Media /\ Fits(RestoredMedia(s))
                                  /\ Saved(s) = {RestoredMedia(s)}
           /\ \A s \in Session : /\ s \notin Restored => RestoredMedia(s) = NoMedia /\ RestoredChunks(s) = {}
                                 /\ s \in Restored => RestoredChunks(s) \subseteq Chunks(RestoredMedia(s))
<1>1. Fresh \subseteq Session /\ \A s \in Fresh : HasDir(s)
    <2>1. \A s \in Fresh : s \in Session /\ disk[s] # {}
        BY DEF Fresh, Saved
    <2> QED BY <2>1 DEF WholeInv, SessionInv
<1>2. IsFiniteSet(Fresh)
    <2>1. PICK f : f = [x \in marks |-> x[2]]
        OBVIOUS
    <2>2. f = [x \in marks |-> f[x]] /\ IsFiniteSet(marks)
        BY <2>1 DEF WholeInv, ClockInv
    <2>3. IsFiniteSet({f[x] : x \in marks})
        BY <2>2, FiniteImage
    <2>4. Fresh \subseteq {f[x] : x \in marks}
        <3>1. ASSUME NEW s \in Fresh PROVE s \in {f[x] : x \in marks}
            <4>1. <<"dir", s>> \in marks
                BY <1>1 DEF HasDir
            <4>2. f[<<"dir", s>>] = s
                BY <2>1, <4>1
            <4> QED BY <4>1, <4>2
        <3> QED BY <3>1
    <2> QED BY <2>3, <2>4, FS_Subset
<1>3. Restored \subseteq Fresh /\ Cardinality(Restored) <= MaxSessions
    <2>1. ClockInv /\ MaxSessions \in Nat
        BY ReceiverAssumption DEF WholeInv
    <2>2. \A s \in Fresh : <<"dir", s>> \in marks
        BY <1>1 DEF HasDir
    <2>3. Cardinality(Fresh \ Surplus("dir", Fresh, MaxSessions)) <= MaxSessions
        BY <1>1, <1>2, <2>1, <2>2, SurplusLeaves
    <2> QED BY <2>3 DEF Restored
<1>4. ASSUME NEW s \in Restored
      PROVE  /\ RestoredMedia(s) \in Media /\ Fits(RestoredMedia(s)) /\ Saved(s) = {RestoredMedia(s)}
             /\ RestoredChunks(s) \subseteq Chunks(RestoredMedia(s))
    <2>1. s \in Fresh /\ s \in Session
        BY <1>1, <1>3
    <2>2. PICK m \in Saved(s) : Fits(m)
        BY <2>1 DEF Fresh
    <2>3. m \in Media /\ Saved(s) = {m}
        BY <2>1, <2>2 DEF Saved, WholeInv, SessionInv, OneManifest
    <2>4. RestoredMedia(s) = m
        BY <2>3 DEF RestoredMedia
    <2> QED BY <2>2, <2>3, <2>4 DEF RestoredChunks
<1>5. ASSUME NEW s \in Session, s \notin Restored PROVE RestoredMedia(s) = NoMedia /\ RestoredChunks(s) = {}
    BY <1>5 DEF RestoredMedia, RestoredChunks
<1> QED BY <1>1, <1>2, <1>3, <1>4, <1>5

\* The order that the directories give: a session was used when its directory
\* changed.
LEMMA RestoredOrder ==
    ASSUME ClockInv, NEW known \in SUBSET Mark, NEW order,
           \A x \in known : <<"dir", x[2]>> \in marks,
           order = {x \in known \X known : \/ Before(<<"dir", x[1][2]>>, <<"dir", x[2][2]>>)
                                           \/ x[2] = <<"used", x[1][2]>> /\ x[1] # x[2]}
    PROVE  IsOrder(known, order)
<1>1. /\ order \subseteq known \X known
      /\ \A x, y \in known : <<x, y>> \in order <=> \/ Before(<<"dir", x[2]>>, <<"dir", y[2]>>)
                                                    \/ y = <<"used", x[2]>> /\ x # y
    OBVIOUS
<1>2. \A x \in known : \/ x = <<"used", x[2]>>
                       \/ x = <<"dir", x[2]>>
    BY DEF Mark
<1>3. /\ \A a, b, c : /\ <<"dir", a>> \in marks /\ <<"dir", b>> \in marks /\ <<"dir", c>> \in marks
                      /\ Before(<<"dir", a>>, <<"dir", b>>) /\ Before(<<"dir", b>>, <<"dir", c>>)
                      => Before(<<"dir", a>>, <<"dir", c>>)
      /\ \A a : <<"dir", a>> \in marks => ~Before(<<"dir", a>>, <<"dir", a>>)
      /\ \A a, b : <<"dir", a>> \in marks /\ <<"dir", b>> \in marks =>
            a = b \/ Before(<<"dir", a>>, <<"dir", b>>) \/ Before(<<"dir", b>>, <<"dir", a>>)
    BY DEF ClockInv, IsOrder, Before
<1>4. \A x \in known : <<x, x>> \notin order
    BY <1>1, <1>3
<1>5. ASSUME NEW x \in known, NEW y \in known, NEW z \in known, <<x, y>> \in order, <<y, z>> \in order
      PROVE  <<x, z>> \in order
    <2>1. CASE Before(<<"dir", x[2]>>, <<"dir", y[2]>>) /\ Before(<<"dir", y[2]>>, <<"dir", z[2]>>)
        <3>1. <<"dir", x[2]>> \in marks /\ <<"dir", y[2]>> \in marks /\ <<"dir", z[2]>> \in marks
            OBVIOUS
        <3>2. Before(<<"dir", x[2]>>, <<"dir", z[2]>>)
            BY <1>3, <2>1, <3>1
        <3> QED BY <1>1, <3>2
    <2>2. CASE y = <<"used", x[2]>> /\ Before(<<"dir", y[2]>>, <<"dir", z[2]>>)
        BY <1>1, <2>2
    <2>3. CASE Before(<<"dir", x[2]>>, <<"dir", y[2]>>) /\ z = <<"used", y[2]>>
        BY <1>1, <2>3
    <2>4. CASE y = <<"used", x[2]>> /\ z = <<"used", y[2]>> /\ y # z
        BY <2>4
    <2> QED BY <1>1, <1>5, <2>1, <2>2, <2>3, <2>4
<1>6. ASSUME NEW x \in known, NEW y \in known, x # y PROVE <<x, y>> \in order \/ <<y, x>> \in order
    <2>1. CASE x[2] = y[2]
        <3>1. x = <<"used", y[2]>> \/ y = <<"used", x[2]>>
            BY <1>2, <1>6, <2>1
        <3> QED BY <1>1, <1>6, <3>1
    <2>2. CASE x[2] # y[2]
        BY <1>1, <1>3, <2>2
    <2> QED BY <2>1, <2>2
<1> QED BY <1>1, <1>4, <1>5, <1>6 DEF IsOrder

\* Marks that become the newest.
LEMMA LaterOrder ==
    ASSUME NEW known, NEW order, IsOrder(known, order), NEW x, x \notin known
    PROVE  IsOrder(known \cup {x}, order \cup (known \X {x}))
BY DEF IsOrder

\* The clock after a restart: the directories left, the restored sessions used
\* when theirs changed, the directory a removal has touched as the newest.
LEMMA RestartClock ==
    ASSUME WholeInv, NEW gone \in SUBSET Session, NEW r \in Removals(gone), gone \cap Restored = {},
           NEW kept, NEW known, NEW now,
           kept = {x \in marks : x[1] = "dir"} \ (DirMarks(gone \ r.stays) \cup DirMarks(Shrunk(r))),
           known = kept \cup UsedMarks(Restored), now = ToSet(Touched(r)),
           marks' = known \cup now, expired' = expired \cap kept,
           earlier' = {x \in known \X known : \/ Before(<<"dir", x[1][2]>>, <<"dir", x[2][2]>>)
                                              \/ x[2] = <<"used", x[1][2]>> /\ x[1] # x[2]}
                      \cup (known \X now)
    PROVE  /\ ClockInv'
           /\ \A t \in Session : <<"used", t>> \in marks' <=> t \in Restored
           /\ \A t \in Session : HasDir(t) /\ t \notin gone \ r.stays => <<"dir", t>> \in marks'
<1>1. Restored \subseteq Session /\ \A t \in Restored : HasDir(t)
    BY RestoredHas
<1>2. kept \subseteq marks /\ \A x \in kept : x[1] = "dir"
    OBVIOUS
<1>3. marks \subseteq Mark /\ IsFiniteSet(marks) /\ ClockInv
    BY DEF WholeInv, ClockInv
<1>4. known \subseteq Mark /\ \A x \in known : <<"dir", x[2]>> \in marks
    <2>1. ASSUME NEW x \in kept PROVE x \in Mark /\ <<"dir", x[2]>> \in marks
        <3>1. x \in Mark /\ x[1] = "dir" /\ x \in marks
            BY <1>2, <1>3
        <3>2. x = <<"dir", x[2]>>
            BY <3>1 DEF Mark
        <3> QED BY <3>1, <3>2
    <2>2. ASSUME NEW x \in UsedMarks(Restored) PROVE x \in Mark /\ <<"dir", x[2]>> \in marks
        <3>1. PICK t \in Restored : x = <<"used", t>>
            BY DEF UsedMarks
        <3> QED BY <1>1, <3>1 DEF Mark, HasDir
    <2> QED BY <2>1, <2>2
<1>5. PICK order : order = {x \in known \X known : \/ Before(<<"dir", x[1][2]>>, <<"dir", x[2][2]>>)
                                                   \/ x[2] = <<"used", x[1][2]>> /\ x[1] # x[2]}
    OBVIOUS
<1>6. IsOrder(known, order)
    BY <1>3, <1>4, <1>5, RestoredOrder
<1>7. earlier' = order \cup (known \X now)
    BY <1>5
<1>8. IsFiniteSet(known)
    <2>1. IsFiniteSet(Restored) /\ IsFiniteSet(kept)
        BY <1>2, <1>3, RestoredHas, FS_Subset
    <2>2. PICK f : f = [t \in Restored |-> <<"used", t>>]
        OBVIOUS
    <2>3. f = [t \in Restored |-> f[t]] /\ UsedMarks(Restored) = {f[t] : t \in Restored}
        BY <2>2 DEF UsedMarks
    <2>4. IsFiniteSet(UsedMarks(Restored))
        BY <2>1, <2>3, FiniteImage
    <2> QED BY <2>1, <2>4, FS_Union
<1>9. CASE Touched(r) = <<>> /\ Shrunk(r) = {}
    <2>1. now = {} /\ DirMarks(Shrunk(r)) = {}
        BY <1>9, NoMarks DEF DirMarks
    <2>2. marks' = known /\ earlier' = order
        BY <1>7, <2>1
    <2>3. expired' \subseteq marks'
        BY <2>2
    <2>4. ClockInv'
        BY <1>4, <1>6, <1>8, <2>2, <2>3 DEF ClockInv
    <2>5. \A t \in Session : <<"used", t>> \in known <=> t \in Restored
        BY <1>2 DEF UsedMarks
    <2>6. \A t \in Session : HasDir(t) /\ t \notin gone \ r.stays => <<"dir", t>> \in known
        BY <2>1 DEF HasDir, DirMarks
    <2> QED BY <2>2, <2>4, <2>5, <2>6
<1>10. ASSUME NEW u \in r.stays, Touched(r) = <<<<"dir", u>>>>, Shrunk(r) = {u}
       PROVE  /\ ClockInv'
              /\ \A t \in Session : <<"used", t>> \in marks' <=> t \in Restored
              /\ \A t \in Session : HasDir(t) /\ t \notin gone \ r.stays => <<"dir", t>> \in marks'
    <2>1. u \in Session
        BY RemovalCounts
    <2>2. PICK x \in Mark : x = <<"dir", u>>
        BY <2>1 DEF Mark
    <2>3. now = {x} /\ DirMarks(Shrunk(r)) = {x}
        BY <1>10, <2>2, OneMark DEF DirMarks
    <2>4. x \notin known
        BY <2>2, <2>3 DEF UsedMarks
    <2>5. marks' = known \cup {x} /\ earlier' = order \cup (known \X {x})
        BY <1>7, <2>3
    <2>6. IsOrder(marks', earlier')
        <3>1. IsOrder(known \cup {x}, order \cup (known \X {x}))
            BY <1>6, <2>4, LaterOrder
        <3> QED BY <2>5, <3>1, Zenon
    <2>7. IsFiniteSet(marks')
        <3>1. IsFiniteSet(known \cup {x})
            BY <1>8, FS_AddElement
        <3> QED BY <2>5, <3>1, Zenon
    <2>8. marks' \subseteq Mark /\ expired' \subseteq marks'
        BY <1>4, <2>5
    <2>9. ClockInv'
        BY <2>6, <2>7, <2>8 DEF ClockInv
    <2>10. \A t \in Session : <<"used", t>> \in marks' <=> t \in Restored
        BY <1>2, <2>2, <2>5 DEF UsedMarks
    <2>11. ASSUME NEW t \in Session, HasDir(t), t \notin gone \ r.stays PROVE <<"dir", t>> \in marks'
        <3>1. <<"dir", t>> \notin DirMarks(gone \ r.stays) /\ <<"dir", t>> \in marks
            BY <2>11 DEF DirMarks, HasDir
        <3>2. <<"dir", t>> \in kept \/ <<"dir", t>> = x
            BY <2>3, <3>1
        <3> QED BY <2>5, <3>2
    <2> QED BY <2>9, <2>10, <2>11
<1> QED BY <1>9, <1>10, TouchedIs

LEMMA RestartKeepsInv ==
    ASSUME WholeInv, Restart
    PROVE  WholeInv'
<1> DEFINE gone == Expiring \cup (Fresh \ Restored)
<1>1. PICK r \in Removals(gone) :
        LET kept   == {x \in marks : x[1] = "dir"} \ (DirMarks(gone \ r.stays) \cup DirMarks(Shrunk(r)))
            known  == kept \cup UsedMarks(Restored)
            Dir(x) == <<"dir", x[2]>>
            now    == ToSet(Touched(r))
        IN  /\ live' = Restored /\ unpruned' = {}
            /\ manifest' = [s \in Session |-> RestoredMedia(s)]
            /\ meta' = [s \in Session |-> NoMeta] /\ buffer' = [s \in Session |-> Nothing]
            /\ chunks' = [s \in Session |-> [c \in RestoredChunks(s) |-> RestoredMedia(s)]]
            /\ latest' = IF Restored = {} THEN NoSession
                         ELSE CHOOSE s \in Restored : \A t \in Restored \ {s} :
                                 Before(<<"dir", t>>, <<"dir", s>>)
            /\ disk' = DiskWithout(gone, r)
            /\ marks' = known \cup now
            /\ earlier' = {x \in known \X known : \/ Before(Dir(x[1]), Dir(x[2]))
                                                  \/ x[2] = <<"used", x[1][2]>> /\ x[1] # x[2]}
                          \cup (known \X now)
            /\ expired' = expired \cap kept
            /\ faults' = faults + Cardinality(r.stays)
    BY Zenon DEF Restart
<1>2. gone \in SUBSET Session /\ gone \cap Restored = {}
    BY DEF Restored, Fresh, Expiring
<1>3. /\ Fresh \subseteq Session /\ IsFiniteSet(Fresh) /\ \A s \in Fresh : HasDir(s)
      /\ Restored \subseteq Fresh /\ Cardinality(Restored) <= MaxSessions
      /\ \A s \in Restored : /\ RestoredMedia(s) \in Media /\ Fits(RestoredMedia(s))
                             /\ Saved(s) = {RestoredMedia(s)}
      /\ \A s \in Session : /\ s \notin Restored => RestoredMedia(s) = NoMedia /\ RestoredChunks(s) = {}
                            /\ s \in Restored => RestoredChunks(s) \subseteq Chunks(RestoredMedia(s))
    BY RestoredHas
<1> HIDE DEF gone
<1>4. /\ ClockInv'
      /\ \A t \in Session : <<"used", t>> \in marks' <=> t \in Restored
      /\ \A t \in Session : HasDir(t) /\ t \notin gone \ r.stays => <<"dir", t>> \in marks'
    <2>1. PICK kept : kept = {x \in marks : x[1] = "dir"} \ (DirMarks(gone \ r.stays) \cup DirMarks(Shrunk(r)))
        OBVIOUS
    <2>2. PICK known : known = kept \cup UsedMarks(Restored)
        OBVIOUS
    <2>3. PICK now : now = ToSet(Touched(r))
        OBVIOUS
    <2>4. /\ marks' = known \cup now /\ expired' = expired \cap kept
          /\ earlier' = {x \in known \X known : \/ Before(<<"dir", x[1][2]>>, <<"dir", x[2][2]>>)
                                                \/ x[2] = <<"used", x[1][2]>> /\ x[1] # x[2]}
                        \cup (known \X now)
        BY <1>1, <2>1, <2>2, <2>3
    <2> QED BY <1>2, <2>1, <2>2, <2>3, <2>4, RestartClock
<1>5. /\ DOMAIN disk' = Session
      /\ \A t \in Session : /\ disk'[t] \subseteq disk[t] /\ (t \notin gone => disk'[t] = disk[t])
                            /\ t \in gone \ r.stays => disk'[t] = {}
                            /\ t \in r.stays => HasDir(t)
    <2>1. disk' = DiskWithout(gone, r)
        BY <1>1
    <2> QED BY <1>2, <2>1, DirectoriesAfter
<1>6. faults' \in Nat /\ (faults' = 0 => faults = 0 /\ r.stays = {})
    <2>1. PICK k \in Nat : k = Cardinality(r.stays) /\ (k = 0 => r.stays = {})
        BY <1>2, RemovalCounts
    <2>2. faults \in Nat /\ faults' = faults + k
        BY <1>1, <2>1 DEF WholeInv
    <2> QED BY <2>1, <2>2
<1>7. /\ live' = Restored /\ unpruned' = {}
      /\ manifest' = [s \in Session |-> RestoredMedia(s)]
      /\ meta' = [s \in Session |-> NoMeta] /\ buffer' = [s \in Session |-> Nothing]
      /\ chunks' = [s \in Session |-> [c \in RestoredChunks(s) |-> RestoredMedia(s)]]
    BY <1>1
<1>8. ASSUME NEW t \in Session PROVE SessionInv(t)'
    <2>1. /\ manifest'[t] = RestoredMedia(t) /\ meta'[t] = NoMeta /\ buffer'[t] = Nothing
          /\ chunks'[t] = [c \in RestoredChunks(t) |-> RestoredMedia(t)]
        BY <1>7
    <2>2. disk[t] \subseteq Files /\ OneManifest(disk[t]) /\ (disk[t] # {} => HasDir(t))
        BY DEF WholeInv, SessionInv
    <2>3. disk'[t] \subseteq Files /\ OneManifest(disk'[t])
        BY <1>5, <2>2 DEF OneManifest
    <2>4. disk'[t] # {} => HasDir(t)'
        BY <1>4, <1>5, <2>2 DEF HasDir
    <2>5. t \in live' <=> <<"used", t>> \in marks'
        BY <1>4, <1>7
    <2>6. CASE t \in Restored
        <3>1. PICK m \in Media : m = RestoredMedia(t) /\ Fits(m) /\ Saved(t) = {m}
            BY <1>3, <2>6
        <3>2. Sound(meta'[t], buffer'[t], chunks'[t])
            BY <1>3, <2>1, <2>6, <3>1, RestoredIsSound
        <3>3. Backs(disk'[t], manifest'[t], chunks'[t])
            <4>1. disk'[t] = disk[t]
                BY <1>2, <1>5, <2>6
            <4>2. \A n \in Media : <<"manifest", n>> \in disk[t] <=> n = m
                BY <3>1 DEF Saved
            <4>3. \A c \in RestoredChunks(t) : <<"chunk", c, m>> \in disk[t]
                BY <2>6, <3>1 DEF RestoredChunks
            <4> QED BY <2>1, <3>1, <4>1, <4>2, <4>3 DEF Backs
        <3> QED BY <1>7, <2>1, <2>3, <2>4, <2>5, <2>6, <3>1, <3>2, <3>3 DEF SessionInv
    <2>7. CASE t \notin Restored
        <3>1. manifest'[t] = NoMedia /\ chunks'[t] = NoChunks
            BY <1>3, <2>1, <2>7 DEF NoChunks
        <3>2. faults' = 0 => Backs(disk'[t], manifest'[t], chunks'[t])
            <4> SUFFICES ASSUME faults' = 0 PROVE \A n \in Media : <<"manifest", n>> \notin disk'[t]
                BY <3>1, MediaAreNone DEF Backs, NoChunks
            <4>1. CASE t \in gone
                BY <1>5, <1>6, <4>1
            <4>2. CASE t \notin gone
                <5>1. Backs(disk[t], manifest[t], chunks[t]) /\ (manifest[t] # NoMedia => Fits(manifest[t]))
                    BY <1>6 DEF WholeInv, SessionInv
                <5>2. t \notin Expiring /\ t \notin Fresh
                    BY <2>7, <4>2 DEF gone
                <5>3. ASSUME NEW n \in Media, <<"manifest", n>> \in disk[t] PROVE FALSE
                    <6>1. n = manifest[t] /\ n \in Saved(t) /\ n # NoMedia
                        BY <5>1, <5>3, MediaAreNone DEF Backs, Saved
                    <6> QED BY <5>1, <5>2, <6>1 DEF Fresh
                <5> QED BY <1>5, <4>2, <5>3
            <4> QED BY <4>1, <4>2
        <3> QED BY <1>7, <2>1, <2>3, <2>4, <2>5, <2>7, <3>1, <3>2, NothingIsSound DEF SessionInv
    <2> QED BY <2>6, <2>7
<1>9. latest' \in Session \cup {NoSession} /\ LatestIsRegistered'
    <2>1. latest' = IF Restored = {} THEN NoSession
                    ELSE CHOOSE s \in Restored : \A t \in Restored \ {s} : Before(<<"dir", t>>, <<"dir", s>>)
        BY <1>1
    <2>2. CASE Restored = {}
        BY <1>3, <1>7, <2>1, <2>2 DEF LatestIsRegistered
    <2>3. CASE Restored # {}
        <3>1. \A u \in Restored : <<"dir", u>> \in marks
            BY <1>3 DEF HasDir
        <3>2. Restored \in SUBSET Session /\ IsFiniteSet(Restored) /\ ClockInv
            BY <1>3, FS_Subset DEF WholeInv
        <3>3. \E s \in Restored : \A t \in Restored \ {s} : Before(<<"dir", t>>, <<"dir", s>>)
            BY <2>3, <3>1, <3>2, LastSession
        <3>4. latest' \in Restored
            BY <2>1, <2>3, <3>3
        <3>5. latest' \in Session /\ manifest'[latest'] # NoMedia /\ NoSession \notin Session
            BY <1>3, <1>7, <3>2, <3>4, MediaAreNone, ReceiverAssumption
        <3> QED BY <3>5 DEF LatestIsRegistered
    <2> QED BY <2>2, <2>3
<1>10. ReceiverInv' /\ Tables'
    <2>1. SessionsAreReal'
        BY <1>3, <1>7, MediaAreNone DEF SessionsAreReal
    <2>2. ChunksMatchManifest'
        BY <1>3, <1>7 DEF ChunksMatchManifest
    <2> QED BY <1>5, <1>7, <2>1, <2>2 DEF ReceiverInv, Tables
<1>11. IsFiniteSet(live') /\ Cardinality(live') <= MaxSessions
    BY <1>3, <1>7, FS_Subset
<1> QED BY <1>4, <1>6, <1>8, <1>9, <1>10, <1>11 DEF WholeInv

-----------------------------------------------------------------------------
(* What the invariant gives. *)

LEMMA WholeStep ==
    ASSUME WholeInv, Next
    PROVE  WholeInv'
<1>1. CASE \E sm \in Carries : \E c \in Chunks(sm[2]) : \E i \in Seeds[sm[2]][c] :
             IngestPacket(sm[1], sm[2], c, i)
    <2>1. PICK sm \in Carries : \E c \in Chunks(sm[2]) : \E i \in Seeds[sm[2]][c] :
             IngestPacket(sm[1], sm[2], c, i)
        BY <1>1
    <2>2. PICK s \in Session, m \in Media : s = sm[1] /\ m = sm[2]
        BY ReceiverAssumption
    <2>3. PICK c \in Chunks(m) : \E i \in Seeds[m][c] : IngestPacket(s, m, c, i)
        BY <2>1, <2>2
    <2> QED BY <2>3, PacketKeepsInv
<1>2. CASE \E sm \in Carries : IngestManifest(sm[1], sm[2]) \/ Misjudge(sm[1], sm[2])
    <2>1. PICK s \in Session, m \in Media : IngestManifest(s, m) \/ Misjudge(s, m)
        BY <1>2, ReceiverAssumption
    <2> QED BY <2>1, ManifestKeepsInv, MisjudgeKeepsInv
<1>3. CASE (\E s \in Session : ResetOne(s)) \/ ResetAll
    <2>1. PICK gone \in SUBSET Session : Reset(gone)
        BY <1>3 DEF ResetOne, ResetAll
    <2> QED BY <2>1, ResetKeepsInv
<1>4. CASE TimePasses
    BY <1>4, TimeKeepsInv
<1>5. CASE Restart
    BY <1>5, RestartKeepsInv
<1> QED BY <1>1, <1>2, <1>3, <1>4, <1>5 DEF Next

LEMMA UnchangedKeepsInv ==
    ASSUME WholeInv, UNCHANGED vars
    PROVE  WholeInv'
<1>1. UNCHANGED <<live, manifest, meta, buffer, chunks, latest, unpruned, disk, marks, earlier, expired, faults>>
    BY DEF vars, memory
<1>2. ClockInv'
    BY <1>1 DEF WholeInv, ClockInv
<1>3. ReceiverInv' /\ Tables' /\ LatestIsRegistered'
    BY <1>1 DEF WholeInv, ReceiverInv, SessionsAreReal, ChunksMatchManifest, Tables, LatestIsRegistered
<1>4. \A t \in Session : SessionInv(t)'
    BY <1>1 DEF WholeInv, SessionInv, HasDir
<1> QED BY <1>1, <1>2, <1>3, <1>4 DEF WholeInv

LEMMA WholeInitial == Init => WholeInv
<1> SUFFICES ASSUME Init PROVE WholeInv
    OBVIOUS
<1>1. /\ live = {} /\ latest = NoSession /\ marks = {} /\ earlier = {} /\ expired = {} /\ faults = 0
      /\ manifest = [s \in Session |-> NoMedia] /\ meta = [s \in Session |-> NoMeta]
      /\ buffer = [s \in Session |-> Nothing] /\ chunks = [s \in Session |-> NoChunks]
      /\ disk = [s \in Session |-> {}] /\ unpruned = {}
    BY DEF Init
<1>2. ReceiverInv
    BY ReceiverInitial
<1>3. ClockInv
    BY <1>1, FS_EmptySet DEF ClockInv, IsOrder
<1>4. Tables /\ LatestIsRegistered
    BY <1>1 DEF Tables, LatestIsRegistered
<1>5. IsFiniteSet(live) /\ Cardinality(live) <= MaxSessions
    BY <1>1, FS_EmptySet, ReceiverAssumption
<1>6. ASSUME NEW s \in Session PROVE SessionInv(s)
    <2>1. /\ manifest[s] = NoMedia /\ meta[s] = NoMeta /\ buffer[s] = Nothing /\ chunks[s] = NoChunks
          /\ disk[s] = {}
        BY <1>1
    <2>2. OneManifest({}) /\ Backs({}, NoMedia, NoChunks)
        BY MediaAreNone DEF OneManifest, Backs, NoChunks
    <2> QED BY <1>1, <2>1, <2>2, NothingIsSound DEF SessionInv
<1> QED BY <1>1, <1>2, <1>3, <1>4, <1>5, <1>6 DEF WholeInv

\* Whatever packets and manifests arrive, whatever is evicted, reset, lost on
\* disk and restored: the sessions, their directories and the clock satisfy the
\* receiver's inductive invariant.
THEOREM WholeInvariance == Spec => []WholeInv
BY WholeInitial, WholeStep, UnchangedKeepsInv, PTL DEF Spec

\* What the receiver keeps has the types it is given; a chunk is a content,
\* never the marker of a failed decode (ingest_packet's except ValueError).
THEOREM ReceiverTypes == Spec => []TypeOK
<1>1. WholeInv => TypeOK
    BY DEF WholeInv, ReceiverInv, SessionsAreReal, ClockInv, SessionInv, Sound, TypeOK
<1> QED BY <1>1, WholeInvariance, PTL

\* max_sessions, max_chunks and max_droplets hold together in every state, and
\* nothing is left in memory of a session that is gone (_evict_stale_sessions,
\* the early returns of ingest_packet and ingest_manifest).
THEOREM LimitsHold == Spec => []WithinLimits
<1>1. WholeInv => WithinLimits
    BY DEF WholeInv, SessionInv, Sound, Active, WithinLimits
<1> QED BY <1>1, WholeInvariance, PTL

\* latest_manifest is one of the manifests of the sessions in memory whenever
\* there is one, after eviction, reset and restart as well.
THEOREM LatestStaysRegistered == Spec => []LatestIsRegistered
<1>1. WholeInv => LatestIsRegistered
    BY DEF WholeInv
<1> QED BY <1>1, WholeInvariance, PTL

LEMMA InvResumes ==
    ASSUME WholeInv
    PROVE  RestartWouldResume
<1> SUFFICES ASSUME faults = 0, NEW s \in Session
             PROVE  IF manifest[s] # NoMedia /\ <<"dir", s>> \notin expired
                    THEN RestoredMedia(s) = manifest[s] /\ DOMAIN chunks[s] \subseteq RestoredChunks(s)
                    ELSE s \notin Restored
    BY DEF RestartWouldResume
<1>1. \A t \in Session : \A m \in Media : <<"manifest", m>> \in disk[t] <=> m = manifest[t]
    BY DEF WholeInv, SessionInv, Backs
<1>2. manifest \in [Session -> Media \cup {NoMedia}]
    BY DEF WholeInv, ReceiverInv, SessionsAreReal
<1>3. \A t \in Session : Saved(t) = {m \in Media : m = manifest[t]}
    BY <1>1 DEF Saved
<1>4. CASE manifest[s] # NoMedia /\ <<"dir", s>> \notin expired
    <2>1. Saved(s) = {manifest[s]} /\ manifest[s] \in Media
        BY <1>2, <1>3, <1>4
    <2>2. Fits(manifest[s])
        BY <1>4 DEF WholeInv, SessionInv
    <2>3. s \in Fresh
        BY <1>4, <2>1, <2>2 DEF Fresh, Expiring
    <2>4. s \in Restored
        <3> DEFINE later == {u \in Fresh : Before(<<"dir", s>>, <<"dir", u>>)}
        <3>1. \A t \in Fresh : t \in live
            <4>1. ASSUME NEW t \in Fresh PROVE t \in live
                <5>1. PICK m \in Saved(t) : TRUE
                    BY DEF Fresh
                <5>2. t \in Session /\ manifest[t] # NoMedia
                    BY <1>3, <5>1, MediaAreNone DEF Fresh
                <5> QED BY <5>2 DEF WholeInv, SessionInv
            <4> QED BY <4>1
        <3>2. s \notin later
            <4>1. HasDir(s)
                BY <2>3, RestoredHas
            <4> QED BY <4>1 DEF WholeInv, ClockInv, IsOrder, HasDir, Before
        <3>3. later \subseteq live \ {s}
            BY <3>1, <3>2
        <3>4. /\ IsFiniteSet(live) /\ Cardinality(live) <= MaxSessions /\ s \in live
              /\ MaxSessions \in Nat \ {0}
            BY <2>3, <3>1, ReceiverAssumption DEF WholeInv
        <3>5. /\ IsFiniteSet(live \ {s}) /\ Cardinality(live \ {s}) = Cardinality(live) - 1
              /\ Cardinality(live) \in Nat
            BY <3>4, FS_RemoveElement, FS_CardinalityType
        <3>6. Cardinality(later) <= Cardinality(live \ {s}) /\ Cardinality(later) \in Nat
            <4> HIDE DEF later
            <4> QED BY <3>3, <3>5, FS_Subset, FS_CardinalityType
        <3>7. ~(Cardinality(later) >= MaxSessions)
            <4> HIDE DEF later
            <4> QED BY <3>4, <3>5, <3>6
        <3> QED BY <2>3, <3>7 DEF Restored, Surplus
    <2>5. RestoredMedia(s) = manifest[s]
        BY <2>1, <2>4 DEF RestoredMedia
    <2>6. ASSUME NEW c \in DOMAIN chunks[s] PROVE c \in RestoredChunks(s)
        <3>1. c \in Chunks(manifest[s]) /\ chunks[s][c] = manifest[s]
            BY <1>4 DEF WholeInv, ReceiverInv, ChunksMatchManifest, SessionInv
        <3>2. <<"chunk", c, chunks[s][c]>> \in disk[s]
            BY DEF WholeInv, SessionInv, Backs
        <3> QED BY <2>4, <2>5, <3>1, <3>2 DEF RestoredChunks
    <2> QED BY <1>4, <2>5, <2>6
<1>5. CASE ~(manifest[s] # NoMedia /\ <<"dir", s>> \notin expired)
    <2>1. CASE manifest[s] = NoMedia
        <3>1. Saved(s) = {}
            BY <1>3, <2>1, MediaAreNone
        <3> QED BY <1>5, <3>1 DEF Restored, Fresh
    <2>2. CASE manifest[s] # NoMedia /\ <<"dir", s>> \in expired
        <3>1. Saved(s) # {}
            BY <1>2, <1>3, <2>2
        <3> QED BY <1>5, <2>2, <3>1 DEF Restored, Fresh, Expiring
    <2> QED BY <1>5, <2>1, <2>2
<1> QED BY <1>4, <1>5

\* As long as no file operation failed, a restart at any moment restores exactly
\* the sessions that have a manifest and are not too old, each with its media and
\* every chunk it has (_save_*_checkpoint, _load_checkpoints).
THEOREM RestartResumes == Spec => []RestartWouldResume
BY InvResumes, WholeInvariance, PTL

-----------------------------------------------------------------------------
(* Isolation. *)

\* The session a packet or a manifest is for is the newest afterwards.
LEMMA NewestIs ==
    ASSUME NEW known, NEW order, IsOrder(known, order), NEW s \in Session, UsedLast(known, order, s)
    PROVE  Newest(known, order) = s
<1> DEFINE UsedLatest(x) == /\ <<"used", x>> \in known
                            /\ \A y \in UsedMarks(Session \ {x}) \cap known : <<y, <<"used", x>>>> \in order
<1>1. UsedLatest(s)
    BY DEF UsedMarks, UsedLast
<1>2. ASSUME NEW x \in Session, UsedLatest(x) PROVE x = s
    <2> SUFFICES ASSUME x # s PROVE FALSE
        OBVIOUS
    <2>1. <<<<"used", s>>, <<"used", x>>>> \in order
        BY <1>2 DEF UsedMarks, UsedLast
    <2>2. <<<<"used", x>>, <<"used", s>>>> \in order
        BY <1>2 DEF UsedLast
    <2> QED BY <1>2, <2>1, <2>2 DEF IsOrder, UsedLast
<1>3. Newest(known, order) = CHOOSE x \in Session : UsedLatest(x)
    BY DEF Newest
<1> HIDE DEF UsedLatest
<1> QED BY <1>1, <1>2, <1>3

LEMMA ArrivingIsolates ==
    ASSUME WholeInv, NEW s \in Session, NEW r \in Removals(Evicted(s)),
           NEW n \in Media \cup {NoMedia}, NEW me, NEW bu, NEW ch, NEW d, NEW tail \in Tails(s),
           NEW cut \in SUBSET {s}, Arriving(s, r, n, me, bu, ch, d, tail, cut)
    PROVE  IsolatedStep
<1>1. PICK gone \in SUBSET (Session \ {s}) : gone = Evicted(s)
    BY EvictionSpares DEF WholeInv, ReceiverInv
<1>2. ClockInv /\ r \in Removals(gone)
    BY <1>1 DEF WholeInv
<1>3. PICK left, touched : /\ left = UsedMarks(gone) \cup DirMarks(gone \ r.stays)
                           /\ touched = Touching(r, s, tail)
                           /\ Advance(left, touched)
    BY <1>1, Zenon DEF Arriving
<1>4. /\ ClockInv'
      /\ \A t \in Session : <<"used", t>> \in marks' <=> t = s \/ (t \notin gone /\ <<"used", t>> \in marks)
      /\ \A t \in Session : HasDir(t) /\ t \notin gone \ r.stays => <<"dir", t>> \in marks'
      /\ tail # <<>> => <<"dir", s>> \in marks'
      /\ UsedLast(marks', earlier', s)
    BY <1>2, <1>3, ArrivalClock
<1>5. Newest(marks', earlier') = s
    <2>1. IsOrder(marks', earlier')
        BY <1>4 DEF ClockInv
    <2> QED BY <1>4, <2>1, NewestIs
<1>6. live' = (live \ gone) \cup {s} /\ live \subseteq Session
    BY <1>1 DEF Arriving, Arrival, WholeInv, ReceiverInv, SessionsAreReal
<1>7. /\ \A t \in gone : disk'[t] \subseteq disk[t] /\ (t \notin r.stays => disk'[t] = {})
      /\ \A t \in Session \ {s} : t \notin gone =>
           /\ manifest'[t] = manifest[t] /\ meta'[t] = meta[t] /\ buffer'[t] = buffer[t]
           /\ chunks'[t] = chunks[t] /\ disk'[t] = disk[t]
    BY <1>1, ArrivingIs
<1>8. faults' = faults => r.stays = {}
    <2>1. PICK k \in Nat : k = Cardinality(r.stays) /\ (k = 0 => r.stays = {})
        BY <1>2, RemovalCounts
    <2>2. PICK fails \in BOOLEAN : faults' = faults + k + (IF fails THEN 1 ELSE 0)
        BY <2>1 DEF Arriving
    <2>3. PICK j \in Nat : j = IF fails THEN 1 ELSE 0
        OBVIOUS
    <2>4. faults \in Nat /\ faults' = faults + k + j
        BY <2>2, <2>3 DEF WholeInv
    <2> QED BY <2>1, <2>4
<1>9. ASSUME NEW t \in live \ {s}, t \notin gone
      PROVE  t \in live' /\ MemoryOf(t)' = MemoryOf(t) /\ disk'[t] = disk[t]
    BY <1>6, <1>7, <1>9 DEF MemoryOf
<1>10. ASSUME NEW t \in live \ {s}, t \in gone
       PROVE  /\ t \notin live' /\ disk'[t] \subseteq disk[t] /\ (faults' = faults => disk'[t] = {})
              /\ \/ <<"used", t>> \in expired
                 \/ s \notin live /\ \A u \in live' \ {s} : Before(<<"used", t>>, <<"used", u>>)
    <2>1. t \notin live' /\ disk'[t] \subseteq disk[t] /\ (faults' = faults => disk'[t] = {})
        BY <1>6, <1>7, <1>8, <1>10
    <2>2. CASE t \in ExpiredSessions(s)
        BY <2>1, <2>2 DEF ExpiredSessions
    <2>3. CASE t \notin ExpiredSessions(s)
        <3>1. PICK known : known = live \ ExpiredSessions(s)
            OBVIOUS
        <3>2. PICK limit \in Nat : limit = MaxSessions - 1
            BY ReceiverAssumption
        <3>3. s \notin known /\ gone = ExpiredSessions(s) \cup Surplus("used", known, limit)
            BY <1>1, <1>10, <2>3, <3>1, <3>2 DEF Evicted
        <3>4. s \notin live
            BY <3>1, <3>3 DEF ExpiredSessions
        <3>5. known \in SUBSET Session /\ IsFiniteSet(known) /\ \A u \in known : <<"used", u>> \in marks
            <4>1. IsFiniteSet(live) /\ \A u \in live : u \in Session /\ <<"used", u>> \in marks
                BY <1>6 DEF WholeInv, SessionInv
            <4> QED BY <3>1, <4>1, FS_Subset
        <3>6. ASSUME NEW u \in live' \ {s} PROVE Before(<<"used", t>>, <<"used", u>>)
            <4>1. u \in known \ Surplus("used", known, limit)
                BY <1>6, <3>1, <3>3
            <4>2. t \in Surplus("used", known, limit)
                BY <1>10, <2>3, <3>3
            <4> QED BY <1>2, <3>5, <4>1, <4>2, SurplusIsEarlier
        <3> QED BY <2>1, <3>4, <3>6
    <2> QED BY <2>2, <2>3
<1> QED BY <1>5, <1>9, <1>10 DEF IsolatedStep

LEMMA StepIsolates ==
    ASSUME WholeInv, [Next]_vars
    PROVE  IsolatedStep
<1>1. CASE UNCHANGED packets
    BY <1>1 DEF IsolatedStep
<1>2. CASE \E sm \in Carries : \E c \in Chunks(sm[2]) : \E i \in Seeds[sm[2]][c] :
             IngestPacket(sm[1], sm[2], c, i)
    <2>1. PICK sm \in Carries : \E c \in Chunks(sm[2]) : \E i \in Seeds[sm[2]][c] :
             IngestPacket(sm[1], sm[2], c, i)
        BY <1>2
    <2>2. PICK s \in Session, m \in Media : s = sm[1] /\ m = sm[2]
        BY ReceiverAssumption
    <2>3. PICK c \in Chunks(m) : \E i \in Seeds[m][c] : IngestPacket(s, m, c, i)
        BY <2>1, <2>2
    <2>4. PICK i : IngestPacket(s, m, c, i)
        BY <2>3
    <2>5. PICK r \in Removals(Evicted(s)), o \in AfterDroplet(s, m, c, i) :
             \E d : \E tail \in Tails(s) : PacketEffect(s, c, r, o, d, tail)
        BY <2>4, PacketIs
    <2>6. PICK d : \E tail \in Tails(s) : PacketEffect(s, c, r, o, d, tail)
        BY <2>5
    <2>7. PICK tail \in Tails(s) : PacketEffect(s, c, r, o, d, tail)
        BY <2>6
    <2>8. Arriving(s, r, manifest[s], o.meta, o.buffer, o.chunks, d, tail, unpruned \cap {s}) /\ manifest[s] \in Media \cup {NoMedia}
        BY <2>7 DEF PacketEffect, WholeInv, ReceiverInv, SessionsAreReal
    <2>9. PICK cut \in SUBSET {s} : cut = unpruned \cap {s}
        OBVIOUS
    <2>10. PICK n \in Media \cup {NoMedia} : n = manifest[s]
        BY <2>8
    <2>11. Arriving(s, r, n, o.meta, o.buffer, o.chunks, d, tail, cut)
        BY <2>8, <2>9, <2>10
    <2> QED BY <2>11, ArrivingIsolates
<1>3. CASE \E sm \in Carries : IngestManifest(sm[1], sm[2])
    <2>1. PICK s \in Session, m \in Media : IngestManifest(s, m)
        BY <1>3, ReceiverAssumption
    <2>2. PICK r \in Removals(Evicted(s)) : \E o, d : \E tail \in Tails(s), cut \in SUBSET {s} :
             ManifestEffect(s, m, r, o, d, tail, cut)
        BY <2>1, ManifestIs
    <2>3. PICK o, d : \E tail \in Tails(s), cut \in SUBSET {s} : ManifestEffect(s, m, r, o, d, tail, cut)
        BY <2>2
    <2>4. PICK tail \in Tails(s) : \E cut \in SUBSET {s} : ManifestEffect(s, m, r, o, d, tail, cut)
        BY <2>3
    <2>5. PICK cut \in SUBSET {s} : ManifestEffect(s, m, r, o, d, tail, cut)
        BY <2>4
    <2>6. Arriving(s, r, m, o.meta, o.buffer, o.chunks, d, tail, cut)
        BY <2>5 DEF ManifestEffect
    <2> QED BY <2>6, ArrivingIsolates
<1>4. CASE \E sm \in Carries : Misjudge(sm[1], sm[2])
    BY <1>1, <1>4 DEF Misjudge
<1>5. CASE (\E s \in Session : ResetOne(s)) \/ ResetAll
    BY <1>1, <1>5 DEF ResetOne, ResetAll, Reset
<1>6. CASE TimePasses \/ Restart
    BY <1>1, <1>6 DEF TimePasses, Restart
<1>7. CASE UNCHANGED vars
    BY <1>1, <1>7 DEF vars
<1> QED BY <1>2, <1>3, <1>4, <1>5, <1>6, <1>7 DEF Next

\* A packet or a manifest leaves every other session as it is, in memory and on
\* disk, or evicts it whole: because it expired, or as the least recently used
\* when a new session needs its place (_evict_stale_sessions).
THEOREM SessionsAreIsolated == Spec => SessionIsolation
<1>1. WholeInv /\ [Next]_vars => [IsolatedStep]_vars
    BY StepIsolates
<1> QED BY <1>1, WholeInvariance, PTL DEF Spec, SessionIsolation

=============================================================================
