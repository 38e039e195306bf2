---------------------------- MODULE StreamReceiver ----------------------------
(***************************************************************************)
(* FountainStreamReceiver (tfp_client/lib/media/receiver.py): fountain     *)
(* droplets and manifests of several sessions, in any order and number,    *)
(* with bounded buffers, eviction and a checkpoint directory that a        *)
(* restart reads back.                                                     *)
(*                                                                         *)
(* Abstracted: a droplet of media m, chunk c carries the seed only; k and  *)
(* orig_len are one number, Symbols[m][c]; what a chunk decoded to is the  *)
(* media it belongs to, or Garbled.  A session's directory is a set of     *)
(* files, each named as the code names it.  Time is an order of marks:     *)
(* <<"used", s>> is _session_timestamps[s], <<"dir", s>> the modification  *)
(* time of the session's directory, and the marks that are older than      *)
(* session_ttl_seconds are in expired.  Packets are those whose HMAC       *)
(* verifies.                                                               *)
(***************************************************************************)
EXTENDS Naturals, FiniteSets, SequencesExt

CONSTANTS
    Session, Media, NoMedia, Garbled, NoSession,
    Carries,        \* <<s, m>>: media m is sent under session id s
    ChunkCount,     \* chunks of each media
    Symbols,        \* Symbols[m][c]: source symbols (k) of chunk c of media m
    Seeds,          \* Seeds[m][c]: droplets sent of a chunk; seed i < k is its i-th source symbol
    MaxSessions, MaxDroplets, MaxChunks,   \* the receiver's own limits
    MaxEvents       \* bound on packets, failed file operations, restarts, resets and time-outs

Chunks(m) == 0..(ChunkCount[m] - 1)
Index     == UNION {Chunks(m) : m \in Media}
Contents  == Media \cup {Garbled}
Files     == {<<"manifest", m>> : m \in Media} \cup {<<"chunk", c, x>> : c \in Index, x \in Contents}

ASSUME ReceiverAssumption ==
    /\ MaxSessions \in Nat \ {0} /\ MaxDroplets \in Nat \ {0} /\ MaxChunks \in Nat \ {0}
    /\ MaxEvents \in Nat /\ Carries \subseteq Session \X Media
    /\ NoMedia \notin Contents /\ Garbled \notin Media /\ NoSession \notin Session
    /\ ChunkCount \in [Media -> Nat \ {0}]
    /\ \A m \in Media : Symbols[m] \in [Chunks(m) -> Nat \ {0}]
    /\ \A m \in Media : Seeds[m] \in [Chunks(m) -> SUBSET Nat]

VARIABLES
    live,      \* sessions with a timestamp (all the sessions in memory)
    manifest,  \* received_manifests
    meta,      \* _chunk_meta: k of a chunk, 0 when there is no entry
    buffer,    \* _droplet_buffers: the media of each seed received
    chunks,    \* reconstructed_chunks_by_session
    latest,    \* the session whose manifest is latest_manifest
    unpruned,  \* history: sessions whose manifest's ingest_manifest was cut short before its pruning
    disk,      \* the files of each session's directory
    marks,     \* the marks there are
    earlier,   \* <<x, y>> when mark x is earlier than mark y
    expired,
    packets, faults, restarts, others   \* events so far: others are resets and time-outs

memory == <<live, manifest, meta, buffer, chunks, latest, unpruned>>
vars   == <<memory, disk, marks, earlier, expired, packets, faults, restarts, others>>

NoBuffer == [i \in {} |-> NoMedia]
NoMeta   == [c \in Index |-> 0]
Nothing  == [c \in Index |-> NoBuffer]
NoChunks == [c \in {} |-> NoMedia]

Init ==
    /\ live = {} /\ latest = NoSession /\ unpruned = {}
    /\ manifest = [s \in Session |-> NoMedia] /\ meta = [s \in Session |-> NoMeta]
    /\ buffer = [s \in Session |-> Nothing]   /\ chunks = [s \in Session |-> NoChunks]
    /\ disk = [s \in Session |-> {}] /\ marks = {} /\ earlier = {} /\ expired = {}
    /\ packets = 0 /\ faults = 0 /\ restarts = 0 /\ others = 0

-----------------------------------------------------------------------------
(* Time. *)

Before(x, y) == <<x, y>> \in earlier
HasDir(s)    == <<"dir", s>> \in marks

InTurn(touched) ==
    {x \in ToSet(touched) \X ToSet(touched) :
        \E i, j \in 1..Len(touched) : i < j /\ x = <<touched[i], touched[j]>>}

\* The marks in gone disappear, those of the sequence touched become the newest.
Advance(gone, touched) ==
    LET now   == ToSet(touched)
        stays == marks \ (gone \cup now)
    IN  /\ marks' = stays \cup now
        /\ earlier' = (earlier \cap (stays \X stays)) \cup (stays \X now) \cup InTurn(touched)
        /\ expired' = expired \cap stays

Events == packets + faults + restarts + others

TimePasses ==
    /\ Events < MaxEvents /\ others' = others + 1
    /\ \E x \in marks \ expired : expired' = {y \in marks : y = x \/ Before(y, x)}
    /\ UNCHANGED <<memory, disk, marks, earlier, packets, faults, restarts>>

-----------------------------------------------------------------------------
(* reset and eviction. *)

ExpiredSessions(s) == {t \in live \ {s} : <<"used", t>> \in expired}

SurplusNewest(kind, sessions, limit) ==  \* mutant: the wrong end of the order goes
    {t \in sessions :
        Cardinality({u \in sessions : Before(<<kind, u>>, <<kind, t>>)}) >= limit}

\* The sessions with at least limit newer ones beside them.
Surplus(kind, sessions, limit) ==
    {t \in sessions :
        Cardinality({u \in sessions : Before(<<kind, t>>, <<kind, u>>)}) >= limit}

EvictedAtLimit(s) ==  \* mutant: room is made only when there is one too many
    ExpiredSessions(s) \cup Surplus("used", live \ ExpiredSessions(s), MaxSessions)

Evicted(s) ==
    LET known == live \ ExpiredSessions(s)
    IN  ExpiredSessions(s) \cup
          (IF s \in known THEN {} ELSE Surplus("used", known, MaxSessions - 1))

\* Directories of gone sessions are removed; one removal may fail half-way and
\* leave some of the files (_remove_checkpoint_session only logs).  kept is the
\* directory that stays, if any, and what it still holds.
Removals(gone) ==
    [stays : {{}}, files : {{}}] \cup
    (IF Events + 1 >= MaxEvents THEN {}
     ELSE UNION {[stays : {{t}}, files : SUBSET disk[t]] : t \in {u \in gone : HasDir(u)}})

DirMarks(sessions)  == {<<"dir", t>> : t \in sessions}
UsedMarks(sessions) == {<<"used", t>> : t \in sessions}

\* Removing some of a directory's files changes its modification time.
Shrunk(r) == {t \in r.stays : r.files # disk[t]}
Touched(r) == IF Shrunk(r) = {} THEN <<>> ELSE <<<<"dir", CHOOSE t \in Shrunk(r) : TRUE>>>>

DiskWithout(gone, r) ==
    [t \in Session |-> CASE t \in r.stays -> r.files
                         [] t \in gone \ r.stays -> {}
                         [] OTHER -> disk[t]]

LatestAsIs(gone) == {latest}  \* mutant: the default manifest outlives its session

\* latest_manifest falls back to a manifest that is left.
LatestWithout(gone) ==
    LET left == {t \in Session \ gone : manifest[t] # NoMedia}
    IN  IF latest \notin gone THEN {latest} ELSE IF left = {} THEN {NoSession} ELSE left

Reset(gone) ==
    /\ Events < MaxEvents /\ others' = others + 1
    /\ \E r \in Removals(gone) :
        /\ live' = live \ gone
        /\ manifest' = [t \in Session |-> IF t \in gone THEN NoMedia ELSE manifest[t]]
        /\ meta' = [t \in Session |-> IF t \in gone THEN NoMeta ELSE meta[t]]
        /\ buffer' = [t \in Session |-> IF t \in gone THEN Nothing ELSE buffer[t]]
        /\ chunks' = [t \in Session |-> IF t \in gone THEN NoChunks ELSE chunks[t]]
        /\ latest' \in LatestWithout(gone) /\ unpruned' = unpruned \ gone
        /\ disk' = DiskWithout(gone, r)
        /\ Advance(UsedMarks(gone) \cup DirMarks(gone \ r.stays), Touched(r))
        /\ faults' = faults + Cardinality(r.stays)
        /\ UNCHANGED <<packets, restarts>>

ResetOne(s) == (s \in live \/ HasDir(s)) /\ Reset({s})
ResetAll == (\E s \in Session : s \in live \/ HasDir(s)) /\ Reset(Session)

-----------------------------------------------------------------------------
(* ingest_packet. *)

Admitted(s, m, c) ==
    /\ Symbols[m][c] <= MaxDroplets
    /\ manifest[s] # NoMedia =>
         c \in Chunks(manifest[s]) /\ Symbols[m][c] = Symbols[manifest[s]][c]
    /\ meta[s][c] \in {0, Symbols[m][c]}
    /\ LET active == DOMAIN chunks[s] \cup {d \in Index : meta[s][d] # 0}
       IN  c \in active \/ Cardinality(active) < MaxChunks

\* What k or more droplets decode to; NoMedia when their rank is too small.
\* The k source symbols, when all there, are taken as they are.
Decoded(b, k) ==
    LET systematic == 0..(k - 1)
        sources(seeds) == {b[i] : i \in seeds}
    IN  IF systematic \subseteq DOMAIN b
        THEN IF Cardinality(sources(systematic)) = 1 THEN sources(systematic) ELSE {Garbled}
        ELSE {NoMedia} \cup
             (IF Cardinality(sources(DOMAIN b)) = 1 THEN sources(DOMAIN b)
              ELSE {Garbled} \cup
                   {m \in Media : Cardinality({i \in DOMAIN b : b[i] = m}) >= k})

Part(me, bu, ch) == [meta |-> me, buffer |-> bu, chunks |-> ch]

NeverUndecodable(x) == FALSE  \* mutant: the ValueError is not caught
Undecodable(x) == x = NoMedia
Verified(s, x) == manifest[s] = NoMedia \/ x = manifest[s]

Forget(f, c) == [d \in DOMAIN f \ {c} |-> f[d]]
Put(f, c, x) == [d \in DOMAIN f \cup {c} |-> IF d = c THEN x ELSE f[d]]

\* A chunk that is not the manifest's does not stand in the way of its droplets.
Kept(s, c) ==
    IF c \in DOMAIN chunks[s] /\ ~Verified(s, chunks[s][c]) THEN Forget(chunks[s], c) ELSE chunks[s]

\* The session's part of the state after a droplet (of chunk c of media m, seed
\* i): it is a duplicate, or one more, or completes the chunk.
AfterDroplet(s, m, c, i) ==
    LET kept == Kept(s, c)
        k    == Symbols[m][c]
        me   == [meta[s] EXCEPT ![c] = k]
        b    == Put(buffer[s][c], i, m)
        more == [buffer[s] EXCEPT ![c] = b]
    IN  IF c \in DOMAIN kept THEN {Part(meta[s], buffer[s], kept)}
        ELSE IF i \in DOMAIN buffer[s][c] \/ Cardinality(DOMAIN buffer[s][c]) >= MaxDroplets
        THEN {Part(me, buffer[s], kept)}
        ELSE IF Cardinality(DOMAIN b) < k THEN {Part(me, more, kept)}
        ELSE {CASE Undecodable(x) -> Part(me, more, kept)
                [] ~Undecodable(x) /\ ~Verified(s, x) -> Part(me, buffer[s], kept)
                [] OTHER -> Part(me, [buffer[s] EXCEPT ![c] = NoBuffer], Put(kept, c, x))
              : x \in Decoded(b, k)}

\* f for all sessions, when s gets v and those in gone start afresh.
After(f, gone, empty, s, v) ==
    [t \in Session |-> CASE t = s -> v [] t \in gone -> empty [] OTHER -> f[t]]

SavesVerified(s, c, o) ==  \* mutant: speculative chunks are not worth a file
    manifest[s] # NoMedia /\ c \in DOMAIN o.chunks /\ c \notin DOMAIN chunks[s]

\* Is a chunk saved?  Speculative ones, without a manifest, are too.
Saves(s, c, o) == c \in DOMAIN o.chunks /\ (c \in DOMAIN chunks[s] => o.chunks[c] # chunks[s][c])

\* What comes of writing a file of the session: a failed write is logged, but
\* mkdir is outside the try and raises when there is no directory yet.
Writes(s) == {"saved", "lost"} \cup (IF HasDir(s) THEN {} ELSE {"refused"})

Failed(write)          == IF write = "saved" THEN 0 ELSE 1
DirTouched(s, touched) == IF touched THEN <<<<"dir", s>>>> ELSE <<>>

IngestPacket(s, m, c, i) ==
    /\ Events < MaxEvents /\ Admitted(s, m, c)
    /\ \E r \in Removals(Evicted(s)), o \in AfterDroplet(s, m, c, i), write \in Writes(s) :
         LET gone   == Evicted(s)
             saving == Saves(s, c, o)
             file   == IF saving /\ write = "saved" THEN {<<"chunk", c, o.chunks[c]>>} ELSE {}
         IN  /\ write # "saved" => saving /\ Events + 1 + Cardinality(r.stays) < MaxEvents
             /\ live' = (live \ gone) \cup {s}
             /\ manifest' = After(manifest, gone, NoMedia, s, manifest[s])
             /\ meta' = After(meta, gone, NoMeta, s, o.meta)
             /\ buffer' = After(buffer, gone, Nothing, s, o.buffer)
             /\ chunks' = After(chunks, gone, NoChunks, s, o.chunks)
             /\ latest' \in LatestWithout(gone) /\ unpruned' = unpruned \ gone
             /\ disk' = [DiskWithout(gone, r) EXCEPT ![s] = @ \cup file]
             /\ Advance(UsedMarks(gone) \cup DirMarks(gone \ r.stays),
                        Touched(r) \o <<<<"used", s>>>> \o DirTouched(s, saving /\ write # "refused"))
             /\ faults' = faults + Cardinality(r.stays) + Failed(write)
    /\ packets' = packets + 1 /\ UNCHANGED <<restarts, others>>

-----------------------------------------------------------------------------
(* ingest_manifest, is_complete. *)

Fits(m) == ChunkCount[m] <= MaxChunks /\ \A c \in Chunks(m) : Symbols[m][c] <= MaxDroplets

PrunedBuffersOnly(s, m) ==  \* mutant: chunks rebuilt before the manifest stay
    [meta |-> meta[s], chunks |-> chunks[s],
     buffer |-> [c \in Index |-> IF c \in Chunks(m) THEN buffer[s][c] ELSE NoBuffer]]

StartsOver(s, m) ==  \* mutant: a repeated manifest starts the session afresh
    [meta |-> NoMeta, buffer |-> Nothing, chunks |-> NoChunks]

\* Speculative chunks that are the media's, with what else still fits it.
Pruned(s, m) ==
    LET wrong == {c \in Index : c \notin Chunks(m) \/ meta[s][c] # Symbols[m][c]}
        good  == {c \in DOMAIN chunks[s] : c \in Chunks(m) /\ chunks[s][c] = m}
    IN  Part([c \in Index |-> IF c \in wrong \cup (DOMAIN chunks[s] \ good) THEN 0 ELSE meta[s][c]],
                 [c \in Index |-> IF c \in wrong THEN NoBuffer ELSE buffer[s][c]],
                 [c \in good |-> chunks[s][c]])

\* The clean-up after a failed write of the manifest may raise as well.  What
\* raises ends ingest_manifest: the manifest is registered, nothing is pruned.
ManifestWrites(s) == Writes(s) \cup {"raised"}
CutShort(write)   == write \in {"refused", "raised"}

AfterManifest(s, m, write) ==
    IF CutShort(write) THEN Part(meta[s], buffer[s], chunks[s]) ELSE Pruned(s, m)

IngestManifest(s, m) ==
    /\ Events < MaxEvents /\ Fits(m)
    /\ \E r \in Removals(Evicted(s)), write \in ManifestWrites(s) :
         LET gone == Evicted(s)
             o    == AfterManifest(s, m, write)
             kept == disk[s] \ {<<"manifest", n>> : n \in Media}
         IN  /\ write # "saved" => Events + 1 + Cardinality(r.stays) < MaxEvents
             /\ live' = (live \ gone) \cup {s}
             /\ manifest' = After(manifest, gone, NoMedia, s, m)
             /\ meta' = After(meta, gone, NoMeta, s, o.meta)
             /\ buffer' = After(buffer, gone, Nothing, s, o.buffer)
             /\ chunks' = After(chunks, gone, NoChunks, s, o.chunks)
             /\ latest' = s
             /\ unpruned' = (unpruned \ (gone \cup {s})) \cup {t \in {s} : CutShort(write)}
             /\ disk' = [DiskWithout(gone, r) EXCEPT
                           ![s] = IF write = "saved" THEN kept \cup {<<"manifest", m>>} ELSE @]
             /\ Advance(UsedMarks(gone) \cup DirMarks(gone \ r.stays),
                        Touched(r) \o <<<<"used", s>>>> \o DirTouched(s, write # "refused"))
             /\ faults' = faults + Cardinality(r.stays) + Failed(write)
    /\ packets' = packets + 1 /\ UNCHANGED <<restarts, others>>

\* is_complete: the first chunk that is not the media's is purged, so that it can
\* be decoded again.  It is another media's, or left in a session that was not
\* pruned.  (A media that is not registered is registered first: IngestManifest.)
Misjudge(s, m) ==
    /\ manifest[s] # NoMedia /\ Fits(m)
    /\ Cardinality(DOMAIN chunks[s]) >= ChunkCount[m]
    /\ \E c \in Chunks(m) \cap DOMAIN chunks[s] :
         /\ chunks[s][c] # m
         /\ \A d \in 0..(c - 1) : d \in DOMAIN chunks[s] /\ chunks[s][d] = m
         /\ chunks' = [chunks EXCEPT ![s] = Forget(@, c)]
         /\ meta' = [meta EXCEPT ![s][c] = 0]
    /\ UNCHANGED <<live, manifest, buffer, latest, unpruned, disk, marks, earlier, expired, packets, faults, restarts, others>>

-----------------------------------------------------------------------------
(* A restart: the memory is lost, _load_checkpoints reads the directories. *)

Saved(s) == {m \in Media : <<"manifest", m>> \in disk[s]}
Expiring == {s \in Session : Saved(s) # {} /\ <<"dir", s>> \in expired}
Fresh    == {s \in Session \ Expiring : \E m \in Saved(s) : Fits(m)}
Restored == Fresh \ Surplus("dir", Fresh, MaxSessions)

RestoredMedia(s) == IF s \in Restored THEN CHOOSE m \in Media : m \in Saved(s) ELSE NoMedia
RestoredChunks(s) ==
    IF s \notin Restored THEN {}
    ELSE {c \in Chunks(RestoredMedia(s)) : <<"chunk", c, RestoredMedia(s)>> \in disk[s]}

Restart ==
    /\ Events < MaxEvents /\ restarts' = restarts + 1
    /\ LET gone == Expiring \cup (Fresh \ Restored)
       IN  \E r \in Removals(gone) :
           LET kept   == {x \in marks : x[1] = "dir"} \ (DirMarks(gone \ r.stays) \cup DirMarks(Shrunk(r)))
               \* a restored session was last used when its directory changed
               known  == kept \cup UsedMarks(Restored)
               Dir(x) == <<"dir", x[2]>>
               now    == ToSet(Touched(r))
           IN  /\ live' = Restored /\ unpruned' = {}
               /\ manifest' = [s \in Session |-> RestoredMedia(s)]
               /\ meta' = [s \in Session |-> NoMeta] /\ buffer' = [s \in Session |-> Nothing]
               /\ chunks' = [s \in Session |-> [c \in RestoredChunks(s) |-> RestoredMedia(s)]]
               /\ latest' = IF Restored = {} THEN NoSession
                            ELSE CHOOSE s \in Restored : \A t \in Restored \ {s} :
                                    Before(<<"dir", t>>, <<"dir", s>>)
               /\ disk' = DiskWithout(gone, r)
               /\ marks' = known \cup now
               /\ earlier' = {x \in known \X known : \/ Before(Dir(x[1]), Dir(x[2]))
                                                     \/ x[2] = <<"used", x[1][2]>> /\ x[1] # x[2]}
                             \cup (known \X now)
               /\ expired' = expired \cap kept
               /\ faults' = faults + Cardinality(r.stays)
               /\ UNCHANGED <<packets, others>>

Next ==
    \/ \E sm \in Carries : \E c \in Chunks(sm[2]) : \E i \in Seeds[sm[2]][c] : IngestPacket(sm[1], sm[2], c, i)
    \/ \E sm \in Carries : IngestManifest(sm[1], sm[2]) \/ Misjudge(sm[1], sm[2])
    \/ \E s \in Session : ResetOne(s)
    \/ ResetAll \/ TimePasses \/ Restart

Spec == Init /\ [][Next]_vars

-----------------------------------------------------------------------------
(* Properties. *)

\* Types: the sessions in memory and on disk, and above all that what a chunk
\* is said to have decoded to is a content, never the marker of a failed decode
\* (ingest_packet, the except ValueError around decoder.decode).
TypeOK ==
    /\ live \subseteq Session /\ manifest \in [Session -> Media \cup {NoMedia}]
    /\ latest \in Session \cup {NoSession}
    /\ \A s \in Session : /\ meta[s] \in [Index -> Nat] /\ DOMAIN buffer[s] = Index
                           /\ DOMAIN chunks[s] \subseteq Index
                           /\ \A c \in DOMAIN chunks[s] : chunks[s][c] \in Contents
                           /\ disk[s] \subseteq Files
    /\ unpruned \subseteq live /\ expired \subseteq marks

\* Once a session has its manifest, every chunk it holds is a chunk of that
\* media with that media's hash, also the chunks decoded before the manifest
\* came, restored from disk, or left from another media sent under the same
\* session id (ingest_manifest's pruning, ingest_packet's check of the hash).  The
\* exception: what _save_manifest_checkpoint raises ends ingest_manifest between
\* the registration and the pruning.
ChunksMatchManifest ==
    \A s \in Session \ unpruned : manifest[s] # NoMedia =>
        \A c \in DOMAIN chunks[s] : c \in Chunks(manifest[s]) /\ chunks[s][c] = manifest[s]

\* The three limits of the constructor hold together and nothing outlives its
\* session: max_sessions sessions in memory, max_chunks chunks begun or done in
\* one, max_droplets droplets of one chunk, and no buffer of a finished chunk.
WithinLimits ==
    /\ Cardinality(live) <= MaxSessions
    /\ \A s \in Session :
         /\ s \notin live => manifest[s] = NoMedia /\ meta[s] = NoMeta /\ chunks[s] = NoChunks
         /\ Cardinality(DOMAIN chunks[s] \cup {c \in Index : meta[s][c] # 0}) <= MaxChunks
         /\ \A c \in Index :
              /\ Cardinality(DOMAIN buffer[s][c]) <= MaxDroplets
              /\ buffer[s][c] # NoBuffer => meta[s][c] # 0 /\ c \notin DOMAIN chunks[s]

\* latest_manifest is a manifest that is still registered, and is None only when
\* no session has one: eviction, reset and restart must each move it.
LatestIsRegistered ==
    IF latest = NoSession THEN \A s \in Session : manifest[s] = NoMedia
    ELSE manifest[latest] # NoMedia

-----------------------------------------------------------------------------
MemoryOf(s) == <<manifest[s], meta[s], buffer[s], chunks[s]>>

\* The session used last.
Newest(known, order) ==
    CHOOSE s \in Session : /\ <<"used", s>> \in known
                           /\ \A x \in UsedMarks(Session \ {s}) \cap known : <<x, <<"used", s>>>> \in order

\* A packet or a manifest of one session leaves every other session as it is, in
\* memory and on disk, or evicts it whole; and only an expired session is
\* evicted, or the least recently used when the arriving session is new.
IsolatedStep ==
    packets' # packets =>
      LET used == Newest(marks', earlier')
      IN  \A t \in live \ {used} :
            \/ t \in live' /\ MemoryOf(t)' = MemoryOf(t) /\ disk'[t] = disk[t]
            \/ /\ t \notin live' /\ disk'[t] \subseteq disk[t] /\ (faults' = faults => disk'[t] = {})
               /\ \/ <<"used", t>> \in expired
                  \/ used \notin live /\ \A u \in live' \ {used} : Before(<<"used", t>>, <<"used", u>>)
SessionIsolation == [][IsolatedStep]_vars

\* At any moment, as long as no file operation failed, a restart would restore
\* exactly the sessions that have a manifest and are not too old, each with its
\* media and every chunk it has (_save_*_checkpoint against _load_checkpoints).
RestartWouldResume ==
    faults = 0 => \A s \in Session :
        IF manifest[s] # NoMedia /\ <<"dir", s>> \notin expired
        THEN RestoredMedia(s) = manifest[s] /\ DOMAIN chunks[s] \subseteq RestoredChunks(s)
        ELSE s \notin Restored

\* Droplets of another media than the session's.
Foreign(b, m) == {j \in DOMAIN b : b[j] # m}

\* Does the i-th droplet make chunk c decode to something else than the
\* manifest's?
Rejects(s, m, c, i) ==
    LET b == Put(buffer[s][c], i, m)
        k == Symbols[m][c]
    IN  /\ manifest[s] # NoMedia /\ c \notin DOMAIN chunks[s] /\ i \notin DOMAIN buffer[s][c]
        /\ Cardinality(DOMAIN b) >= k
        /\ Decoded(b, k) \cap {NoMedia, manifest[s]} = {}

\* ingest_packet's comment: "Remove the offending droplet that caused corrupted
\* decode".  After a decode that the manifest rejects, the buffer has fewer
\* droplets of another media than it had with the new one.
OffendingDropletRemoved ==
    [][\A s \in Session, m \in Media : \A c \in Chunks(m) : \A i \in Seeds[m][c] :
         <<s, m>> \in Carries /\ Rejects(s, m, c, i) /\ IngestPacket(s, m, c, i) =>
           Foreign(buffer'[s][c], manifest[s]) # Foreign(Put(buffer[s][c], i, m), manifest[s])]_vars

\* The receiver is a ChunkCollector for each session: the chunks that is_complete
\* and assemble take, those with the manifest's hash, come one at a time, only for
\* a registered media, and are lost only with their session, at a restart or when
\* a caller judges them by another media; whether or not a session was pruned.
Own(f, n) == {c \in DOMAIN f : n # NoMedia /\ c \in Chunks(n) /\ f[c] = n}
Have == [s \in Session |-> Own(chunks[s], manifest[s])]
C == INSTANCE ChunkCollector WITH registered <- manifest, have <- Have, starts <- restarts
ImplementsCollector == C!Collector
=============================================================================
