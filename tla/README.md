# TLA+ verification of The Foundation Protocol

This directory holds TLA+ specifications of the parts of The Foundation Protocol
(TFP) whose correctness depends on the order of events: the compute-task economy
of a node, the activation and delivery of library updates, the bulletin store, uploads
and the content store, the media stream receiver, the chunk cache, supply gossip and
the Redis rate limiter. TLC checks each specification on small instances; TLAPS proves
the most important results for every value of the constants. `PROJECT.json` lists the components, the runs, the
source lines each definition models, the hazards found in the code, and the
theorems.

Paths below are relative to the repository root; `server.py` is
`tfp-foundation-protocol/tfp_demo/server.py`.

## 1. The system

| Component | State | Operations | What makes it correct |
|---|---|---|---|
| **Compute-task economy** (`server.py` `TaskStore`, `EarnLog`, `CreditStore`, `_credit_transaction`, `_settle_task_rewards`; `verify_habp.py`; `credit/ledger.py`) | SQLite tables `tasks`, `task_results`, `task_rewards`, `earn_log`, `credit_ledger`, `supply_ledger`; in memory the HABP proofs and a cache of clients | create, list and reap tasks; submit a result; settle; earn; spend; maintenance pass; startup recovery | rewards are earned by a quorum, paid once and to everyone, the cache agrees with the rows, outcomes are final, the cap holds |
| **Supply gossip** (`server.py:1210-1254`, `2311-2363`, `2425-2460`; `nostr_bridge.py:576`) | own counter, largest total heard of, ids of events seen | publish, receive, check before minting, restart | nobody is held to a total that was never minted; a refusal below the cap ends |
| **Library update activation** (`tfp_core_v4/library_updates/activation.py`) | `library_xml`, `catalog.backup`, `activation.json`, `accepted.json`, the archive files | activate a package, recover | a switch is accepted or undone; the operator's edits survive; one chain of accepted archives |
| **Library update delivery** (`prepare.py`, `receive.py`, `zstd_delta.py`) | a stream receiver with one session, its checkpoints | build, receive, resume | what is delivered is the artifact; an interrupted transfer goes on where it was |
| **Bulletin store** (`tfp_core_v4/node.py`, `bulletin.py`, `bulletin_identity.py`) | `bulletins`, `bulletin_watermarks`, `recipes`, `chunks`; caches in every process | store, import, prune, restart | revisions never go back, one content per revision, publisher binding |
| **Upload pipeline** (`server.py:100-330`, `2285-2309`, `3154-3464`; `lib/upload/`) | upload sessions, background tasks, retry queue | chunk, complete, process, retry, two clean-ups | the first content of an upload is whole; an accepted upload is kept and stored |
| **Content and blob store** (`server.py:331-780`) | files, rows, tag index | put, rebuild the index | file, row and index agree after every step and stop |
| **Stream receiver** (`media/receiver.py`) | droplet buffers, chunks, manifests, checkpoints | ingest in any order, evict, reset, restore | only verified chunks, limits, sessions apart, nothing lost at a restart |
| **Chunk cache** (`cache/chunk_store.py`) | chunks, byte count, LRU tracker, Bloom filter | put, get, delete, clear, evict | limits and counts are exact, eviction in the order of use |
| **Rate limiter over Redis** (`rate_limiter.py`, `server.py:1808-1850`) | a counter per window in Redis, a script, a client per worker | check, load the script | what all workers grant is bounded |
| **Peers, gossip, routing, shards** (`peer/`, `gossip/`, `routing/`, `distribution/`) | peer tables, seen messages, routes | announce, forward, route, distribute | no duplicate delivery, bounded forwarding |
| **Others** | codecs, transports, cryptography, plugins, simulators, user interfaces, scripts | | listed as not modelled in `PROJECT.json`, with the reason |

How they interact: HTTP handlers of one FastAPI process (a thread pool; SQLite
restricts the node to a single worker, `pyproject.toml:89`) call the stores,
which share **one** connection and **one** re-entrant lock. A maintenance thread
runs every 30 seconds. The stores commit and roll back on the shared connection,
so a commit that fails in one of them leaves a transaction open for the others.
Library activation is a command-line program that shares files with a Kiwix
server and with the operator; a lock file admits one updater. Every command of the v4
command line opens the bulletin database itself, so several processes, each with its
own caches, share it.

What is hard here: a request releases the lock between its locked sections; the
process may stop between two commits, or between a commit and the in-memory step
after it; commits fail; results arrive in any order and repeatedly; an operator
edits a file between a check and a write. `PROJECT.json` "hazards" lists every
one of them at its line, with the properties that watch it.

Uploads, direct publication and the retry loop are coroutines of the node's one event
loop; a content is processed without an `await`, so these do not interleave with each
other while one is processed, but the maintenance thread, the users of the shared
connection and a stop do come in between. A stream receiver belongs to one task, and
meets other programs only through its checkpoint directory after a restart.

## 2. Modules

| Module | Role |
|---|---|
| `CreditBank` | abstract: what the node promises about credits |
| `TaskSettlement` | the compute-task economy, one action per handler or locked section |
| `MCTaskSettlement` | its instance for TLC: symmetry of devices |
| `TaskSettlementProofs` | inductive invariant and the theorems about it |
| `TaskSettlementBank` | proofs that the node implements `CreditBank`, that every credit is explained and that rewards are earned |
| `LibrarySwitch` | abstract: an update is tried, then accepted or undone |
| `LibraryActivation` | activation and recovery, one action per file operation |
| `MCLibraryActivation` | its instance for TLC |
| `LibraryActivationProofs` | inductive invariants of activation, its theorems, and the proof that it implements `LibrarySwitch` |
| `RevisionRegister` | abstract: one publisher and one current record per bulletin |
| `BulletinStore` | several processes of a v4 node over one database, one action per transaction |
| `ChunkCollector` | abstract: what a receiver has of each media it has registered |
| `StreamReceiver` | the fountain stream receiver, one action per packet, manifest, reset or restart |
| `MCStreamReceiver` | its instance for TLC |
| `StreamReceiverProofs` | inductive invariants of the receiver, its safety theorems, and the proof that it implements `ChunkCollector` |
| `ArtifactTransfer` | `receive_artifact` over a `StreamReceiver` |
| `UploadPipeline` | upload sessions, retry queue and content store of the demo server |
| `UploadPipelineProofs` | its inductive invariant and the three safety theorems |
| `ChunkCache` | the bounded chunk store |
| `SupplyGossip` | the supply cap across nodes |
| `RateWindow` | the Redis rate limiter of several workers and their threads |
| `MCSharedStores` | the instance for TLC of what processes share: bulletin store and limiter |
| `MCNodeServices` | the instance for TLC of uploads, transfer, cache and gossip |
| `NodeServicesProofs` | inductive invariants and theorems of cache, gossip, limiter and transfer |
| `DataTheorems` | lemmas the proofs share: least elements, sums over finite sets, positions in sequences, division |
| `BulletinStoreProofs` | inductive invariant of the store, its theorems, and the proof that it implements `RevisionRegister` |

### 2.1 TaskSettlement

*State.* `status` and `results` are `tasks.status` and `task_results.output_hash`
as the shared connection sees them; `savedStatus` and `savedResults` are the same
as last committed. They differ only after a commit in `submit_result`,
`_finish_consensus`, `reap_expired_tasks` or `create_task` raised without a rollback. `rewards`
is `task_rewards` with the rows of a task taken together; `proofs` is
`HABPVerifier._proofs`; `earnLog`, `ledger` and `supply` are the tables of the
same names; `cached` and `cache` are `_clients`. `settling` and `replenishing`
are the threads of `submit_task_result` between their locked sections (a device may
have several requests on the way), `cleaning` is where the maintenance thread is and
the list it has read.

*Actions.*

| Action | Code |
|---|---|
| `SubmitReplay`, `SubmitLate`, `SubmitDuplicate`, `SubmitNew` | the four ways through `submit_result` (1387-1504), with `_finish_consensus` inside |
| `SubmitFails`, `CrashAfterInsert` | the commit at 1471 raises; the process stops after it |
| `Settle` | `_settle_task_rewards` in the same request, later |
| `Replenish` | `_preseed_tasks` after a settlement |
| `SweepReap`, `SweepPreseed`, `SweepRead`, `CleanProofs` | the maintenance pass in its four locked sections (2865, 2866, 2886, 2888); what raises ends the pass |
| `CreateTask`, `ListOpenTasks` | `create_task`, whose commit may raise; `list_open_tasks`, which reaps first |
| `Earn`, `Spend` | `/api/earn` in demo mode; the charges of `/api/get` and `/api/delegate-proof` |
| `Crash`, `Boot`, `BootFinish`, `BootSettle`, `BootServe` | stop; the rebuild and the quorums finished by `_init_schema`; the settlement and the seeding in `lifespan` |
| `Tick` | the clock passes one of the three moments at which the code's answers change: 30 s before the deadline, the deadline, 30 s after it |

The HABP list of proofs is a set whose members carry the number of earlier proofs
of the same device, so counting a device twice stays visible. Which group is
"largest" when two are is left open, as the code's `max` depends on the order of
insertion. Commits and rollbacks by stores that are not modelled, on the same
connection, change nothing here that a refused duplicate (which commits) or a
refused charge (which rolls back) does not.

*Seen while modelling.* `SweepRead` reads what the connection sees. If the commit of a
reaping has failed, that may be `failed` for a task that the next handler rolls back to
`verifying`; `cleanup_stale_tasks`, which its docstring says is for completed and failed
tasks, then takes the proofs of a live task, and the votes count again only after a
restart. `VotesAreCounted` holds at every moment of serving as long as no commit has
failed, and after every restart whatever failed before it; the same is lost, as the code
has it, for a vote whose own commit raises.

*Abstracted.* Signatures and rate limits (requests are those that passed),
task contents and execution times, the size of a reward (any member of
`Credits`, positive), the local cap with no gossip (`gossiped_total = 0`).

### 2.2 LibraryActivation

*State.* `accepted` is `accepted.json` (or the bootstrap state when it is
missing), `catalog` the set of books in `library_xml`, `backup` and `journal` the
files `catalog.backup` and `activation.json`, `store` the archive files. `pc` and
`job`, `old`, `new`, `raising` are the program counter and local variables of the
one updater that holds the lock.

*Actions.* Each is one file operation or one comparison of `_recover` (128-154) or
`activate_package` (164-236): `RecoverNothing`, `RecoverDecide`, `Restore`,
`Clear`; `Verify`, `Stage`, `Prepare`, `Check`, `WriteBackup`, `WriteJournal`; and
the try block `Precheck`, `Switch`, `Probe`, `Postcheck`, `AcceptUpdate`,
`Finish`, with `Fails` for an exception at any of them, which runs `_recover`
before it is raised again. `Stop` ends the updater between any two; an exception
outside the try block has the same effect, since it only releases the lock.
`OperatorEdits` adds or removes a book of the operator, or puts the old catalog
back; `ArchiveDamaged` changes an archive.

*Abstracted.* An archive is its digest and a catalog the set of books it lists;
signatures, formats and sizes are part of whether a package verifies;
`atomic_bytes` replaces a file in one step (it writes, flushes and renames a
sibling). `MaxEdits`, `MaxDamages`, `MaxStops` and `MaxFailures` bound the
environment and nothing else.

### 2.3 BulletinStore

*State.* `bulletins` and `watermarks` are the tables `bulletins` and
`bulletin_watermarks`; `recipes` are the editions whose recipe, chunks and
droplets are in the database. `running` are the processes that have opened it
(each command of `cli.py` is one);
`knownMarks`, `knownRows` and `held` are `_bulletin_watermarks`, `_bulletins` and
`recipes` of each process.

*Actions.* `Open` is the constructor with the rebuilding of watermarks from the
display table; `Stop` the end of a process. The ways through `store_bulletin` that
change something are `Admit` (a new revision), `Compare` (a replay or a conflict
while the row is on display, which loads the stored content), `Readmit` (the
current revision after its row was pruned) and `ReadmitFails` (the same when its
commit raises: the content has already entered the memory of the process). An
`Admit` that raises changes nothing, as its content is staged until after the
commit. `Publish`, `Fetch` and `Prune` are the methods of these names; `Damage`
makes a recipe on disk one that does not validate. An operation is one action
because it is one transaction under `BEGIN IMMEDIATE`, and what it reads from the
database it reads inside it.

*Abstracted.* An edition is a content with a title, and content hashes do not
collide; signatures (inputs are bulletins that verify, or unsigned ones);
timestamps, and with them which rows pruning keeps: any subset. The initial
database is one an older version could leave: rows with one publisher per
bulletin and one record per revision, no watermarks. The in-memory mode of a node
without a database is not modelled.

### 2.4 StreamReceiver and ArtifactTransfer

*State.* `live` are the sessions with a timestamp; `manifest`, `meta`, `buffer`,
`chunks` and `latest` are `received_manifests`, `_chunk_meta`, `_droplet_buffers`,
`reconstructed_chunks_by_session` and `latest_manifest`; `disk` is the set of files in
each session's checkpoint directory, named as the code names them. Times are an order:
`marks` are the last uses of sessions and the last changes of directories there are,
`earlier` says which came before which, and those past `session_ttl_seconds` are in
`expired`.

*Actions.* `IngestPacket` and `IngestManifest` are the whole methods, with the eviction
before and the checkpoint after, either of which may fail at a file operation. Where the
operation is inside a `try` the code logs and goes on. The `mkdir` of a session's
directory is outside (`receiver.py:129`, `146`), and so is the removal of a temporary file
in the handler of a failed write (158): what they raise ends the method. For a droplet
nothing is left to do; for a manifest, which is registered by then (535-536), the pruning
of 541-563 does not happen. `unpruned` is a history variable that names the sessions left
like that until a manifest of theirs is taken again, or they go. `Misjudge` is the purge in
`is_complete`: of a chunk that is not the media's the caller asks about, be it the caller's
mistake or a session that was not pruned.
`ResetOne` and `ResetAll` are `reset`; `Restart` is the constructor with
`_load_checkpoints`, after a stop at any moment; `TimePasses` lets marks grow old.

*Abstracted.* A droplet is the media, chunk and seed it was made of; a set of droplets of
one media decodes to it or not yet (the rank may be too small), a set of several decodes
to the media, to something else (`Garbled`) or not at all. The source symbols, when all
there, are taken as they are. HMACs verify: packets that do not are dropped at once.

*Seen while modelling.* The docstring of `ingest_manifest` says it "prunes any
out-of-bounds or corrupted speculative chunks and buffers"; cut short it does not, and
chunks of another media stay under a registered manifest. No caller takes them for the
media's: `is_complete` and `assemble` compare the hash of every chunk. The two properties
say this much: `ChunksMatchManifest` is about every session but those in `unpruned`, and
`ImplementsCollector` about the chunks with the manifest's hash, in every session.

`ArtifactTransfer` extends the receiver by the loop of `receive_artifact`: `OpenTransfer`
(construct from the checkpoints), `KeepOrReset` (line 79), `ManifestArrives` and
`DropletArrives` behind the filter of lines 89-98, `Deliver`, and `StopTransfer` for the
deadline, a failed write or the end of the process.

### 2.5 UploadPipeline

*State.* A client (`phase`, `acked`) sends the chunks of an upload and then asks for
completion; `open` and `parts` are `_ongoing_uploads`; `tasks`, `queue` and `ready` are
the background tasks, `_failed_upload_queue` and the items the retry loop has taken;
`writing` is the content being processed; `blob`, `rows`, `dirty` and `index` are the
files, the committed rows, rows of an open transaction, and `_tag_index`.

*Actions.* `UploadChunk`, `CompleteUpload`, `CleanStale` (maintenance thread) and
`RetryPass` (idle sessions, then due items) are the sections under `_uploads_lock` and
`_failed_upload_lock`. A processing starts with `RunTask`, `RetryOne` or
`PublishContent`, writes the file (`BlobWritten`, `BlobFails`), then the row and the
index (`RowWritten`, `RowFails`); a failure goes to `_queue_failed_upload` or, for a
direct publication, to the caller. `OthersUseConnection` commits or rolls back what a
failed commit left open; `RestartServer` is a stop at any point and the rebuilding of the
index. A reply may be lost and a late copy of a chunk may arrive: the client's retries
are those of `RetryHandler`.

*Abstracted.* A content is its upload and the set of its chunks; delays are not modelled
(a session may be old and an item due at any moment); metadata arrive with the request.

*Seen while modelling, and stated in the properties rather than hidden.* A content is
written again whenever it is published again, although the comment at `server.py:604`
says "if not already stored (idempotent)": a stop can leave a torn file under a committed
row, hence `rewritten` in `StoreAgrees`. A client that misses the answer of a completion
and asks again gets 404 though its upload was accepted; and when a late copy of a chunk
comes in between, its repeated completion is accepted with that chunk alone, hence
"first" in `WholeAtFirst`. The retry queue does not count attempts (`server.py:313`), so
that `_MAX_RETRY_ATTEMPTS` never ends anything: `AcceptedIsKept` would fail if it did.

### 2.6 ChunkCache, SupplyGossip, RateWindow

`ChunkCache` has one action per call of `ChunkStore`, each of which holds its lock; the
server's `get_shard` asks and puts in two calls, which other threads may separate.
`order` is the LRU tracker, `usedBefore` the true order of use (a history variable). The tracker cuts its own
list before the limits are enforced, so one chunk may stay cached and untracked; `clear`
leaves the tracker as it was, after which evictions may stop early and the limits may be
exceeded. The properties say exactly this much.

`SupplyGossip` has nodes with a committed counter, an open settlement, and the largest
total heard. `Hear` is the handler with its plausibility check; `ReceiveOld` delivers any
smaller total again; `MissNewest` is a lost event, or one whose id a damaged copy has
taken; `RestartNode` forgets what was heard. The sum over nodes is not bounded by the
code, and no property says so: two nodes that have heard nothing may each mint up to
`MAX_SUPPLY`. What holds is that no node is held to a total nobody minted, and that a
refusal is temporary. The second rests on a node hearing its own events: where
`TFP_NOSTR_TRUSTED_PUBKEYS` is set it has to contain the node's own key.

`RateWindow` is the Lua script with the connection handling around it. A request reads
the clock (`StampRequest`, `rate_limiter.py:173`) and runs the script by that stamp later
(`CheckRateLimit`, 177-184); in between it may connect and load the script (`Connect`,
`MakeClient`, `LoadScript`), or just be slow, so that stamps reach the script out of order
and after their window is over. A worker whose first attempt to load the script failed,
or any worker after Redis has forgotten the script, lets requests pass uncounted
(`fail_open`) until it is restarted; the adapter's docstring (`server.py:1813`) speaks of
a fall-back to the in-memory limiter instead.

`RateBounded` says what is left of the limit. Of the requests stamped in one window no
more than the limit are granted in it and the next one together. And of the requests
whose script runs in the window they were stamped in, `n` consecutive ticks, fewer than a
window, grant no more than the limit and its share for `n - 1` ticks. The second would be
false of late requests: two stamped at the end of a window may be granted at the start of
the next beside two of its own. Outside of the property are requests that are delayed by
more than a whole window past their own, the uncounted ones of `fail_open`, and
everything after Redis has lost counters (`wiped`). The clocks of the workers agree: a
worker whose clock is behind by less than a window acts like a slow one, but one whose
clock is ahead of the others is not modelled.

## 3. What is checked

| Run | Instance | Shows |
|---|---|---|
| `settle_safety` | 1 task, 3 devices, quorum 2, 2 hashes, one failed commit of any of seven kinds, one stop; reward 2, allowance and price 1, cap 5 | `TypeOK`, `SettledExactlyOnce`, `CacheMatchesStore`, `OneProofPerDevice`, `AccountsAreSound`, `OutcomeIsFinal`, `ImplementsBank` |
| `settle_quorum` | 1 task, 4 devices, the code's quorum of 3, two failures of commits that do not decide an outcome, two stops | `EveryRewardIsEarned`, `VotesAreCounted` |
| `settle_liveness` | 1 task, 3 devices, two stops, no failures | `EntitledAreEventuallyPaid`, `TasksFinish` |
| `reap_early` | as `settle_safety` without failures | *violated*: `FailsOnlyAfterDeadline` |
| `late_vote` | as `settle_safety`, failures of the deciding commits | *violated*: `PayeesReportedThePaidHash` |
| `lib_safety` | two updates in a chain and a rival of the second, one book of the operator, 2 edits, 1 damaged archive, 2 stops, 2 failures | `TypeOK`, `RecoveryCanDecide`, `NothingHalfSwitched`, `OperatorBooksKept`, `ImplementsSwitch` |
| `lib_liveness` | the same without damage | `InterruptionsResolve`, `UpdatesGoThrough` |
| `shared_stores` | 2 processes, one bulletin, 2 publishers, 2 editions, 3 revisions, 1 damaged recipe; 2 workers with 2 threads in any of them, limit 2, 3 windows (the last begun) of 2 ticks, 1 outage or restart | `TypeOK`, `WatermarksCoverDisplay`, `MemoryNeverAhead`, `DisplayedIsFetchable`, `RateBounded`, `ImplementsRegister` |
| `lib_edit_race` | the same with one edit, also between a check and its write | *violated*: `RecoveryKeepsEdits` |
| `stream_receiver` | 3 sessions for 2 places; one carries two media whose first chunks have one size, two carry a third; chunks of 1 and 2 symbols, one repair droplet; 6 events | `TypeOK`, `ChunksMatchManifest`, `WithinLimits`, `LatestIsRegistered`, `RestartWouldResume`, `SessionIsolation`, `ImplementsCollector` |
| `wrong_droplet` | the same | *violated*: `OffendingDropletRemoved` |
| `node_services` | 2 uploads (two chunks; one chunk over the limit), 2 tags, queue of 1, 2 attempts, 2 faults, 1 late copy or publication; 3 shards, 2 threads, limits of 2 chunks and 3 bytes; 2 nodes of any age, cap 3, buffer 1, 1 trouble; an artifact of 2 chunks and a foreign one, 8 events | `AcceptedIsKept`, `StoreAgrees`, `CacheWithinLimits`, `EvictionOrderIsUse`, `HeardIsReal`, `WholeAtFirst`, `AcceptedEventuallyStored`, `RefusalIsTemporary`, `TransferKeepsProgress` |

`node_services` and `shared_stores` explore specifications that share no variable, one at
a time: the variable `service` or `store` is chosen initially and says which of them takes
steps. They check nothing about their interaction, of which the code has none.

*Why the bounds are enough.* Tasks share nothing but the accounts, the cap and
the open transaction, and with one task these still meet every other operation;
three devices and a quorum of two give a quorum with a dissenter, two competing
groups and a late voter, and `settle_quorum` repeats the question with the code's
three. The cap of 5 is less than a settlement of three devices (6), so a
settlement that must wait occurs. One failure and one stop reach every single
fault; the theorems cover any number. In the library, two updates and a rival
reach every decision of `verify_update` and of recovery, two stops and two
failures interrupt a recovery that is itself a retry, and two edits are one and its
being taken back. Bulletins are compared only
with others of their own id, and the tables of different ids are disjoint, so one
id is enough; three revisions give one below, at and above a watermark, two
processes a memory that is behind. Pruning and restarts are not bounded.
Symmetries are used in safety runs only. The receiver has one session more than places, so
that eviction happens, and a media under another's session id, so that early and foreign
chunks do; six events are two packets to finish a chunk, a manifest, an eviction or reset, a
failed file operation and a restart. The bound on events is the only one that
keeps a history short; eight in a transfer are two interrupted attempts. One item in the
retry queue makes it overflow with the second, and two faults are a failure and a stop, or
two failures of one content, more than its attempts would allow if they were counted. In
the cache every state of the limits is reached with three chunks, and calls are not
bounded. The script looks at two windows; a third shows what a late request meets. Two
threads fill the limit between them and then race, and each may be late while the other
serves later requests.

*Deadlock.* A task economy whose tasks are finished and whose faults are used up
may stop when nobody asks for anything, and so may a receiver, or an upload server whose
faults and clients are used up: their runs say
`CHECK_DEADLOCK FALSE`. The other runs check it.

*Fairness.* `TaskSettlement!FairSpec`: a request thread that is between its locked
sections goes on, the maintenance thread goes on and comes back every 30 seconds, a stopped
node is started again, the clock moves. Nothing is assumed about devices: a task
nobody works on ends by its deadline. `LibraryActivation!FairSpec`: a running
updater goes on; the operator tries each package again and again, and staging, if
it is tried again and again, succeeds again and again (strong fairness: disk
space and tools come and go). `UploadPipeline`: the event loop runs what is ready, and
the retry loop, which never ends, takes what is due; nothing is assumed of clients, and
failures are bounded. `SupplyGossip`: settlement transactions end, the maintenance thread
publishes every 30 seconds, and the relay delivers the newest event of a node that keeps
publishing; the last is an assumption about the environment.

`InterruptionsResolve` and `UpdatesGoThrough` end in `EditStands`: an operator has put a
catalog in place, while the journal existed, that does not go with the accepted state.
Recovery refuses it at every call, as its messages say. It is not an end for good: once
the edit is taken back the property asks for a resolution again.

*Not assumed.* With failing commits `EntitledAreEventuallyPaid` does not hold
within one run of the process: another handler's failed commit leaves the shared
transaction open, `BEGIN IMMEDIATE` raises, and only a retry by a device or a
restart settles the task. The run therefore has no failures.

### Findings

1. `reap_early`: `reap_expired_tasks` adds the clock tolerance to the wrong side
   of the comparison (`server.py:1338`, `1351`) and fails tasks up to 30 s before
   their deadline, against its docstring (1321) and comment (1329).
2. `late_vote`: when the commit that fails a task for a wrong agreed result raises
   (`server.py:1512`), the wrong group's proofs stay in the verifier; a later
   right submission completes the task and the wrong group is paid, against the
   docstring of the endpoint (4493). This is why `EveryRewardIsEarned` is stated,
   checked and proved for executions in which the deciding commits succeed.
3. `lib_edit_race`: `_recover` compares the catalog (`activation.py:137-138`),
   then hashes archives, then overwrites it (151). An edit in between is lost,
   against `tests/test_library_update_activation.py:168`. `OperatorBooksKept` and
   `ImplementsSwitch` are therefore checked with edits at any moment except
   between a comparison and its write (`RacyEdits = FALSE`). An edit that is taken
   back while `kiwix-manage` runs (between the copy and the comparison after it) is
   as invisible to the updater as one after the comparison, hence `"check"` in
   `Unseen`.
4. `wrong_droplet`: when a decoded chunk fails its hash, `receiver.py:505` removes the
   droplet that came last, not the offending one of its comment (504). A foreign droplet
   that came earlier stays, and the chunk cannot be decoded until its session goes.

## 4. What is proved

Every safety property that a passing run checks is also a theorem: all the invariants,
all the action properties and the four refinements. The theorems hold for every value of
the constants that satisfies the module's assumption, named below with each of them. For
`TaskSettlement` this is `ConstantsAssumption`: any set of tasks and hashes, any finite
set of devices, any quorum, cap, number and kind of failures and stops.

`TaskSettlementProofs` proves that `IInv` is inductive (`Invariance`). It is the
conjunction of `StoreInv` (types of the task tables; a task without a decision
has no rewards; committed and seen outcomes agree where it matters), `AccountInv`
(types of the accounts; a cached client equals its row; receipts cover balances),
`ClaimInv` (settled devices and claims in the earn log correspond; participants
are settled together) and `ThreadInv` (threads are between sections only while
the node serves). The parts need each other: that a settlement pays everyone at
once follows from claims and flags agreeing before it, and that the row a proof
was made from is the committed one needs to know which commits may be open. From
it follow `TypeCorrect`, `RewardsSettledOnce`, `CacheCoherent`,
`VerifierCountsDevices`, `AccountsSpendable` and the action property
`OutcomesFinal`. `VotesCounted` needs more (`CountInv`): while no commit has failed the
rows seen are the committed ones, and every task whose id the maintenance thread has read
is still finished, because outcomes are final.

`TaskSettlementBank` proves `NodeImplementsBank`: `Spec => ImplementsBank`. The
refinement mapping forgets threads, caches, proofs and the open transaction; each
action is shown to be one step of the bank or a stutter: `CompleteTask` and
`BootFinish` are `Entitle`, `PayRewards` is `Pay`, `Earn` is `Allow`, `Spend` is
`Charge`.

`SupplyExplained` in the same module is about sums over devices and tasks:
`SupplyIsExplained` is inductive once the earn log is known to be finite (`SupplyInv`),
given `IInv`. A payment raises the minted totals of exactly the devices it settles by the
task's credits, so the sum over devices grows by their number times the credits, which is
what `increment_total_minted` adds; `RewardsSettledOnce` makes the task a new summand of
each. The settled tasks of a device are finitely many because each has left a claim in the
earn log. `AccountsSound` joins `AccountsSpendable` and `SupplyExplained`.

`RewardsEarned`, in the same module, is proved under the assumption that the
commits deciding an outcome do not raise (`OutcomeCommitsSucceed`), which finding
2 shows to be necessary. Its strengthening says that a proof group in the
verifier is always a set of committed rows, and that no quorum of wrong results
is left there once a locked section ends.

`LibraryActivationProofs` holds for every set of updates and any number of stops,
failures, edits and damaged archives (`LibraryAssumption`). `GeneralInv` is
inductive however the operator edits (`GeneralInvariance`): `StepInv` says what the
updater knows at each step, `JournalInv` what the journal says while it exists,
`FreshInv` up to which revision the catalog and the catalogs named in the journal
may list archives, `UndisturbedInv` where the catalog stands if nobody edited it.
`FreshInv` is where the other parts meet: deleting the journal is safe only because
the catalog restored, or the state accepted, before it bounds what is listed. From it
follow `LibraryTypeCorrect`, `RecoveryDecides` and `SwitchesAreWhole`. `QuietInv`
adds that a catalog is still as it was checked when it is written; it needs
`RacyEdits = FALSE`, which finding 3 shows to be necessary. From both follow
`OperatorBooksAreKept` and `UpdaterImplementsSwitch`: `WriteJournal` and `Switch`
are `Try` or stutters, `AcceptUpdate` is `Accept`, `Restore` and `Clear` are `Undo`
or stutters, `OperatorEdits` is `Edit`.

`BulletinStoreProofs` holds for any processes, bulletins, publishers, editions and
revisions (`BulletinAssumption`). `IInv` adds to the types that rows of a bulletin
have one publisher and one record per revision (`Pinned`), that it has one
watermark (`OneEach`), that every row is covered by a watermark unless no process
has opened the database yet (`CoverInv`), that memories are below the watermarks
(`MemoryInv`) and that the content of a watermark outlives its pruned row
(`ContentInv`). The last is what makes re-admission without writing content safe,
and `CoverInv` needs that a set of rows has a newest one, which is where the bound
on revisions enters. From it follow `StoreTypeCorrect`, `DisplayIsCovered`,
`MemoryIsBehind` and `ContentIsThere`. `StoreImplementsRegister` maps the register's
`current` to `Known`, what `Open` makes of the tables: `Open` is then a stutter,
`Admit` is `Publish`, `Readmit` is `Show` and `Prune` is `Hide`.

`StreamReceiverProofs` holds for any sessions, media, droplets and limits, and
whatever is lost of the checkpoint directories (`ReceiverAssumption`).
`ChunksMatchManifest` is inductive almost as it stands: `DropletAdds` shows that a
droplet adds no chunk or one that fits the manifest, `PruningFits` that a manifest
keeps exactly the early chunks that are its own, `RestoredFits` that a restart finds
none that is not, `EvictionSpares` that an arrival never evicts its own session
(`ChunksAlwaysMatch`). `ReceiverImplementsCollector` maps `registered` to the
manifests and `have` to the chunks of a session that are its manifest's (`Own`), those
that `is_complete` and `assemble` take: a packet is `Collect` or `Drop`, a manifest is
`Register` whether its pruning happens or is cut short (a repeated one loses nothing:
pruning keeps what is the manifest's), resets are `Drop`. `ChunksMatchManifest` leaves
out the sessions in `unpruned`; the theorem about the collector leaves out none.

The other properties of the receiver follow from a second inductive invariant, `WholeInv`
(`WholeInvariance`). Its parts need each other:

- `ClockInv`: `earlier` is a strict order of the marks, total, and `expired` is closed
  under being older. Without it "the sessions with at least `limit` newer ones" could be
  none of too many: `SurplusLeaves` counts along the order.
- `SessionInv`: a session is in memory exactly if it has a time of last use; a directory
  with files has a time; buffers, sizes and chunks of one session fit each other (`Sound`);
  a directory holds one manifest at most, and, while no file operation failed, exactly
  what the session has (`Backs`).
- no more sessions than `MaxSessions` in memory: `RoomIsMade` shows that an eviction leaves
  room for the session that arrives, and needs the first two.
- `LatestIsRegistered`, `ChunksMatchManifest` and the types.

From it follow `ReceiverTypes`, `LimitsHold`, `LatestStaysRegistered`, `RestartResumes` and
the action property `SessionsAreIsolated`. For `RestartResumes` the limit on sessions in
memory is decisive: a directory that a restart would drop as surplus has `MaxSessions`
newer ones beside it, all with manifests, hence all in memory with it. The clock was a
sequence in the first version of the model; as a relation it has the same behaviours (TLC
finds the same number of states) and can be reasoned about without induction over
sequences.

`UploadPipelineProofs` holds for any uploads, chunks, tags, size limit and faults, a
retry queue of at least one place and at least two attempts (`UploadAssumption`).
`UploadInv` is inductive (`UploadInvariance`). Sessions: `ConfirmedAreThere`, an upload
that never lost a session still has in it all that was confirmed to its client; hence
`FirstContentIsWhole`. Store: `FilesComeFirst`, a row about to be written, or written
and not committed, already has its file, and nothing is left uncommitted unless a
commit failed; without it `StoreAgrees` is not inductive, since another user of the
connection may commit such a row (`StoreAlwaysAgrees`). Queue: `AllKept`, which
strengthens `AcceptedIsKept` in one place: that a content is being published directly
does not count, because a failure then queues nothing (`AcceptedAlwaysKept`).

`NodeServicesProofs` is about four services, each under the assumption of its own module.

- *Gossip*, for any nodes, amounts and number of lost or late events: `GossipInv` adds that
  every event that is out carries a committed total (`EventsAreCommitted`); hence
  `NobodyHeldToUnminted`.
- *Rate limiter*, for any limit, window, number of workers and of requests on the way:
  `RateInv` says that, as long as Redis lost nothing, the counter of a window, until the one
  after it is over, is exactly what was granted to its stamps in time and late
  (`CountersAreExact`), is no more than the limit (`CountersInLimit`), and does not expire
  before (`CountersLast`); that stamps are in the past and nothing is granted ahead of the
  clock; and `RateBounded` itself. A span shorter than a window meets two windows at most,
  so that their counters bound what was granted in it, and the weight the script gave the
  earlier one when it granted the last request bounds their sum; a stamp that is late
  within its window only weighs the earlier one more: `SpanIsBounded`.
- *Chunk cache*, for any chunks and limits: `CacheInv` joins `CacheWithinLimits`,
  `EvictionOrderIsUse` and the types; each of the two needs the other. `Victims` is the
  shortest prefix of the tracker at which eviction stops: within the limits, at its end,
  or at a chunk that is not cached (`VictimsEnd`). While all but one of the cached chunks
  are tracked it stops within the limits (`EvictionReachesLimits`): if everything tracked
  goes, the one left was there before the put, and fitted alone. Hence
  `CacheKeepsLimits` and `EvictionFollowsUse`.
- *Transfer*: `TransferInv` adds to the receiver's `WholeInv` that only the artifact's
  manifest is in memory or in any directory (`OnlyWanted`: the filter of `receive.py:89`),
  and that chunks of the artifact in its directory have its manifest beside them as long as
  no file operation failed (`NothingOrphaned`). The second is why the reset of
  `receive.py:79` loses nothing: it happens only when there is nothing to lose. That a
  restart resumes is `RestartWouldResume` of the receiver. Hence `ProgressIsKept`.

*Sums and least elements.* Induction over data is not available to the provers
here. Where it is needed the proofs take a least counterexample instead: `LeastSet` of
`DataTheorems` gives, of any non-empty family of finite sets, one of least cardinality, and
removing an element from it contradicts its being least. Sums (`SumFunctionOnSet` of the
community modules) are reasoned about by their value on the empty set (`SumEmpty`), on a
set with one element more (`SumElement`), and what follows from these: sums of two
functions, over two sets, of smaller functions, of a function raised by a constant on a
subset (`SumAdd`, `SumUnion`, `SumMonotone`, `SumShift`).

*Only model-checked*: the liveness properties (`EntitledAreEventuallyPaid`, `TasksFinish`,
`InterruptionsResolve`, `UpdatesGoThrough`, `AcceptedEventuallyStored`,
`RefusalIsTemporary`), because the prover does not treat fairness and ENABLED here. The
four properties that the code violates are not theorems, of course; `RewardsEarned`,
`OperatorBooksAreKept` and `UpdaterImplementsSwitch` carry the assumption that excludes the
finding.

## 5. What is not modelled, and the plan

Done, checked and proved: `TaskSettlement` with `CreditBank`, `LibraryActivation` with
`LibrarySwitch`, `BulletinStore` with `RevisionRegister`, `StreamReceiver` with
`ChunkCollector`, `ArtifactTransfer`, `UploadPipeline`, `SupplyGossip`, `ChunkCache`,
`RateWindow`.

Next: an abstract specification of the upload pipeline (an accepted content is stored, or
known to be lost) that `UploadPipeline` implements, and one of the transfer; the safety
lemmas that the liveness arguments rest on (which step brings a waiting item nearer to
being stored).

Not modelled, and why:

- *Parts of modelled components.* The in-memory mode of a v4 node; shards, recipes and CID
  mappings of the content store; building and sending of library packages; the in-memory
  rate limiters (a list of times under a lock). The size of a reward, which is computed
  with floating-point numbers.
- *Peers, routing, gossip of peers, shard distribution, pinning, the broadcast scheduler.*
  Their coroutines never suspend between reading and writing their tables, so that on one
  event loop they are sequential, and most of their decisions are scores over
  floating-point numbers.
- *The compute mesh and gates of `tfp_core`, the hybrid wallet, access-control plugins.*
  No entry point of the node constructs them; how their callers would interleave cannot
  be read from the code.
- *Codecs, cryptography, radio and audio, text search.* Data rather than control: what
  other components rely on is that content verifies or not.
- *Simulators, user interfaces, reports and scripts.* Tooling.
- *Device signatures.* Inputs of the models are requests that passed them.
