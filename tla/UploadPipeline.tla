---------------------------- MODULE UploadPipeline ----------------------------
(***************************************************************************)
(* Parallel uploads of the demo server (tfp_demo/server.py) with their     *)
(* client: chunks are collected in a session, complete_upload joins them   *)
(* and answers at once, a background task or the retry queue stores the    *)
(* content: blob file first, then the row and the tag index.               *)
(*                                                                         *)
(* Abstracted: a content is <<u, S>>, the chunks S of upload u, which also *)
(* stands for its hash; time is not modelled, a session may be old, and an *)
(* item of the queue due, at any moment.  Endpoints, background tasks and  *)
(* the retry loop are coroutines of one event loop and none of them awaits *)
(* while it processes a content: OnLoop.  The maintenance thread, users of *)
(* the shared connection and a stop come in between.                       *)
(***************************************************************************)
EXTENDS Naturals, Sequences, FiniteSets
LOCAL INSTANCE FiniteSetsExt

CONSTANTS
    Upload, Parts,             \* the chunks of each upload
    PartSize, MaxUploadBytes,  \* TFP_MAX_UPLOAD_BYTES
    Tag, NoTag, TagOf,         \* the tag of each upload's metadata
    NoContent,
    QueueLength, MaxAttempts,  \* _failed_upload_queue's maxlen, _MAX_RETRY_ATTEMPTS
    MaxUploadFaults,           \* bound on failures of a step and stops
    MaxExtras                  \* bound on late copies of a chunk and direct publications

Content == UNION {{u} \X ((SUBSET Parts[u]) \ {{}}) : u \in Upload}

\* What is being processed: a content with its tag, for whom, the next step, and
\* the attempt it counts as.
Jobs == [content : Content, tag : Tag, by : {"task", "retry", "publish"},
         step : {"blob", "row"}, attempt : {1}]

ASSUME UploadAssumption ==
    /\ NoTag \notin Tag /\ TagOf \in [Upload -> Tag] /\ NoContent \notin Jobs
    /\ \A u \in Upload : Parts[u] # {} /\ IsFiniteSet(Parts[u])
    /\ QueueLength \in Nat \ {0} /\ MaxAttempts \in Nat \ {0, 1}
    /\ {MaxUploadFaults, MaxExtras, MaxUploadBytes} \subseteq Nat

VARIABLES
    phase, acked,   \* each client: "sending", "done" or "failed"; its chunks that were confirmed
    open, parts,    \* _ongoing_uploads and the chunks of each session
    reopened,       \* history: uploads that had a session with chunks before the present one
    accepted,       \* history: contents this process has answered for
    tasks,          \* background tasks not yet run
    queue, ready,   \* the retry queue; what the retry loop has taken from it
    overflowed,     \* history: contents the full queue dropped
    writing,        \* the content being processed, or NoContent
    blob,           \* the file of each content: "none", "torn" or "whole"
    rows, dirty,    \* the tag in each committed row; rows inserted whose commit failed
    index,          \* _tag_index, as the tags under which each content is found
    commitFailed,   \* history: has a commit failed since the start
    rewritten,      \* history: contents whose file was written again under a row
    uploadFaults, extras

clientVars == <<phase, acked>>
queueVars  == <<accepted, tasks, queue, ready, overflowed>>
storeVars  == <<blob, rows, dirty, index, commitFailed, rewritten>>
uploadVars == <<clientVars, open, parts, reopened, queueVars, writing, storeVars, uploadFaults, extras>>

NoRows == [x \in Content |-> NoTag]

UploadInit ==
    /\ phase = [u \in Upload |-> "sending"] /\ acked = [u \in Upload |-> {}]
    /\ open = {} /\ parts = [u \in Upload |-> {}] /\ reopened = {}
    /\ accepted = {} /\ tasks = {} /\ queue = <<>> /\ ready = <<>> /\ overflowed = {}
    /\ writing = NoContent
    /\ blob = [x \in Content |-> "none"] /\ rows = NoRows /\ dirty = NoRows
    /\ index = [x \in Content |-> {}] /\ commitFailed = FALSE /\ rewritten = {}
    /\ uploadFaults = 0 /\ extras = 0

\* The event loop is not in the middle of a content.
OnLoop == writing = NoContent /\ ready = <<>>
Fault  == uploadFaults < MaxUploadFaults /\ uploadFaults' = uploadFaults + 1
Extra  == extras < MaxExtras /\ extras' = extras + 1

-----------------------------------------------------------------------------
(* Sessions. *)

CumulativeBytes(u, S) == MapThenSumSet(LAMBDA d : PartSize[u][d], S)

\* A copy of a chunk arrives: the client's, or a late one of a request it gave
\* up.  The reply may be lost; the client then sends the chunk again.
UploadChunk(u, c) ==
    LET awaited == phase[u] = "sending" /\ c \notin acked[u]
    IN  /\ OnLoop
        /\ IF awaited THEN UNCHANGED extras ELSE Extra
        /\ open' = open \cup {u}
        /\ IF CumulativeBytes(u, parts[u] \cup {c}) <= MaxUploadBytes
           THEN /\ parts' = [parts EXCEPT ![u] = @ \cup {c}]
                /\ acked' \in {acked} \cup (IF awaited THEN {[acked EXCEPT ![u] = @ \cup {c}]} ELSE {})
                /\ UNCHANGED phase
           ELSE /\ phase' \in {phase} \cup (IF awaited THEN {[phase EXCEPT ![u] = "failed"]} ELSE {})
                /\ UNCHANGED <<parts, acked>>
        /\ UNCHANGED <<reopened, queueVars, writing, storeVars, uploadFaults>>

\* The client's attempts at one request are used up.
GiveUp(u) ==
    /\ phase[u] = "sending" /\ phase' = [phase EXCEPT ![u] = "failed"]
    /\ UNCHANGED <<acked, open, parts, reopened, queueVars, writing, storeVars, uploadFaults, extras>>

AnyConfirmed(u) == acked[u] # {}  \* mutant: upload_chunks does not raise what gather returned
AllConfirmed(u) == acked[u] = Parts[u]

Close(gone) ==
    /\ open' = open \ gone /\ reopened' = reopened \cup {u \in gone : parts[u] # {}}
    /\ parts' = [u \in Upload |-> IF u \in gone THEN {} ELSE parts[u]]

\* The session's chunks, whichever they are, become a content.  A client that
\* does not hear the answer asks again and is told that there is no session.
CompleteUpload(u) ==
    /\ OnLoop /\ phase[u] = "sending" /\ AllConfirmed(u)
    /\ IF parts[u] # {}
       THEN /\ accepted' = accepted \cup {<<u, parts[u]>>}
            /\ tasks' = tasks \cup {<<u, parts[u]>>}
            /\ Close({u})
            /\ phase' \in {phase, [phase EXCEPT ![u] = "done"]}
       ELSE /\ phase' = [phase EXCEPT ![u] = "failed"]
            /\ UNCHANGED <<accepted, tasks, open, parts, reopened>>
    /\ UNCHANGED <<acked, queue, ready, overflowed, writing, storeVars, uploadFaults, extras>>

\* The maintenance thread removes sessions by age, whatever arrives for them.
CleanStale ==
    /\ \E gone \in (SUBSET open) \ {{}} : Close(gone)
    /\ UNCHANGED <<clientVars, queueVars, writing, storeVars, uploadFaults, extras>>

-----------------------------------------------------------------------------
(* Processing: _process_upload_async, the retry queue, ContentStore.put. *)

Job(x, tag, by, step, attempt) ==
    [content |-> x, tag |-> tag, by |-> by, step |-> step, attempt |-> attempt]

\* The file of x is opened, and with that emptied; or a step before that raised.
WriteBlob(x) ==
    /\ blob' = [blob EXCEPT ![x] = "torn"]
    /\ rewritten' = IF rows[x] # NoTag \/ dirty[x] # NoTag THEN rewritten \cup {x} ELSE rewritten
    /\ UNCHANGED <<rows, dirty, index, commitFailed>>

\* _queue_failed_upload: a full deque drops its oldest item.
QueueFailed(x, attempt) ==
    IF attempt >= MaxAttempts THEN UNCHANGED <<queue, overflowed>>
    ELSE LET kept == IF Len(queue) = QueueLength THEN Tail(queue) ELSE queue
         IN  /\ queue' = Append(kept, [content |-> x, attempt |-> attempt + 1])
             /\ overflowed' = IF kept = queue THEN overflowed
                              ELSE overflowed \cup {Head(queue).content}

\* The except branch of a job; a direct publication answers with an error.
Raise(job) ==
    /\ Fault /\ writing' = NoContent
    /\ IF job.by = "publish" THEN UNCHANGED <<queue, overflowed>>
       ELSE QueueFailed(job.content, job.attempt)

Begin(job) ==
    \/ writing' = job /\ WriteBlob(job.content) /\ UNCHANGED <<queue, overflowed, uploadFaults>>
    \/ Raise(job) /\ UNCHANGED storeVars

RunTask(x) ==
    /\ OnLoop /\ x \in tasks /\ tasks' = tasks \ {x}
    /\ Begin(Job(x, TagOf[x[1]], "task", "blob", 1))
    /\ UNCHANGED <<clientVars, open, parts, reopened, accepted, ready, extras>>

AttemptCounted(item) == item.attempt  \* mutant: the retry passes its attempt on
\* The retry loop calls _process_upload_async without an attempt: it is 1 again.
AttemptOf(item) == 1

RetryOne ==
    /\ writing = NoContent /\ ready # <<>> /\ ready' = Tail(ready)
    /\ LET item == Head(ready)
       IN  Begin(Job(item.content, TagOf[item.content[1]], "retry", "blob", AttemptOf(item)))
    /\ UNCHANGED <<clientVars, open, parts, reopened, accepted, tasks, extras>>

AllButLast(q) == 1..(Len(q) - 1)  \* mutant: the loop over the deque stops one early
DuePrefix(q)  == 1..Len(q)

TakeDue(n) ==
    /\ n \in DuePrefix(queue)
    /\ ready' = SubSeq(queue, 1, n) /\ queue' = SubSeq(queue, n + 1, Len(queue))

\* Every five seconds: idle sessions go, then the items that are due are taken.
\* All have the same delay, so those that are due are at the head.
RetryPass ==
    /\ OnLoop
    /\ \E idle \in SUBSET open :
          /\ Close(idle)
          /\ \/ idle # {} /\ UNCHANGED <<queue, ready>>
             \/ \E n \in 1..Len(queue) : TakeDue(n)
    /\ UNCHANGED <<clientVars, accepted, tasks, overflowed, writing, storeVars, uploadFaults, extras>>

\* /api/publish: the same content, under another tag, without the queue.
PublishContent(u, tag) ==
    /\ OnLoop /\ Extra
    /\ Begin(Job(<<u, Parts[u]>>, tag, "publish", "blob", 1))
    /\ UNCHANGED <<clientVars, open, parts, reopened, accepted, tasks, ready>>

BlobWritten ==
    /\ writing # NoContent /\ writing.step = "blob"
    /\ blob' = [blob EXCEPT ![writing.content] = "whole"]
    /\ writing' = [writing EXCEPT !.step = "row"]
    /\ UNCHANGED <<clientVars, open, parts, reopened, queueVars, rows, dirty, index, commitFailed,
                   rewritten, uploadFaults, extras>>

BlobFails ==
    /\ writing # NoContent /\ writing.step = "blob" /\ Raise(writing)
    /\ UNCHANGED <<clientVars, open, parts, reopened, accepted, tasks, ready, storeVars, extras>>

Over(upper, lower) == [x \in Content |-> IF upper[x] # NoTag THEN upper[x] ELSE lower[x]]

\* The commit takes along the rows an earlier commit left in the transaction.
RowWritten ==
    /\ writing # NoContent /\ writing.step = "row"
    /\ rows' = [Over(dirty, rows) EXCEPT ![writing.content] = writing.tag]
    /\ dirty' = NoRows
    /\ index' = [index EXCEPT ![writing.content] = @ \cup {writing.tag}]
    /\ writing' = NoContent
    /\ UNCHANGED <<clientVars, open, parts, reopened, queueVars, blob, commitFailed, rewritten,
                   uploadFaults, extras>>

\* The insertion fails, or the commit after it: nothing rolls back.
RowFails ==
    /\ writing # NoContent /\ writing.step = "row" /\ Raise(writing)
    /\ \/ UNCHANGED <<dirty, commitFailed>>
       \/ dirty' = [dirty EXCEPT ![writing.content] = writing.tag] /\ commitFailed' = TRUE
    /\ UNCHANGED <<clientVars, open, parts, reopened, accepted, tasks, ready, blob, rows, index,
                   rewritten, extras>>

\* Another user of the connection commits, or finds a transaction open where it
\* wants to begin one and rolls it back (_credit_transaction).
OthersUseConnection ==
    /\ dirty # NoRows /\ dirty' = NoRows
    /\ rows' \in {Over(dirty, rows), rows}
    /\ UNCHANGED <<clientVars, open, parts, reopened, queueVars, writing, blob, index, commitFailed,
                   rewritten, uploadFaults, extras>>

NoIndex == [x \in Content |-> {}]  \* mutant: only put fills the index
RebuiltIndex == [x \in Content |-> IF rows[x] = NoTag THEN {} ELSE {rows[x]}]

\* The process ends at any point and is started again.
RestartServer ==
    /\ Fault /\ Close(open)
    /\ accepted' = {} /\ tasks' = {} /\ queue' = <<>> /\ ready' = <<>> /\ overflowed' = {}
    /\ writing' = NoContent /\ dirty' = NoRows /\ commitFailed' = FALSE
    /\ index' = RebuiltIndex
    /\ UNCHANGED <<clientVars, blob, rows, rewritten, extras>>

UploadNext ==
    \/ \E u \in Upload : CompleteUpload(u) \/ GiveUp(u) \/ \E c \in Parts[u] : UploadChunk(u, c)
    \/ \E u \in Upload, tag \in Tag : PublishContent(u, tag)
    \/ \E x \in tasks : RunTask(x)
    \/ CleanStale \/ RetryPass \/ RetryOne
    \/ BlobWritten \/ BlobFails \/ RowWritten \/ RowFails
    \/ OthersUseConnection \/ RestartServer

\* The event loop runs what is ready in turn; the retry loop is on it for ever.
Work == (\E x \in tasks : RunTask(x)) \/ RetryOne \/ BlobWritten \/ RowWritten
Due  == RetryPass /\ ready' # <<>>
UploadSpec == UploadInit /\ [][UploadNext]_uploadVars /\ WF_uploadVars(Work) /\ WF_uploadVars(Due)

-----------------------------------------------------------------------------
Stored(x) == rows[x] # NoTag

\* complete_upload joins whatever is there; yet the first content of an upload
\* is whole, however its chunks were delayed, repeated or left unconfirmed.  One
\* with chunks missing comes only of a later session: after a clean-up or stop
\* between two chunks, or after a completion whose answer was lost.
WholeAtFirst ==
    [][\A x \in accepted' \ accepted : x[2] # Parts[x[1]] => x[1] \in reopened]_uploadVars

\* A content that complete_upload answered for is waiting, being processed or
\* stored, as long as the process lives and the retry queue did not overflow:
\* in particular no number of failures ends its retries.
AcceptedIsKept ==
    \A x \in accepted \ overflowed :
        \/ x \in tasks \/ Stored(x)
        \/ \E i \in 1..Len(queue) : queue[i].content = x
        \/ \E i \in 1..Len(ready) : ready[i].content = x
        \/ writing # NoContent /\ writing.content = x

\* The three places of a content agree after every step and stop: a row has its
\* whole file, unless the file was rewritten under it; the index finds only
\* rows, and all of them under their tags as long as no commit failed.
StoreAgrees ==
    /\ \A x \in Content : Stored(x) => blob[x] = "whole" \/ x \in rewritten
    /\ \A x \in Content : index[x] # {} => Stored(x)
    /\ ~commitFailed => \A x \in Content : Stored(x) => rows[x] \in index[x]

\* An accepted content gets its row when failures end, unless a stop or the full
\* queue lost it.
AcceptedEventuallyStored ==
    \A x \in Content : x \in accepted ~> Stored(x) \/ x \notin accepted \ overflowed
=============================================================================
