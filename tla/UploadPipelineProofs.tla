------------------------- MODULE UploadPipelineProofs -------------------------
(***************************************************************************)
(* Proofs about UploadPipeline for any uploads, chunks, tags, limits and   *)
(* faults.                                                                 *)
(***************************************************************************)
EXTENDS UploadPipeline, TLAPS

Items    == [content : Content, attempt : Nat]
AllParts == UNION {Parts[u] : u \in Upload}

SessionTypes ==
    /\ phase \in [Upload -> {"sending", "done", "failed"}]
    /\ acked \in [Upload -> SUBSET AllParts] /\ parts \in [Upload -> SUBSET AllParts]
    /\ open \subseteq Upload
    /\ \A u \in Upload : acked[u] \subseteq Parts[u] /\ parts[u] \subseteq Parts[u]

WorkTypes ==
    /\ accepted \subseteq Content /\ tasks \subseteq Content
    /\ queue \in Seq(Items) /\ ready \in Seq(Items)
    /\ writing \in Jobs \cup {NoContent}

StoreTypes ==
    /\ blob \in [Content -> {"none", "torn", "whole"}]
    /\ rows \in [Content -> Tag \cup {NoTag}] /\ dirty \in [Content -> Tag \cup {NoTag}]
    /\ index \in [Content -> SUBSET Tag] /\ commitFailed \in BOOLEAN

(* Until an upload loses a session with chunks, its session has every chunk that *)
(* was confirmed to its client.                                                  *)
ConfirmedAreThere == \A u \in Upload : u \in reopened \/ acked[u] \subseteq parts[u]

(* Before a row is written, committed or not, the file is there; and a row is    *)
(* uncommitted only after a failed commit.                                       *)
FilesComeFirst ==
    /\ \A x \in Content : dirty[x] # NoTag => blob[x] = "whole" \/ x \in rewritten
    /\ writing # NoContent /\ writing.step = "row" => blob[writing.content] = "whole"
    /\ ~commitFailed => dirty = NoRows

Waits(q, x) == \E i \in 1..Len(q) : q[i].content = x

(* A direct publication of x does not count as its processing: when it fails,    *)
(* nothing is queued.                                                            *)
Kept(x) ==
    \/ x \in tasks \/ Stored(x) \/ Waits(queue, x) \/ Waits(ready, x)
    \/ writing # NoContent /\ writing.content = x /\ writing.by # "publish"
AllKept == \A x \in accepted \ overflowed : Kept(x)

SessionInv == SessionTypes /\ ConfirmedAreThere
StoreInv   == StoreTypes /\ FilesComeFirst /\ StoreAgrees
UploadInv  == SessionInv /\ WorkTypes /\ StoreInv /\ AllKept

-----------------------------------------------------------------------------
(* Sequences of items. *)

LEMMA AppendedWaits ==
    ASSUME NEW q \in Seq(Items), NEW it \in Items, NEW x
    PROVE  /\ Append(q, it) \in Seq(Items)
           /\ Waits(q, x) \/ x = it.content => Waits(Append(q, it), x)
<1>1. /\ Append(q, it) \in Seq(Items) /\ Len(Append(q, it)) = Len(q) + 1 /\ Len(q) \in Nat
      /\ Append(q, it)[Len(q) + 1] = it
      /\ \A i \in 1..Len(q) : Append(q, it)[i] = q[i]
    OBVIOUS
<1>2. ASSUME Waits(q, x) PROVE Waits(Append(q, it), x)
    <2>1. PICK i \in 1..Len(q) : q[i].content = x
        BY <1>2 DEF Waits
    <2>2. i \in 1..Len(Append(q, it)) /\ Append(q, it)[i].content = x
        BY <1>1, <2>1
    <2> QED BY <2>2 DEF Waits
<1>3. ASSUME x = it.content PROVE Waits(Append(q, it), x)
    <2>1. Len(q) + 1 \in 1..Len(Append(q, it)) /\ Append(q, it)[Len(q) + 1].content = x
        BY <1>1, <1>3
    <2> QED BY <2>1 DEF Waits
<1> QED BY <1>1, <1>2, <1>3

LEMMA RestWaits ==
    ASSUME NEW q \in Seq(Items), q # <<>>, NEW x
    PROVE  /\ Head(q) \in Items /\ Tail(q) \in Seq(Items)
           /\ Waits(q, x) => x = Head(q).content \/ Waits(Tail(q), x)
<1>1. /\ Head(q) = q[1] /\ Tail(q) \in Seq(Items) /\ Len(q) \in Nat \ {0}
      /\ Len(Tail(q)) = Len(q) - 1 /\ q[1] \in Items
      /\ \A i \in 1..(Len(q) - 1) : Tail(q)[i] = q[i + 1]
    OBVIOUS
<1>2. ASSUME Waits(q, x), x # Head(q).content PROVE Waits(Tail(q), x)
    <2>1. PICK i \in 1..Len(q) : q[i].content = x
        BY <1>2 DEF Waits
    <2>2. i # 1
        BY <1>1, <1>2, <2>1
    <2>3. i - 1 \in 1..Len(Tail(q)) /\ Tail(q)[i - 1] = q[i]
        BY <1>1, <2>2
    <2> QED BY <2>1, <2>3 DEF Waits
<1> QED BY <1>1, <1>2

LEMMA SplitWaits ==
    ASSUME NEW q \in Seq(Items), NEW n \in 1..Len(q), NEW x
    PROVE  /\ SubSeq(q, 1, n) \in Seq(Items) /\ SubSeq(q, n + 1, Len(q)) \in Seq(Items)
           /\ Waits(q, x) => Waits(SubSeq(q, 1, n), x) \/ Waits(SubSeq(q, n + 1, Len(q)), x)
<1> DEFINE front == SubSeq(q, 1, n)
           rest  == SubSeq(q, n + 1, Len(q))
<1>1. Len(q) \in Nat
    OBVIOUS
<1>2. /\ front \in Seq(Items) /\ Len(front) = n
      /\ \A i \in 1..n : front[i] = q[i]
    BY <1>1
<1>3. /\ rest \in Seq(Items) /\ Len(rest) = Len(q) - n
      /\ \A i \in 1..(Len(q) - n) : rest[i] = q[n + i]
    BY <1>1
<1>4. ASSUME Waits(q, x) PROVE Waits(front, x) \/ Waits(rest, x)
    <2>1. PICK i \in 1..Len(q) : q[i].content = x
        BY <1>4 DEF Waits
    <2>2. CASE i <= n
        <3>1. i \in 1..Len(front) /\ front[i] = q[i]
            BY <1>1, <1>2, <2>2
        <3> HIDE DEF front
        <3> QED BY <2>1, <3>1 DEF Waits
    <2>3. CASE i > n
        <3>1. i - n \in 1..(Len(q) - n) /\ n + (i - n) = i
            BY <1>1, <2>3
        <3>2. i - n \in 1..Len(rest) /\ rest[i - n] = q[i]
            BY <1>3, <3>1
        <3> HIDE DEF rest
        <3> QED BY <2>1, <3>2 DEF Waits
    <2> QED BY <1>1, <2>2, <2>3
<1> QED BY <1>2, <1>3, <1>4

-----------------------------------------------------------------------------
(* The retry queue. *)

(* What waits goes on waiting, unless the full queue dropped it. *)
QueueKeeps ==
    /\ queue' \in Seq(Items) /\ overflowed \subseteq overflowed'
    /\ \A x : Waits(queue, x) => Waits(queue', x) \/ x \in overflowed'

LEMMA QueueFailedKeeps ==
    ASSUME queue \in Seq(Items), NEW x \in Content, QueueFailed(x, 1)
    PROVE  QueueKeeps /\ Waits(queue', x)
<1> DEFINE kept == IF Len(queue) = QueueLength THEN Tail(queue) ELSE queue
           item == [content |-> x, attempt |-> 2]
<1>1. /\ queue' = Append(kept, item)
      /\ overflowed' = IF kept = queue THEN overflowed ELSE overflowed \cup {Head(queue).content}
    BY UploadAssumption DEF QueueFailed
<1>2. item \in Items
    BY DEF Items
<1>3. /\ kept \in Seq(Items)
      /\ \A y : Waits(queue, y) => Waits(kept, y) \/ y \in overflowed'
    <2>1. CASE Len(queue) = QueueLength
        <3>1. queue # <<>> /\ Tail(queue) # queue
            <4>1. Len(queue) \in Nat \ {0}
                BY <2>1, UploadAssumption
            <4>2. queue # <<>>
                BY <4>1
            <4>3. Len(Tail(queue)) = Len(queue) - 1
                BY <4>2
            <4>4. ASSUME Tail(queue) = queue PROVE Len(Tail(queue)) = Len(queue)
                BY <4>4, Zenon
            <4>5. Len(queue) - 1 # Len(queue)
                BY <4>1
            <4> QED BY <4>2, <4>3, <4>4, <4>5, Zenon
        <3>2. kept = Tail(queue) /\ Head(queue).content \in overflowed'
            BY <1>1, <2>1, <3>1
        <3> HIDE DEF kept
        <3> QED BY <3>1, <3>2, RestWaits
    <2>2. CASE Len(queue) # QueueLength
        BY <2>2
    <2> QED BY <2>1, <2>2
<1>4. overflowed \subseteq overflowed'
    BY <1>1
<1> HIDE DEF kept, item
<1>5. queue' \in Seq(Items) /\ Waits(queue', item.content) /\ \A y : Waits(kept, y) => Waits(queue', y)
    BY <1>1, <1>2, <1>3, AppendedWaits
<1>6. item.content = x
    BY DEF item
<1> QED BY <1>3, <1>4, <1>5, <1>6 DEF QueueKeeps

LEMMA RaiseKeeps ==
    ASSUME queue \in Seq(Items), NEW job \in Jobs, Raise(job)
    PROVE  /\ QueueKeeps /\ writing' = NoContent
           /\ job.by # "publish" => Waits(queue', job.content)
<1>1. job.content \in Content /\ job.attempt = 1
    BY DEF Jobs
<1>2. CASE job.by = "publish"
    BY <1>2 DEF Raise, QueueKeeps
<1>3. CASE job.by # "publish"
    <2>1. QueueFailed(job.content, 1)
        BY <1>1, <1>3 DEF Raise
    <2> QED BY <1>1, <2>1, QueueFailedKeeps DEF Raise
<1> QED BY <1>2, <1>3

LEMMA BeginKeeps ==
    ASSUME queue \in Seq(Items), NEW job \in Jobs, Begin(job)
    PROVE  /\ QueueKeeps /\ writing' \in {job, NoContent} /\ rows' = rows
           /\ job.by # "publish" => Waits(queue', job.content) \/ writing' = job
<1>1. CASE writing' = job /\ WriteBlob(job.content) /\ UNCHANGED <<queue, overflowed, uploadFaults>>
    BY <1>1 DEF QueueKeeps, WriteBlob
<1>2. CASE Raise(job) /\ UNCHANGED storeVars
    BY <1>2, RaiseKeeps DEF storeVars
<1> QED BY <1>1, <1>2 DEF Begin

\* Processing starts with the file, which is torn from then on.
LEMMA BeginKeepsStore ==
    ASSUME StoreInv, NEW job \in Jobs, job.step = "blob", Begin(job)
    PROVE  StoreInv'
<1>1. job.content \in Content
    BY DEF Jobs
<1>2. CASE writing' = job /\ WriteBlob(job.content) /\ UNCHANGED <<queue, overflowed, uploadFaults>>
    <2>1. StoreTypes'
        BY <1>1, <1>2 DEF StoreInv, StoreTypes, WriteBlob
    <2>2. FilesComeFirst'
        BY <1>1, <1>2 DEF StoreInv, StoreTypes, FilesComeFirst, WriteBlob, NoRows
    <2>3. StoreAgrees'
        BY <1>1, <1>2 DEF StoreInv, StoreTypes, StoreAgrees, Stored, WriteBlob
    <2> QED BY <2>1, <2>2, <2>3 DEF StoreInv
<1>3. CASE Raise(job) /\ UNCHANGED storeVars
    BY <1>3 DEF Raise, storeVars, StoreInv, StoreTypes, FilesComeFirst, StoreAgrees, Stored, NoRows
<1> QED BY <1>2, <1>3 DEF Begin

LEMMA JobsAreReal == \A job \in Jobs : job # NoContent /\ job.content \in Content /\ job.tag \in Tag
BY UploadAssumption DEF Jobs

\* What is kept stays kept when its places only gain.
LEMMA KeptStays ==
    ASSUME AllKept, accepted' \subseteq accepted, overflowed \subseteq overflowed',
           NEW x \in accepted' \ overflowed',
           x \in tasks => Kept(x)', Stored(x) => Stored(x)',
           Waits(queue, x) => Kept(x)', Waits(ready, x) => Kept(x)',
           writing # NoContent /\ writing.content = x /\ writing.by # "publish" => Kept(x)'
    PROVE  Kept(x)'
<1>1. Stored(x)' => Kept(x)'
    BY DEF Kept
<1> QED BY <1>1 DEF AllKept, Kept

-----------------------------------------------------------------------------
(* Initially. *)

LEMMA ContentsAre ==
    ASSUME NEW u \in Upload, NEW S \in SUBSET Parts[u], S # {}
    PROVE  <<u, S>> \in Content
<1>1. <<u, S>> \in {u} \X ((SUBSET Parts[u]) \ {{}})
    <2> DEFINE Some == (SUBSET Parts[u]) \ {{}}
    <2>1. u \in {u} /\ S \in Some
        OBVIOUS
    <2> HIDE DEF Some
    <2>2. <<u, S>> \in {u} \X Some
        BY <2>1
    <2> QED BY <2>2 DEF Some
<1>2. {u} \X ((SUBSET Parts[u]) \ {{}}) \in {{w} \X ((SUBSET Parts[w]) \ {{}}) : w \in Upload}
    OBVIOUS
<1> QED BY <1>1, <1>2, Zenon DEF Content

LEMMA ContentsHaveUploads == \A x \in Content : x[1] \in Upload /\ TagOf[x[1]] \in Tag
<1> SUFFICES ASSUME NEW x \in Content PROVE x[1] \in Upload
    BY UploadAssumption
<1>1. PICK u \in Upload : x \in {u} \X ((SUBSET Parts[u]) \ {{}})
    BY Zenon DEF Content
<1> QED BY <1>1

LEMMA UploadInitial == UploadInit => UploadInv
<1> SUFFICES ASSUME UploadInit PROVE UploadInv
    OBVIOUS
<1>1. SessionInv
    BY DEF UploadInit, SessionInv, SessionTypes, ConfirmedAreThere, AllParts
<1>2. WorkTypes
    BY DEF UploadInit, WorkTypes
<1>3. StoreInv
    BY DEF UploadInit, StoreInv, StoreTypes, FilesComeFirst, StoreAgrees, Stored, NoRows
<1> QED BY <1>1, <1>2, <1>3 DEF UploadInit, UploadInv, AllKept

-----------------------------------------------------------------------------
(* Sessions. *)

LEMMA CloseKeepsSession ==
    ASSUME SessionInv, NEW gone \in SUBSET open, Close(gone), UNCHANGED acked,
           phase' \in [Upload -> {"sending", "done", "failed"}]
    PROVE  SessionInv'
<1>1. SessionTypes'
    BY DEF SessionInv, SessionTypes, Close
<1>2. ConfirmedAreThere'
    BY DEF SessionInv, SessionTypes, ConfirmedAreThere, Close
<1> QED BY <1>1, <1>2 DEF SessionInv

LEMMA ChunkKeepsSession ==
    ASSUME SessionInv, NEW u \in Upload, NEW c \in Parts[u], UploadChunk(u, c)
    PROVE  SessionInv'
<1> DEFINE awaited == phase[u] = "sending" /\ c \notin acked[u]
<1>1. c \in AllParts
    BY DEF AllParts
<1>2. CASE CumulativeBytes(u, parts[u] \cup {c}) <= MaxUploadBytes
    <2>1. /\ parts' = [parts EXCEPT ![u] = @ \cup {c}] /\ open' = open \cup {u}
          /\ acked' = acked \/ acked' = [acked EXCEPT ![u] = @ \cup {c}]
          /\ UNCHANGED <<phase, reopened>>
        BY <1>2 DEF UploadChunk
    <2>2. SessionTypes'
        BY <1>1, <2>1 DEF SessionInv, SessionTypes
    <2>3. ConfirmedAreThere'
        BY <2>1 DEF SessionInv, SessionTypes, ConfirmedAreThere
    <2> QED BY <2>2, <2>3 DEF SessionInv
<1>3. CASE ~(CumulativeBytes(u, parts[u] \cup {c}) <= MaxUploadBytes)
    <2>1. /\ phase' = phase \/ phase' = [phase EXCEPT ![u] = "failed"]
          /\ open' = open \cup {u} /\ UNCHANGED <<parts, acked, reopened>>
        BY <1>3 DEF UploadChunk
    <2>2. SessionTypes'
        BY <2>1 DEF SessionInv, SessionTypes
    <2> QED BY <2>1, <2>2 DEF SessionInv, ConfirmedAreThere
<1> QED BY <1>2, <1>3

\* Every action that is not about sessions leaves them alone.
LEMMA SessionsUnchanged ==
    ASSUME SessionInv, UNCHANGED <<clientVars, open, parts, reopened>>
    PROVE  SessionInv'
BY DEF SessionInv, SessionTypes, ConfirmedAreThere, clientVars

LEMMA SessionStep ==
    ASSUME SessionInv, UploadNext
    PROVE  SessionInv'
<1>1. CASE \E u \in Upload : CompleteUpload(u)
    <2>1. PICK u \in Upload : CompleteUpload(u)
        BY <1>1
    <2>2. /\ UNCHANGED acked /\ phase' \in [Upload -> {"sending", "done", "failed"}]
          /\ Close({u}) \/ UNCHANGED <<open, parts, reopened>>
        BY <2>1 DEF CompleteUpload, SessionInv, SessionTypes
    <2>3. CASE u \in open /\ Close({u})
        BY <2>2, <2>3, CloseKeepsSession
    <2>4. CASE u \notin open /\ Close({u})
        <3>1. SessionTypes'
            BY <2>2, <2>4 DEF SessionInv, SessionTypes, Close
        <3>2. ConfirmedAreThere'
            BY <2>2, <2>4 DEF SessionInv, SessionTypes, ConfirmedAreThere, Close
        <3> QED BY <3>1, <3>2 DEF SessionInv
    <2>5. CASE UNCHANGED <<open, parts, reopened>>
        BY <2>2, <2>5 DEF SessionInv, SessionTypes, ConfirmedAreThere
    <2> QED BY <2>2, <2>3, <2>4, <2>5
<1>2. CASE \E u \in Upload : GiveUp(u)
    BY <1>2 DEF GiveUp, SessionInv, SessionTypes, ConfirmedAreThere
<1>3. CASE \E u \in Upload : \E c \in Parts[u] : UploadChunk(u, c)
    BY <1>3, ChunkKeepsSession
<1>4. CASE CleanStale
    <2>1. PICK gone \in SUBSET open : Close(gone)
        BY <1>4 DEF CleanStale
    <2>2. UNCHANGED acked /\ phase' \in [Upload -> {"sending", "done", "failed"}]
        BY <1>4 DEF CleanStale, clientVars, SessionInv, SessionTypes
    <2> QED BY <2>1, <2>2, CloseKeepsSession
<1>5. CASE RetryPass
    <2>1. PICK gone \in SUBSET open : Close(gone)
        BY <1>5 DEF RetryPass
    <2>2. UNCHANGED acked /\ phase' \in [Upload -> {"sending", "done", "failed"}]
        BY <1>5 DEF RetryPass, clientVars, SessionInv, SessionTypes
    <2> QED BY <2>1, <2>2, CloseKeepsSession
<1>6. CASE RestartServer
    <2>1. Close(open) /\ UNCHANGED acked /\ phase' \in [Upload -> {"sending", "done", "failed"}]
        BY <1>6 DEF RestartServer, clientVars, SessionInv, SessionTypes
    <2> QED BY <2>1, CloseKeepsSession
<1>7. CASE \/ \E u \in Upload, tag \in Tag : PublishContent(u, tag)
           \/ \E x \in tasks : RunTask(x)
           \/ RetryOne \/ BlobWritten \/ BlobFails \/ RowWritten \/ RowFails \/ OthersUseConnection
    BY <1>7, SessionsUnchanged DEF PublishContent, RunTask, RetryOne, BlobWritten, BlobFails,
       RowWritten, RowFails, OthersUseConnection
<1> QED BY <1>1, <1>2, <1>3, <1>4, <1>5, <1>6, <1>7 DEF UploadNext

-----------------------------------------------------------------------------
(* The content store. *)

\* The jobs that actions begin.
LEMMA JobsBegun ==
    /\ \A x \in Content : /\ Job(x, TagOf[x[1]], "task", "blob", 1) \in Jobs
                          /\ Job(x, TagOf[x[1]], "retry", "blob", 1) \in Jobs
    /\ \A u \in Upload, tag \in Tag : Job(<<u, Parts[u]>>, tag, "publish", "blob", 1) \in Jobs
<1>1. \A x \in Content : TagOf[x[1]] \in Tag
    BY ContentsHaveUploads
<1>2. \A u \in Upload : <<u, Parts[u]>> \in Content
    BY ContentsAre, UploadAssumption
<1> QED BY <1>1, <1>2 DEF Jobs, Job

\* An action that leaves the store and what is being written alone.
LEMMA StoreUnchanged ==
    ASSUME StoreInv, UNCHANGED <<writing, storeVars>>
    PROVE  StoreInv'
BY DEF StoreInv, StoreTypes, FilesComeFirst, StoreAgrees, Stored, storeVars, NoRows

LEMMA RowWrittenKeepsStore ==
    ASSUME StoreInv, WorkTypes, RowWritten
    PROVE  StoreInv'
<1> DEFINE x == writing.content
           g == writing.tag
<1>1. x \in Content /\ g \in Tag /\ g # NoTag /\ blob[x] = "whole"
    BY UploadAssumption, JobsAreReal DEF StoreInv, FilesComeFirst, WorkTypes, RowWritten
<1>2. /\ rows' = [Over(dirty, rows) EXCEPT ![x] = g] /\ dirty' = NoRows
      /\ index' = [index EXCEPT ![x] = @ \cup {g}] /\ writing' = NoContent
      /\ UNCHANGED <<blob, commitFailed, rewritten>>
    BY DEF RowWritten
<1> HIDE DEF x, g
<1>3. Over(dirty, rows) \in [Content -> Tag \cup {NoTag}]
    BY DEF Over, StoreInv, StoreTypes
<1>4. StoreTypes'
    BY <1>1, <1>2, <1>3 DEF StoreInv, StoreTypes, NoRows
<1>5. FilesComeFirst'
    BY <1>1, <1>2 DEF StoreInv, FilesComeFirst, NoRows
<1>6. \A y \in Content : rows'[y] # NoTag => y = x \/ rows[y] # NoTag \/ dirty[y] # NoTag
    BY <1>2, <1>3 DEF Over
<1>7. \A y \in Content : y = x \/ rows[y] # NoTag => rows'[y] # NoTag
    BY <1>1, <1>2, <1>3 DEF Over
<1>8. ASSUME ~commitFailed, NEW y \in Content, rows'[y] # NoTag PROVE rows'[y] \in index'[y]
    <2>1. CASE y = x
        BY <1>1, <1>2, <1>3, <2>1 DEF StoreInv, StoreTypes
    <2>2. CASE y # x
        <3>1. dirty[y] = NoTag
            BY <1>8 DEF StoreInv, FilesComeFirst, NoRows
        <3>2. rows'[y] = rows[y] /\ index'[y] = index[y]
            BY <1>1, <1>2, <1>3, <2>2, <3>1 DEF Over, StoreInv, StoreTypes
        <3> QED BY <1>8, <3>2 DEF StoreInv, StoreAgrees, Stored
    <2> QED BY <2>1, <2>2
<1>9. StoreAgrees'
    <2>1. \A y \in Content : rows'[y] # NoTag => blob'[y] = "whole" \/ y \in rewritten'
        BY <1>1, <1>2, <1>6 DEF StoreInv, StoreAgrees, Stored, FilesComeFirst
    <2>2. \A y \in Content : index'[y] # {} => rows'[y] # NoTag
        BY <1>2, <1>7 DEF StoreInv, StoreAgrees, StoreTypes, Stored
    <2> QED BY <1>2, <1>8, <2>1, <2>2 DEF StoreAgrees, Stored
<1> QED BY <1>4, <1>5, <1>9 DEF StoreInv

LEMMA OthersKeepStore ==
    ASSUME StoreInv, OthersUseConnection
    PROVE  StoreInv'
<1>1. Over(dirty, rows) \in [Content -> Tag \cup {NoTag}]
    BY DEF Over, StoreInv, StoreTypes
<1>2. StoreTypes' /\ FilesComeFirst'
    BY <1>1 DEF OthersUseConnection, StoreInv, StoreTypes, FilesComeFirst, NoRows
<1>3. commitFailed /\ UNCHANGED <<blob, index, commitFailed, rewritten>>
    BY DEF OthersUseConnection, StoreInv, FilesComeFirst
<1>4. \A y \in Content : /\ rows'[y] # NoTag => rows[y] # NoTag \/ dirty[y] # NoTag
                         /\ rows[y] # NoTag => rows'[y] # NoTag
    BY DEF OthersUseConnection, Over
<1>5. StoreAgrees'
    <2>1. \A y \in Content : rows[y] # NoTag \/ dirty[y] # NoTag => blob[y] = "whole" \/ y \in rewritten
        BY DEF StoreInv, StoreAgrees, Stored, FilesComeFirst
    <2>2. \A y \in Content : index[y] # {} => rows[y] # NoTag
        BY DEF StoreInv, StoreAgrees, Stored
    <2>3. ASSUME NEW y \in Content, rows'[y] # NoTag PROVE blob'[y] = "whole" \/ y \in rewritten'
        BY <1>3, <1>4, <2>1, <2>3
    <2>4. ASSUME NEW y \in Content, index'[y] # {} PROVE rows'[y] # NoTag
        BY <1>3, <1>4, <2>2, <2>4
    <2> QED BY <1>3, <2>3, <2>4 DEF StoreAgrees, Stored
<1> QED BY <1>2, <1>5 DEF StoreInv

LEMMA BlobStepsKeepStore ==
    ASSUME StoreInv, WorkTypes, BlobWritten \/ BlobFails
    PROVE  StoreInv'
<1>1. CASE BlobWritten
    <2>1. writing \in Jobs /\ writing.content \in Content
        BY <1>1, JobsAreReal DEF BlobWritten, WorkTypes
    <2>2. /\ blob' = [blob EXCEPT ![writing.content] = "whole"]
          /\ writing' = [writing EXCEPT !.step = "row"]
          /\ UNCHANGED <<rows, dirty, index, commitFailed, rewritten>>
        BY <1>1 DEF BlobWritten
    <2>3. writing'.content = writing.content
        BY <2>1, <2>2 DEF Jobs
    <2>4. StoreTypes'
        BY <2>1, <2>2 DEF StoreInv, StoreTypes
    <2>5. \A y \in Content : blob[y] = "whole" => blob'[y] = "whole"
        BY <2>1, <2>2 DEF StoreInv, StoreTypes
    <2>6. blob'[writing.content] = "whole"
        BY <2>1, <2>2 DEF StoreInv, StoreTypes
    <2>7. FilesComeFirst'
        BY <2>2, <2>3, <2>5, <2>6 DEF StoreInv, FilesComeFirst, NoRows
    <2>8. StoreAgrees'
        BY <2>2, <2>5 DEF StoreInv, StoreAgrees, Stored
    <2> QED BY <2>4, <2>7, <2>8 DEF StoreInv
<1>2. CASE BlobFails
    BY <1>2 DEF BlobFails, Raise, storeVars, StoreInv, StoreTypes, FilesComeFirst, StoreAgrees,
       Stored, NoRows
<1> QED BY <1>1, <1>2

LEMMA RowFailsKeepsStore ==
    ASSUME StoreInv, WorkTypes, RowFails
    PROVE  StoreInv'
<1>1. writing.content \in Content /\ writing.tag \in Tag /\ blob[writing.content] = "whole"
    BY JobsAreReal DEF RowFails, WorkTypes, StoreInv, FilesComeFirst
<1>2. writing' = NoContent /\ UNCHANGED <<blob, rows, index, rewritten>>
    BY DEF RowFails, Raise
<1>3. CASE UNCHANGED <<dirty, commitFailed>>
    BY <1>2, <1>3 DEF StoreInv, StoreTypes, FilesComeFirst, StoreAgrees, Stored, NoRows
<1>4. CASE dirty' = [dirty EXCEPT ![writing.content] = writing.tag] /\ commitFailed' = TRUE
    <2>1. StoreTypes'
        BY <1>1, <1>2, <1>4 DEF StoreInv, StoreTypes
    <2>2. FilesComeFirst'
        BY <1>1, <1>2, <1>4 DEF StoreInv, StoreTypes, FilesComeFirst
    <2> QED BY <1>2, <1>4, <2>1, <2>2 DEF StoreInv, StoreAgrees, Stored
<1> QED BY <1>3, <1>4 DEF RowFails

LEMMA RestartKeepsStore ==
    ASSUME StoreInv, RestartServer
    PROVE  StoreInv'
<1>1. /\ writing' = NoContent /\ dirty' = NoRows /\ commitFailed' = FALSE
      /\ index' = [x \in Content |-> IF rows[x] = NoTag THEN {} ELSE {rows[x]}]
      /\ UNCHANGED <<blob, rows, rewritten>>
    BY DEF RestartServer, RebuiltIndex
<1>2. StoreTypes'
    BY <1>1 DEF StoreInv, StoreTypes, NoRows
<1>3. FilesComeFirst'
    BY <1>1 DEF FilesComeFirst, NoRows
<1>4. StoreAgrees'
    BY <1>1 DEF StoreInv, StoreAgrees, Stored
<1> QED BY <1>2, <1>3, <1>4 DEF StoreInv

LEMMA StoreStep ==
    ASSUME StoreInv, WorkTypes, UploadNext
    PROVE  StoreInv'
<1>1. CASE \E x \in tasks : RunTask(x)
    <2>1. PICK x \in tasks : RunTask(x)
        BY <1>1
    <2>2. Job(x, TagOf[x[1]], "task", "blob", 1) \in Jobs
        BY JobsBegun DEF WorkTypes
    <2> QED BY <2>1, <2>2, BeginKeepsStore DEF RunTask, Job
<1>2. CASE RetryOne
    <2>1. Head(ready) \in Items
        BY <1>2, RestWaits DEF RetryOne, WorkTypes
    <2>2. Job(Head(ready).content, TagOf[Head(ready).content[1]], "retry", "blob", 1) \in Jobs
        BY <2>1, JobsBegun DEF Items
    <2> QED BY <1>2, <2>2, BeginKeepsStore DEF RetryOne, Job, AttemptOf
<1>3. CASE \E u \in Upload, tag \in Tag : PublishContent(u, tag)
    <2>1. PICK u \in Upload, tag \in Tag : PublishContent(u, tag)
        BY <1>3
    <2>2. Job(<<u, Parts[u]>>, tag, "publish", "blob", 1) \in Jobs
        BY JobsBegun
    <2> QED BY <2>1, <2>2, BeginKeepsStore DEF PublishContent, Job
<1>4. CASE BlobWritten \/ BlobFails
    BY <1>4, BlobStepsKeepStore
<1>5. CASE RowWritten
    BY <1>5, RowWrittenKeepsStore
<1>6. CASE RowFails
    BY <1>6, RowFailsKeepsStore
<1>7. CASE OthersUseConnection
    BY <1>7, OthersKeepStore
<1>8. CASE RestartServer
    BY <1>8, RestartKeepsStore
<1>9. CASE \/ \E u \in Upload : CompleteUpload(u) \/ GiveUp(u) \/ \E c \in Parts[u] : UploadChunk(u, c)
           \/ CleanStale \/ RetryPass
    BY <1>9, StoreUnchanged DEF CompleteUpload, GiveUp, UploadChunk, CleanStale, RetryPass
<1> QED BY <1>1, <1>2, <1>3, <1>4, <1>5, <1>6, <1>7, <1>8, <1>9 DEF UploadNext
-----------------------------------------------------------------------------
(* What was answered for. *)

\* Actions that begin a job for content x: it is written, or queued again.
LEMMA BegunIsKept ==
    ASSUME NEW x, NEW by \in {"task", "retry"}, NEW tag,
           Waits(queue', x) \/ writing' = Job(x, tag, by, "blob", 1),
           Job(x, tag, by, "blob", 1) \in Jobs
    PROVE  Kept(x)'
BY JobsAreReal DEF Kept, Job

LEMMA RunTaskKeeps ==
    ASSUME WorkTypes, AllKept, NEW y \in tasks, RunTask(y)
    PROVE  WorkTypes' /\ AllKept'
<1> DEFINE job == Job(y, TagOf[y[1]], "task", "blob", 1)
<1>1. /\ job \in Jobs /\ Begin(job) /\ job.by # "publish" /\ job.content = y
      /\ tasks' = tasks \ {y} /\ UNCHANGED <<accepted, ready>>
      /\ writing = NoContent /\ ready = <<>>
    BY JobsBegun DEF RunTask, OnLoop, WorkTypes, Job
<1>2. QueueKeeps /\ writing' \in {job, NoContent} /\ rows' = rows
      /\ (Waits(queue', y) \/ writing' = job)
    BY <1>1, BeginKeeps DEF WorkTypes
<1>3. WorkTypes'
    BY <1>1, <1>2 DEF WorkTypes, QueueKeeps
<1>4. ASSUME NEW x \in accepted' \ overflowed' PROVE Kept(x)'
    <2>1. Kept(y)'
        BY <1>1, <1>2, BegunIsKept
    <2>2. x \in tasks => Kept(x)'
        BY <1>1, <2>1 DEF Kept
    <2>3. Stored(x) => Stored(x)'
        BY <1>2 DEF Stored
    <2>4. Waits(queue, x) => Kept(x)'
        BY <1>2, <1>4 DEF QueueKeeps, Kept
    <2>5. Waits(ready, x) => Kept(x)'
        BY <1>1 DEF Kept
    <2> QED BY <1>1, <1>2, <2>2, <2>3, <2>4, <2>5, KeptStays DEF QueueKeeps
<1> QED BY <1>3, <1>4 DEF AllKept

LEMMA RetryOneKeeps ==
    ASSUME WorkTypes, AllKept, RetryOne
    PROVE  WorkTypes' /\ AllKept'
<1>1. Head(ready) \in Items /\ Tail(ready) \in Seq(Items)
    BY RestWaits DEF RetryOne, WorkTypes
<1> PICK y \in Content : y = Head(ready).content
    BY <1>1 DEF Items
<1> DEFINE job == Job(y, TagOf[y[1]], "retry", "blob", 1)
<1>2. /\ job \in Jobs /\ Begin(job) /\ job.by # "publish" /\ job.content = y
      /\ ready' = Tail(ready) /\ ready # <<>> /\ UNCHANGED <<accepted, tasks>>
      /\ writing = NoContent
    BY JobsBegun DEF RetryOne, AttemptOf, Job
<1>3. QueueKeeps /\ writing' \in {job, NoContent} /\ rows' = rows
      /\ (Waits(queue', y) \/ writing' = job)
    BY <1>2, BeginKeeps DEF WorkTypes
<1>4. WorkTypes'
    BY <1>1, <1>2, <1>3 DEF WorkTypes, QueueKeeps
<1>5. ASSUME NEW x \in accepted' \ overflowed' PROVE Kept(x)'
    <2>1. Kept(y)'
        BY <1>2, <1>3, BegunIsKept
    <2>2. x \in tasks => Kept(x)'
        BY <1>2 DEF Kept
    <2>3. Stored(x) => Stored(x)'
        BY <1>3 DEF Stored
    <2>4. Waits(queue, x) => Kept(x)'
        BY <1>3, <1>5 DEF QueueKeeps, Kept
    <2>5. Waits(ready, x) => x = y \/ Waits(ready', x)
        BY <1>2, RestWaits DEF WorkTypes
    <2>6. Waits(ready, x) => Kept(x)'
        BY <2>1, <2>5 DEF Kept
    <2> QED BY <1>2, <1>3, <2>2, <2>3, <2>4, <2>6, KeptStays DEF QueueKeeps
<1> QED BY <1>4, <1>5 DEF AllKept

LEMMA RetryPassKeeps ==
    ASSUME WorkTypes, AllKept, RetryPass
    PROVE  WorkTypes' /\ AllKept'
<1>1. /\ UNCHANGED <<accepted, tasks, overflowed, writing, rows>> /\ ready = <<>>
      /\ UNCHANGED <<queue, ready>> \/ \E n \in 1..Len(queue) : TakeDue(n)
    BY DEF RetryPass, OnLoop, storeVars
<1>2. /\ queue' \in Seq(Items) /\ ready' \in Seq(Items)
      /\ \A x : /\ Waits(queue, x) => Waits(ready', x) \/ Waits(queue', x)
                /\ ~Waits(ready, x) \/ UNCHANGED ready
    <2>1. CASE UNCHANGED <<queue, ready>>
        BY <2>1 DEF WorkTypes
    <2>2. CASE \E n \in 1..Len(queue) : TakeDue(n)
        <3>1. PICK n \in 1..Len(queue) : TakeDue(n)
            BY <2>2
        <3>2. ready' = SubSeq(queue, 1, n) /\ queue' = SubSeq(queue, n + 1, Len(queue))
            BY <3>1 DEF TakeDue
        <3>3. \A x : ~Waits(ready, x)
            BY <1>1 DEF Waits
        <3> QED BY <3>2, <3>3, SplitWaits DEF WorkTypes
    <2> QED BY <1>1, <2>1, <2>2
<1>3. WorkTypes'
    BY <1>1, <1>2 DEF WorkTypes
<1>4. ASSUME NEW x \in accepted' \ overflowed' PROVE Kept(x)'
    BY <1>1, <1>2, <1>4 DEF AllKept, Kept, Stored
<1> QED BY <1>3, <1>4 DEF AllKept

LEMMA PublishKeeps ==
    ASSUME WorkTypes, AllKept, NEW u \in Upload, NEW tag \in Tag, PublishContent(u, tag)
    PROVE  WorkTypes' /\ AllKept'
<1> DEFINE job == Job(<<u, Parts[u]>>, tag, "publish", "blob", 1)
<1>1. /\ job \in Jobs /\ Begin(job) /\ UNCHANGED <<accepted, tasks, ready>>
      /\ writing = NoContent
    BY JobsBegun DEF PublishContent, OnLoop
<1>2. QueueKeeps /\ writing' \in {job, NoContent} /\ rows' = rows
    BY <1>1, BeginKeeps DEF WorkTypes
<1>3. WorkTypes'
    BY <1>1, <1>2 DEF WorkTypes, QueueKeeps
<1>4. ASSUME NEW x \in accepted' \ overflowed' PROVE Kept(x)'
    <2>1. Stored(x) => Stored(x)'
        BY <1>2 DEF Stored
    <2>2. Waits(queue, x) => Kept(x)'
        BY <1>2, <1>4 DEF QueueKeeps, Kept
    <2>3. (x \in tasks => Kept(x)') /\ (Waits(ready, x) => Kept(x)')
        BY <1>1 DEF Kept
    <2> QED BY <1>1, <1>2, <2>1, <2>2, <2>3, KeptStays DEF QueueKeeps
<1> QED BY <1>3, <1>4 DEF AllKept

LEMMA FailureKeeps ==
    ASSUME WorkTypes, AllKept, writing # NoContent, Raise(writing),
           UNCHANGED <<accepted, tasks, ready, rows>>
    PROVE  WorkTypes' /\ AllKept'
<1>1. writing \in Jobs
    BY DEF WorkTypes
<1>2. /\ QueueKeeps /\ writing' = NoContent
      /\ writing.by # "publish" => Waits(queue', writing.content)
    BY <1>1, RaiseKeeps DEF WorkTypes
<1>3. WorkTypes'
    BY <1>2 DEF WorkTypes, QueueKeeps
<1>4. ASSUME NEW x \in accepted' \ overflowed' PROVE Kept(x)'
    <2>1. Stored(x) => Stored(x)'
        BY DEF Stored
    <2>2. Waits(queue, x) => Kept(x)'
        BY <1>2, <1>4 DEF QueueKeeps, Kept
    <2>3. (x \in tasks => Kept(x)') /\ (Waits(ready, x) => Kept(x)')
        BY DEF Kept
    <2>4. writing # NoContent /\ writing.content = x /\ writing.by # "publish" => Kept(x)'
        BY <1>2 DEF Kept
    <2> QED BY <1>2, <2>1, <2>2, <2>3, <2>4, KeptStays DEF QueueKeeps
<1> QED BY <1>3, <1>4 DEF AllKept

LEMMA BlobWrittenKeeps ==
    ASSUME WorkTypes, AllKept, BlobWritten
    PROVE  WorkTypes' /\ AllKept'
<1>1. /\ writing \in Jobs /\ writing' = [writing EXCEPT !.step = "row"]
      /\ UNCHANGED <<accepted, tasks, queue, ready, overflowed, rows>>
    BY DEF WorkTypes, BlobWritten, queueVars
<1>2. writing' \in Jobs /\ writing'.content = writing.content /\ writing'.by = writing.by
    BY <1>1 DEF Jobs
<1>3. WorkTypes'
    BY <1>1, <1>2 DEF WorkTypes
<1>4. writing' # NoContent
    BY <1>2, JobsAreReal
<1> QED BY <1>1, <1>2, <1>3, <1>4 DEF AllKept, Kept, Stored, Waits

LEMMA RowWrittenKeeps ==
    ASSUME StoreTypes, WorkTypes, AllKept, RowWritten
    PROVE  WorkTypes' /\ AllKept'
<1>1. /\ writing \in Jobs /\ writing.content \in Content /\ writing.tag # NoTag
      /\ writing' = NoContent
      /\ rows' = [Over(dirty, rows) EXCEPT ![writing.content] = writing.tag]
      /\ UNCHANGED <<accepted, tasks, queue, ready, overflowed>>
    BY UploadAssumption, JobsAreReal DEF WorkTypes, RowWritten, queueVars
<1>2. \A x \in Content : Stored(x) \/ x = writing.content => Stored(x)'
    BY <1>1 DEF Over, Stored
<1>3. WorkTypes'
    BY <1>1 DEF WorkTypes
<1>4. accepted \subseteq Content
    BY DEF WorkTypes
<1> QED BY <1>1, <1>2, <1>3, <1>4 DEF AllKept, Kept, Waits

LEMMA CompleteKeeps ==
    ASSUME SessionInv, WorkTypes, AllKept, NEW u \in Upload, CompleteUpload(u)
    PROVE  WorkTypes' /\ AllKept'
<1>1. UNCHANGED <<queue, ready, overflowed, writing, rows>>
    BY DEF CompleteUpload, storeVars
<1>2. \/ /\ parts[u] # {} /\ accepted' = accepted \cup {<<u, parts[u]>>}
         /\ tasks' = tasks \cup {<<u, parts[u]>>}
      \/ UNCHANGED <<accepted, tasks>>
    BY DEF CompleteUpload
<1>3. parts[u] # {} => <<u, parts[u]>> \in Content
    BY ContentsAre DEF SessionInv, SessionTypes
<1>4. WorkTypes'
    BY <1>1, <1>2, <1>3 DEF WorkTypes
<1> QED BY <1>1, <1>2, <1>4 DEF AllKept, Kept, Stored, Waits

LEMMA WorkStep ==
    ASSUME UploadInv, UploadNext
    PROVE  WorkTypes' /\ AllKept'
<1> USE DEF UploadInv
<1>1. CASE \E u \in Upload : CompleteUpload(u)
    BY <1>1, CompleteKeeps
<1>2. CASE \/ \E u \in Upload : GiveUp(u) \/ \E c \in Parts[u] : UploadChunk(u, c)
           \/ CleanStale
    BY <1>2 DEF GiveUp, UploadChunk, CleanStale, queueVars, storeVars, WorkTypes, AllKept, Kept,
       Stored, Waits
<1>3. CASE OthersUseConnection
    <2>1. \A x \in Content : Stored(x) => Stored(x)'
        BY <1>3 DEF OthersUseConnection, Over, Stored
    <2>2. UNCHANGED <<queueVars, writing>> /\ accepted \subseteq Content
        BY <1>3 DEF OthersUseConnection, WorkTypes
    <2> QED BY <2>1, <2>2 DEF queueVars, WorkTypes, AllKept, Kept, Waits
<1>4. CASE \E x \in tasks : RunTask(x)
    BY <1>4, RunTaskKeeps
<1>5. CASE RetryOne
    BY <1>5, RetryOneKeeps
<1>6. CASE RetryPass
    BY <1>6, RetryPassKeeps
<1>7. CASE \E u \in Upload, tag \in Tag : PublishContent(u, tag)
    BY <1>7, PublishKeeps
<1>8. CASE BlobFails
    BY <1>8, FailureKeeps DEF BlobFails, storeVars
<1>9. CASE RowFails
    BY <1>9, FailureKeeps DEF RowFails
<1>10. CASE BlobWritten
    BY <1>10, BlobWrittenKeeps
<1>11. CASE RowWritten
    BY <1>11, RowWrittenKeeps DEF StoreInv
<1>12. CASE RestartServer
    BY <1>12 DEF RestartServer, WorkTypes, AllKept
<1> QED BY <1>1, <1>2, <1>3, <1>4, <1>5, <1>6, <1>7, <1>8, <1>9, <1>10, <1>11, <1>12
        DEF UploadNext

-----------------------------------------------------------------------------
(* The theorems. *)

LEMMA UploadStutters == UploadInv /\ UNCHANGED uploadVars => UploadInv'
<1> SUFFICES ASSUME UploadInv, UNCHANGED uploadVars PROVE UploadInv'
    OBVIOUS
<1>1. UNCHANGED <<clientVars, open, parts, reopened>> /\ UNCHANGED <<writing, storeVars>>
      /\ UNCHANGED queueVars /\ UNCHANGED rows
    BY DEF uploadVars, storeVars
<1>2. SessionInv' /\ StoreInv'
    BY <1>1, SessionsUnchanged, StoreUnchanged DEF UploadInv
<1>3. WorkTypes' /\ AllKept'
    BY <1>1 DEF UploadInv, queueVars, WorkTypes, AllKept, Kept, Stored, Waits
<1> QED BY <1>2, <1>3 DEF UploadInv

\* Whatever arrives, is lost, repeated, cleaned up or fails, and wherever the
\* process stops: the states of the sessions, the retry queue and the content
\* store are those of the inductive invariant.
THEOREM UploadInvariance == UploadSpec => []UploadInv
<1>1. UploadInit => UploadInv
    BY UploadInitial
<1>2. UploadInv /\ [UploadNext]_uploadVars => UploadInv'
    <2> SUFFICES ASSUME UploadInv, UploadNext PROVE UploadInv'
        BY UploadStutters
    <2>1. SessionInv'
        BY SessionStep DEF UploadInv
    <2>2. StoreInv'
        BY StoreStep DEF UploadInv
    <2>3. WorkTypes' /\ AllKept'
        BY WorkStep
    <2> QED BY <2>1, <2>2, <2>3 DEF UploadInv
<1> QED BY <1>1, <1>2, PTL DEF UploadSpec

\* File, row and tag index agree after every step, failure and stop: a row has
\* its whole file unless it was rewritten under the row, the index finds only
\* rows, and finds them all until a commit fails (ContentStore.put, load_all).
THEOREM StoreAlwaysAgrees == UploadSpec => []StoreAgrees
<1>1. UploadInv => StoreAgrees
    BY DEF UploadInv, StoreInv
<1> QED BY <1>1, UploadInvariance, PTL

\* No sequence of failures makes _process_upload_async or the retry loop lose a
\* content that complete_upload answered for: only a stop or the full deque can.
THEOREM AcceptedAlwaysKept == UploadSpec => []AcceptedIsKept
<1>1. UploadInv => AcceptedIsKept
    BY DEF UploadInv, AllKept, Kept, Waits, AcceptedIsKept
<1> QED BY <1>1, UploadInvariance, PTL

\* complete_upload does not check that the sequence is complete; the first
\* content of an upload is whole all the same, because the client completes only
\* what was confirmed, and what was confirmed is lost only with its session.
THEOREM FirstContentIsWhole == UploadSpec => WholeAtFirst
<1> DEFINE Whole == \A x \in accepted' \ accepted : x[2] # Parts[x[1]] => x[1] \in reopened
<1>1. UploadInv /\ [UploadNext]_uploadVars => [Whole]_uploadVars
    <2> SUFFICES ASSUME UploadInv, UploadNext PROVE Whole
        OBVIOUS
    <2>1. CASE \E u \in Upload : CompleteUpload(u)
        <3>1. PICK u \in Upload : CompleteUpload(u)
            BY <2>1
        <3>2. accepted' \ accepted \subseteq {<<u, parts[u]>>} /\ acked[u] = Parts[u]
            BY <3>1 DEF CompleteUpload, AllConfirmed
        <3>3. u \in reopened \/ parts[u] = Parts[u]
            BY <3>2 DEF UploadInv, SessionInv, SessionTypes, ConfirmedAreThere
        <3> QED BY <3>2, <3>3
    <2>2. CASE ~\E u \in Upload : CompleteUpload(u)
        <3>1. accepted' \subseteq accepted
            BY <2>2 DEF UploadNext, GiveUp, UploadChunk, PublishContent, RunTask, CleanStale,
               RetryPass, RetryOne, BlobWritten, BlobFails, RowWritten, RowFails,
               OthersUseConnection, RestartServer, queueVars
        <3> QED BY <3>1
    <2> QED BY <2>1, <2>2
<1> QED BY <1>1, UploadInvariance, PTL DEF UploadSpec, WholeAtFirst
=============================================================================
