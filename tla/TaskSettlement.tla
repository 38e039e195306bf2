--------------------------- MODULE TaskSettlement ---------------------------
(***************************************************************************)
(* The compute-task economy of one node: TaskStore, HABPVerifier,          *)
(* EarnLog, CreditStore and the HTTP handlers that use them                *)
(* (tfp_demo/server.py).  All handlers share one SQLite connection and one *)
(* re-entrant lock, so a locked section is one action; a request thread    *)
(* releases the lock between submitting a result, settling the rewards and *)
(* replenishing the pool, and the process may stop between any two         *)
(* commits.                                                                *)
(*                                                                         *)
(* Abstracted: device signatures and rate limits (inputs are requests that *)
(* passed them), the text of a task, execution time, the size of a reward  *)
(* (any member of Credits), the clock (the four windows of `phase').       *)
(***************************************************************************)
EXTENDS Naturals, FiniteSets, Functions

CONSTANTS
    Tasks,       \* task ids the node will ever generate
    Devices,     \* enrolled devices
    Hashes,      \* output hashes devices report
    Expected,    \* the hash in the task's specification
    NoResult,    \* no row in task_results
    Threshold,   \* HABPVerifier.consensus_threshold (3)
    Credits,     \* rewards CreditFormula may compute for a participant
    Demo,        \* the node runs in demo mode, where /api/earn grants allowances
    Grant,       \* credits of one allowance (10)
    Prices,      \* credits of a paid request: 1 for content, 5 for a proof
    MaxSupply,   \* MAX_SUPPLY
    PoolSize,    \* fewer open tasks than this are replenished (5)
    Faults,      \* the commits that may raise: see FaultKinds
    MaxFaults,   \* bound on the number of such failures
    MaxCrashes   \* bound on the number of process stops

FaultKinds == {"submit", "fail", "finish", "reap", "create", "settle", "account"}

ASSUME ConstantsAssumption ==
    /\ Expected \in Hashes /\ NoResult \notin Hashes
    /\ IsFiniteSet(Devices)
    /\ Threshold \in Nat \ {0} /\ PoolSize \in Nat /\ MaxSupply \in Nat
    /\ Demo \in BOOLEAN
    /\ Credits \subseteq Nat \ {0} /\ Grant \in Nat \ {0} /\ Prices \subseteq Nat \ {0}
    /\ Faults \subseteq FaultKinds /\ MaxFaults \in Nat /\ MaxCrashes \in Nat

VARIABLES
    mode,          \* the process: "down", "recovering" (lifespan startup), "serving"
    phase,         \* where the clock stands relative to a task's deadline
    status,        \* tasks.status as the connection sees it
    results,       \* task_results.output_hash as the connection sees it
    savedStatus,   \* the same two as last committed: they differ while a
    savedResults,  \*   failed commit left the transaction open
    proofs,        \* HABPVerifier._proofs, in memory
    rewards,       \* task_rewards, the rows of a task together
    earnLog,       \* earn_log: <<device, "compute" or "task", task>>
    ledger,        \* credit_ledger rows
    cached,        \* devices with an entry in _clients
    cache,         \* the ledgers of those entries
    supply,        \* supply_ledger.total_minted
    settling,      \* <<device, task>>: a request between submit and settlement
    replenishing,  \* has a request that settled still to run _preseed_tasks
    cleaning,      \* the maintenance thread: where it is, finished task ids it has read
    faults, crashes

taskVars  == <<status, results, savedStatus, savedResults, proofs, rewards>>
moneyVars == <<earnLog, ledger, cached, cache, supply>>
threads   == <<settling, replenishing, cleaning>>
vars == <<mode, phase, taskVars, moneyVars, threads, faults, crashes>>

Phases   == {"live", "closing", "grace", "over"}
Statuses == {"absent", "open", "verifying", "completed", "failed"}
Unfinished == {"open", "verifying"}
Finished   == {"completed", "failed"}
Proof  == [device : Devices, hash : Hashes, n : Nat]
Reward == [hash : Hashes, credits : Nat, to : SUBSET Devices, settled : SUBSET Devices]
Ledger == [balance : Nat, minted : Nat, receipts : Nat]

NoRewards == [hash |-> Expected, credits |-> 0, to |-> {}, settled |-> {}]
NewLedger == [balance |-> 0, minted |-> 0, receipts |-> 0]
Resting   == [step |-> "wait", ids |-> {}]

Init ==
    /\ mode = "serving"
    /\ phase = [t \in Tasks |-> "live"]
    /\ status = [t \in Tasks |-> "absent"]
    /\ results = [t \in Tasks |-> [d \in Devices |-> NoResult]]
    /\ savedStatus = status /\ savedResults = results
    /\ proofs = [t \in Tasks |-> {}]
    /\ rewards = [t \in Tasks |-> NoRewards]
    /\ earnLog = {}
    /\ ledger = [d \in Devices |-> NewLedger]
    /\ cached = {} /\ cache = [d \in Devices |-> NewLedger]
    /\ supply = 0
    /\ settling = {} /\ replenishing = FALSE /\ cleaning = Resting
    /\ faults = 0 /\ crashes = 0

-----------------------------------------------------------------------------
(* The shared transaction. *)

Commit   == savedStatus' = status' /\ savedResults' = results'
Rollback == status' = savedStatus /\ results' = savedResults /\ UNCHANGED <<savedStatus, savedResults>>
OpenTransaction == status # savedStatus \/ results # savedResults
CanFail(kind) == kind \in Faults /\ faults < MaxFaults /\ faults' = faults + 1

(***************************************************************************)
(* Consensus.  A task's proofs are a list in the code; here a set whose    *)
(* members carry the number of earlier proofs of the same device, so that  *)
(* a device counted twice stays visible.                                   *)
(***************************************************************************)
Group(ps, h) == {p \in ps : p.hash = h}
AgreedOneShort(ps, g) ==  \* mutant: one result too few
    /\ Cardinality(Group(ps, g)) + 1 >= Threshold
    /\ \A h \in Hashes : Cardinality(Group(ps, h)) <= Cardinality(Group(ps, g))
Agreed(ps, g) ==
    /\ Cardinality(Group(ps, g)) >= Threshold
    /\ \A h \in Hashes : Cardinality(Group(ps, h)) <= Cardinality(Group(ps, g))
MatchingAnyHash(ps, g) == {p.device : p \in ps}  \* mutant: dissenters are paid too
Matching(ps, g) == {p.device : p \in Group(ps, g)}
WithProof(ps, d, h) ==
    ps \cup {[device |-> d, hash |-> h, n |-> Cardinality({p \in ps : p.device = d})]}

(***************************************************************************)
(* _finish_consensus.  `h' is the hash of the request that found the       *)
(* consensus, `g' the hash of the agreeing group: the code compares the    *)
(* first with the specification and pays the members of the second.        *)
(* Before it the row of the request is committed (results').               *)
(***************************************************************************)
RejectAgreement(t, ps) ==
    /\ UNCHANGED <<rewards, settling>>
    /\ savedResults' = results'
    /\ \/ /\ status' = [status EXCEPT ![t] = "failed"]
          /\ savedStatus' = status'
          /\ proofs' = [proofs EXCEPT ![t] = {}]
          /\ UNCHANGED faults
       \/ /\ CanFail("fail")
          /\ savedStatus' = [status EXCEPT ![t] = "verifying"]
          /\ status' \in {savedStatus', [status EXCEPT ![t] = "failed"]}
          /\ proofs' = [proofs EXCEPT ![t] = ps]

CompleteTask(d, t, h, ps, g) ==
    /\ \/ /\ status' = [status EXCEPT ![t] = "completed"]
          /\ \E c \in Credits :
               rewards' = [rewards EXCEPT ![t] =
                 [hash |-> h, credits |-> c, to |-> Matching(ps, g), settled |-> {}]]
          /\ proofs' = [proofs EXCEPT ![t] = {}]
          /\ settling' = settling \cup {<<d, t>>}
          /\ UNCHANGED faults
       \/ /\ CanFail("finish")
          /\ status' = [status EXCEPT ![t] = "verifying"]
          /\ proofs' = [proofs EXCEPT ![t] = ps]
          /\ UNCHANGED <<rewards, settling>>
    /\ Commit

FinishConsensus(d, t, h, ps, g) ==
    IF h = Expected THEN CompleteTask(d, t, h, ps, g) ELSE RejectAgreement(t, ps)

-----------------------------------------------------------------------------
(* submit_result, as called by POST /api/task/{task_id}/result. *)

Accepting(t) == mode = "serving" /\ status[t] \in Unfinished
OnTime(t) == phase[t] # "over"
AlwaysFirst(d, t) == TRUE  \* mutant: no look at the existing row
FirstReport(d, t) == results[t][d] = NoResult
Insert(d, t, h) == [results EXCEPT ![t][d] = h]

SubmitReplay(d, t, h) ==
    /\ mode = "serving"
    /\ status[t] = "completed" /\ d \in rewards[t].to /\ rewards[t].hash = h
    /\ settling' = settling \cup {<<d, t>>}
    /\ UNCHANGED <<mode, phase, taskVars, moneyVars, replenishing, cleaning, faults, crashes>>

SubmitLate(d, t) ==
    /\ Accepting(t) /\ ~OnTime(t)
    /\ \/ /\ status' = [status EXCEPT ![t] = "failed"] /\ UNCHANGED results
          /\ Commit
          /\ proofs' = [proofs EXCEPT ![t] = {}]
          /\ UNCHANGED faults
       \/ /\ CanFail("fail")
          /\ \/ status' = [status EXCEPT ![t] = "failed"]
                /\ UNCHANGED <<results, savedStatus, savedResults>>
             \/ Rollback
          /\ UNCHANGED proofs
    /\ UNCHANGED <<mode, phase, rewards, moneyVars, threads, crashes>>

SubmitDuplicate(d, t, h) ==
    /\ Accepting(t) /\ OnTime(t) /\ ~FirstReport(d, t)
    /\ UNCHANGED results
    /\ \/ /\ h = results[t][d]
          /\ \E g \in Hashes : Agreed(proofs[t], g) /\ FinishConsensus(d, t, h, proofs[t], g)
       \/ /\ h # results[t][d] \/ \A g \in Hashes : ~Agreed(proofs[t], g)
          /\ UNCHANGED <<status, proofs, rewards, settling, faults>>
          /\ Commit
    /\ UNCHANGED <<mode, phase, moneyVars, replenishing, cleaning, crashes>>

SubmitNew(d, t, h) ==
    /\ Accepting(t) /\ OnTime(t) /\ FirstReport(d, t)
    /\ results' = Insert(d, t, h)
    /\ LET ps == WithProof(proofs[t], d, h) IN
         \/ \E g \in Hashes : Agreed(ps, g) /\ FinishConsensus(d, t, h, ps, g)
         \/ /\ \A g \in Hashes : ~Agreed(ps, g)
            /\ status' = [status EXCEPT ![t] = "verifying"]
            /\ proofs' = [proofs EXCEPT ![t] = ps]
            /\ Commit
            /\ UNCHANGED <<rewards, settling, faults>>
    /\ UNCHANGED <<mode, phase, moneyVars, replenishing, cleaning, crashes>>

\* The commit of the new row raises: the handler ends before the proof is
\* recorded, with the transaction left open or already rolled back.
SubmitFails(d, t, h) ==
    /\ Accepting(t) /\ OnTime(t) /\ FirstReport(d, t)
    /\ CanFail("submit")
    /\ \/ /\ results' = Insert(d, t, h)
          /\ status' = [status EXCEPT ![t] = "verifying"]
          /\ UNCHANGED <<savedStatus, savedResults>>
       \/ Rollback
    /\ UNCHANGED <<mode, phase, proofs, rewards, moneyVars, threads, crashes>>

-----------------------------------------------------------------------------
(***************************************************************************)
(* _credit_transaction: work on copies of the cached ledgers, save them    *)
(* and commit, and only then publish them to the cache.  BEGIN IMMEDIATE   *)
(* raises inside a transaction that a failed commit left open, and the     *)
(* handler's rollback discards that transaction.                           *)
(***************************************************************************)
Working(d) == IF d \in cached THEN cache[d] ELSE ledger[d]
Override(f, S, new) == [d \in Devices |-> IF d \in S THEN new[d] ELSE f[d]]

Mint(l, c) ==
    [balance |-> l.balance + c, minted |-> l.minted + c, receipts |-> l.receipts + 1]

Publish(S, new) ==
    /\ ledger' = Override(ledger, S, new)
    /\ cached' = cached \cup S
    /\ cache' = Override(cache, S, new)
    /\ UNCHANGED <<status, results>> /\ Commit

AbortKeepingCopy(S) ==  \* mutant: the working copy is published before the commit
    /\ Rollback
    /\ cached' = cached \cup S
    /\ cache' = Override(cache, S, [d \in Devices |-> Mint(Working(d), Grant)])
    /\ UNCHANGED <<earnLog, ledger, supply, rewards>>
Abort(S) ==
    /\ Rollback
    /\ cached' = cached \cup S
    /\ cache' = Override(cache, S, [d \in Devices |-> Working(d)])
    /\ UNCHANGED <<earnLog, ledger, supply, rewards>>

DebitWithoutChange(l, p) ==  \* mutant: the change receipt is forgotten
    [balance |-> l.balance - p, minted |-> l.minted, receipts |-> l.receipts - 1]

\* spend_with_change: the oldest receipt is used up, a change receipt follows
\* unless nothing is left.
Debit(l, p) ==
    [balance |-> l.balance - p, minted |-> l.minted,
     receipts |-> IF l.balance = p THEN l.receipts - 1 ELSE l.receipts]

(* _settle_task_rewards *)
Due(t)    == rewards[t].to \ rewards[t].settled
TotalOfOne(t) == rewards[t].credits  \* mutant: the cap counts one participant
Total(t)  == rewards[t].credits * Cardinality(Due(t))
ClaimsAsTasks(t) == {<<d, "task", t>> : d \in Due(t)}  \* mutant: no compute: prefix
Claims(t) == {<<d, "compute", t>> : d \in Due(t)}
CanSettle(t) ==
    /\ ~OpenTransaction
    /\ supply + Total(t) <= MaxSupply
    /\ Claims(t) \cap earnLog = {}

PayRewards(t) ==
    /\ CanSettle(t)
    /\ supply' = supply + Total(t)
    /\ earnLog' = earnLog \cup Claims(t)
    /\ rewards' = [rewards EXCEPT ![t].settled = rewards[t].to]
    /\ Publish(Due(t), [d \in Devices |-> Mint(Working(d), rewards[t].credits)])

Settle(d, t) ==
    /\ <<d, t>> \in settling
    /\ settling' = settling \ {<<d, t>>}
    /\ \/ /\ Due(t) = {}
          /\ replenishing' = TRUE
          /\ UNCHANGED <<taskVars, moneyVars, faults>>
       \/ /\ Due(t) # {} /\ PayRewards(t)
          /\ replenishing' = TRUE
          /\ UNCHANGED <<proofs, faults>>
       \/ /\ Due(t) # {} /\ Abort(Due(t))
          /\ IF CanSettle(t) THEN CanFail("settle") ELSE UNCHANGED faults
          /\ UNCHANGED <<replenishing, proofs>>
    /\ UNCHANGED <<mode, phase, cleaning, crashes>>

(* POST /api/earn, available in demo mode: a flat allowance per task id. *)
Earn(d, t) ==
    /\ Demo /\ mode = "serving"
    /\ LET claim   == <<d, "task", t>>
           allowed == /\ ~OpenTransaction /\ claim \notin earnLog
                      /\ status[t] # "failed" /\ supply + Grant <= MaxSupply
       IN \/ /\ allowed
             /\ earnLog' = earnLog \cup {claim}
             /\ supply' = supply + Grant
             /\ Publish({d}, [x \in Devices |-> Mint(Working(x), Grant)])
             /\ UNCHANGED <<rewards, faults>>
          \/ /\ Abort({d})
             /\ IF allowed THEN CanFail("account") ELSE UNCHANGED faults
    /\ UNCHANGED <<mode, phase, proofs, threads, crashes>>

(* spend_for_service *)
SolventByReceipt(d, p) == ~OpenTransaction /\ Working(d).receipts > 0  \* mutant: balance unchecked
Solvent(d, p) ==
    ~OpenTransaction /\ Working(d).receipts > 0 /\ Working(d).balance >= p

(* GET /api/get/{root_hash} and POST /api/delegate-proof charge a device. *)
Spend(d, p) ==
    /\ mode = "serving"
    /\ \/ /\ Solvent(d, p)
          /\ Publish({d}, [x \in Devices |-> Debit(Working(x), p)])
          /\ UNCHANGED <<earnLog, supply, rewards, faults>>
       \/ /\ Abort({d})
          /\ IF Solvent(d, p) THEN CanFail("account") ELSE UNCHANGED faults
    /\ UNCHANGED <<mode, phase, proofs, threads, crashes>>

-----------------------------------------------------------------------------
(* The task pool and the maintenance thread. *)

ExpiredWhenOpen == {t \in Tasks : status[t] = "open" /\ phase[t] # "live"}  \* mutant
ExpiredInAnyState == {t \in Tasks : status[t] # "absent" /\ phase[t] # "live"}  \* mutant
Expired == {t \in Tasks : status[t] \in Unfinished /\ phase[t] # "live"}
Reaped  == [t \in Tasks |-> IF t \in Expired THEN "failed" ELSE status[t]]

\* _preseed_tasks: reap, then generate tasks if few are open (each creation
\* may fail on its own, which is logged).
Preseed ==
    /\ \E new \in SUBSET {t \in Tasks : status[t] = "absent"} :
         /\ new # {} => Cardinality({t \in Tasks : Reaped[t] = "open"}) < PoolSize
         /\ status' = [t \in Tasks |-> IF t \in new THEN "open" ELSE Reaped[t]]
    /\ UNCHANGED results /\ Commit

ReapFails ==
    /\ CanFail("reap")
    /\ \/ status' = Reaped /\ UNCHANGED <<results, savedStatus, savedResults>>
       \/ Rollback

\* POST /api/task, and any creation of _preseed_tasks whose commit raises: an id
\* whose row is rolled back is never generated again, which is as good as absent.
CreateTask(t) ==
    /\ mode = "serving" /\ status[t] = "absent"
    /\ \/ /\ status' = [status EXCEPT ![t] = "open"]
          /\ UNCHANGED results /\ Commit /\ UNCHANGED faults
       \/ /\ CanFail("create")
          /\ \/ status' = [status EXCEPT ![t] = "open"]
                /\ UNCHANGED <<results, savedStatus, savedResults>>
             \/ Rollback
    /\ UNCHANGED <<mode, phase, proofs, rewards, moneyVars, threads, crashes>>

\* list_open_tasks, called by GET /api/tasks: reaps expired tasks first.
ListOpenTasks ==
    /\ mode = "serving"
    /\ \/ status' = Reaped /\ UNCHANGED results /\ Commit /\ UNCHANGED faults
       \/ ReapFails
    /\ UNCHANGED <<mode, phase, proofs, rewards, moneyVars, threads, crashes>>

\* The end of a request that settled; another may have come that far as well.
Replenish ==
    /\ replenishing /\ replenishing' \in BOOLEAN
    /\ (Preseed /\ UNCHANGED faults) \/ ReapFails
    /\ UNCHANGED <<mode, phase, proofs, rewards, moneyVars, settling, cleaning, crashes>>

(* _maintenance_loop: a pass takes the lock four times, and the handlers may run *)
(* in between.  What raises ends the pass.                                       *)

Cleaner(step)  == mode = "serving" /\ cleaning.step = step
CleanerAt(s)   == cleaning' = [cleaning EXCEPT !.step = s]

SweepReap ==
    /\ Cleaner("wait")
    /\ \/ status' = Reaped /\ UNCHANGED <<results, faults>> /\ Commit /\ CleanerAt("reaped")
       \/ ReapFails /\ UNCHANGED cleaning
    /\ UNCHANGED <<mode, phase, proofs, rewards, moneyVars, settling, replenishing, crashes>>

SweepPreseed ==
    /\ Cleaner("reaped")
    /\ (Preseed /\ UNCHANGED faults /\ CleanerAt("seeded")) \/ (ReapFails /\ CleanerAt("wait"))
    /\ UNCHANGED <<mode, phase, proofs, rewards, moneyVars, settling, replenishing, crashes>>

VerifyingToo == {t \in Tasks : status[t] \notin {"absent", "open"}}  \* mutant
FinishedIds  == {t \in Tasks : status[t] \in Finished}

\* get_completed_task_ids: what the connection sees, committed or not.
SweepRead ==
    /\ Cleaner("seeded")
    /\ cleaning' = IF FinishedIds = {} THEN Resting ELSE [step |-> "read", ids |-> FinishedIds]
    /\ UNCHANGED <<mode, phase, taskVars, moneyVars, settling, replenishing, faults, crashes>>

\* cleanup_stale_tasks on the ids that were read; it takes the verifier's lock only.
CleanProofs ==
    /\ Cleaner("read") /\ cleaning' = Resting
    /\ proofs' = [t \in Tasks |-> IF t \in cleaning.ids THEN {} ELSE proofs[t]]
    /\ UNCHANGED <<mode, phase, status, results, savedStatus, savedResults, rewards,
                   moneyVars, settling, replenishing, faults, crashes>>

Maintenance == SweepReap \/ SweepPreseed \/ SweepRead \/ CleanProofs

\* Time passes: within the clock tolerance before the deadline, within it
\* after the deadline, beyond it.  Only unfinished tasks' deadlines are read.
Tick(t) ==
    /\ status[t] \in Unfinished /\ phase[t] # "over"
    /\ phase' = [phase EXCEPT ![t] =
         CASE @ = "live" -> "closing" [] @ = "closing" -> "grace" [] OTHER -> "over"]
    /\ UNCHANGED <<mode, taskVars, moneyVars, threads, faults, crashes>>

-----------------------------------------------------------------------------
(* Stops and restarts: memory and the open transaction are lost. *)

LoseMemory ==
    /\ mode' = "down"
    /\ proofs' = [t \in Tasks |-> {}]
    /\ cached' = {} /\ cache' = [d \in Devices |-> NewLedger]
    /\ settling' = {} /\ replenishing' = FALSE /\ cleaning' = Resting

Crash ==
    /\ mode # "down" /\ crashes < MaxCrashes
    /\ crashes' = crashes + 1
    /\ LoseMemory /\ Rollback
    /\ UNCHANGED <<phase, rewards, earnLog, ledger, supply, faults>>

\* The process stops after the new row's commit and before anything it leads to.
CrashAfterInsert(d, t, h) ==
    /\ Accepting(t) /\ OnTime(t) /\ FirstReport(d, t)
    /\ crashes < MaxCrashes /\ crashes' = crashes + 1
    /\ results' = Insert(d, t, h)
    /\ status' = [status EXCEPT ![t] = "verifying"]
    /\ Commit /\ LoseMemory
    /\ UNCHANGED <<phase, rewards, earnLog, ledger, supply, faults>>

\* lifespan: TaskStore rebuilds the verifier from the rows that match the
\* specification, finishes quorums, then pending rewards are settled.
RebuildProofs(t) ==
    IF status[t] \in Unfinished
    THEN {[device |-> d, hash |-> Expected, n |-> 0] : d \in {x \in Devices : results[t][x] = Expected}}
    ELSE {}

Boot ==
    /\ mode = "down" /\ mode' = "recovering"
    /\ proofs' = [t \in Tasks |-> RebuildProofs(t)]
    /\ UNCHANGED <<phase, status, results, savedStatus, savedResults, rewards,
                   moneyVars, threads, faults, crashes>>

Finishable(t) == status[t] = "verifying" /\ Agreed(proofs[t], Expected)

BootFinish(t) ==
    /\ mode = "recovering" /\ Finishable(t)
    /\ \/ /\ status' = [status EXCEPT ![t] = "completed"]
          /\ UNCHANGED results /\ Commit
          /\ \E c \in Credits :
               rewards' = [rewards EXCEPT ![t] = [hash |-> Expected, credits |-> c,
                             to |-> Matching(proofs[t], Expected), settled |-> {}]]
          /\ proofs' = [proofs EXCEPT ![t] = {}]
          /\ UNCHANGED <<mode, cached, cache, threads, faults>>
       \/ /\ CanFail("finish") /\ LoseMemory /\ Rollback
          /\ UNCHANGED rewards
    /\ UNCHANGED <<phase, earnLog, ledger, supply, crashes>>

BootSettle(t) ==
    /\ mode = "recovering" /\ \A u \in Tasks : ~Finishable(u)
    /\ Due(t) # {}
    /\ \/ /\ PayRewards(t)
          /\ UNCHANGED <<mode, proofs, threads, faults>>
       \/ /\ CanFail("settle") /\ LoseMemory /\ Rollback
          /\ UNCHANGED <<earnLog, ledger, supply, rewards>>
    /\ UNCHANGED <<phase, crashes>>

BootServeUnsettled ==  \* mutant: pending rewards are left to the next request
    /\ mode = "recovering"
    /\ \A t \in Tasks : ~Finishable(t)
    /\ mode' = "serving" /\ Preseed
    /\ UNCHANGED <<phase, proofs, rewards, moneyVars, threads, faults, crashes>>

BootServe ==
    /\ mode = "recovering"
    /\ \A t \in Tasks : ~Finishable(t) /\ (Due(t) = {} \/ ~CanSettle(t))
    /\ mode' = "serving" /\ Preseed
    /\ UNCHANGED <<phase, proofs, rewards, moneyVars, threads, faults, crashes>>

-----------------------------------------------------------------------------
Handler(d) ==
    \/ \E t \in Tasks :
         \/ \E h \in Hashes :
              \/ SubmitReplay(d, t, h) \/ SubmitDuplicate(d, t, h) \/ SubmitNew(d, t, h)
              \/ SubmitFails(d, t, h) \/ CrashAfterInsert(d, t, h)
         \/ SubmitLate(d, t)
         \/ Earn(d, t)
    \/ \E p \in Prices : Spend(d, p)

Startup == Boot \/ BootServe \/ \E t \in Tasks : BootFinish(t) \/ BootSettle(t)

Next ==
    \/ \E d \in Devices : Handler(d) \/ \E t \in Tasks : Settle(d, t)
    \/ \E t \in Tasks : CreateTask(t) \/ Tick(t)
    \/ Replenish \/ ListOpenTasks \/ Maintenance
    \/ Crash \/ Startup

Spec == Init /\ [][Next]_vars

\* Request threads that are running finish, the maintenance thread keeps
\* coming back, a stopped node is started again and the clock moves.
FairSpec ==
    /\ Spec
    /\ \A d \in Devices : WF_vars(\E t \in Tasks : Settle(d, t))
    /\ \A t \in Tasks : WF_vars(Tick(t))
    /\ WF_vars(Replenish) /\ WF_vars(Maintenance) /\ WF_vars(Startup)

-----------------------------------------------------------------------------
(* Properties. *)

TypeOK ==
    /\ mode \in {"down", "recovering", "serving"}
    /\ phase \in [Tasks -> Phases]
    /\ status \in [Tasks -> Statuses] /\ savedStatus \in [Tasks -> Statuses]
    /\ results \in [Tasks -> [Devices -> Hashes \cup {NoResult}]]
    /\ savedResults \in [Tasks -> [Devices -> Hashes \cup {NoResult}]]
    /\ proofs \in [Tasks -> SUBSET Proof]
    /\ rewards \in [Tasks -> Reward]
    /\ earnLog \subseteq Devices \X {"compute", "task"} \X Tasks
    /\ ledger \in [Devices -> Ledger] /\ cache \in [Devices -> Ledger]
    /\ cached \subseteq Devices
    /\ supply \in Nat
    /\ settling \subseteq Devices \X Tasks
    /\ replenishing \in BOOLEAN
    /\ cleaning \in [step : {"wait", "reaped", "seeded", "read"}, ids : SUBSET Tasks]
    /\ faults \in Nat /\ crashes \in Nat

\* Credits are owed for a task only after it was completed by a quorum of
\* devices, each of which itself reported the specified result, whatever
\* order results, stops and failed commits arrive in.
EveryRewardIsEarned ==
    \A t \in Tasks :
      /\ savedStatus[t] = "completed" <=> rewards[t].to # {}
      /\ rewards[t].to # {} => Cardinality(rewards[t].to) >= Threshold
      /\ \A d \in rewards[t].to : savedResults[t][d] = Expected

\* A reward is marked settled exactly when its claim is in the earn log, and
\* the participants of a task are settled together: racing requests, retries
\* and restarts neither pay twice nor leave some of them out.
SettledExactlyOnce ==
    \A t \in Tasks :
      /\ rewards[t].settled \in {{}, rewards[t].to}
      /\ \A d \in Devices : d \in rewards[t].settled <=> <<d, "compute", t>> \in earnLog

\* A cached client never differs from its row: a failed or interrupted
\* accounting transaction leaves no balance, receipt or mint behind in memory.
CacheMatchesStore == \A d \in cached : cache[d] = ledger[d]

\* A device has at most one proof per task in the verifier and it is the row
\* that is committed for it, so no device can make a quorum with itself.
OneProofPerDevice ==
    \A t \in Tasks : \A p \in proofs[t] :
      p.n = 0 /\ savedResults[t][p.device] = p.hash

\* A positive balance always has a receipt to spend it with, so the last
\* credits of an account are usable; and an account never holds more than it
\* was ever given.
BalanceIsSpendable ==
    \A d \in Devices :
      /\ ledger[d].balance > 0 => ledger[d].receipts > 0
      /\ ledger[d].balance <= ledger[d].minted

\* Every credit is explained: a device's minted total is the sum of the rewards
\* settled for it and of its allowances, the node's supply counter is the sum
\* over the devices (increment_total_minted and mint never drift, whatever
\* commits fail), and the cap holds.
Earned(d) == SumFunctionOnSet([t \in Tasks |-> rewards[t].credits],
                              {t \in Tasks : d \in rewards[t].settled})
Allowances(d) == {c \in earnLog : c[1] = d /\ c[2] = "task"}
Minted == [d \in Devices |-> ledger[d].minted]
SupplyIsExplained ==
    /\ \A d \in Devices : Minted[d] = Earned(d) + Grant * Cardinality(Allowances(d))
    /\ supply = SumFunctionOnSet(Minted, Devices)
    /\ supply <= MaxSupply

\* The books of the node: both of the above, after every settlement, allowance
\* and charge, and after every one of them that failed or was interrupted.
AccountsAreSound == BalanceIsSpendable /\ SupplyIsExplained

\* Every right result that is committed for an unfinished task counts towards its
\* quorum: no restart forgets one, whatever failed before it; and while no commit
\* fails, no clean-up clears the verifier of a task that can still complete,
\* although it goes by ids it read before other threads had the lock.  (A vote
\* whose commit raises, or whose task was read as failed before a rollback, is
\* not counted again before a restart.)
VotesAreCounted ==
    \A t \in Tasks : status[t] \in Unfinished /\ (mode = "recovering" \/ (mode = "serving" /\ faults = 0)) =>
      \A d \in Devices : savedResults[t][d] = Expected =>
        \E p \in proofs[t] : p.device = d /\ p.hash = Expected

\* A committed task outcome and its reward list are final: no later submission,
\* reaping, clean-up, rollback or restart reopens or rewrites them.
OutcomeIsFinal ==
    [][\A t \in Tasks : savedStatus[t] \in Finished =>
         /\ savedStatus'[t] = savedStatus[t]
         /\ rewards'[t].to = rewards[t].to /\ rewards'[t].credits = rewards[t].credits]_vars

\* The node implements the abstract bank: threads, caches, transactions and
\* restarts are invisible in what devices are owed, paid and can spend.
Bank == INSTANCE CreditBank WITH
    Quorum   <- Threshold,
    entitled <- [t \in Tasks |-> [to |-> rewards[t].to, credits |-> rewards[t].credits]],
    paid     <- [t \in Tasks |-> rewards[t].settled],
    account  <- [d \in Devices |-> ledger[d].balance]
ImplementsBank == Bank!BankSpec

\* Everyone owed a reward reported the hash the reward was granted for, as the
\* documentation of the result endpoint has it: credits are minted only after
\* a consensus of matching results.
PayeesReportedThePaidHash ==
    \A t \in Tasks : \A d \in rewards[t].to : savedResults[t][d] = rewards[t].hash

\* A task does not fail before its deadline while results can still be
\* accepted for it, unless devices agreed on a wrong result.  This is what
\* reap_expired_tasks says of itself ("past their deadline").
FailsOnlyAfterDeadline ==
    [][\A t \in Tasks :
         savedStatus[t] \in Unfinished /\ savedStatus'[t] = "failed"
           => \/ phase[t] \in {"grace", "over"}
              \/ \E h \in Hashes \ {Expected} :
                   Cardinality({d \in Devices : savedResults'[t][d] = h}) >= Threshold]_vars

\* Everyone entitled is eventually paid, as long as the cap leaves room.
EntitledAreEventuallyPaid == \A t \in Tasks : Due(t) # {} ~> Due(t) = {}

\* Every generated task is eventually completed or failed.
TasksFinish == \A t \in Tasks : status[t] # "absent" ~> status[t] \in Finished
=============================================================================
