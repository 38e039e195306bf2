------------------------ MODULE TaskSettlementProofs ------------------------
(***************************************************************************)
(* Proofs about TaskSettlement.  The inductive invariant has three parts:  *)
(* what the shared transaction may hold back from the database (StoreInv), *)
(* what the accounts and their cache look like (AccountInv), and what is   *)
(* known while no request can run (Quiescent), next to the claims of the   *)
(* earn log (SettledExactlyOnce).                                          *)
(***************************************************************************)
EXTENDS TaskSettlement, FiniteSetTheorems, TLAPS

RowsKept ==
    \A t \in Tasks : \A d \in Devices :
      savedResults[t][d] # NoResult => results[t][d] = savedResults[t][d]

OutcomesKnown ==
    \A t \in Tasks :
      /\ status[t] = "completed" <=> rewards[t].to # {}
      /\ savedStatus[t] \in Finished => status[t] = savedStatus[t]
      /\ status[t] = "completed" => savedStatus[t] = "completed"

NoRowsBeforeVerifying ==
    \A t \in Tasks : \A d \in Devices :
      /\ status[t] \in {"absent", "open"} => results[t][d] = NoResult
      /\ savedStatus[t] \in {"absent", "open"} => savedResults[t][d] = NoResult

StoreTypes ==
    /\ status \in [Tasks -> Statuses] /\ savedStatus \in [Tasks -> Statuses]
    /\ results \in [Tasks -> [Devices -> Hashes \cup {NoResult}]]
    /\ savedResults \in [Tasks -> [Devices -> Hashes \cup {NoResult}]]
    /\ proofs \in [Tasks -> SUBSET Proof]

StoreInv ==
    /\ StoreTypes /\ RowsKept /\ OutcomesKnown /\ NoRowsBeforeVerifying /\ OneProofPerDevice

AccountInv ==
    /\ ledger \in [Devices -> Ledger] /\ cache \in [Devices -> Ledger]
    /\ cached \subseteq Devices
    /\ CacheMatchesStore /\ BalanceIsSpendable

ClaimInv ==
    /\ rewards \in [Tasks -> Reward]
    /\ earnLog \subseteq Devices \X {"compute", "task"} \X Tasks
    /\ supply \in Nat
    /\ SettledExactlyOnce

ThreadInv ==
    /\ mode \in {"down", "recovering", "serving"}
    /\ phase \in [Tasks -> Phases]
    /\ settling \subseteq Devices \X Tasks
    /\ replenishing \in BOOLEAN
    /\ cleaning \in [step : {"wait", "reaped", "seeded", "read"}, ids : SUBSET Tasks]
    /\ faults \in Nat /\ crashes \in Nat
    /\ mode # "serving" => /\ status = savedStatus /\ results = savedResults
                           /\ settling = {} /\ ~replenishing

IInv == StoreInv /\ AccountInv /\ ClaimInv /\ ThreadInv

\* What OutcomeIsFinal asks of one step.
OutcomeStep ==
    \A t \in Tasks : savedStatus[t] \in Finished =>
      /\ savedStatus'[t] = savedStatus[t]
      /\ rewards'[t].to = rewards[t].to /\ rewards'[t].credits = rewards[t].credits

-----------------------------------------------------------------------------
(* The store: steps that record no new row. *)

QuietUpdate ==
    /\ results' = results
    /\ status' \in [Tasks -> Statuses]
    /\ \A t \in Tasks :
         \/ status'[t] = status[t]
         \/ status[t] \in Unfinished /\ status'[t] = "failed"
         \/ status[t] = "absent" /\ status'[t] = "open"
    /\ Commit \/ UNCHANGED <<savedStatus, savedResults>>

SameOutcomes ==
    \A t \in Tasks : rewards'[t].to = rewards[t].to /\ rewards'[t].credits = rewards[t].credits
FewerProofs == proofs' \in [Tasks -> SUBSET Proof] /\ \A t \in Tasks : proofs'[t] \subseteq proofs[t]

LEMMA QuietStep ==
    ASSUME StoreInv, QuietUpdate \/ Rollback, SameOutcomes, FewerProofs
    PROVE  StoreInv' /\ OutcomeStep
<1> USE DEF StoreInv, StoreTypes, QuietUpdate, SameOutcomes, FewerProofs, Commit, Rollback
<1>1. StoreTypes'
  OBVIOUS
<1>2. RowsKept'
  BY DEF RowsKept
<1>3. OutcomesKnown'
  BY DEF OutcomesKnown, Finished, Unfinished
<1>4. NoRowsBeforeVerifying'
  BY DEF NoRowsBeforeVerifying, Unfinished
<1>5. OneProofPerDevice'
  <2> SUFFICES ASSUME NEW t \in Tasks, NEW p \in proofs[t]
               PROVE  p.n = 0 /\ savedResults'[t][p.device] = p.hash
    BY DEF OneProofPerDevice
  <2>1. p.n = 0 /\ savedResults[t][p.device] = p.hash /\ p.device \in Devices /\ p.hash \in Hashes
    BY DEF OneProofPerDevice, Proof
  <2>2. results[t][p.device] = p.hash
    BY <2>1, ConstantsAssumption DEF RowsKept
  <2> QED BY <2>1, <2>2
<1>6. OutcomeStep
  BY DEF OutcomeStep, OutcomesKnown, Finished, Unfinished
<1> QED BY <1>1, <1>2, <1>3, <1>4, <1>5, <1>6

-----------------------------------------------------------------------------
(* The accounts: _credit_transaction publishes or aborts. *)

LEMMA WorkingIsRow ==
    ASSUME AccountInv, NEW d \in Devices
    PROVE  Working(d) = ledger[d] /\ Working(d) \in Ledger
BY DEF AccountInv, CacheMatchesStore, Working

LEMMA PublishStep ==
    ASSUME AccountInv, NEW S \in SUBSET Devices, NEW new, Publish(S, new),
           \A d \in S : /\ new[d] \in Ledger
                        /\ new[d].balance > 0 => new[d].receipts > 0
                        /\ new[d].balance <= new[d].minted
    PROVE  AccountInv'
<1> USE DEF AccountInv, Publish, Override
<1>1. ledger' \in [Devices -> Ledger] /\ cache' \in [Devices -> Ledger] /\ cached' \subseteq Devices
  OBVIOUS
<1>2. CacheMatchesStore'
  BY DEF CacheMatchesStore
<1>3. BalanceIsSpendable'
  BY DEF BalanceIsSpendable
<1> QED BY <1>1, <1>2, <1>3

LEMMA AbortStep ==
    ASSUME AccountInv, NEW S \in SUBSET Devices, Abort(S)
    PROVE  AccountInv'
<1> USE DEF AccountInv, Abort, Override
<1>1. cache' = [d \in Devices |-> IF d \in S THEN ledger[d] ELSE cache[d]]
  BY WorkingIsRow
<1>2. cache' \in [Devices -> Ledger]
  BY <1>1
<1>3. CacheMatchesStore'
  BY <1>1 DEF CacheMatchesStore
<1>4. BalanceIsSpendable'
  BY DEF BalanceIsSpendable
<1> QED BY <1>2, <1>3, <1>4

\* A minted or charged account keeps a receipt for its balance.
LEMMA MintKeepsAccount ==
    ASSUME NEW l \in Ledger, l.balance <= l.minted, NEW c \in Nat
    PROVE  /\ Mint(l, c) \in Ledger
           /\ Mint(l, c).balance > 0 => Mint(l, c).receipts > 0
           /\ Mint(l, c).balance <= Mint(l, c).minted
BY DEF Mint, Ledger

LEMMA DebitKeepsAccount ==
    ASSUME NEW l \in Ledger, l.balance <= l.minted, NEW p \in Nat \ {0},
           l.receipts > 0, l.balance >= p
    PROVE  /\ Debit(l, p) \in Ledger
           /\ Debit(l, p).balance > 0 => Debit(l, p).receipts > 0
           /\ Debit(l, p).balance <= Debit(l, p).minted
           /\ Debit(l, p).balance = l.balance - p
BY DEF Debit, Ledger

-----------------------------------------------------------------------------
(* Actions that add no row and move no credits. *)

LEMMA QuietAction ==
    ASSUME IInv, QuietUpdate \/ Rollback, FewerProofs, UNCHANGED <<rewards, moneyVars>>
    PROVE  StoreInv' /\ AccountInv' /\ ClaimInv' /\ OutcomeStep
<1>1. StoreInv' /\ OutcomeStep
  BY QuietStep DEF IInv, SameOutcomes
<1>2. AccountInv'
  BY DEF IInv, AccountInv, CacheMatchesStore, BalanceIsSpendable, moneyVars
<1>3. ClaimInv'
  BY DEF IInv, ClaimInv, SettledExactlyOnce, moneyVars
<1> QED BY <1>1, <1>2, <1>3

LEMMA ReapedIsQuiet ==
    ASSUME StoreInv
    PROVE  /\ Reaped \in [Tasks -> Statuses]
           /\ \A t \in Tasks : Reaped[t] = status[t] \/ (status[t] \in Unfinished /\ Reaped[t] = "failed")
BY DEF StoreInv, StoreTypes, Reaped, Expired, Statuses

LEMMA PreseedIsQuiet ==
    ASSUME StoreInv, Preseed
    PROVE  QuietUpdate
BY ReapedIsQuiet DEF Preseed, QuietUpdate, Statuses

LEMMA ReapFailsIsQuiet ==
    ASSUME StoreInv, ReapFails
    PROVE  QuietUpdate \/ Rollback
BY ReapedIsQuiet DEF ReapFails, QuietUpdate

LEMMA SubmitReplayStep ==
    ASSUME NEW d \in Devices, NEW t \in Tasks, NEW h \in Hashes, IInv, SubmitReplay(d, t, h)
    PROVE  IInv' /\ OutcomeStep
<1> USE DEF SubmitReplay, taskVars, moneyVars
<1>1. QuietUpdate /\ FewerProofs
  BY DEF IInv, StoreInv, StoreTypes, QuietUpdate, FewerProofs
<1>2. ThreadInv'
  BY DEF IInv, ThreadInv
<1> QED BY <1>1, <1>2, QuietAction DEF IInv

LEMMA SubmitLateStep ==
    ASSUME NEW d \in Devices, NEW t \in Tasks, IInv, SubmitLate(d, t)
    PROVE  IInv' /\ OutcomeStep
<1> USE DEF SubmitLate, Accepting, threads, moneyVars
<1>1. QuietUpdate \/ Rollback
  BY DEF IInv, StoreInv, StoreTypes, QuietUpdate, Statuses
<1>2. FewerProofs
  BY DEF IInv, StoreInv, StoreTypes, FewerProofs
<1>3. ThreadInv'
  BY DEF IInv, ThreadInv, CanFail
<1> QED BY <1>1, <1>2, <1>3, QuietAction DEF IInv

LEMMA CreateTaskStep ==
    ASSUME NEW t \in Tasks, IInv, CreateTask(t)
    PROVE  IInv' /\ OutcomeStep
<1> USE DEF CreateTask, threads, moneyVars
<1>1. (QuietUpdate \/ Rollback) /\ FewerProofs
  BY DEF IInv, StoreInv, StoreTypes, QuietUpdate, FewerProofs, Statuses
<1>2. ThreadInv'
  BY DEF IInv, ThreadInv, CanFail
<1> QED BY <1>1, <1>2, QuietAction DEF IInv

LEMMA TickStep ==
    ASSUME NEW t \in Tasks, IInv, Tick(t)
    PROVE  IInv' /\ OutcomeStep
<1> USE DEF Tick, taskVars, threads, moneyVars
<1>1. QuietUpdate /\ FewerProofs
  BY DEF IInv, StoreInv, StoreTypes, QuietUpdate, FewerProofs
<1>2. ThreadInv'
  BY DEF IInv, ThreadInv, Phases
<1> QED BY <1>1, <1>2, QuietAction DEF IInv

LEMMA ListOpenTasksStep ==
    ASSUME IInv, ListOpenTasks
    PROVE  IInv' /\ OutcomeStep
<1> USE DEF ListOpenTasks, threads, moneyVars
<1>1. QuietUpdate \/ Rollback
  BY ReapedIsQuiet, ReapFailsIsQuiet DEF IInv, QuietUpdate
<1>2. FewerProofs
  BY DEF IInv, StoreInv, StoreTypes, FewerProofs
<1>3. ThreadInv'
  BY DEF IInv, ThreadInv, ReapFails, CanFail
<1> QED BY <1>1, <1>2, <1>3, QuietAction DEF IInv

LEMMA ReplenishStep ==
    ASSUME IInv, Replenish
    PROVE  IInv' /\ OutcomeStep
<1> USE DEF Replenish, threads, moneyVars
<1>1. QuietUpdate \/ Rollback
  BY PreseedIsQuiet, ReapFailsIsQuiet DEF IInv
<1>2. FewerProofs
  BY DEF IInv, StoreInv, StoreTypes, FewerProofs
<1>3. mode = "serving"
  BY DEF IInv, ThreadInv
<1>4. ThreadInv'
  BY <1>3 DEF IInv, ThreadInv, ReapFails, CanFail
<1> QED BY <1>1, <1>2, <1>4, QuietAction DEF IInv

LEMMA SweepReapStep ==
    ASSUME IInv, SweepReap
    PROVE  IInv' /\ OutcomeStep
<1> USE DEF SweepReap, Cleaner, CleanerAt, moneyVars
<1>1. QuietUpdate \/ Rollback
  BY ReapedIsQuiet, ReapFailsIsQuiet DEF IInv, QuietUpdate
<1>2. FewerProofs
  BY DEF IInv, StoreInv, StoreTypes, FewerProofs
<1>3. ThreadInv'
  BY DEF IInv, ThreadInv, ReapFails, CanFail
<1> QED BY <1>1, <1>2, <1>3, QuietAction DEF IInv

LEMMA SweepPreseedStep ==
    ASSUME IInv, SweepPreseed
    PROVE  IInv' /\ OutcomeStep
<1> USE DEF SweepPreseed, Cleaner, CleanerAt, moneyVars
<1>1. QuietUpdate \/ Rollback
  BY PreseedIsQuiet, ReapFailsIsQuiet DEF IInv
<1>2. FewerProofs
  BY DEF IInv, StoreInv, StoreTypes, FewerProofs
<1>3. ThreadInv'
  BY DEF IInv, ThreadInv, ReapFails, CanFail
<1> QED BY <1>1, <1>2, <1>3, QuietAction DEF IInv

LEMMA SweepReadStep ==
    ASSUME IInv, SweepRead
    PROVE  IInv' /\ OutcomeStep
<1> USE DEF SweepRead, Cleaner, moneyVars, taskVars
<1>1. QuietUpdate /\ FewerProofs
  BY DEF IInv, StoreInv, StoreTypes, QuietUpdate, FewerProofs
<1>2. ThreadInv'
  BY DEF IInv, ThreadInv, Resting, FinishedIds
<1> QED BY <1>1, <1>2, QuietAction DEF IInv

LEMMA CleanProofsStep ==
    ASSUME IInv, CleanProofs
    PROVE  IInv' /\ OutcomeStep
<1> USE DEF CleanProofs, Cleaner, moneyVars
<1>1. QuietUpdate /\ FewerProofs
  BY DEF IInv, StoreInv, StoreTypes, QuietUpdate, FewerProofs
<1>2. ThreadInv'
  BY DEF IInv, ThreadInv, Resting
<1> QED BY <1>1, <1>2, QuietAction DEF IInv

-----------------------------------------------------------------------------
(* Actions that move credits. *)

LEMMA DueIsFinite ==
    ASSUME NEW t \in Tasks, rewards \in [Tasks -> Reward]
    PROVE  /\ Due(t) \in SUBSET Devices
           /\ Cardinality(Due(t)) \in Nat
           /\ Total(t) \in Nat
<1>1. rewards[t] \in Reward /\ Due(t) \in SUBSET Devices
  BY DEF Due, Reward
<1>2. IsFiniteSet(Due(t)) /\ Cardinality(Due(t)) \in Nat
  BY <1>1, ConstantsAssumption, FS_Subset, FS_CardinalityType
<1>3. rewards[t].credits \in Nat
  BY <1>1 DEF Reward
<1> QED BY <1>1, <1>2, <1>3 DEF Total

LEMMA PayRewardsStep ==
    ASSUME NEW t \in Tasks, IInv, PayRewards(t), UNCHANGED proofs
    PROVE  StoreInv' /\ AccountInv' /\ ClaimInv' /\ OutcomeStep
<1> USE DEF PayRewards
<1>1. /\ Due(t) \in SUBSET Devices /\ Total(t) \in Nat
      /\ rewards[t] \in Reward /\ rewards[t].credits \in Nat
  BY DueIsFinite DEF IInv, ClaimInv, Reward
<1>2. StoreInv' /\ OutcomeStep
  <2>1. QuietUpdate /\ FewerProofs
    BY DEF IInv, StoreInv, StoreTypes, QuietUpdate, FewerProofs, Publish
  <2>2. SameOutcomes
    BY DEF IInv, ClaimInv, SameOutcomes, Reward
  <2> QED BY <2>1, <2>2, QuietStep DEF IInv
<1>3. AccountInv'
  <2> DEFINE new == [d \in Devices |-> Mint(Working(d), rewards[t].credits)]
  <2>1. \A d \in Devices : /\ Working(d) \in Ledger
                           /\ Working(d).balance <= Working(d).minted
    BY WorkingIsRow DEF IInv, AccountInv, BalanceIsSpendable
  <2>2. \A d \in Due(t) : new[d] = Mint(Working(d), rewards[t].credits)
    BY <1>1
  <2>3. \A d \in Due(t) : /\ new[d] \in Ledger
                          /\ new[d].balance > 0 => new[d].receipts > 0
                          /\ new[d].balance <= new[d].minted
    BY <1>1, <2>1, <2>2, MintKeepsAccount
  <2>4. Publish(Due(t), new)
    OBVIOUS
  <2> QED BY <1>1, <2>3, <2>4, PublishStep DEF IInv
<1>4. ClaimInv'
  <2>1. rewards' \in [Tasks -> Reward]
    BY DEF IInv, ClaimInv, Reward
  <2>2. earnLog' \subseteq Devices \X {"compute", "task"} \X Tasks /\ supply' \in Nat
    BY <1>1 DEF IInv, ClaimInv, Claims
  <2>3. SettledExactlyOnce'
    <3>1. ASSUME NEW u \in Tasks, u # t
          PROVE  /\ rewards'[u] = rewards[u]
                 /\ \A d \in Devices : <<d, "compute", u>> \in earnLog' <=> <<d, "compute", u>> \in earnLog
      BY <3>1 DEF IInv, ClaimInv, Claims
    <3>2. /\ rewards'[t].settled = rewards[t].to /\ rewards'[t].to = rewards[t].to
          /\ \A d \in Devices : <<d, "compute", t>> \in earnLog'
                                  <=> <<d, "compute", t>> \in earnLog \/ d \in Due(t)
      BY DEF IInv, ClaimInv, Claims, Reward
    <3>3. rewards[t].settled \subseteq rewards[t].to
      BY DEF IInv, ClaimInv, SettledExactlyOnce
    <3>4. \A d \in Devices : <<d, "compute", t>> \in earnLog' <=> d \in rewards[t].to
      BY <3>2, <3>3 DEF IInv, ClaimInv, SettledExactlyOnce, Due
    <3> QED BY <3>1, <3>2, <3>4 DEF IInv, ClaimInv, SettledExactlyOnce
  <2> QED BY <2>1, <2>2, <2>3 DEF ClaimInv
<1> QED BY <1>2, <1>3, <1>4

LEMMA AbortAction ==
    ASSUME IInv, NEW S \in SUBSET Devices, Abort(S), UNCHANGED proofs
    PROVE  StoreInv' /\ AccountInv' /\ ClaimInv' /\ OutcomeStep
<1>1. StoreInv' /\ OutcomeStep
  BY QuietStep DEF IInv, StoreInv, StoreTypes, Abort, SameOutcomes, FewerProofs
<1>2. AccountInv'
  BY AbortStep DEF IInv
<1>3. ClaimInv'
  BY DEF IInv, ClaimInv, SettledExactlyOnce, Abort
<1> QED BY <1>1, <1>2, <1>3

LEMMA SettleStep ==
    ASSUME NEW d \in Devices, NEW t \in Tasks, IInv, Settle(d, t)
    PROVE  IInv' /\ OutcomeStep
<1>1. StoreInv' /\ AccountInv' /\ ClaimInv' /\ OutcomeStep
  <2>1. CASE UNCHANGED <<taskVars, moneyVars>>
    <3>1. QuietUpdate /\ FewerProofs
      BY <2>1 DEF IInv, StoreInv, StoreTypes, QuietUpdate, FewerProofs, taskVars
    <3> QED BY <2>1, <3>1, QuietAction DEF taskVars
  <2>2. CASE PayRewards(t) /\ UNCHANGED proofs
    BY <2>2, PayRewardsStep
  <2>3. CASE Abort(Due(t)) /\ UNCHANGED proofs
    BY <2>3, AbortAction, DueIsFinite DEF IInv, ClaimInv
  <2> QED BY <2>1, <2>2, <2>3 DEF Settle
<1>2. mode = "serving"
  BY DEF Settle, IInv, ThreadInv
<1>3. faults' \in Nat
  BY DEF Settle, CanFail, IInv, ThreadInv
<1>4. ThreadInv'
  BY <1>2, <1>3 DEF Settle, IInv, ThreadInv
<1> QED BY <1>1, <1>4 DEF IInv

LEMMA EarnStep ==
    ASSUME NEW d \in Devices, NEW t \in Tasks, IInv, Earn(d, t)
    PROVE  IInv' /\ OutcomeStep
<1> DEFINE new == [x \in Devices |-> Mint(Working(x), Grant)]
           paid == /\ earnLog' = earnLog \cup {<<d, "task", t>>}
                   /\ supply' = supply + Grant
                   /\ Publish({d}, new)
                   /\ UNCHANGED rewards
<1>1. StoreInv' /\ AccountInv' /\ ClaimInv' /\ OutcomeStep
  <2>1. CASE paid
    <3>1. StoreInv' /\ OutcomeStep
      <4>1. QuietUpdate /\ FewerProofs /\ SameOutcomes
        BY <2>1 DEF Earn, IInv, StoreInv, StoreTypes, QuietUpdate, FewerProofs, SameOutcomes, Publish
      <4> QED BY <4>1, QuietStep DEF IInv
    <3>2. AccountInv'
      <4>1. Working(d) \in Ledger /\ Working(d).balance <= Working(d).minted
        BY WorkingIsRow DEF IInv, AccountInv, BalanceIsSpendable
      <4>2. new[d] = Mint(Working(d), Grant) /\ Grant \in Nat
        BY ConstantsAssumption
      <4>3. /\ new[d] \in Ledger
            /\ new[d].balance > 0 => new[d].receipts > 0
            /\ new[d].balance <= new[d].minted
        BY <4>1, <4>2, MintKeepsAccount
      <4> QED BY <2>1, <4>3, PublishStep DEF IInv
    <3>3. ClaimInv'
      BY <2>1, ConstantsAssumption DEF IInv, ClaimInv, SettledExactlyOnce
    <3> QED BY <3>1, <3>2, <3>3
  <2>2. CASE Abort({d})
    BY <2>2, AbortAction DEF Earn
  <2> QED BY <2>1, <2>2 DEF Earn
<1>2. ThreadInv'
  BY DEF Earn, CanFail, IInv, ThreadInv, threads
<1> QED BY <1>1, <1>2 DEF IInv

LEMMA SpendStep ==
    ASSUME NEW d \in Devices, NEW p \in Prices, IInv, Spend(d, p)
    PROVE  IInv' /\ OutcomeStep
<1> DEFINE new == [x \in Devices |-> Debit(Working(x), p)]
<1>1. StoreInv' /\ AccountInv' /\ ClaimInv' /\ OutcomeStep
  <2>1. CASE Solvent(d, p) /\ Publish({d}, new) /\ UNCHANGED <<earnLog, supply, rewards>>
    <3>1. StoreInv' /\ OutcomeStep
      <4>1. QuietUpdate /\ FewerProofs /\ SameOutcomes
        BY <2>1 DEF Spend, IInv, StoreInv, StoreTypes, QuietUpdate, FewerProofs, SameOutcomes, Publish
      <4> QED BY <4>1, QuietStep DEF IInv
    <3>2. AccountInv'
      <4>1. /\ Working(d) \in Ledger /\ Working(d).balance <= Working(d).minted
            /\ Working(d).receipts > 0 /\ Working(d).balance >= p
        BY <2>1, WorkingIsRow DEF Solvent, IInv, AccountInv, BalanceIsSpendable
      <4>2. new[d] = Debit(Working(d), p) /\ p \in Nat \ {0}
        BY ConstantsAssumption
      <4>3. /\ new[d] \in Ledger
            /\ new[d].balance > 0 => new[d].receipts > 0
            /\ new[d].balance <= new[d].minted
        BY <4>1, <4>2, DebitKeepsAccount
      <4> QED BY <2>1, <4>3, PublishStep DEF IInv
    <3>3. ClaimInv'
      BY <2>1 DEF IInv, ClaimInv, SettledExactlyOnce
    <3> QED BY <3>1, <3>2, <3>3
  <2>2. CASE Abort({d})
    BY <2>2, AbortAction DEF Spend
  <2> QED BY <2>1, <2>2 DEF Spend
<1>2. ThreadInv'
  BY DEF Spend, CanFail, IInv, ThreadInv, threads
<1> QED BY <1>1, <1>2 DEF IInv

-----------------------------------------------------------------------------
(* Recording a result. *)

\* The row a request records (or finds) and the proofs it shows the verifier.
Recorded(t, ps) ==
    /\ results' \in [Tasks -> [Devices -> Hashes \cup {NoResult}]]
    /\ \A u \in Tasks : \A x \in Devices :
         results[u][x] # NoResult => results'[u][x] = results[u][x]
    /\ \A u \in Tasks \ {t} : results'[u] = results[u]
    /\ ps \subseteq Proof
    /\ \A p \in ps : p.n = 0 /\ results'[t][p.device] = p.hash

LEMMA KnownProofs ==
    ASSUME StoreInv, NEW t \in Tasks
    PROVE  /\ proofs[t] \subseteq Proof
           /\ \A p \in proofs[t] : p.n = 0 /\ p.device \in Devices /\ results[t][p.device] = p.hash
                                   /\ results[t][p.device] # NoResult
<1>1. \A p \in proofs[t] : p \in Proof /\ p.device \in Devices /\ p.hash \in Hashes
  BY DEF StoreInv, StoreTypes, Proof
<1>2. \A p \in proofs[t] : p.n = 0 /\ savedResults[t][p.device] = p.hash
  BY DEF StoreInv, OneProofPerDevice
<1>3. \A p \in proofs[t] : savedResults[t][p.device] # NoResult
  BY <1>1, <1>2, ConstantsAssumption
<1> QED BY <1>1, <1>2, <1>3 DEF StoreInv, RowsKept

LEMMA FoundIsRecorded ==
    ASSUME StoreInv, NEW t \in Tasks, UNCHANGED results
    PROVE  Recorded(t, proofs[t])
BY KnownProofs DEF Recorded, StoreInv, StoreTypes

LEMMA InsertIsRecorded ==
    ASSUME StoreInv, NEW d \in Devices, NEW t \in Tasks, NEW h \in Hashes,
           FirstReport(d, t), results' = Insert(d, t, h)
    PROVE  Recorded(t, WithProof(proofs[t], d, h))
<1> DEFINE mine == {p \in proofs[t] : p.device = d}
           new  == [device |-> d, hash |-> h, n |-> Cardinality(mine)]
<1>1. mine = {}
  BY KnownProofs DEF FirstReport
<1>2. Cardinality(mine) = 0
  BY <1>1, FS_EmptySet
<1>3. new \in Proof /\ new.n = 0 /\ new.device = d /\ new.hash = h
  BY <1>2 DEF Proof
<1>4. /\ results' \in [Tasks -> [Devices -> Hashes \cup {NoResult}]]
      /\ results'[t][d] = h
      /\ \A x \in Devices \ {d} : results'[t][x] = results[t][x]
      /\ \A u \in Tasks \ {t} : results'[u] = results[u]
  BY DEF Insert, StoreInv, StoreTypes
<1>5. WithProof(proofs[t], d, h) = proofs[t] \cup {new}
  BY DEF WithProof
<1>6. \A p \in proofs[t] : p.device # d
  BY <1>1
<1>7. \A p \in proofs[t] \cup {new} : p \in Proof /\ p.n = 0 /\ results'[t][p.device] = p.hash
  BY <1>3, <1>4, <1>6, KnownProofs
<1>8. \A u \in Tasks : \A x \in Devices : results[u][x] # NoResult => results'[u][x] = results[u][x]
  BY <1>4 DEF FirstReport
<1> QED BY <1>4, <1>5, <1>7, <1>8 DEF Recorded

\* The commits of one request: the row with status "verifying" first, then
\* possibly an outcome of the task.
LEMMA ReportStep ==
    ASSUME StoreInv, NEW t \in Tasks, NEW ps, Recorded(t, ps), status[t] \in Unfinished,
           savedResults' = results',
           NEW x \in {"verifying", "failed", "completed"}, NEW y \in {"verifying", x},
           x = "completed" => y = x,
           status' = [status EXCEPT ![t] = x], savedStatus' = [status EXCEPT ![t] = y],
           proofs' \in [Tasks -> SUBSET Proof],
           \A u \in Tasks \ {t} : proofs'[u] = {} \/ proofs'[u] = proofs[u],
           proofs'[t] = {} \/ proofs'[t] = ps,
           \A u \in Tasks \ {t} : rewards'[u] = rewards[u],
           IF x = "completed" THEN rewards'[t].to # {} ELSE rewards'[t] = rewards[t]
    PROVE  StoreInv' /\ OutcomeStep
<1>1. /\ status \in [Tasks -> Statuses] /\ savedStatus \in [Tasks -> Statuses]
      /\ status'[t] = x /\ savedStatus'[t] = y
      /\ \A u \in Tasks \ {t} : status'[u] = status[u] /\ savedStatus'[u] = status[u]
  BY DEF StoreInv, StoreTypes
<1>2. StoreTypes'
  BY <1>1 DEF StoreInv, StoreTypes, Recorded, Statuses
<1>3. RowsKept'
  BY DEF RowsKept
<1>4. OutcomesKnown'
  BY <1>1 DEF StoreInv, OutcomesKnown, Unfinished, Finished
<1>5. NoRowsBeforeVerifying'
  BY <1>1 DEF StoreInv, NoRowsBeforeVerifying, Recorded
<1>6. OneProofPerDevice'
  <2> SUFFICES ASSUME NEW u \in Tasks, NEW p \in proofs'[u]
               PROVE  p.n = 0 /\ savedResults'[u][p.device] = p.hash
    BY DEF OneProofPerDevice
  <2>1. CASE u = t
    BY <2>1 DEF Recorded
  <2>2. CASE u # t
    BY <2>2, KnownProofs DEF Recorded
  <2> QED BY <2>1, <2>2
<1>7. OutcomeStep
  BY <1>1 DEF OutcomeStep, StoreInv, OutcomesKnown, Unfinished, Finished
<1> QED BY <1>2, <1>3, <1>4, <1>5, <1>6, <1>7 DEF StoreInv

\* A quorum has members, and they are known devices.
LEMMA QuorumHasMembers ==
    ASSUME NEW ps \in SUBSET Proof, NEW g \in Hashes, Agreed(ps, g)
    PROVE  Matching(ps, g) # {} /\ Matching(ps, g) \in SUBSET Devices
<1>1. Group(ps, g) # {}
  BY FS_EmptySet, ConstantsAssumption DEF Agreed
<1> QED BY <1>1 DEF Matching, Group, Proof

\* A reward list written for an unfinished task starts unsettled, and no
\* claim for the task is in the earn log yet.
LEMMA NewRewardStep ==
    ASSUME IInv, NEW t \in Tasks, status[t] # "completed",
           NEW r \in Reward, r.settled = {}, rewards' = [rewards EXCEPT ![t] = r],
           UNCHANGED <<earnLog, supply>>
    PROVE  ClaimInv'
<1>1. rewards[t].to = {}
  BY DEF IInv, StoreInv, OutcomesKnown
<1>2. \A d \in Devices : <<d, "compute", t>> \notin earnLog
  BY <1>1 DEF IInv, ClaimInv, SettledExactlyOnce
<1>3. SettledExactlyOnce'
  BY <1>2 DEF IInv, ClaimInv, SettledExactlyOnce
<1> QED BY <1>3 DEF IInv, ClaimInv

LEMMA FinishConsensusStep ==
    ASSUME IInv, NEW d \in Devices, NEW t \in Tasks, NEW h \in Hashes, NEW g \in Hashes, NEW ps,
           Recorded(t, ps), status[t] \in Unfinished, Agreed(ps, g),
           FinishConsensus(d, t, h, ps, g), UNCHANGED moneyVars
    PROVE  StoreInv' /\ ClaimInv' /\ OutcomeStep
<1>1. /\ status \in [Tasks -> Statuses] /\ proofs \in [Tasks -> SUBSET Proof]
      /\ ps \in SUBSET Proof /\ rewards \in [Tasks -> Reward]
  BY DEF IInv, StoreInv, StoreTypes, ClaimInv, Recorded
<1>2. CASE h # Expected
  <2> USE <1>2 DEF FinishConsensus, RejectAgreement
  <2>1. ClaimInv'
    BY DEF IInv, ClaimInv, SettledExactlyOnce, moneyVars
  <2>0. /\ savedResults' = results' /\ rewards'[t] = rewards[t]
        /\ \A u \in Tasks \ {t} : rewards'[u] = rewards[u]
    OBVIOUS
  <2> HIDE DEF FinishConsensus, RejectAgreement
  <2>2. CASE status' = [status EXCEPT ![t] = "failed"] /\ savedStatus' = status'
             /\ proofs' = [proofs EXCEPT ![t] = {}]
    <3>1. /\ proofs' \in [Tasks -> SUBSET Proof] /\ proofs'[t] = {}
          /\ \A u \in Tasks \ {t} : proofs'[u] = proofs[u]
          /\ savedStatus' = [status EXCEPT ![t] = "failed"]
      BY <1>1, <2>2
    <3> QED BY <2>0, <2>1, <2>2, <3>1, ReportStep DEF IInv
  <2>3. CASE savedStatus' = [status EXCEPT ![t] = "verifying"]
             /\ status' \in {savedStatus', [status EXCEPT ![t] = "failed"]}
             /\ proofs' = [proofs EXCEPT ![t] = ps]
    <3>1. /\ proofs' \in [Tasks -> SUBSET Proof] /\ proofs'[t] = ps
          /\ \A u \in Tasks \ {t} : proofs'[u] = proofs[u]
          /\ savedStatus' = [status EXCEPT ![t] = "verifying"]
      BY <1>1, <2>3
    <3>2. CASE status' = [status EXCEPT ![t] = "verifying"]
      BY <2>0, <2>1, <3>1, <3>2, ReportStep DEF IInv
    <3>3. CASE status' = [status EXCEPT ![t] = "failed"]
      BY <2>0, <2>1, <3>1, <3>3, ReportStep DEF IInv
    <3> QED BY <2>3, <3>2, <3>3
  <2> QED BY <2>2, <2>3 DEF FinishConsensus, RejectAgreement
<1>3. CASE h = Expected
  <2> USE <1>3 DEF FinishConsensus, CompleteTask, Commit
  <2>1. CASE status' = [status EXCEPT ![t] = "completed"] /\ proofs' = [proofs EXCEPT ![t] = {}]
    <3>1. PICK c \in Credits :
            rewards' = [rewards EXCEPT ![t] =
              [hash |-> h, credits |-> c, to |-> Matching(ps, g), settled |-> {}]]
      BY <2>1, <1>1 DEF Unfinished, Statuses
    <3> DEFINE r == [hash |-> h, credits |-> c, to |-> Matching(ps, g), settled |-> {}]
    <3>2. r \in Reward /\ r.to # {} /\ r.settled = {}
      BY <1>1, QuorumHasMembers, ConstantsAssumption DEF Reward
    <3>3. /\ rewards'[t] = r /\ \A u \in Tasks \ {t} : rewards'[u] = rewards[u]
      BY <1>1, <3>1
    <3>4. StoreInv' /\ OutcomeStep
      BY <1>1, <2>1, <3>2, <3>3, ReportStep DEF IInv
    <3>5. ClaimInv'
      BY <3>1, <3>2, NewRewardStep DEF Unfinished, moneyVars
    <3> QED BY <3>4, <3>5
  <2>2. CASE status' = [status EXCEPT ![t] = "verifying"] /\ proofs' = [proofs EXCEPT ![t] = ps]
             /\ UNCHANGED rewards
    <3>1. /\ proofs' \in [Tasks -> SUBSET Proof] /\ proofs'[t] = ps
          /\ \A u \in Tasks \ {t} : proofs'[u] = proofs[u]
      BY <1>1, <2>2
    <3>2. StoreInv' /\ OutcomeStep
      BY <1>1, <2>2, <3>1, ReportStep DEF IInv
    <3>3. ClaimInv'
      BY <2>2 DEF IInv, ClaimInv, SettledExactlyOnce, moneyVars
    <3> QED BY <3>2, <3>3
  <2> QED BY <2>1, <2>2
<1> QED BY <1>2, <1>3

LEMMA SubmitDuplicateStep ==
    ASSUME NEW d \in Devices, NEW t \in Tasks, NEW h \in Hashes, IInv, SubmitDuplicate(d, t, h)
    PROVE  IInv' /\ OutcomeStep
<1> USE DEF SubmitDuplicate, Accepting
<1>1. StoreInv' /\ AccountInv' /\ ClaimInv' /\ OutcomeStep
  <2>1. AccountInv'
    BY DEF IInv, AccountInv, CacheMatchesStore, BalanceIsSpendable, moneyVars
  <2>2. ASSUME NEW g \in Hashes, Agreed(proofs[t], g), FinishConsensus(d, t, h, proofs[t], g)
        PROVE  StoreInv' /\ ClaimInv' /\ OutcomeStep
    BY <2>2, FoundIsRecorded, FinishConsensusStep DEF IInv
  <2>3. CASE UNCHANGED <<status, proofs, rewards>> /\ Commit
    <3>1. QuietUpdate /\ FewerProofs
      BY <2>3 DEF IInv, StoreInv, StoreTypes, QuietUpdate, FewerProofs
    <3> QED BY <2>3, <3>1, QuietAction
  <2> QED BY <2>1, <2>2, <2>3
<1>2. ThreadInv'
  <2>1. settling' \subseteq Devices \X Tasks
    BY DEF IInv, ThreadInv, FinishConsensus, CompleteTask, RejectAgreement
  <2>2. faults' \in Nat
    BY DEF IInv, ThreadInv, FinishConsensus, CompleteTask, RejectAgreement, CanFail
  <2> QED BY <2>1, <2>2 DEF IInv, ThreadInv
<1> QED BY <1>1, <1>2 DEF IInv

LEMMA SubmitNewStep ==
    ASSUME NEW d \in Devices, NEW t \in Tasks, NEW h \in Hashes, IInv, SubmitNew(d, t, h)
    PROVE  IInv' /\ OutcomeStep
<1> DEFINE ps == WithProof(proofs[t], d, h)
<1> USE DEF SubmitNew, Accepting
<1>1. Recorded(t, ps)
  BY InsertIsRecorded DEF IInv
<1>2. StoreInv' /\ AccountInv' /\ ClaimInv' /\ OutcomeStep
  <2>1. AccountInv'
    BY DEF IInv, AccountInv, CacheMatchesStore, BalanceIsSpendable, moneyVars
  <2>2. ASSUME NEW g \in Hashes, Agreed(ps, g), FinishConsensus(d, t, h, ps, g)
        PROVE  StoreInv' /\ ClaimInv' /\ OutcomeStep
    BY <1>1, <2>2, FinishConsensusStep
  <2>3. CASE /\ status' = [status EXCEPT ![t] = "verifying"]
             /\ proofs' = [proofs EXCEPT ![t] = ps]
             /\ Commit
             /\ UNCHANGED <<rewards, settling, faults>>
    <3>1. /\ proofs' \in [Tasks -> SUBSET Proof] /\ proofs'[t] = ps
          /\ \A u \in Tasks \ {t} : proofs'[u] = proofs[u]
      BY <1>1, <2>3 DEF IInv, StoreInv, StoreTypes, Recorded
    <3>2. StoreInv' /\ OutcomeStep
      BY <1>1, <2>3, <3>1, ReportStep DEF IInv, Commit
    <3>3. ClaimInv'
      BY <2>3 DEF IInv, ClaimInv, SettledExactlyOnce, moneyVars
    <3> QED BY <2>1, <3>2, <3>3
  <2> QED BY <2>1, <2>2, <2>3
<1>3. ThreadInv'
  <2>1. settling' \subseteq Devices \X Tasks
    BY DEF IInv, ThreadInv, FinishConsensus, CompleteTask, RejectAgreement
  <2>2. faults' \in Nat
    BY DEF IInv, ThreadInv, FinishConsensus, CompleteTask, RejectAgreement, CanFail
  <2> QED BY <2>1, <2>2 DEF IInv, ThreadInv
<1> QED BY <1>2, <1>3 DEF IInv

LEMMA SubmitFailsStep ==
    ASSUME NEW d \in Devices, NEW t \in Tasks, NEW h \in Hashes, IInv, SubmitFails(d, t, h)
    PROVE  IInv' /\ OutcomeStep
<1> USE DEF SubmitFails, Accepting
<1>1. AccountInv' /\ ClaimInv'
  BY DEF IInv, AccountInv, CacheMatchesStore, BalanceIsSpendable, ClaimInv, SettledExactlyOnce, moneyVars
<1>2. StoreInv' /\ OutcomeStep
  <2>1. CASE Rollback
    BY <2>1, QuietStep DEF IInv, StoreInv, StoreTypes, SameOutcomes, FewerProofs
  <2>2. CASE /\ results' = Insert(d, t, h) /\ status' = [status EXCEPT ![t] = "verifying"]
             /\ UNCHANGED <<savedStatus, savedResults>>
    <3> USE <2>2
    <3>1. StoreTypes'
      BY DEF IInv, StoreInv, StoreTypes, Insert, Statuses
    <3>2. RowsKept'
      BY DEF IInv, StoreInv, StoreTypes, RowsKept, Insert, FirstReport
    <3>3. OutcomesKnown'
      BY DEF IInv, StoreInv, StoreTypes, OutcomesKnown, Unfinished, Finished
    <3>4. NoRowsBeforeVerifying'
      BY DEF IInv, StoreInv, StoreTypes, NoRowsBeforeVerifying, Insert
    <3>5. OneProofPerDevice'
      BY DEF IInv, StoreInv, OneProofPerDevice
    <3>6. OutcomeStep
      BY DEF OutcomeStep
    <3> QED BY <3>1, <3>2, <3>3, <3>4, <3>5, <3>6 DEF StoreInv
  <2> QED BY <2>1, <2>2
<1>3. ThreadInv'
  BY DEF IInv, ThreadInv, threads, CanFail
<1> QED BY <1>1, <1>2, <1>3 DEF IInv

-----------------------------------------------------------------------------
(* Stops and restarts. *)

LEMMA EmptyCache ==
    ASSUME AccountInv, UNCHANGED ledger, cached' = {}, cache' = [d \in Devices |-> NewLedger]
    PROVE  AccountInv'
BY DEF AccountInv, CacheMatchesStore, BalanceIsSpendable, NewLedger, Ledger

\* Losing memory and the open transaction.
LEMMA StopStep ==
    ASSUME IInv, LoseMemory, Rollback, UNCHANGED <<phase, rewards, earnLog, ledger, supply>>,
           faults' \in Nat, crashes' \in Nat
    PROVE  IInv' /\ OutcomeStep
<1> USE DEF LoseMemory
<1>1. StoreInv' /\ OutcomeStep
  BY QuietStep DEF IInv, SameOutcomes, FewerProofs
<1>2. AccountInv'
  BY EmptyCache DEF IInv
<1>3. ClaimInv'
  BY DEF IInv, ClaimInv, SettledExactlyOnce
<1>4. ThreadInv'
  BY DEF IInv, ThreadInv, Rollback, Resting
<1> QED BY <1>1, <1>2, <1>3, <1>4 DEF IInv

LEMMA CrashStep ==
    ASSUME IInv, Crash
    PROVE  IInv' /\ OutcomeStep
BY StopStep DEF Crash, IInv, ThreadInv

LEMMA CrashAfterInsertStep ==
    ASSUME NEW d \in Devices, NEW t \in Tasks, NEW h \in Hashes, IInv, CrashAfterInsert(d, t, h)
    PROVE  IInv' /\ OutcomeStep
<1> USE DEF CrashAfterInsert, LoseMemory, Accepting
<1>1. StoreInv' /\ OutcomeStep
  <2>1. Recorded(t, WithProof(proofs[t], d, h))
    BY InsertIsRecorded DEF IInv
  <2>2. Recorded(t, {})
    BY <2>1 DEF Recorded
  <2> QED BY <2>2, ReportStep DEF IInv, Commit
<1>2. AccountInv'
  BY EmptyCache DEF IInv
<1>3. ClaimInv'
  BY DEF IInv, ClaimInv, SettledExactlyOnce
<1>4. ThreadInv'
  <2>1. /\ mode' = "down" /\ phase' = phase /\ settling' = {} /\ replenishing' = FALSE
        /\ status' = savedStatus' /\ results' = savedResults' /\ faults' = faults
    BY DEF Commit
  <2>3. phase' \in [Tasks -> Phases] /\ faults' \in Nat /\ crashes' \in Nat
    BY DEF IInv, ThreadInv
  <2>2. cleaning' \in [step : {"wait", "reaped", "seeded", "read"}, ids : SUBSET Tasks]
    BY DEF Resting
  <2> QED BY <2>1, <2>2, <2>3 DEF ThreadInv
<1> QED BY <1>1, <1>2, <1>3, <1>4 DEF IInv

LEMMA BootStep ==
    ASSUME IInv, Boot
    PROVE  IInv' /\ OutcomeStep
<1> USE DEF Boot, moneyVars, threads
<1>1. \A t \in Tasks : proofs'[t] = RebuildProofs(t)
  OBVIOUS
<1>2. \A t \in Tasks : \A p \in RebuildProofs(t) :
        p \in Proof /\ p.n = 0 /\ results[t][p.device] = p.hash
  BY ConstantsAssumption DEF RebuildProofs, Proof
<1>3. results = savedResults
  BY DEF IInv, ThreadInv
<1>4. OneProofPerDevice'
  BY <1>1, <1>2, <1>3 DEF OneProofPerDevice
<1>5. StoreTypes'
  BY <1>1, <1>2 DEF IInv, StoreInv, StoreTypes
<1>6. RowsKept' /\ OutcomesKnown' /\ NoRowsBeforeVerifying'
  BY DEF IInv, StoreInv, RowsKept, OutcomesKnown, NoRowsBeforeVerifying
<1>7. AccountInv' /\ ClaimInv'
  BY DEF IInv, AccountInv, CacheMatchesStore, BalanceIsSpendable, ClaimInv, SettledExactlyOnce
<1>8. ThreadInv'
  BY DEF IInv, ThreadInv
<1>9. OutcomeStep
  BY DEF OutcomeStep
<1> QED BY <1>4, <1>5, <1>6, <1>7, <1>8, <1>9 DEF IInv, StoreInv

LEMMA BootFinishStep ==
    ASSUME NEW t \in Tasks, IInv, BootFinish(t)
    PROVE  IInv' /\ OutcomeStep
<1>1. CASE LoseMemory
  <2>1. mode = "recovering" /\ mode' = "down"
    BY <1>1 DEF BootFinish, LoseMemory
  <2>2. CanFail("finish") /\ Rollback /\ UNCHANGED <<phase, rewards, earnLog, ledger, supply, crashes>>
    BY <2>1 DEF BootFinish
  <2>3. faults' \in Nat /\ crashes' \in Nat
    BY <2>2 DEF CanFail, IInv, ThreadInv
  <2> QED BY <1>1, <2>2, <2>3, StopStep
<1>2. CASE ~LoseMemory
  <2> USE <1>2 DEF BootFinish, Finishable
  <2>1. PICK c \in Credits :
          rewards' = [rewards EXCEPT ![t] = [hash |-> Expected, credits |-> c,
                        to |-> Matching(proofs[t], Expected), settled |-> {}]]
    OBVIOUS
  <2> DEFINE r == [hash |-> Expected, credits |-> c,
                   to |-> Matching(proofs[t], Expected), settled |-> {}]
  <2>2. /\ rewards \in [Tasks -> Reward] /\ proofs \in [Tasks -> SUBSET Proof]
        /\ Expected \in Hashes /\ c \in Nat
    BY ConstantsAssumption DEF IInv, ClaimInv, StoreInv, StoreTypes
  <2>3. r \in Reward /\ r.to # {} /\ r.settled = {}
    BY <2>2, QuorumHasMembers DEF Reward
  <2>4. /\ proofs' \in [Tasks -> SUBSET Proof] /\ proofs'[t] = {}
        /\ \A u \in Tasks \ {t} : proofs'[u] = proofs[u]
        /\ rewards'[t] = r /\ \A u \in Tasks \ {t} : rewards'[u] = rewards[u]
    BY <2>1, <2>2
  <2>5. Recorded(t, proofs[t])
    BY FoundIsRecorded DEF IInv
  <2>6. StoreInv' /\ OutcomeStep
    BY <2>3, <2>4, <2>5, ReportStep DEF IInv, Commit, Unfinished
  <2>7. ClaimInv'
    BY <2>1, <2>3, NewRewardStep
  <2>8. AccountInv'
    BY DEF IInv, AccountInv, CacheMatchesStore, BalanceIsSpendable
  <2>9. ThreadInv'
    BY DEF IInv, ThreadInv, threads, Commit
  <2> QED BY <2>6, <2>7, <2>8, <2>9 DEF IInv
<1> QED BY <1>1, <1>2

LEMMA BootSettleStep ==
    ASSUME NEW t \in Tasks, IInv, BootSettle(t)
    PROVE  IInv' /\ OutcomeStep
<1>1. CASE PayRewards(t) /\ UNCHANGED <<mode, proofs, threads, faults>>
  <2>1. StoreInv' /\ AccountInv' /\ ClaimInv' /\ OutcomeStep
    BY <1>1, PayRewardsStep
  <2>2. ThreadInv'
    BY <1>1 DEF BootSettle, IInv, ThreadInv, threads, PayRewards, Publish, Commit
  <2> QED BY <2>1, <2>2 DEF IInv
<1>2. CASE CanFail("settle") /\ LoseMemory /\ Rollback /\ UNCHANGED <<earnLog, ledger, supply, rewards>>
  BY <1>2, StopStep DEF BootSettle, CanFail, IInv, ThreadInv
<1> QED BY <1>1, <1>2 DEF BootSettle

LEMMA BootServeStep ==
    ASSUME IInv, BootServe
    PROVE  IInv' /\ OutcomeStep
<1> USE DEF BootServe, threads, moneyVars
<1>1. QuietUpdate
  BY PreseedIsQuiet DEF IInv
<1>2. FewerProofs
  BY DEF IInv, StoreInv, StoreTypes, FewerProofs
<1>3. ThreadInv'
  BY DEF IInv, ThreadInv
<1> QED BY <1>1, <1>2, <1>3, QuietAction DEF IInv

LEMMA StutterStep ==
    ASSUME IInv, UNCHANGED vars
    PROVE  IInv' /\ OutcomeStep
<1> USE DEF vars, taskVars, moneyVars, threads
<1>1. QuietUpdate /\ FewerProofs
  BY DEF IInv, StoreInv, StoreTypes, QuietUpdate, FewerProofs
<1>2. ThreadInv'
  BY DEF IInv, ThreadInv
<1> QED BY <1>1, <1>2, QuietAction DEF IInv

-----------------------------------------------------------------------------
(* The invariant and what follows from it. *)

LEMMA InitInv == Init => IInv
<1> SUFFICES ASSUME Init PROVE IInv
  OBVIOUS
<1> USE ConstantsAssumption DEF Init
<1>1. StoreInv
  BY DEF StoreInv, StoreTypes, RowsKept, OutcomesKnown, NoRowsBeforeVerifying,
         OneProofPerDevice, Statuses, Finished, NoRewards
<1>2. AccountInv
  BY DEF AccountInv, CacheMatchesStore, BalanceIsSpendable, NewLedger, Ledger
<1>3. ClaimInv
  BY DEF ClaimInv, SettledExactlyOnce, NoRewards, Reward
<1>4. ThreadInv
  BY DEF ThreadInv, Phases, Resting
<1> QED BY <1>1, <1>2, <1>3, <1>4 DEF IInv

LEMMA NextStep ==
    ASSUME IInv, [Next]_vars
    PROVE  IInv' /\ OutcomeStep
<1>1. ASSUME NEW d \in Devices, Handler(d)
      PROVE  IInv' /\ OutcomeStep
  BY <1>1, SubmitReplayStep, SubmitDuplicateStep, SubmitNewStep, SubmitFailsStep,
     CrashAfterInsertStep, SubmitLateStep, EarnStep, SpendStep DEF Handler
<1>2. ASSUME NEW d \in Devices, NEW t \in Tasks, Settle(d, t)
      PROVE  IInv' /\ OutcomeStep
  BY <1>2, SettleStep
<1>3. ASSUME NEW t \in Tasks, CreateTask(t) \/ Tick(t)
      PROVE  IInv' /\ OutcomeStep
  BY <1>3, CreateTaskStep, TickStep
<1>4. CASE Replenish \/ ListOpenTasks \/ Maintenance \/ Crash
  BY <1>4, ReplenishStep, ListOpenTasksStep, SweepReapStep, SweepPreseedStep, SweepReadStep,
     CleanProofsStep, CrashStep DEF Maintenance
<1>5. CASE Startup
  BY <1>5, BootStep, BootServeStep, BootFinishStep, BootSettleStep DEF Startup
<1>6. CASE UNCHANGED vars
  BY <1>6, StutterStep
<1> QED BY <1>1, <1>2, <1>3, <1>4, <1>5, <1>6 DEF Next

\* The strengthened invariant holds throughout.
THEOREM Invariance == Spec => []IInv
<1>1. Init => IInv
  BY InitInv
<1>2. IInv /\ [Next]_vars => IInv'
  BY NextStep
<1> QED BY <1>1, <1>2, PTL DEF Spec

\* Every variable keeps its type, for any number of tasks and devices.
THEOREM TypeCorrect == Spec => []TypeOK
<1>1. IInv => TypeOK
  BY DEF IInv, StoreInv, StoreTypes, AccountInv, ClaimInv, ThreadInv, TypeOK
<1> QED BY <1>1, Invariance, PTL

\* No reward is paid twice and no participant is left out: settlements by
\* racing requests, replays and restarts agree with the earn log.
THEOREM RewardsSettledOnce == Spec => []SettledExactlyOnce
<1>1. IInv => SettledExactlyOnce
  BY DEF IInv, ClaimInv
<1> QED BY <1>1, Invariance, PTL

\* The cache of clients never holds a balance the database does not.
THEOREM CacheCoherent == Spec => []CacheMatchesStore
<1>1. IInv => CacheMatchesStore
  BY DEF IInv, AccountInv
<1> QED BY <1>1, Invariance, PTL

\* The verifier counts every device once, with the row it committed.
THEOREM VerifierCountsDevices == Spec => []OneProofPerDevice
<1>1. IInv => OneProofPerDevice
  BY DEF IInv, StoreInv
<1> QED BY <1>1, Invariance, PTL

\* Credits of an account never lose the receipt that makes them spendable.
THEOREM AccountsSpendable == Spec => []BalanceIsSpendable
<1>1. IInv => BalanceIsSpendable
  BY DEF IInv, AccountInv
<1> QED BY <1>1, Invariance, PTL

\* A committed outcome and its reward list are never changed again.
THEOREM OutcomesFinal == Spec => OutcomeIsFinal
<1>1. IInv /\ [Next]_vars => OutcomeStep
  BY NextStep
<1>2. OutcomeStep => [\A t \in Tasks : savedStatus[t] \in Finished =>
         /\ savedStatus'[t] = savedStatus[t]
         /\ rewards'[t].to = rewards[t].to /\ rewards'[t].credits = rewards[t].credits]_vars
  BY DEF OutcomeStep
<1> QED BY <1>1, <1>2, Invariance, PTL DEF Spec, OutcomeIsFinal

-----------------------------------------------------------------------------
(* Votes: what VotesAreCounted rests on.  As long as no commit failed, no      *)
(* transaction stays open between two locked sections, so that what the        *)
(* maintenance thread reads is final.                                          *)

CountsNow == mode = "recovering" \/ (mode = "serving" /\ faults = 0)

NothingOpen     == faults = 0 => status = savedStatus /\ results = savedResults
ReadAreFinished == faults = 0 => \A t \in cleaning.ids : status[t] \in Finished
CountInv        == NothingOpen /\ ReadAreFinished /\ VotesAreCounted

\* How a step treats the transaction and what the maintenance thread has read.
OrderlyStep ==
    /\ faults' \in {faults, faults + 1}
    /\ faults' = faults => \/ UNCHANGED <<status, results, savedStatus, savedResults>>
                           \/ status' = savedStatus' /\ results' = savedResults'
    /\ cleaning'.ids \subseteq cleaning.ids \cup FinishedIds

LEMMA OrderlyKeeps ==
    ASSUME IInv, IInv', NothingOpen, ReadAreFinished, OutcomeStep, OrderlyStep
    PROVE  NothingOpen' /\ ReadAreFinished'
<1>1. faults' = 0 => faults = 0 /\ faults' = faults
  BY DEF OrderlyStep, IInv, ThreadInv
<1>2. NothingOpen'
  BY <1>1 DEF NothingOpen, OrderlyStep
<1>3. ASSUME faults' = 0, NEW t \in cleaning'.ids PROVE status'[t] \in Finished
  <2>1. t \in Tasks /\ (t \in cleaning.ids \/ t \in FinishedIds)
    BY DEF OrderlyStep, IInv, ThreadInv
  <2>2. status[t] \in Finished /\ status = savedStatus /\ status' = savedStatus'
    BY <1>1, <1>2, <1>3, <2>1 DEF NothingOpen, ReadAreFinished, FinishedIds
  <2> QED BY <2>1, <2>2 DEF OutcomeStep
<1> QED BY <1>2, <1>3 DEF ReadAreFinished

\* Whenever votes count, the rows are the committed ones.
LEMMA RowsAreSaved ==
    ASSUME IInv, CountInv, CountsNow
    PROVE  results = savedResults
BY DEF IInv, ThreadInv, CountInv, NothingOpen, CountsNow

\* A step that adds no row and takes no proof from a task that stays unfinished.
LEMMA VotesStay ==
    ASSUME IInv, CountInv, CountsNow' => CountsNow,
           savedResults' = savedResults \/ savedResults' = results,
           \A t \in Tasks : status'[t] \in Unfinished =>
              proofs[t] \subseteq proofs'[t] /\ status[t] \in Unfinished \cup {"absent"}
    PROVE  VotesAreCounted'
<1> SUFFICES ASSUME NEW t \in Tasks, status'[t] \in Unfinished, CountsNow',
                    NEW d \in Devices, savedResults'[t][d] = Expected
             PROVE  \E p \in proofs'[t] : p.device = d /\ p.hash = Expected
  BY DEF VotesAreCounted, CountsNow
<1>1. CountsNow /\ results = savedResults /\ savedResults[t][d] = Expected
  BY RowsAreSaved
<1>2. status[t] \in Unfinished
  <2>1. results[t][d] # NoResult
    BY <1>1, ConstantsAssumption
  <2> QED BY <2>1 DEF IInv, StoreInv, NoRowsBeforeVerifying
<1>3. \E p \in proofs[t] : p.device = d /\ p.hash = Expected
  BY <1>1, <1>2 DEF CountInv, VotesAreCounted, CountsNow
<1> QED BY <1>3

LEMMA SubmitNewCounts ==
    ASSUME IInv, CountInv, NEW d \in Devices, NEW t \in Tasks, NEW h \in Hashes, SubmitNew(d, t, h)
    PROVE  OrderlyStep /\ VotesAreCounted'
<1> DEFINE ps == WithProof(proofs[t], d, h)
<1> USE DEF SubmitNew, Accepting
<1>0. faults \in Nat
  BY DEF IInv, ThreadInv
<1>1. OrderlyStep
  BY <1>0 DEF OrderlyStep, FinishConsensus, CompleteTask, RejectAgreement, CanFail, Commit
<1>2. SUFFICES ASSUME NEW u \in Tasks, status'[u] \in Unfinished, CountsNow',
                      NEW x \in Devices, savedResults'[u][x] = Expected
               PROVE  \E p \in proofs'[u] : p.device = x /\ p.hash = Expected
  BY <1>1 DEF VotesAreCounted, CountsNow
<1>3. mode' = "serving" /\ mode = "serving" /\ faults = 0 /\ faults' = 0
  BY <1>0, <1>1, <1>2 DEF OrderlyStep, CountsNow
<1>4. savedResults = results /\ savedResults' = Insert(d, t, h)
  BY <1>3, RowsAreSaved DEF CountsNow, FinishConsensus, CompleteTask, RejectAgreement, Commit
<1>5. /\ status' \in {[status EXCEPT ![t] = "verifying"], [status EXCEPT ![t] = "failed"], [status EXCEPT ![t] = "completed"]}
      /\ status'[t] \in Unfinished => proofs' = [proofs EXCEPT ![t] = ps]
      /\ \A v \in Tasks \ {t} : proofs'[v] = proofs[v]
  BY <1>3 DEF FinishConsensus, CompleteTask, RejectAgreement, CanFail, Unfinished, IInv, StoreInv, StoreTypes
<1>6. CASE u = t /\ x = d
  <2>1. h = Expected
    BY <1>2, <1>4, <1>6 DEF Insert, IInv, StoreInv, StoreTypes
  <2>2. [device |-> d, hash |-> h, n |-> Cardinality({p \in proofs[t] : p.device = d})] \in proofs'[t]
    BY <1>2, <1>5, <1>6 DEF WithProof, IInv, StoreInv, StoreTypes
  <2> QED BY <1>6, <2>1, <2>2
<1>7. CASE ~(u = t /\ x = d)
  <2>1. savedResults[u][x] = Expected
    BY <1>2, <1>4, <1>7 DEF Insert, IInv, StoreInv, StoreTypes
  <2>2. status[u] \in Unfinished
    BY <1>2, <1>5 DEF IInv, StoreInv, StoreTypes
  <2>3. \E p \in proofs[u] : p.device = x /\ p.hash = Expected
    BY <1>3, <2>1, <2>2 DEF CountInv, VotesAreCounted
  <2>4. proofs[u] \subseteq proofs'[u]
    BY <1>2, <1>5 DEF WithProof, IInv, StoreInv, StoreTypes
  <2> QED BY <2>3, <2>4
<1> QED BY <1>6, <1>7

LEMMA NextCounts ==
    ASSUME IInv, IInv', OutcomeStep, CountInv, [Next]_vars
    PROVE  CountInv'
<1> SUFFICES OrderlyStep /\ VotesAreCounted'
  BY OrderlyKeeps DEF CountInv
<1> USE DEF OrderlyStep, taskVars, moneyVars, threads
<1>0. /\ faults \in Nat /\ mode \in {"down", "recovering", "serving"}
      /\ status \in [Tasks -> Statuses] /\ proofs \in [Tasks -> SUBSET Proof]
  BY DEF IInv, ThreadInv, StoreInv, StoreTypes
<1>1. ASSUME NEW d \in Devices, NEW t \in Tasks, NEW h \in Hashes, SubmitNew(d, t, h)
      PROVE  OrderlyStep /\ VotesAreCounted'
  BY <1>1, SubmitNewCounts
<1>2. ASSUME NEW d \in Devices, NEW t \in Tasks, NEW h \in Hashes, SubmitDuplicate(d, t, h)
      PROVE  OrderlyStep /\ VotesAreCounted'
  <2>1. OrderlyStep /\ mode' = mode /\ mode = "serving" /\ savedResults' = results
    BY <1>0, <1>2 DEF SubmitDuplicate, Accepting, FinishConsensus, CompleteTask, RejectAgreement, CanFail, Commit
  <2>2. \A u \in Tasks : status'[u] \in Unfinished /\ CountsNow' =>
            proofs[u] \subseteq proofs'[u] /\ status[u] \in Unfinished
    BY <1>0, <1>2, <2>1 DEF SubmitDuplicate, Accepting, FinishConsensus, CompleteTask, RejectAgreement, CanFail,
       Unfinished, CountsNow
  <2>3. CASE CountsNow'
    BY <1>0, <2>1, <2>2, <2>3, VotesStay DEF CountsNow
  <2>4. CASE ~CountsNow'
    BY <2>1, <2>4 DEF VotesAreCounted, CountsNow
  <2> QED BY <2>1, <2>3, <2>4
<1>3. ASSUME NEW d \in Devices, NEW t \in Tasks, NEW h \in Hashes, SubmitFails(d, t, h) \/ CrashAfterInsert(d, t, h)
      PROVE  OrderlyStep /\ VotesAreCounted'
  <2>1. ~CountsNow'
    BY <1>0, <1>3 DEF SubmitFails, CrashAfterInsert, CanFail, LoseMemory, CountsNow, Accepting
  <2>2. OrderlyStep
    BY <1>0, <1>3 DEF SubmitFails, CrashAfterInsert, CanFail, LoseMemory, Commit, Resting
  <2> QED BY <2>1, <2>2 DEF VotesAreCounted, CountsNow
<1>4. ASSUME NEW d \in Devices, NEW t \in Tasks, SubmitLate(d, t)
      PROVE  OrderlyStep /\ VotesAreCounted'
  <2>1. OrderlyStep /\ mode' = mode /\ mode = "serving"
    BY <1>0, <1>4 DEF SubmitLate, Accepting, CanFail, Commit
  <2>2. CASE CountsNow'
    <3>1. faults' = faults
      BY <1>0, <2>1, <2>2 DEF CountsNow
    <3>2. status' = [status EXCEPT ![t] = "failed"] /\ proofs' = [proofs EXCEPT ![t] = {}] /\ savedResults' = results
      BY <1>0, <1>4, <3>1 DEF SubmitLate, CanFail, Commit
    <3>3. \A u \in Tasks : status'[u] \in Unfinished => proofs[u] \subseteq proofs'[u] /\ status[u] \in Unfinished
      BY <1>0, <3>2 DEF Unfinished
    <3> QED BY <2>1, <2>2, <3>1, <3>2, <3>3, VotesStay DEF CountsNow
  <2>3. CASE ~CountsNow'
    BY <2>1, <2>3 DEF VotesAreCounted, CountsNow
  <2> QED BY <2>1, <2>2, <2>3
<1>5. ASSUME NEW d \in Devices, NEW t \in Tasks, NEW h \in Hashes, SubmitReplay(d, t, h)
      PROVE  OrderlyStep /\ VotesAreCounted'
  BY <1>5, VotesStay DEF SubmitReplay, CountsNow
\* Account transactions leave tasks and proofs alone, and roll back to the same rows.
<1>6. ASSUME UNCHANGED <<mode, proofs, cleaning>>, NEW S, NEW new, Abort(S) \/ Publish(S, new),
             faults' \in {faults, faults + 1}
      PROVE  OrderlyStep /\ VotesAreCounted'
  <2>1. OrderlyStep
    BY <1>6 DEF Abort, Publish, Rollback, Commit
  <2>2. CountsNow' => CountsNow
    BY <1>0, <1>6 DEF CountsNow
  <2>3. savedResults' = savedResults \/ savedResults' = results
    BY <1>6 DEF Abort, Publish, Rollback, Commit
  <2>4. CASE CountsNow'
    <3>1. status = savedStatus
      BY <2>2, <2>4 DEF CountsNow, CountInv, NothingOpen, IInv, ThreadInv
    <3>2. status' = status
      BY <1>6, <3>1 DEF Abort, Publish, Rollback
    <3>3. \A t \in Tasks : status'[t] \in Unfinished => proofs[t] \subseteq proofs'[t] /\ status[t] \in Unfinished
      BY <1>6, <3>2
    <3> QED BY <2>1, <2>2, <2>3, <3>3, VotesStay
  <2>5. CASE ~CountsNow'
    BY <2>1, <2>5 DEF VotesAreCounted, CountsNow
  <2> QED BY <2>4, <2>5
<1>7. ASSUME NEW d \in Devices, NEW t \in Tasks, Settle(d, t)
      PROVE  OrderlyStep /\ VotesAreCounted'
  <2>1. faults' \in {faults, faults + 1} /\ UNCHANGED <<mode, proofs, cleaning>>
    BY <1>7 DEF Settle, CanFail
  <2>2. CASE UNCHANGED taskVars
    BY <1>0, <1>7, <2>1, <2>2, VotesStay DEF CountsNow
  <2>3. CASE ~UNCHANGED taskVars
    BY <1>6, <1>7, <2>1, <2>3 DEF Settle, PayRewards
  <2> QED BY <2>2, <2>3
<1>8. ASSUME NEW d \in Devices, NEW t \in Tasks, Earn(d, t)
      PROVE  OrderlyStep /\ VotesAreCounted'
  BY <1>6, <1>8 DEF Earn, CanFail
<1>9. ASSUME NEW d \in Devices, NEW p \in Prices, Spend(d, p)
      PROVE  OrderlyStep /\ VotesAreCounted'
  BY <1>6, <1>9 DEF Spend, CanFail
\* Reaping and creating tasks.
<1>10. ASSUME UNCHANGED proofs, cleaning'.ids \subseteq cleaning.ids, CountsNow' => CountsNow,
              QuietUpdate \/ Rollback,
              \/ faults' = faults /\ Commit
              \/ faults' = faults + 1 /\ mode' = mode /\ mode = "serving"
       PROVE  OrderlyStep /\ VotesAreCounted'
  <2>1. OrderlyStep
    BY <1>0, <1>10 DEF Commit
  <2>2. CASE CountsNow' /\ faults' = faults /\ Commit /\ QuietUpdate
    <3>1. \A t \in Tasks : status'[t] \in Unfinished =>
            proofs[t] \subseteq proofs'[t] /\ status[t] \in Unfinished \cup {"absent"}
      BY <1>10, <2>2 DEF QuietUpdate, Unfinished
    <3> QED BY <1>10, <2>1, <2>2, <3>1, VotesStay DEF Commit, QuietUpdate
  <2>3. CASE CountsNow' /\ faults' = faults /\ Commit /\ Rollback
    <3>1. status = savedStatus /\ results = savedResults
      BY <1>10, <2>3 DEF CountsNow, CountInv, NothingOpen, IInv, ThreadInv
    <3>2. status' = status
      BY <2>3, <3>1 DEF Rollback
    <3>3. \A t \in Tasks : status'[t] \in Unfinished => proofs[t] \subseteq proofs'[t] /\ status[t] \in Unfinished
      BY <1>10, <3>2
    <3> QED BY <1>10, <2>1, <2>3, <3>3, VotesStay DEF Rollback
  <2>4. CASE ~CountsNow'
    BY <2>1, <2>4 DEF VotesAreCounted, CountsNow
  <2>5. CASE CountsNow' /\ faults' = faults + 1 /\ mode' = "serving"
    BY <1>0, <2>5 DEF CountsNow
  <2> QED BY <1>10, <2>2, <2>3, <2>4, <2>5
<1>11. CASE Replenish
  <2>1. mode = "serving"
    BY <1>11 DEF Replenish, IInv, ThreadInv
  <2>2. QuietUpdate \/ Rollback
    BY <1>11, PreseedIsQuiet, ReapFailsIsQuiet DEF Replenish, IInv
  <2>3. \/ faults' = faults /\ Commit
        \/ faults' = faults + 1
    BY <1>11 DEF Replenish, Preseed, ReapFails, CanFail
  <2> QED BY <1>0, <1>10, <1>11, <2>1, <2>2, <2>3 DEF Replenish, CountsNow
<1>12. CASE ListOpenTasks
  <2>2. QuietUpdate \/ Rollback
    BY <1>12, ReapedIsQuiet, ReapFailsIsQuiet DEF ListOpenTasks, IInv, QuietUpdate
  <2>3. \/ faults' = faults /\ Commit
        \/ faults' = faults + 1
    BY <1>12 DEF ListOpenTasks, ReapFails, CanFail
  <2> QED BY <1>0, <1>10, <1>12, <2>2, <2>3 DEF ListOpenTasks, CountsNow
<1>13. ASSUME NEW t \in Tasks, CreateTask(t)
       PROVE  OrderlyStep /\ VotesAreCounted'
  <2>2. QuietUpdate \/ Rollback
    BY <1>0, <1>13 DEF CreateTask, QuietUpdate, Statuses
  <2>3. \/ faults' = faults /\ Commit
        \/ faults' = faults + 1
    BY <1>13 DEF CreateTask, CanFail
  <2> QED BY <1>0, <1>10, <1>13, <2>2, <2>3 DEF CreateTask, CountsNow
<1>14. CASE SweepReap \/ SweepPreseed
  <2>1. mode = "serving" /\ mode' = mode /\ cleaning'.ids = cleaning.ids /\ UNCHANGED proofs
    BY <1>14 DEF SweepReap, SweepPreseed, Cleaner, CleanerAt, IInv, ThreadInv
  <2>2. QuietUpdate \/ Rollback
    BY <1>14, ReapedIsQuiet, PreseedIsQuiet, ReapFailsIsQuiet DEF SweepReap, SweepPreseed, IInv, QuietUpdate
  <2>3. \/ faults' = faults /\ Commit
        \/ faults' = faults + 1
    BY <1>14 DEF SweepReap, SweepPreseed, Preseed, ReapFails, CanFail
  <2> QED BY <1>0, <1>10, <2>1, <2>2, <2>3 DEF CountsNow
<1>15. CASE SweepRead
  <2>1. cleaning'.ids \subseteq cleaning.ids \cup FinishedIds
    BY <1>15 DEF SweepRead, Resting
  <2> QED BY <1>15, <2>1, VotesStay DEF SweepRead, CountsNow
<1>16. CASE CleanProofs
  <2>1. OrderlyStep /\ UNCHANGED <<mode, status, savedResults, faults>> /\ mode = "serving"
    BY <1>16 DEF CleanProofs, Cleaner, Resting
  <2>2. CASE CountsNow
    <3>1. \A t \in Tasks : status'[t] \in Unfinished => t \notin cleaning.ids
      BY <2>1, <2>2 DEF CountsNow, CountInv, ReadAreFinished, Finished, Unfinished
    <3>2. \A t \in Tasks : status'[t] \in Unfinished => proofs[t] \subseteq proofs'[t] /\ status[t] \in Unfinished
      BY <1>16, <2>1, <3>1 DEF CleanProofs
    <3> QED BY <2>1, <2>2, <3>2, VotesStay
  <2>3. CASE ~CountsNow
    BY <2>1, <2>3 DEF VotesAreCounted, CountsNow
  <2> QED BY <2>1, <2>2, <2>3
<1>17. ASSUME NEW t \in Tasks, Tick(t)
       PROVE  OrderlyStep /\ VotesAreCounted'
  BY <1>17, VotesStay DEF Tick, CountsNow
<1>18. CASE Crash
  BY <1>18 DEF Crash, LoseMemory, Rollback, Resting, VotesAreCounted
<1>19. CASE Boot
  <2>1. OrderlyStep
    BY <1>19 DEF Boot
  <2>2. results = savedResults
    BY <1>19 DEF Boot, IInv, ThreadInv
  <2>3. ASSUME NEW t \in Tasks, status'[t] \in Unfinished, NEW d \in Devices, savedResults'[t][d] = Expected
        PROVE  \E p \in proofs'[t] : p.device = d /\ p.hash = Expected
    <3>1. status[t] \in Unfinished /\ results[t][d] = Expected
      BY <1>19, <2>2, <2>3 DEF Boot
    <3>2. [device |-> d, hash |-> Expected, n |-> 0] \in RebuildProofs(t)
      BY <3>1 DEF RebuildProofs
    <3>3. proofs'[t] = RebuildProofs(t)
      BY <1>19 DEF Boot
    <3> QED BY <3>2, <3>3
  <2> QED BY <2>1, <2>3 DEF VotesAreCounted
<1>20. ASSUME NEW t \in Tasks, BootFinish(t)
       PROVE  OrderlyStep /\ VotesAreCounted'
  <2>1. CASE mode' = "down"
    BY <1>20, <2>1 DEF BootFinish, CanFail, LoseMemory, Rollback, Resting, VotesAreCounted
  <2>2. CASE mode' # "down"
    <3>1. /\ status' = [status EXCEPT ![t] = "completed"] /\ savedResults' = results
          /\ proofs' = [proofs EXCEPT ![t] = {}] /\ mode = "recovering" /\ Commit
          /\ UNCHANGED <<faults, cleaning>>
      BY <1>20, <2>2 DEF BootFinish, LoseMemory, Commit
    <3>2. \A u \in Tasks : status'[u] \in Unfinished => proofs[u] \subseteq proofs'[u] /\ status[u] \in Unfinished
      BY <1>0, <3>1 DEF Unfinished
    <3> QED BY <3>1, <3>2, VotesStay DEF CountsNow, Commit
  <2> QED BY <2>1, <2>2
<1>21. ASSUME NEW t \in Tasks, BootSettle(t)
       PROVE  OrderlyStep /\ VotesAreCounted'
  <2>1. CASE mode' = "down"
    BY <1>21, <2>1 DEF BootSettle, PayRewards, CanFail, LoseMemory, Rollback, Resting, VotesAreCounted
  <2>2. CASE mode' # "down"
    BY <1>6, <1>21, <2>2 DEF BootSettle, LoseMemory, PayRewards
  <2> QED BY <2>1, <2>2
<1>22. CASE BootServe
  <2>1. QuietUpdate
    BY <1>22, PreseedIsQuiet DEF BootServe, IInv
  <2> QED BY <1>10, <1>22, <2>1 DEF BootServe, Preseed, CountsNow
<1>23. CASE UNCHANGED vars
  BY <1>23, VotesStay DEF vars, CountsNow
<1>24. CASE Maintenance
  BY <1>14, <1>15, <1>16, <1>24 DEF Maintenance
<1>25. CASE Startup
  BY <1>19, <1>20, <1>21, <1>22, <1>25 DEF Startup
<1>26. ASSUME NEW d \in Devices, Handler(d)
       PROVE  OrderlyStep /\ VotesAreCounted'
  BY <1>1, <1>2, <1>3, <1>4, <1>5, <1>8, <1>9, <1>26 DEF Handler
<1> QED BY <1>7, <1>11, <1>12, <1>13, <1>17, <1>18, <1>23, <1>24, <1>25, <1>26 DEF Next

\* No committed right result is missing in the verifier of an unfinished task after
\* a restart, or while no commit has failed: the clean-up never clears a live task.
THEOREM VotesCounted == Spec => []VotesAreCounted
<1>1. Init => CountInv
  BY DEF Init, CountInv, NothingOpen, ReadAreFinished, VotesAreCounted, Resting, Unfinished
<1>2. IInv /\ IInv' /\ CountInv /\ [Next]_vars => CountInv'
  BY NextStep, NextCounts
<1>3. CountInv => VotesAreCounted
  BY DEF CountInv
<1> QED BY <1>1, <1>2, <1>3, Invariance, PTL DEF Spec
=============================================================================
