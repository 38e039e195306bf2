------------------------- MODULE TaskSettlementBank -------------------------
(***************************************************************************)
(* What the steps of TaskSettlement do to credits.  Each entitles a        *)
(* quorum, settles a task, grants an allowance, charges a device, or moves *)
(* no credit (NextMovesMoney).  From this: the node implements CreditBank, *)
(* and every minted credit is explained.  At the end, why every reward is  *)
(* earned while the commits of consensus outcomes do not fail.             *)
(***************************************************************************)
EXTENDS TaskSettlementProofs, DataTheorems

\* A group of agreeing proofs has as many members as there are devices in it.
LEMMA GroupSize ==
    ASSUME NEW ps \in SUBSET Proof, \A p \in ps : p.n = 0, NEW g \in Hashes
    PROVE  /\ IsFiniteSet(Group(ps, g)) /\ Cardinality(Group(ps, g)) \in Nat
           /\ Cardinality(Matching(ps, g)) = Cardinality(Group(ps, g))
<1> DEFINE M == Matching(ps, g)
           b == [d \in M |-> [device |-> d, hash |-> g, n |-> 0]]
<1>1. \A p \in Group(ps, g) : p = [device |-> p.device, hash |-> g, n |-> 0] /\ p.device \in M
  BY DEF Group, Matching, Proof
<1>2. \A d \in M : [device |-> d, hash |-> g, n |-> 0] \in Group(ps, g)
  BY <1>1 DEF Matching
<1>3. b \in Bijection(M, Group(ps, g))
  <2>1. b \in [M -> Group(ps, g)]
    BY <1>2
  <2>2. b \in Injection(M, Group(ps, g))
    BY <2>1 DEF Injection, IsInjective
  <2>3. \A p \in Group(ps, g) : b[p.device] = p
    BY <1>1
  <2>4. b \in Surjection(M, Group(ps, g))
    BY <1>1, <2>1, <2>3 DEF Surjection
  <2> QED BY <2>2, <2>4 DEF Bijection
<1>4. M \in SUBSET Devices
  BY DEF Matching, Group, Proof
<1>5. IsFiniteSet(M)
  BY <1>4, ConstantsAssumption, FS_Subset
<1> QED BY <1>3, <1>5, FS_Bijection, FS_CardinalityType DEF ExistsBijection

-----------------------------------------------------------------------------
(* What a step may do to credits. *)

NoMove == UNCHANGED <<rewards, earnLog, ledger, supply>>

Entitled(t) ==
    /\ status[t] # "completed" /\ UNCHANGED <<earnLog, ledger, supply>>
    /\ \E h \in Hashes, g \in Hashes, c \in Credits, ps \in SUBSET Proof :
         /\ Recorded(t, ps) /\ Agreed(ps, g)
         /\ rewards' = [rewards EXCEPT ![t] =
              [hash |-> h, credits |-> c, to |-> Matching(ps, g), settled |-> {}]]

Settled(t) == Due(t) # {} /\ PayRewards(t)

Granted(d, t) ==
    /\ <<d, "task", t>> \notin earnLog /\ earnLog' = earnLog \cup {<<d, "task", t>>}
    /\ supply + Grant <= MaxSupply /\ supply' = supply + Grant
    /\ Publish({d}, [x \in Devices |-> Mint(Working(x), Grant)])
    /\ UNCHANGED rewards

Charged(d, p) ==
    /\ Solvent(d, p) /\ UNCHANGED <<rewards, earnLog, supply>>
    /\ Publish({d}, [x \in Devices |-> Debit(Working(x), p)])

MoneyMove ==
    \/ NoMove
    \/ \E t \in Tasks : Entitled(t) \/ Settled(t)
    \/ \E d \in Devices : \/ \E t \in Tasks : Granted(d, t)
                          \/ \E p \in Prices : Charged(d, p)

LEMMA FinishConsensusMoves ==
    ASSUME IInv, NEW d \in Devices, NEW t \in Tasks, NEW h \in Hashes, NEW g \in Hashes, NEW ps,
           Recorded(t, ps), status[t] \in Unfinished, Agreed(ps, g),
           FinishConsensus(d, t, h, ps, g), UNCHANGED moneyVars
    PROVE  MoneyMove
<1>1. CASE UNCHANGED rewards
  BY <1>1 DEF moneyVars, MoneyMove, NoMove
<1>2. CASE ~UNCHANGED rewards
  <2>1. PICK c \in Credits :
          rewards' = [rewards EXCEPT ![t] =
            [hash |-> h, credits |-> c, to |-> Matching(ps, g), settled |-> {}]]
    BY <1>2 DEF FinishConsensus, RejectAgreement, CompleteTask
  <2>2. UNCHANGED <<earnLog, ledger, supply>> /\ status[t] # "completed"
    BY DEF moneyVars, Unfinished
  <2>3. ps \in SUBSET Proof
    BY DEF Recorded
  <2>4. Entitled(t)
    BY <2>1, <2>2, <2>3 DEF Entitled
  <2> QED BY <2>4 DEF MoneyMove
<1> QED BY <1>1, <1>2

LEMMA NextMovesMoney ==
    ASSUME IInv, [Next]_vars
    PROVE  MoneyMove
<1> USE DEF taskVars, moneyVars, MoneyMove, NoMove, Settled, Granted, Charged
<1>1. ASSUME NEW d \in Devices, NEW t \in Tasks, NEW h \in Hashes, SubmitDuplicate(d, t, h)
      PROVE  MoneyMove
  <2>1. CASE UNCHANGED rewards
    BY <1>1, <2>1 DEF SubmitDuplicate
  <2>2. ASSUME NEW g \in Hashes, Agreed(proofs[t], g), FinishConsensus(d, t, h, proofs[t], g)
        PROVE  MoneyMove
    BY <1>1, <2>2, FoundIsRecorded, FinishConsensusMoves DEF SubmitDuplicate, Accepting, IInv
  <2> QED BY <1>1, <2>1, <2>2 DEF SubmitDuplicate
<1>2. ASSUME NEW d \in Devices, NEW t \in Tasks, NEW h \in Hashes, SubmitNew(d, t, h)
      PROVE  MoneyMove
  <2> DEFINE ps == WithProof(proofs[t], d, h)
  <2>1. CASE UNCHANGED rewards
    BY <1>2, <2>1 DEF SubmitNew
  <2>2. Recorded(t, ps)
    BY <1>2, InsertIsRecorded DEF SubmitNew, IInv
  <2>3. ASSUME NEW g \in Hashes, Agreed(ps, g), FinishConsensus(d, t, h, ps, g)
        PROVE  MoneyMove
    BY <1>2, <2>2, <2>3, FinishConsensusMoves DEF SubmitNew, Accepting
  <2> QED BY <1>2, <2>1, <2>3 DEF SubmitNew
<1>3. ASSUME NEW d \in Devices, NEW t \in Tasks, NEW h \in Hashes,
             SubmitReplay(d, t, h) \/ SubmitFails(d, t, h) \/ CrashAfterInsert(d, t, h)
      PROVE  MoneyMove
  BY <1>3 DEF SubmitReplay, SubmitFails, CrashAfterInsert
<1>4. ASSUME NEW d \in Devices, NEW t \in Tasks, Settle(d, t)
      PROVE  MoneyMove
  BY <1>4 DEF Settle, Abort
<1>5. ASSUME NEW d \in Devices, NEW t \in Tasks, Earn(d, t)
      PROVE  MoneyMove
  BY <1>5 DEF Earn, Abort
<1>6. ASSUME NEW d \in Devices, NEW p \in Prices, Spend(d, p)
      PROVE  MoneyMove
  BY <1>6 DEF Spend, Abort
<1>7. ASSUME NEW d \in Devices, NEW t \in Tasks, SubmitLate(d, t)
      PROVE  MoneyMove
  BY <1>7 DEF SubmitLate
<1>8. CASE Replenish
  BY <1>8 DEF Replenish
<1>9. ASSUME NEW t \in Tasks, CreateTask(t) \/ Tick(t)
      PROVE  MoneyMove
  BY <1>9 DEF CreateTask, Tick
<1>10. CASE ListOpenTasks \/ Maintenance \/ Crash \/ Boot \/ BootServe \/ UNCHANGED vars
  BY <1>10 DEF ListOpenTasks, Maintenance, SweepReap, SweepPreseed, SweepRead, CleanProofs, Crash, Boot,
               BootServe, vars
<1>11. ASSUME NEW t \in Tasks, BootFinish(t)
       PROVE  MoneyMove
  <2>1. CASE UNCHANGED rewards
    BY <1>11, <2>1 DEF BootFinish
  <2>2. CASE ~UNCHANGED rewards
    <3>1. PICK c \in Credits :
            rewards' = [rewards EXCEPT ![t] = [hash |-> Expected, credits |-> c,
                          to |-> Matching(proofs[t], Expected), settled |-> {}]]
      BY <1>11, <2>2 DEF BootFinish
    <3>2. UNCHANGED <<earnLog, ledger, supply>> /\ status[t] # "completed" /\ Agreed(proofs[t], Expected)
      BY <1>11, <2>2 DEF BootFinish, Finishable
    <3>3. Recorded(t, proofs[t])
      BY <1>11, <2>2, FoundIsRecorded DEF BootFinish, IInv
    <3>4. proofs[t] \in SUBSET Proof /\ Expected \in Hashes
      BY <3>3, ConstantsAssumption DEF Recorded
    <3>5. Entitled(t)
      BY <3>1, <3>2, <3>3, <3>4, Zenon DEF Entitled
    <3> QED BY <3>5
  <2> QED BY <2>1, <2>2
<1>12. ASSUME NEW t \in Tasks, BootSettle(t)
       PROVE  MoneyMove
  BY <1>12 DEF BootSettle
<1> QED BY <1>1, <1>2, <1>3, <1>4, <1>5, <1>6, <1>7, <1>8, <1>9, <1>10, <1>11, <1>12
       DEF Next, Handler, Startup

-----------------------------------------------------------------------------
(* The refinement. *)

BankStep == [Bank!BankNext]_(Bank!bankVars)

\* The instance of CreditBank counts as this module does.
LEMMA BankCounts == \A S : Bank!Cardinality(S) = Cardinality(S)
BY Zenon DEF Bank!Cardinality, Cardinality

LEMMA NoBankMove ==
    ASSUME UNCHANGED <<rewards, ledger, supply>>
    PROVE  BankStep
BY DEF BankStep, Bank!bankVars

LEMMA EntitleStep ==
    ASSUME IInv, NEW t \in Tasks, status[t] # "completed",
           NEW h \in Hashes, NEW c \in Credits, NEW ps, Recorded(t, ps), NEW g \in Hashes, Agreed(ps, g),
           rewards' = [rewards EXCEPT ![t] =
             [hash |-> h, credits |-> c, to |-> Matching(ps, g), settled |-> {}]],
           UNCHANGED <<ledger, supply>>
    PROVE  BankStep
<1> DEFINE S == Matching(ps, g)
           r == [hash |-> h, credits |-> c, to |-> S, settled |-> {}]
<1>1. rewards[t].to = {} /\ rewards[t].settled = {}
  BY DEF IInv, StoreInv, OutcomesKnown, ClaimInv, SettledExactlyOnce
<1>2. S \in SUBSET Devices /\ Cardinality(S) >= Threshold
  BY GroupSize, QuorumHasMembers DEF Recorded, Agreed
<1>3. rewards \in [Tasks -> Reward] /\ rewards'[t] = r
  BY DEF IInv, ClaimInv
<1> DEFINE owed == [u \in Tasks |-> [to |-> rewards[u].to, credits |-> rewards[u].credits]]
<1>4. owed[t].to = {} /\ owed' = [owed EXCEPT ![t] = [to |-> S, credits |-> c]]
  BY <1>1, <1>3
<1>5. [u \in Tasks |-> rewards'[u].settled] = [u \in Tasks |-> rewards[u].settled]
  BY <1>1, <1>3
<1>6. UNCHANGED <<[u \in Tasks |-> rewards[u].settled], [x \in Devices |-> ledger[x].balance], supply>>
  BY <1>5
<1>7. Bank!Cardinality(S) >= Threshold
  BY <1>2, BankCounts
<1> HIDE DEF S, owed
<1>8. Bank!Entitle(t)
  BY <1>2, <1>4, <1>6, <1>7, Zenon DEF Bank!Entitle, owed
<1> QED BY <1>8 DEF BankStep, Bank!BankNext

LEMMA PayStep ==
    ASSUME IInv, NEW t \in Tasks, Due(t) # {}, PayRewards(t)
    PROVE  BankStep
<1>1. /\ rewards \in [Tasks -> Reward] /\ supply \in Nat /\ MaxSupply \in Nat
      /\ Total(t) \in Nat /\ Due(t) \in SUBSET Devices
  BY DueIsFinite, ConstantsAssumption DEF IInv, ClaimInv
<1>2. /\ rewards'[t].to = rewards[t].to /\ rewards'[t].credits = rewards[t].credits
      /\ rewards'[t].settled = rewards[t].to
      /\ \A u \in Tasks \ {t} : rewards'[u] = rewards[u]
  BY <1>1 DEF PayRewards, Reward
<1>3. \A d \in Devices : ledger'[d].balance
        = IF d \in Due(t) THEN ledger[d].balance + rewards[t].credits ELSE ledger[d].balance
  BY WorkingIsRow DEF PayRewards, Publish, Override, Mint, IInv
<1>4. supply' = supply + rewards[t].credits * Cardinality(Due(t)) /\ supply' <= MaxSupply
  BY DEF PayRewards, CanSettle, Total
<1> DEFINE owed    == [u \in Tasks |-> [to |-> rewards[u].to, credits |-> rewards[u].credits]]
           settled == [u \in Tasks |-> rewards[u].settled]
           account == [d \in Devices |-> ledger[d].balance]
<1>5. owed[t].to \ settled[t] = Due(t) /\ owed[t].credits = rewards[t].credits /\ owed' = owed
  BY <1>1, <1>2 DEF Due
<1>6. settled' = [settled EXCEPT ![t] = owed[t].to]
  BY <1>2
<1>7. account' = [d \in Devices |->
                    IF d \in Due(t) THEN account[d] + owed[t].credits ELSE account[d]]
  BY <1>3
<1>8. Bank!Pay(t)
  BY <1>4, <1>5, <1>6, <1>7, BankCounts DEF Bank!Pay
<1> QED BY <1>8 DEF BankStep, Bank!BankNext

LEMMA AllowStep ==
    ASSUME IInv, NEW d \in Devices, UNCHANGED rewards, supply + Grant <= MaxSupply,
           supply' = supply + Grant,
           Publish({d}, [x \in Devices |-> Mint(Working(x), Grant)])
    PROVE  BankStep
<1>1. \A x \in Devices : ledger'[x].balance
        = IF x = d THEN ledger[d].balance + Grant ELSE ledger[x].balance
  BY WorkingIsRow DEF Publish, Override, Mint, IInv
<1>2. Bank!Allow(d)
  BY <1>1 DEF Bank!Allow
<1> QED BY <1>2 DEF BankStep, Bank!BankNext

LEMMA ChargeStep ==
    ASSUME IInv, NEW d \in Devices, NEW p \in Prices, Solvent(d, p), UNCHANGED <<rewards, supply>>,
           Publish({d}, [x \in Devices |-> Debit(Working(x), p)])
    PROVE  BankStep
<1>1. \A x \in Devices : ledger'[x].balance
        = IF x = d THEN ledger[d].balance - p ELSE ledger[x].balance
  BY WorkingIsRow DEF Publish, Override, Debit, IInv
<1>2. p <= ledger[d].balance
  BY WorkingIsRow, ConstantsAssumption DEF Solvent, IInv, Ledger
<1>3. Bank!Charge(d)
  BY <1>1, <1>2 DEF Bank!Charge
<1> QED BY <1>3 DEF BankStep, Bank!BankNext

LEMMA NextIsBankStep ==
    ASSUME IInv, [Next]_vars
    PROVE  BankStep
<1>1. CASE NoMove
  BY <1>1, NoBankMove DEF NoMove
<1>2. ASSUME NEW t \in Tasks, Entitled(t)
      PROVE  BankStep
  BY <1>2, EntitleStep DEF Entitled
<1>3. ASSUME NEW t \in Tasks, Settled(t)
      PROVE  BankStep
  BY <1>3, PayStep DEF Settled
<1>4. ASSUME NEW d \in Devices, NEW t \in Tasks, Granted(d, t)
      PROVE  BankStep
  BY <1>4, AllowStep DEF Granted
<1>5. ASSUME NEW d \in Devices, NEW p \in Prices, Charged(d, p)
      PROVE  BankStep
  BY <1>5, ChargeStep DEF Charged
<1> QED BY <1>1, <1>2, <1>3, <1>4, <1>5, NextMovesMoney DEF MoneyMove

\* The node implements the bank, for any number of devices, any quorum and
\* any pattern of failed commits and restarts.
THEOREM NodeImplementsBank == Spec => ImplementsBank
<1>1. Init => Bank!BankInit
  BY DEF Init, Bank!BankInit, Bank!Nobody, NoRewards, NewLedger
<1>2. IInv /\ [Next]_vars => [Bank!BankNext]_(Bank!bankVars)
  BY NextIsBankStep DEF BankStep
<1> QED BY <1>1, <1>2, Invariance, PTL DEF Spec, ImplementsBank, Bank!BankSpec

-----------------------------------------------------------------------------
(* The supply.  The earn log stays finite, so that a device's rewards have *)
(* a sum however many tasks there are.                                     *)

SupplyInv == IsFiniteSet(earnLog) /\ SupplyIsExplained

CreditsOf == [t \in Tasks |-> rewards[t].credits]
SettledFor(d) == {t \in Tasks : d \in rewards[t].settled}

LEMMA SettledIsFinite ==
    ASSUME IInv, IsFiniteSet(earnLog), NEW d \in Devices
    PROVE  IsFiniteSet(SettledFor(d)) /\ IsFiniteSet(Allowances(d))
<1> DEFINE third == [c \in earnLog |-> c[3]]
           image == {third[c] : c \in earnLog}
<1>1. IsFiniteSet(image)
  <2>1. third = [c \in earnLog |-> third[c]]
    OBVIOUS
  <2> HIDE DEF third
  <2> QED BY <2>1, FiniteImage
<1>2. \A t \in SettledFor(d) : <<d, "compute", t>> \in earnLog
  BY DEF SettledFor, IInv, ClaimInv, SettledExactlyOnce
<1>3. \A t \in SettledFor(d) : <<d, "compute", t>>[3] = t
  OBVIOUS
<1>4. SettledFor(d) \subseteq image
  BY <1>2, <1>3
<1>5. Allowances(d) \subseteq earnLog
  BY DEF Allowances
<1> QED BY <1>1, <1>4, <1>5, FS_Subset

LEMMA MoneyTypes ==
    ASSUME IInv
    PROVE  /\ \A d \in Devices : Minted[d] = ledger[d].minted /\ Minted[d] \in Nat
           /\ \A t \in Tasks : CreditsOf[t] = rewards[t].credits /\ CreditsOf[t] \in Nat
           /\ \A d \in Devices : Earned(d) = SumFunctionOnSet(CreditsOf, SettledFor(d))
BY Zenon DEF Minted, CreditsOf, Earned, SettledFor, IInv, AccountInv, ClaimInv, Ledger, Reward

\* What was earned stays the same while nothing more is settled.
LEMMA SameEarned ==
    ASSUME IInv, IInv', IsFiniteSet(earnLog),
           \A t \in Tasks : /\ rewards'[t].settled = rewards[t].settled
                            /\ rewards[t].settled # {} => rewards'[t].credits = rewards[t].credits
    PROVE  \A d \in Devices : Earned(d)' = Earned(d)
<1> SUFFICES ASSUME NEW d \in Devices PROVE Earned(d)' = Earned(d)
  OBVIOUS
<1> DEFINE new == CreditsOf'
           S   == SettledFor(d)
<1>1. IsFiniteSet(S)
  BY SettledIsFinite
<1>2. SettledFor(d)' = S
  BY DEF SettledFor
<1>3. \A t \in S : new[t] = CreditsOf[t]
  BY DEF CreditsOf, SettledFor
<1>4. Earned(d) = SumFunctionOnSet(CreditsOf, S)
  BY MoneyTypes
<1>5. Earned(d)' = SumFunctionOnSet(new, S)
  BY <1>2 DEF Earned, CreditsOf, SettledFor
<1> HIDE DEF new, S
<1>6. SumFunctionOnSet(CreditsOf, S) = SumFunctionOnSet(new, S)
  BY <1>1, <1>3, SumSame
<1> QED BY <1>4, <1>5, <1>6

LEMMA NoMoveSupply ==
    ASSUME IInv, IInv', SupplyInv, UNCHANGED <<earnLog, supply>>,
           \A d \in Devices : ledger'[d].minted = ledger[d].minted,
           \A t \in Tasks : /\ rewards'[t].settled = rewards[t].settled
                            /\ rewards[t].settled # {} => rewards'[t].credits = rewards[t].credits
    PROVE  SupplyInv'
<1>1. \A d \in Devices : Earned(d)' = Earned(d)
  BY SameEarned DEF SupplyInv
<1>2. Minted' = Minted
  BY DEF Minted
<1>3. \A d \in Devices : Allowances(d)' = Allowances(d)
  BY DEF Allowances
<1> QED BY <1>1, <1>2, <1>3 DEF SupplyInv, SupplyIsExplained

LEMMA EntitledSupply ==
    ASSUME IInv, IInv', SupplyInv, NEW t \in Tasks, Entitled(t)
    PROVE  SupplyInv'
<1>1. rewards[t].to = {} /\ rewards[t].settled = {}
  BY DEF Entitled, IInv, StoreInv, OutcomesKnown, ClaimInv, SettledExactlyOnce
<1>2. /\ rewards'[t].settled = {}
      /\ \A u \in Tasks \ {t} : rewards'[u] = rewards[u]
  BY DEF Entitled, IInv, ClaimInv
<1> QED BY <1>1, <1>2, NoMoveSupply DEF Entitled

LEMMA SettledSupply ==
    ASSUME IInv, IInv', SupplyInv, NEW t \in Tasks, Settled(t)
    PROVE  SupplyInv'
<1> DEFINE k == rewards[t].credits
           new == Minted'
<1>1. /\ rewards \in [Tasks -> Reward] /\ k \in Nat /\ k = CreditsOf[t]
      /\ Due(t) \in SUBSET Devices /\ IsFiniteSet(Devices) /\ IsFiniteSet(Due(t))
  BY DueIsFinite, ConstantsAssumption, FS_Subset, MoneyTypes DEF IInv, ClaimInv, Reward
<1>2. /\ rewards[t].settled = {} /\ Due(t) = rewards[t].to
      /\ rewards'[t].settled = rewards[t].to
      /\ \A u \in Tasks \ {t} : rewards'[u] = rewards[u]
  BY <1>1 DEF Settled, PayRewards, Due, IInv, ClaimInv, SettledExactlyOnce, Reward
<1>3. CreditsOf' = CreditsOf
  BY <1>1 DEF CreditsOf, Settled, PayRewards, Reward
<1>4. \A d \in Devices : new[d] = IF d \in Due(t) THEN Minted[d] + k ELSE Minted[d]
  BY WorkingIsRow DEF Settled, PayRewards, Publish, Override, Mint, IInv, Minted
<1>5. IsFiniteSet(earnLog')
  <2> DEFINE claim == [d \in Due(t) |-> <<d, "compute", t>>]
  <2>1. Claims(t) = {claim[d] : d \in Due(t)}
    BY DEF Claims
  <2>2. IsFiniteSet({claim[d] : d \in Due(t)})
    <3>1. claim = [d \in Due(t) |-> claim[d]]
      OBVIOUS
    <3> HIDE DEF claim
    <3> QED BY <1>1, <3>1, FiniteImage
  <2>3. IsFiniteSet(Claims(t))
    BY <2>1, <2>2
  <2>4. earnLog' = earnLog \cup Claims(t)
    BY DEF Settled, PayRewards
  <2> QED BY <2>3, <2>4, FS_Union DEF SupplyInv
<1>6. ASSUME NEW d \in Devices
      PROVE  Minted'[d] = Earned(d)' + Grant * Cardinality(Allowances(d)')
  <2>1. Allowances(d)' = Allowances(d)
    BY DEF Settled, PayRewards, Allowances, Claims
  <2>2. Earned(d) \in Nat /\ IsFiniteSet(SettledFor(d))
    <3>1. IsFiniteSet(SettledFor(d)) /\ \A u \in SettledFor(d) : CreditsOf[u] \in Nat
      BY SettledIsFinite, MoneyTypes DEF SupplyInv, SettledFor
    <3>2. SumFunctionOnSet(CreditsOf, SettledFor(d)) \in Nat
      BY <3>1, SumType
    <3> QED BY <3>1, <3>2, MoneyTypes
  <2>3. Earned(d)' = SumFunctionOnSet(CreditsOf, SettledFor(d)')
    BY <1>3 DEF Earned, CreditsOf, SettledFor
  <2>4. CASE d \in Due(t)
    <3>1. SettledFor(d)' = SettledFor(d) \cup {t} /\ t \notin SettledFor(d)
      BY <1>2, <2>4 DEF SettledFor
    <3>2. PICK S : S = SettledFor(d)'
      OBVIOUS
    <3>3. /\ IsFiniteSet(S) /\ t \in S /\ S \ {t} = SettledFor(d)
          /\ \A u \in S : CreditsOf[u] \in Nat
      <4>1. S = SettledFor(d) \cup {t}
        BY <3>1, <3>2
      <4> QED BY <2>2, <3>1, <4>1, FS_AddElement, MoneyTypes DEF SettledFor
    <3>4. SumFunctionOnSet(CreditsOf, S) = CreditsOf[t] + SumFunctionOnSet(CreditsOf, S \ {t})
      BY <3>3, SumElement
    <3>5. Earned(d)' = k + Earned(d)
      BY <1>1, <2>3, <3>2, <3>3, <3>4, MoneyTypes
    <3>6. Minted'[d] = Minted[d] + k
      BY <1>4, <2>4
    <3>7. Minted[d] = Earned(d) + Grant * Cardinality(Allowances(d))
      BY DEF SupplyInv, SupplyIsExplained
    <3>8. Grant * Cardinality(Allowances(d)) \in Nat
      BY SettledIsFinite, FS_CardinalityType, ConstantsAssumption DEF SupplyInv
    <3> QED BY <1>1, <2>1, <2>2, <3>5, <3>6, <3>7, <3>8
  <2>5. CASE d \notin Due(t)
    <3>1. SettledFor(d)' = SettledFor(d)
      BY <1>2, <2>5 DEF SettledFor
    <3> QED BY <1>4, <2>1, <2>3, <2>5, <3>1, MoneyTypes DEF SupplyInv, SupplyIsExplained
  <2> QED BY <2>4, <2>5
<1>7. SumFunctionOnSet(new, Devices) = SumFunctionOnSet(Minted, Devices) + k * Cardinality(Due(t))
  <2> HIDE DEF new, k
  <2> QED BY <1>1, <1>4, MoneyTypes, SumShift
<1>8. supply' = supply + k * Cardinality(Due(t)) /\ supply' <= MaxSupply
  BY DEF Settled, PayRewards, CanSettle, Total
<1> QED BY <1>5, <1>6, <1>7, <1>8 DEF SupplyInv, SupplyIsExplained

LEMMA GrantedSupply ==
    ASSUME IInv, IInv', SupplyInv, NEW d \in Devices, NEW t \in Tasks, Granted(d, t)
    PROVE  SupplyInv'
<1> DEFINE claim == <<d, "task", t>>
           new == Minted'
<1>1. IsFiniteSet(earnLog')
  BY FS_AddElement DEF Granted, SupplyInv
<1>2. \A e \in Devices : Earned(e)' = Earned(e)
  BY SameEarned DEF Granted, SupplyInv
<1>3. \A e \in Devices : new[e] = IF e = d THEN Minted[e] + Grant ELSE Minted[e]
  BY WorkingIsRow DEF Granted, Publish, Override, Mint, IInv, Minted
<1>4. \A e \in Devices : Allowances(e)' = IF e = d THEN Allowances(e) \cup {claim} ELSE Allowances(e)
  BY DEF Granted, Allowances
<1>5. ASSUME NEW e \in Devices
      PROVE  Minted'[e] = Earned(e)' + Grant * Cardinality(Allowances(e)')
  <2>1. /\ IsFiniteSet(Allowances(e)) /\ Cardinality(Allowances(e)) \in Nat
        /\ Minted[e] = Earned(e) + Grant * Cardinality(Allowances(e))
    BY SettledIsFinite, FS_CardinalityType DEF SupplyInv, SupplyIsExplained
  <2>2. Earned(e) \in Nat
    <3>1. IsFiniteSet(SettledFor(e)) /\ \A u \in SettledFor(e) : CreditsOf[u] \in Nat
      BY SettledIsFinite, MoneyTypes DEF SupplyInv, SettledFor
    <3>2. SumFunctionOnSet(CreditsOf, SettledFor(e)) \in Nat
      BY <3>1, SumType
    <3> QED BY <3>2, MoneyTypes
  <2>3. CASE e = d
    <3>1. claim \notin Allowances(e) /\ Allowances(e)' = Allowances(e) \cup {claim}
      BY <1>4, <2>3 DEF Granted, Allowances
    <3>2. Cardinality(Allowances(e)') = Cardinality(Allowances(e)) + 1
      BY <2>1, <3>1, FS_AddElement
    <3>3. PICK n \in Nat : n = Cardinality(Allowances(e))
      BY <2>1
    <3>4. Grant * (n + 1) = Grant * n + Grant /\ Grant * n \in Nat /\ Grant \in Nat
      BY ConstantsAssumption
    <3> QED BY <1>2, <1>3, <2>1, <2>2, <2>3, <3>2, <3>3, <3>4
  <2>4. CASE e # d
    BY <1>2, <1>3, <1>4, <2>1, <2>4
  <2> QED BY <2>3, <2>4
<1>6. SumFunctionOnSet(new, Devices) = SumFunctionOnSet(Minted, Devices) + Grant
  <2>1. IsFiniteSet(Devices) /\ Grant \in Nat
    BY ConstantsAssumption
  <2>2. new[d] = Minted[d] + Grant /\ \A e \in Devices \ {d} : new[e] = Minted[e]
    BY <1>3
  <2> HIDE DEF new
  <2> QED BY <2>1, <2>2, MoneyTypes, SumAdd
<1> QED BY <1>1, <1>5, <1>6 DEF Granted, SupplyInv, SupplyIsExplained

LEMMA ChargedSupply ==
    ASSUME IInv, IInv', SupplyInv, NEW d \in Devices, NEW p \in Prices, Charged(d, p)
    PROVE  SupplyInv'
<1>1. \A e \in Devices : ledger'[e].minted = ledger[e].minted
  BY WorkingIsRow DEF Charged, Publish, Override, Debit, IInv
<1> QED BY <1>1, NoMoveSupply DEF Charged

LEMMA NextKeepsSupply ==
    ASSUME IInv, IInv', SupplyInv, [Next]_vars
    PROVE  SupplyInv'
<1>1. CASE NoMove
  BY <1>1, NoMoveSupply DEF NoMove
<1> QED BY <1>1, EntitledSupply, SettledSupply, GrantedSupply, ChargedSupply, NextMovesMoney
        DEF MoneyMove

LEMMA InitSupply ==
    ASSUME Init, IInv
    PROVE  SupplyInv
<1>1. \A d \in Devices : Minted[d] = 0 /\ SettledFor(d) = {} /\ Allowances(d) = {}
  BY DEF Init, Minted, NewLedger, SettledFor, NoRewards, Allowances
<1>2. \A d \in Devices : Earned(d) = 0
  BY <1>1, MoneyTypes, SumEmpty
<1>3. SumFunctionOnSet(Minted, Devices) = SumFunctionOnSet(Minted, {})
  <2>1. IsFiniteSet(Devices) /\ {} \in SUBSET Devices /\ \A d \in Devices \ {} : Minted[d] = 0
    BY <1>1, ConstantsAssumption
  <2> QED BY <2>1, MoneyTypes, SumSubset
<1>4. SumFunctionOnSet(Minted, Devices) = 0
  BY <1>3, SumEmpty
<1>5. Cardinality({}) = 0 /\ IsFiniteSet({})
  BY FS_EmptySet
<1>6. \A d \in Devices : Minted[d] = Earned(d) + Grant * Cardinality(Allowances(d))
  BY <1>1, <1>2, <1>5, ConstantsAssumption
<1> QED BY <1>4, <1>5, <1>6, ConstantsAssumption DEF Init, SupplyInv, SupplyIsExplained

\* Every credit in existence was granted by a settled reward or an allowance,
\* the supply counter counts exactly these and never passes the cap.
THEOREM SupplyExplained == Spec => []SupplyIsExplained
<1>1. Init /\ IInv => SupplyInv
  BY InitSupply
<1>2. IInv /\ IInv' /\ SupplyInv /\ [Next]_vars => SupplyInv'
  BY NextKeepsSupply
<1>3. SupplyInv => SupplyIsExplained
  BY DEF SupplyInv
<1> QED BY <1>1, <1>2, <1>3, Invariance, PTL DEF Spec

\* Both at once: balances can be spent, and all credits and the supply counter
\* are explained.
THEOREM AccountsSound == Spec => []AccountsAreSound
<1>1. BalanceIsSpendable /\ SupplyIsExplained => AccountsAreSound
  BY DEF AccountsAreSound
<1> QED BY <1>1, AccountsSpendable, SupplyExplained, PTL

-----------------------------------------------------------------------------
(* Why every reward is earned as long as the commits that close a task do  *)
(* not fail: outside of a restart the verifier never holds a quorum        *)
(* between two requests, because the request whose proof completes one     *)
(* decides the task at once.  So the hash the handler compares with the    *)
(* specification is the hash of the agreeing group.                        *)

OutcomeCommitsSucceed == "fail" \notin Faults /\ "finish" \notin Faults

NoQuorumWaits ==
    /\ mode # "recovering" =>
         \A t \in Tasks, h \in Hashes : Cardinality(Group(proofs[t], h)) < Threshold
    /\ mode = "recovering" =>
         \A t \in Tasks : /\ \A p \in proofs[t] : p.hash = Expected
                          /\ proofs[t] # {} => status[t] = "verifying"

SavedRowsKept ==
    \A t \in Tasks, d \in Devices :
      savedResults[t][d] # NoResult => savedResults'[t][d] = savedResults[t][d]

QuorumInv == NoQuorumWaits /\ EveryRewardIsEarned

-----------------------------------------------------------------------------

LEMMA GroupCount ==
    ASSUME StoreInv, NEW t \in Tasks, NEW h \in Hashes
    PROVE  IsFiniteSet(Group(proofs[t], h)) /\ Cardinality(Group(proofs[t], h)) \in Nat
BY KnownProofs, GroupSize

LEMMA EmptyGroup ==
    ASSUME NEW h
    PROVE  Cardinality(Group({}, h)) < Threshold
<1>1. Group({}, h) = {}
  BY DEF Group
<1> QED BY <1>1, FS_EmptySet, ConstantsAssumption

\* Proofs only disappear.
LEMMA FewerProofsStep ==
    ASSUME StoreInv, NoQuorumWaits, mode' = mode, mode = "recovering" => status' = status,
           \A t \in Tasks : proofs'[t] \subseteq proofs[t]
    PROVE  NoQuorumWaits'
<1>1. ASSUME NEW t \in Tasks, NEW h \in Hashes, mode # "recovering"
      PROVE  Cardinality(Group(proofs'[t], h)) < Threshold
  <2>1. Group(proofs'[t], h) \in SUBSET Group(proofs[t], h)
    BY DEF Group
  <2>2. /\ Cardinality(Group(proofs'[t], h)) <= Cardinality(Group(proofs[t], h))
        /\ Cardinality(Group(proofs'[t], h)) \in Nat
    BY <2>1, GroupCount, FS_Subset, FS_CardinalityType
  <2> QED BY <1>1, <2>2, GroupCount, ConstantsAssumption DEF NoQuorumWaits
<1> QED BY <1>1 DEF NoQuorumWaits

LEMMA LossStep ==
    ASSUME LoseMemory
    PROVE  NoQuorumWaits'
BY EmptyGroup DEF LoseMemory, NoQuorumWaits

\* Rows that were committed stay as they are.
LEMMA SavedRowsStep ==
    ASSUME StoreInv, savedResults' = savedResults \/ savedResults' = results
    PROVE  SavedRowsKept
BY DEF StoreInv, RowsKept, SavedRowsKept

LEMMA InsertedRowsStep ==
    ASSUME StoreInv, NEW d \in Devices, NEW t \in Tasks, NEW h \in Hashes,
           FirstReport(d, t), savedResults' = Insert(d, t, h)
    PROVE  SavedRowsKept
BY DEF StoreInv, StoreTypes, RowsKept, SavedRowsKept, FirstReport, Insert

\* Earned rewards stay earned, and a new one must be.
LEMMA EarnedStep ==
    ASSUME IInv, IInv', EveryRewardIsEarned, SavedRowsKept,
           \A t \in Tasks :
             \/ rewards'[t].to = rewards[t].to
             \/ /\ Cardinality(rewards'[t].to) >= Threshold
                /\ \A d \in rewards'[t].to : savedResults'[t][d] = Expected
    PROVE  EveryRewardIsEarned'
<1>1. \A t \in Tasks : savedStatus'[t] = "completed" <=> rewards'[t].to # {}
  BY DEF IInv, StoreInv, OutcomesKnown, Finished
<1>2. \A t \in Tasks : rewards[t].to \subseteq Devices
  BY DEF IInv, ClaimInv, Reward
<1>3. \A t \in Tasks : \A d \in rewards[t].to : savedResults'[t][d] = Expected
  BY <1>2, ConstantsAssumption DEF EveryRewardIsEarned, SavedRowsKept
<1> QED BY <1>1, <1>3 DEF EveryRewardIsEarned

\* The only group that can reach the quorum is the one of the new proof.
LEMMA NewProofDecides ==
    ASSUME IInv, NoQuorumWaits, mode = "serving",
           NEW d \in Devices, NEW t \in Tasks, NEW h \in Hashes,
           Recorded(t, WithProof(proofs[t], d, h))
    PROVE  /\ \A g \in Hashes : Agreed(WithProof(proofs[t], d, h), g) => g = h
           /\ (\A g \in Hashes : ~Agreed(WithProof(proofs[t], d, h), g)) =>
                \A g \in Hashes : Cardinality(Group(WithProof(proofs[t], d, h), g)) < Threshold
<1> DEFINE ps == WithProof(proofs[t], d, h)
<1>1. \A g \in Hashes \ {h} : Group(ps, g) = Group(proofs[t], g)
  BY DEF WithProof, Group
<1>2. \A g \in Hashes \ {h} : Cardinality(Group(ps, g)) < Threshold
  BY <1>1 DEF NoQuorumWaits
<1>3. \A g \in Hashes : Cardinality(Group(ps, g)) \in Nat
  BY GroupSize DEF Recorded
<1>4. \A g \in Hashes : Agreed(ps, g) => g = h
  BY <1>2, <1>3, ConstantsAssumption DEF Agreed
<1>5. Cardinality(Group(ps, h)) >= Threshold => Agreed(ps, h)
  BY <1>2, <1>3, ConstantsAssumption DEF Agreed
<1>6. ASSUME \A g \in Hashes : ~Agreed(ps, g), NEW g \in Hashes
      PROVE  Cardinality(Group(ps, g)) < Threshold
  <2>1. ~(Cardinality(Group(ps, h)) >= Threshold)
    BY <1>5, <1>6
  <2> HIDE DEF ps
  <2> QED BY <1>2, <1>3, <2>1, ConstantsAssumption
<1> QED BY <1>4, <1>6

LEMMA SubmitNewQuorum ==
    ASSUME OutcomeCommitsSucceed, IInv, IInv', QuorumInv,
           NEW d \in Devices, NEW t \in Tasks, NEW h \in Hashes, SubmitNew(d, t, h)
    PROVE  QuorumInv'
<1> DEFINE ps == WithProof(proofs[t], d, h)
<1>1. Recorded(t, ps)
  BY InsertIsRecorded DEF SubmitNew, IInv
<1>2. mode = "serving" /\ mode' = "serving"
  BY DEF SubmitNew, Accepting
<1>3. /\ \A g \in Hashes : Agreed(ps, g) => g = h
      /\ (\A g \in Hashes : ~Agreed(ps, g)) =>
           \A g \in Hashes : Cardinality(Group(ps, g)) < Threshold
  BY <1>1, <1>2, NewProofDecides DEF QuorumInv
<1>4. savedResults' = results' /\ results' = Insert(d, t, h) /\ FirstReport(d, t)
  BY DEF SubmitNew, FinishConsensus, CompleteTask, RejectAgreement, Commit
<1>5. SavedRowsKept
  BY <1>4, InsertedRowsStep DEF IInv
<1>6. /\ proofs \in [Tasks -> SUBSET Proof] /\ rewards \in [Tasks -> Reward]
  BY DEF IInv, StoreInv, StoreTypes, ClaimInv
<1>7. CASE proofs' = [proofs EXCEPT ![t] = {}]
  <2>1. NoQuorumWaits'
    BY <1>2, <1>6, <1>7, FewerProofsStep DEF QuorumInv, IInv
  <2>2. \/ UNCHANGED rewards
        \/ \E c \in Credits :
             h = Expected /\ Agreed(ps, h)
             /\ rewards' = [rewards EXCEPT ![t] =
                  [hash |-> h, credits |-> c, to |-> Matching(ps, h), settled |-> {}]]
    BY <1>3 DEF SubmitNew, FinishConsensus, CompleteTask, RejectAgreement
  <2>3. CASE UNCHANGED rewards
    BY <1>5, <2>1, <2>3, EarnedStep DEF QuorumInv
  <2>4. ASSUME NEW c \in Credits, h = Expected, Agreed(ps, h),
               rewards' = [rewards EXCEPT ![t] =
                  [hash |-> h, credits |-> c, to |-> Matching(ps, h), settled |-> {}]]
        PROVE  QuorumInv'
    <3>1. rewards'[t].to = Matching(ps, h) /\ \A u \in Tasks \ {t} : rewards'[u] = rewards[u]
      BY <1>6, <2>4
    <3>2. Cardinality(Matching(ps, h)) >= Threshold
      BY <1>1, <2>4, GroupSize DEF Recorded, Agreed
    <3>3. \A x \in Matching(ps, h) : savedResults'[t][x] = Expected
      BY <1>1, <1>4, <2>4 DEF Recorded, Matching, Group
    <3> QED BY <1>5, <2>1, <3>1, <3>2, <3>3, EarnedStep DEF QuorumInv
  <2> QED BY <2>2, <2>3, <2>4
<1>8. CASE /\ \A g \in Hashes : ~Agreed(ps, g)
           /\ proofs' = [proofs EXCEPT ![t] = ps] /\ UNCHANGED rewards
  <2>1. proofs'[t] = ps /\ \A u \in Tasks \ {t} : proofs'[u] = proofs[u]
    BY <1>6, <1>8
  <2>2. NoQuorumWaits'
    BY <1>2, <1>3, <1>8, <2>1 DEF QuorumInv, NoQuorumWaits
  <2> QED BY <1>5, <1>8, <2>2, EarnedStep DEF QuorumInv
<1> QED BY <1>7, <1>8 DEF SubmitNew, FinishConsensus, CompleteTask, RejectAgreement,
           OutcomeCommitsSucceed, CanFail

LEMMA SubmitDuplicateQuorum ==
    ASSUME IInv, IInv', QuorumInv,
           NEW d \in Devices, NEW t \in Tasks, NEW h \in Hashes, SubmitDuplicate(d, t, h)
    PROVE  QuorumInv'
<1>1. \A g \in Hashes : ~Agreed(proofs[t], g)
  BY GroupCount, ConstantsAssumption
     DEF Agreed, QuorumInv, NoQuorumWaits, SubmitDuplicate, Accepting, IInv
<1>2. UNCHANGED <<mode, status, proofs, rewards>> /\ savedResults' = results
  BY <1>1 DEF SubmitDuplicate, Commit
<1>3. SavedRowsKept
  BY <1>2, SavedRowsStep DEF IInv
<1>4. NoQuorumWaits'
  BY <1>2, FewerProofsStep DEF QuorumInv, IInv
<1> QED BY <1>2, <1>3, <1>4, EarnedStep DEF QuorumInv

LEMMA BootQuorum ==
    ASSUME IInv, IInv', QuorumInv, Boot
    PROVE  QuorumInv'
<1> USE DEF Boot
<1>1. \A t \in Tasks : proofs'[t] = RebuildProofs(t)
  OBVIOUS
<1>2. \A t \in Tasks : \A p \in RebuildProofs(t) : p.hash = Expected
  BY DEF RebuildProofs
<1>3. \A t \in Tasks : RebuildProofs(t) # {} => status[t] = "verifying"
  BY ConstantsAssumption DEF RebuildProofs, Unfinished, IInv, StoreInv, NoRowsBeforeVerifying
<1>4. NoQuorumWaits'
  BY <1>1, <1>2, <1>3 DEF NoQuorumWaits
<1>5. SavedRowsKept
  BY SavedRowsStep DEF IInv
<1> QED BY <1>4, <1>5, EarnedStep DEF QuorumInv

LEMMA BootFinishQuorum ==
    ASSUME OutcomeCommitsSucceed, IInv, IInv', QuorumInv, NEW t \in Tasks, BootFinish(t)
    PROVE  QuorumInv'
<1>1. PICK c \in Credits :
        rewards' = [rewards EXCEPT ![t] = [hash |-> Expected, credits |-> c,
                      to |-> Matching(proofs[t], Expected), settled |-> {}]]
  BY DEF BootFinish, OutcomeCommitsSucceed, CanFail
<1>2. /\ proofs' = [proofs EXCEPT ![t] = {}] /\ status' = [status EXCEPT ![t] = "completed"]
      /\ savedResults' = results /\ UNCHANGED mode /\ mode = "recovering"
      /\ Agreed(proofs[t], Expected)
  BY DEF BootFinish, Finishable, Commit, OutcomeCommitsSucceed, CanFail
<1>3. /\ proofs \in [Tasks -> SUBSET Proof] /\ rewards \in [Tasks -> Reward]
      /\ status \in [Tasks -> Statuses]
  BY DEF IInv, StoreInv, StoreTypes, ClaimInv
<1>4. NoQuorumWaits'
  BY <1>2, <1>3 DEF QuorumInv, NoQuorumWaits
<1>5. SavedRowsKept
  BY <1>2, SavedRowsStep DEF IInv
<1>6. /\ rewards'[t].to = Matching(proofs[t], Expected)
      /\ \A u \in Tasks \ {t} : rewards'[u] = rewards[u]
  BY <1>1, <1>3
<1>7. /\ proofs[t] \in SUBSET Proof
      /\ \A p \in proofs[t] : p.n = 0 /\ results[t][p.device] = p.hash
  BY KnownProofs DEF IInv
<1>8. Cardinality(Matching(proofs[t], Expected)) >= Threshold
  BY <1>2, <1>7, GroupSize, ConstantsAssumption DEF Agreed
<1>9. \A x \in Matching(proofs[t], Expected) : savedResults'[t][x] = Expected
  BY <1>2, <1>7 DEF Matching, Group
<1> QED BY <1>4, <1>5, <1>6, <1>8, <1>9, EarnedStep DEF QuorumInv

LEMMA BootServeQuorum ==
    ASSUME IInv, IInv', QuorumInv, BootServe
    PROVE  QuorumInv'
<1> USE DEF BootServe
<1>1. ASSUME NEW t \in Tasks, NEW h \in Hashes
      PROVE  Cardinality(Group(proofs[t], h)) < Threshold
  <2>1. CASE proofs[t] = {}
    BY <2>1, EmptyGroup
  <2>2. CASE proofs[t] # {} /\ h # Expected
    <3>1. Group(proofs[t], h) = Group({}, h)
      BY <2>2 DEF Group, QuorumInv, NoQuorumWaits
    <3> QED BY <3>1, EmptyGroup
  <2>3. CASE proofs[t] # {} /\ h = Expected
    <3>1. \A g \in Hashes \ {Expected} : Group(proofs[t], g) = Group({}, g)
      BY <2>3 DEF Group, QuorumInv, NoQuorumWaits
    <3>2. ~Agreed(proofs[t], Expected)
      BY <2>3 DEF QuorumInv, NoQuorumWaits, Finishable
    <3>3. \A g \in Hashes : Cardinality(Group(proofs[t], g)) \in Nat
      BY GroupCount DEF IInv
    <3>4. \A g \in Hashes \ {Expected} : Cardinality(Group(proofs[t], g)) < Threshold
      BY <3>1, EmptyGroup
    <3> QED BY <2>3, <3>2, <3>3, <3>4, ConstantsAssumption DEF Agreed
  <2> QED BY <2>1, <2>2, <2>3
<1>2. NoQuorumWaits'
  BY <1>1 DEF NoQuorumWaits
<1>3. SavedRowsKept
  BY SavedRowsStep DEF IInv, Preseed, Commit
<1> QED BY <1>2, <1>3, EarnedStep DEF QuorumInv

\* Steps that add no row to the database, no proof and no reward.
LEMMA OtherQuorum ==
    ASSUME IInv, IInv', QuorumInv,
           savedResults' = savedResults \/ savedResults' = results,
           mode' = mode, mode = "recovering" => status' = status,
           \A t \in Tasks : proofs'[t] \subseteq proofs[t] /\ rewards'[t].to = rewards[t].to
    PROVE  QuorumInv'
<1>1. NoQuorumWaits'
  BY FewerProofsStep DEF QuorumInv, IInv
<1>2. SavedRowsKept
  BY SavedRowsStep DEF IInv
<1> QED BY <1>1, <1>2, EarnedStep DEF QuorumInv

LEMMA StopQuorum ==
    ASSUME IInv, IInv', QuorumInv, LoseMemory, SavedRowsKept, UNCHANGED rewards
    PROVE  QuorumInv'
BY LossStep, EarnedStep DEF QuorumInv

LEMMA NextQuorum ==
    ASSUME OutcomeCommitsSucceed, IInv, IInv', QuorumInv, [Next]_vars
    PROVE  QuorumInv'
<1> USE DEF taskVars
<1>1. ASSUME NEW d \in Devices, NEW t \in Tasks, NEW h \in Hashes,
             SubmitNew(d, t, h) \/ SubmitDuplicate(d, t, h)
      PROVE  QuorumInv'
  BY <1>1, SubmitNewQuorum, SubmitDuplicateQuorum
<1>2. ASSUME NEW d \in Devices, NEW t \in Tasks, NEW h \in Hashes,
             SubmitReplay(d, t, h) \/ SubmitFails(d, t, h)
      PROVE  QuorumInv'
  BY <1>2, OtherQuorum DEF SubmitReplay, SubmitFails, Accepting, Commit, Rollback
<1>3. ASSUME NEW d \in Devices, NEW t \in Tasks, NEW h \in Hashes, CrashAfterInsert(d, t, h)
      PROVE  QuorumInv'
  BY <1>3, InsertedRowsStep, StopQuorum DEF CrashAfterInsert, Commit, IInv
<1>4. ASSUME NEW d \in Devices, NEW t \in Tasks, Settle(d, t)
      PROVE  QuorumInv'
  <2>1. mode = "serving"
    BY <1>4 DEF Settle, IInv, ThreadInv
  <2>2. \A u \in Tasks : rewards'[u].to = rewards[u].to
    BY <1>4 DEF Settle, PayRewards, Abort, IInv, ClaimInv, Reward
  <2> QED BY <1>4, <2>1, <2>2, OtherQuorum DEF Settle, PayRewards, Publish, Abort, Rollback, Commit
<1>5. ASSUME NEW d \in Devices, NEW t \in Tasks, Earn(d, t)
      PROVE  QuorumInv'
  BY <1>5, OtherQuorum DEF Earn, Publish, Abort, Rollback, Commit
<1>6. ASSUME NEW d \in Devices, NEW p \in Prices, Spend(d, p)
      PROVE  QuorumInv'
  BY <1>6, OtherQuorum DEF Spend, Publish, Abort, Rollback, Commit
<1>7. CASE Replenish
  <2>1. mode = "serving"
    BY <1>7 DEF Replenish, IInv, ThreadInv
  <2> QED BY <1>7, <2>1, OtherQuorum DEF Replenish, Preseed, ReapFails, Rollback, Commit
<1>8. ASSUME NEW t \in Tasks, CreateTask(t) \/ Tick(t)
      PROVE  QuorumInv'
  BY <1>8, OtherQuorum DEF CreateTask, Tick, Commit, Rollback
<1>9. CASE ListOpenTasks \/ SweepReap \/ SweepPreseed
  BY <1>9, OtherQuorum DEF ListOpenTasks, SweepReap, SweepPreseed, Cleaner, Preseed, ReapFails, Rollback, Commit
<1>10. CASE SweepRead \/ CleanProofs
  BY <1>10, OtherQuorum DEF SweepRead, CleanProofs, Cleaner
<1>11. CASE Crash
  BY <1>11, SavedRowsStep, StopQuorum DEF Crash, Rollback, IInv
<1>12. CASE Boot \/ BootServe
  BY <1>12, BootQuorum, BootServeQuorum
<1>13. ASSUME NEW t \in Tasks, BootFinish(t)
       PROVE  QuorumInv'
  BY <1>13, BootFinishQuorum
<1>14. ASSUME NEW t \in Tasks, BootSettle(t)
       PROVE  QuorumInv'
  <2>1. CASE LoseMemory /\ Rollback /\ UNCHANGED rewards
    BY <2>1, SavedRowsStep, StopQuorum DEF Rollback, IInv
  <2>2. CASE PayRewards(t) /\ UNCHANGED <<mode, proofs>>
    <3>1. \A u \in Tasks : rewards'[u].to = rewards[u].to
      BY <2>2 DEF PayRewards, IInv, ClaimInv, Reward
    <3> QED BY <2>2, <3>1, OtherQuorum DEF PayRewards, Publish, Commit
  <2> QED BY <1>14, <2>1, <2>2 DEF BootSettle
<1>15. CASE UNCHANGED vars
  BY <1>15, OtherQuorum DEF vars
<1>16. ASSUME NEW d \in Devices, NEW t \in Tasks, SubmitLate(d, t)
       PROVE  QuorumInv'
  <2>1. \A u \in Tasks : proofs'[u] \subseteq proofs[u]
    BY <1>16 DEF SubmitLate, IInv, StoreInv, StoreTypes
  <2> QED BY <1>16, <2>1, OtherQuorum DEF SubmitLate, Accepting, Commit, Rollback
<1>17. ASSUME NEW d \in Devices, Handler(d)
       PROVE  QuorumInv'
  BY <1>1, <1>2, <1>3, <1>5, <1>6, <1>16, <1>17 DEF Handler
<1>18. CASE Startup
  BY <1>12, <1>13, <1>14, <1>18 DEF Startup
<1> QED BY <1>4, <1>7, <1>8, <1>9, <1>10, <1>11, <1>15, <1>17, <1>18 DEF Next, Maintenance

\* With outcome commits that succeed, a task is completed and paid only by a
\* quorum of devices that each reported the specified result themselves.
THEOREM RewardsEarned ==
    ASSUME OutcomeCommitsSucceed
    PROVE  Spec => []EveryRewardIsEarned
<1>1. Init => QuorumInv
  BY EmptyGroup DEF Init, QuorumInv, NoQuorumWaits, EveryRewardIsEarned, NoRewards
<1>2. IInv /\ IInv' /\ QuorumInv /\ [Next]_vars => QuorumInv'
  BY NextQuorum
<1>3. QuorumInv => EveryRewardIsEarned
  BY DEF QuorumInv
<1> QED BY <1>1, <1>2, <1>3, Invariance, PTL DEF Spec
=============================================================================
