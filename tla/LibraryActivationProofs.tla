----------------------- MODULE LibraryActivationProofs -----------------------
(***************************************************************************)
(* Proofs about LibraryActivation for every set of updates and any number  *)
(* of stops, failures, edits and damaged archives.  GeneralInv holds       *)
(* whenever the operator edits; QuietInv, and the two results that rest on *)
(* it, need edits not to fall between a check and the write it guards.     *)
(***************************************************************************)
EXTENDS LibraryActivation, TLAPS

Working == {"verify", "stage", "prepare", "check", "backup", "journal"}
Chosen  == Working \ {"verify"}

(* What the updater knows at each of its steps. *)
StepInv ==
    /\ pc \in Working \cup TryBlock => job \in Updates
    /\ pc \in Working => journal = NoFile
    /\ pc \in Chosen => job.revision > accepted.revision /\ job.base = accepted.target
    /\ pc = "journal" => backup = old
    /\ pc \in TryBlock \cup {"restore", "clear"} => journal # NoFile
    /\ pc \in TryBlock => journal.old = old /\ journal.new = new /\ journal.next = job
    /\ pc \in TryBlock \ {"finish"} => accepted = journal.previous
    /\ pc = "finish" => accepted = NextState(job)
    /\ pc = "restore" => accepted = journal.previous

(* What the journal says while it exists. *)
JournalInv ==
    journal # NoFile =>
      /\ backup = journal.old
      /\ accepted \in {journal.previous, NextState(journal.next)}
      /\ journal.next.revision > journal.previous.revision
      /\ journal.next.base = journal.previous.target

(* The archives of a catalog are targets of updates up to a revision. *)
Fresh(books, revision) ==
    \A a \in books \cap Targets : \E u \in Updates : u.target = a /\ u.revision <= revision

FreshInv ==
    /\ journal = NoFile => Fresh(catalog, accepted.revision)
    /\ journal # NoFile =>
         /\ Fresh(journal.old, journal.previous.revision)
         /\ Fresh(journal.new, journal.next.revision)
         /\ Fresh(catalog, journal.next.revision)
    /\ pc = "clear" => Fresh(catalog, accepted.revision)
    /\ pc \in {"prepare", "check", "backup", "journal"} => Fresh(old, accepted.revision)
    /\ pc \in {"check", "backup", "journal"} => Fresh(new, job.revision)

(* An undisturbed catalog is the one the journal names. *)
UndisturbedInv ==
    /\ damages = 0 => store[Base] = "intact"
    /\ edits = 0 =>
         /\ journal # NoFile =>
              /\ CatalogKnown
              /\ accepted = NextState(journal.next) => catalog = journal.new
         /\ pc \in {"prepare", "backup", "journal"} => catalog = old
         /\ pc = "accept" => catalog = journal.new

GeneralInv == TypeOK /\ StepInv /\ JournalInv /\ FreshInv /\ UndisturbedInv

(* Between a check and the write it guards, the catalog stays as checked. *)
QuietInv ==
    /\ pc = "check" => new = catalog \cup {job.target}
    /\ pc \in {"backup", "journal"} => new = old \cup {job.target}
    /\ pc \in {"prepare", "check", "backup", "journal"} => old \ Extras \subseteq catalog
    /\ journal # NoFile =>
         /\ journal.new = journal.old \cup {journal.next.target}
         /\ journal.old \subseteq catalog \cup Extras
    /\ pc = "switch" => catalog = journal.old
    /\ pc = "restore" => CatalogKnown
    /\ pc = "accept" => catalog = journal.new

-----------------------------------------------------------------------------
(* Facts about the data. *)

\* What the fields of a descriptor and of the states around it are.
LEMMA Fields ==
    /\ \A u \in Updates :
         /\ u.revision \in Nat /\ u.target \in Targets /\ u.target \in Archives /\ u.target \in Books
         /\ u.target \notin Extras
         /\ NextState(u) \in States /\ NextState(u).revision = u.revision /\ NextState(u).target = u.target
         /\ NextState(u) # Bootstrap
    /\ \A s \in States : s.revision \in Nat /\ s.target \in Archives
    /\ \A j \in Journals : /\ j.old \in Catalogs /\ j.new \in Catalogs
                           /\ j.previous \in States /\ j.next \in Updates /\ j # NoFile
<1>1. ASSUME NEW u \in Updates
      PROVE  /\ u.revision \in Nat /\ u.target \in Targets /\ u.target \in Archives /\ u.target \in Books
             /\ u.target \notin Extras
             /\ NextState(u) \in States /\ NextState(u).revision = u.revision /\ NextState(u).target = u.target
             /\ NextState(u) # Bootstrap
    <2>1. u.revision \in Nat \ {0} /\ u.target \in Targets
        BY LibraryAssumption DEF LibraryAssumption, Targets
    <2>2. NextState(u).revision # Bootstrap.revision
        BY <2>1 DEF NextState, Bootstrap
    <2> QED BY <2>1, <2>2, LibraryAssumption DEF LibraryAssumption, Archives, Books, NextState, States
<1>2. ASSUME NEW s \in States PROVE s.revision \in Nat /\ s.target \in Archives
    <2>1. CASE s = Bootstrap BY <2>1 DEF Bootstrap, Archives
    <2>2. CASE s # Bootstrap
        <3>1. PICK u \in Updates : s = NextState(u) BY <2>2 DEF States, NextState
        <3> QED BY <3>1, <1>1
    <2> QED BY <2>1, <2>2
<1>3. \A j \in Journals : /\ j.old \in Catalogs /\ j.new \in Catalogs
                         /\ j.previous \in States /\ j.next \in Updates /\ j # NoFile
    BY LibraryAssumption DEF LibraryAssumption, Journals
<1> QED BY <1>1, <1>2, <1>3

\* A state and its successor have different revisions, so they differ.
LEMMA NewStateDiffers ==
    ASSUME NEW s \in States, NEW u \in Updates, u.revision > s.revision
    PROVE  NextState(u) # s
BY Fields

\* The record WriteJournal writes is a journal.
LEMMA JournalBuilt ==
    ASSUME NEW o \in Catalogs, NEW n \in Catalogs, NEW s \in States, NEW u \in Updates
    PROVE  /\ [old |-> o, new |-> n, previous |-> s, next |-> u] \in Journals
           /\ [old |-> o, new |-> n, previous |-> s, next |-> u] # NoFile
BY LibraryAssumption DEF LibraryAssumption, Journals

-----------------------------------------------------------------------------
(* Types. *)

LEMMA InitType == Init => TypeOK
<1> SUFFICES ASSUME Init PROVE TypeOK
    OBVIOUS
<1>1. accepted \in States /\ catalog \in Catalogs /\ {} \in Catalogs
    BY DEF Init, States, Catalogs, Books, Archives
<1>2. store \in [Archives -> {"absent", "intact", "damaged"}]
    BY DEF Init
<1> QED BY <1>1, <1>2 DEF Init, TypeOK, Steps

LEMMA NextType == TypeOK /\ StepInv /\ JournalInv /\ [Next]_vars => TypeOK'
<1> SUFFICES ASSUME TypeOK, StepInv, JournalInv, [Next]_vars PROVE TypeOK'
    OBVIOUS
<1> USE DEF TypeOK, files, locals, counts, Goto, Release, Except, Steps
<1>1. ASSUME NEW j \in Updates \cup {NoUpdate}, Start(j) PROVE TypeOK'
    BY <1>1 DEF Start, Catalogs
<1>2. CASE RecoverNothing BY <1>2 DEF RecoverNothing, AfterRecovery, Catalogs
<1>3. CASE RecoverDecide BY <1>3 DEF RecoverDecide, Catalogs
<1>4. CASE Restore BY Fields, <1>4 DEF Restore, StepInv, JournalInv
<1>5. CASE Clear BY <1>5 DEF Clear, AfterRecovery, Catalogs
<1>6. CASE Verify BY <1>6 DEF Verify, Catalogs
<1>7. CASE Stage BY Fields, <1>7 DEF Stage, Catalogs, StepInv, Working, TryBlock
<1>8. CASE Prepare BY Fields, <1>8 DEF Prepare, Catalogs, StepInv, Working, TryBlock
<1>9. CASE Check BY <1>9 DEF Check, Catalogs
<1>10. CASE WriteBackup BY <1>10 DEF WriteBackup
<1>11. CASE WriteJournal BY Fields, <1>11 DEF WriteJournal, Journals, StepInv, Working, TryBlock
<1>12. CASE Precheck BY <1>12 DEF Precheck
<1>13. CASE Switch BY <1>13 DEF Switch
<1>14. CASE Probe BY <1>14 DEF Probe
<1>15. CASE Postcheck BY <1>15 DEF Postcheck
<1>16. CASE AcceptUpdate BY Fields, <1>16 DEF AcceptUpdate, StepInv, Working, TryBlock
<1>17. CASE Finish BY <1>17 DEF Finish, Catalogs
<1>18. CASE Fails BY <1>18 DEF Fails
<1>19. CASE Stop
    <2>1. stops' \in Nat BY <1>19 DEF Stop
    <2>2. UNCHANGED <<files, edits, damages, failures>> /\ Release BY <1>19 DEF Stop
    <2> QED BY <2>1, <2>2 DEF Catalogs
<1>20. CASE OperatorEdits BY Fields, <1>20 DEF OperatorEdits, Catalogs, Books
<1>21. ASSUME NEW a \in Archives, ArchiveDamaged(a) PROVE TypeOK' BY <1>21 DEF ArchiveDamaged
<1>22. CASE UNCHANGED vars BY <1>22 DEF vars
<1> QED BY <1>1, <1>2, <1>3, <1>4, <1>5, <1>6, <1>7, <1>8, <1>9, <1>10, <1>11, <1>12, <1>13, <1>14, <1>15, <1>16, <1>17, <1>18, <1>19, <1>20, <1>21, <1>22
       DEF Next, Updater, Recover, Reconstruct, Activate

-----------------------------------------------------------------------------
(* The steps of the updater and its journal. *)

LEMMA NextStep == TypeOK /\ StepInv /\ JournalInv /\ [Next]_vars => StepInv'
<1> SUFFICES ASSUME TypeOK, StepInv, JournalInv, [Next]_vars PROVE StepInv'
    OBVIOUS
<1> USE DEF StepInv, Working, Chosen, TryBlock, files, locals, counts, Goto, Release, Except
<1>1. ASSUME NEW j \in Updates \cup {NoUpdate}, Start(j) PROVE StepInv' BY <1>1 DEF Start
<1>2. CASE RecoverNothing BY <1>2 DEF RecoverNothing, AfterRecovery, TypeOK
<1>3. CASE RecoverDecide BY <1>3 DEF RecoverDecide, CanRestore, StateIs
<1>4. CASE Restore BY <1>4 DEF Restore
<1>5. CASE Clear BY <1>5 DEF Clear, AfterRecovery, TypeOK
<1>6. CASE Verify BY <1>6 DEF Verify, Applicable
<1>7. CASE Stage BY <1>7 DEF Stage
<1>8. CASE Prepare BY <1>8 DEF Prepare
<1>9. CASE Check BY <1>9 DEF Check
<1>10. CASE WriteBackup BY <1>10 DEF WriteBackup
<1>11. CASE WriteJournal BY JournalBuilt, <1>11 DEF WriteJournal, TypeOK
<1>12. CASE Precheck BY <1>12 DEF Precheck
<1>13. CASE Switch BY <1>13 DEF Switch
<1>14. CASE Probe BY <1>14 DEF Probe
<1>15. CASE Postcheck BY <1>15 DEF Postcheck
<1>16. CASE AcceptUpdate BY <1>16 DEF AcceptUpdate, NextState
<1>17. CASE Finish BY <1>17 DEF Finish
<1>18. CASE Fails BY <1>18 DEF Fails
<1>19. CASE Stop BY <1>19 DEF Stop
<1>20. CASE OperatorEdits BY <1>20 DEF OperatorEdits
<1>21. ASSUME NEW a \in Archives, ArchiveDamaged(a) PROVE StepInv' BY <1>21 DEF ArchiveDamaged
<1>22. CASE UNCHANGED vars BY <1>22 DEF vars
<1> QED BY <1>1, <1>2, <1>3, <1>4, <1>5, <1>6, <1>7, <1>8, <1>9, <1>10, <1>11, <1>12, <1>13, <1>14,
          <1>15, <1>16, <1>17, <1>18, <1>19, <1>20, <1>21, <1>22
       DEF Next, Updater, Recover, Reconstruct, Activate

LEMMA NextJournal == TypeOK /\ StepInv /\ JournalInv /\ [Next]_vars => JournalInv'
<1> SUFFICES ASSUME TypeOK, StepInv, JournalInv, [Next]_vars PROVE JournalInv'
    OBVIOUS
<1> USE DEF JournalInv, files, locals, counts
<1>1. ASSUME NEW j \in Updates \cup {NoUpdate}, Start(j) PROVE JournalInv' BY <1>1 DEF Start
<1>2. CASE RecoverNothing BY <1>2 DEF RecoverNothing
<1>3. CASE RecoverDecide BY <1>3 DEF RecoverDecide
<1>4. CASE Restore BY <1>4 DEF Restore
<1>5. CASE Clear BY <1>5 DEF Clear
<1>6. CASE Verify BY <1>6 DEF Verify
<1>7. CASE Stage BY <1>7 DEF Stage
<1>8. CASE Prepare BY <1>8 DEF Prepare
<1>9. CASE Check BY <1>9 DEF Check
<1>10. CASE WriteBackup BY <1>10 DEF WriteBackup, StepInv, Working
<1>11. CASE WriteJournal BY <1>11 DEF WriteJournal, StepInv, Working, Chosen
<1>12. CASE Precheck BY <1>12 DEF Precheck
<1>13. CASE Switch BY <1>13 DEF Switch
<1>14. CASE Probe BY <1>14 DEF Probe
<1>15. CASE Postcheck BY <1>15 DEF Postcheck
<1>16. CASE AcceptUpdate BY <1>16 DEF AcceptUpdate, StepInv, TryBlock
<1>17. CASE Finish BY <1>17 DEF Finish
<1>18. CASE Fails BY <1>18 DEF Fails
<1>19. CASE Stop BY <1>19 DEF Stop
<1>20. CASE OperatorEdits BY <1>20 DEF OperatorEdits
<1>21. ASSUME NEW a \in Archives, ArchiveDamaged(a) PROVE JournalInv' BY <1>21 DEF ArchiveDamaged
<1>22. CASE UNCHANGED vars BY <1>22 DEF vars
<1> QED BY <1>1, <1>2, <1>3, <1>4, <1>5, <1>6, <1>7, <1>8, <1>9, <1>10, <1>11, <1>12, <1>13, <1>14,
          <1>15, <1>16, <1>17, <1>18, <1>19, <1>20, <1>21, <1>22
       DEF Next, Updater, Recover, Reconstruct, Activate

-----------------------------------------------------------------------------
(* Which archives a catalog may list. *)

\* A later revision, fewer books, or one more target that is known.
LEMMA FreshMono ==
    ASSUME NEW b, NEW c, NEW m \in Nat, NEW n \in Nat, Fresh(c, m), m <= n, b \cap Targets \subseteq c
    PROVE  Fresh(b, n)
BY LibraryAssumption DEF LibraryAssumption, Fresh

LEMMA FreshAdd ==
    ASSUME NEW c, NEW m \in Nat, NEW u \in Updates, Fresh(c, m), m < u.revision
    PROVE  Fresh(c \cup {u.target}, u.revision)
BY LibraryAssumption DEF LibraryAssumption, Fresh

LEMMA NextFresh == TypeOK /\ StepInv /\ JournalInv /\ FreshInv /\ [Next]_vars => FreshInv'
<1> SUFFICES ASSUME TypeOK, StepInv, JournalInv, FreshInv, [Next]_vars PROVE FreshInv'
    OBVIOUS
<1> USE DEF FreshInv, files, locals, counts, Goto, Release, Except
<1>a. /\ accepted \in States /\ accepted.revision \in Nat
      /\ journal # NoFile => /\ journal.previous.revision \in Nat /\ journal.next.revision \in Nat
                             /\ journal.next \in Updates /\ journal.previous \in States
      /\ job \in Updates => job.revision \in Nat
    BY Fields DEF TypeOK
<1>1. ASSUME NEW j \in Updates \cup {NoUpdate}, Start(j) PROVE FreshInv' BY <1>1 DEF Start
<1>2. CASE RecoverNothing BY <1>2 DEF RecoverNothing, AfterRecovery
<1>3. CASE RecoverDecide BY <1>a, Fields, <1>3 DEF RecoverDecide, CanFinalize, StateIs
<1>4. CASE Restore
    <2>1. catalog' = journal.old /\ journal # NoFile /\ accepted = journal.previous
        BY <1>4 DEF Restore, StepInv, JournalInv
    <2>2. Fresh(catalog', accepted.revision)
        BY <2>1
    <2>3. Fresh(catalog', journal.next.revision)
        BY <1>a, <2>1, <2>2, FreshMono DEF JournalInv
    <2> QED BY <1>4, <2>1, <2>2, <2>3 DEF Restore
<1>5. CASE Clear BY <1>5 DEF Clear, AfterRecovery
<1>6. CASE Verify BY <1>6 DEF Verify
<1>7. CASE Stage
    <2>1. Fresh(catalog, accepted.revision) BY <1>7 DEF Stage, StepInv, Working
    <2> QED BY <1>7, <2>1 DEF Stage
<1>8. CASE Prepare
    <2>1. Fresh(catalog, accepted.revision) BY <1>8 DEF Prepare, StepInv, Working
    <2>2. Fresh(new', job.revision)
        BY <1>8, <1>a, <2>1, FreshAdd DEF Prepare, StepInv, Working, Chosen
    <2> QED BY <1>8, <2>1, <2>2 DEF Prepare
<1>9. CASE Check BY <1>9 DEF Check
<1>10. CASE WriteBackup BY <1>10 DEF WriteBackup
<1>11. CASE WriteJournal
    <2>1. /\ Fresh(old, accepted.revision) /\ Fresh(new, job.revision) /\ Fresh(catalog, accepted.revision)
          /\ job \in Updates /\ accepted.revision < job.revision
        BY <1>11, <1>a DEF WriteJournal, StepInv, Working, Chosen
    <2>2. Fresh(catalog, job.revision)
        BY <1>a, <2>1, FreshMono
    <2>3. /\ journal'.old = old /\ journal'.new = new /\ journal'.previous = accepted /\ journal'.next = job
          /\ journal' # NoFile
        BY <1>11, <2>1, JournalBuilt DEF WriteJournal, TypeOK
    <2> QED BY <1>11, <2>1, <2>2, <2>3 DEF WriteJournal
<1>12. CASE Precheck BY <1>12 DEF Precheck
<1>13. CASE Switch
    <2>1. journal # NoFile /\ catalog' = journal.new
        BY <1>13 DEF Switch, StepInv, TryBlock
    <2> QED BY <1>13, <2>1 DEF Switch
<1>14. CASE Probe BY <1>14 DEF Probe
<1>15. CASE Postcheck BY <1>15 DEF Postcheck
<1>16. CASE AcceptUpdate
    <2>1. /\ journal # NoFile /\ journal.next = job /\ journal' = journal /\ catalog' = catalog
          /\ pc' = "finish"
        BY <1>16 DEF AcceptUpdate, StepInv, TryBlock
    <2> QED BY <2>1
<1>17. CASE Finish
    <2>1. journal # NoFile /\ accepted.revision = journal.next.revision
        BY <1>17, <1>a, Fields DEF Finish, StepInv, TryBlock
    <2> QED BY <1>17, <2>1 DEF Finish
<1>18. CASE Fails BY <1>18 DEF Fails
<1>19. CASE Stop BY <1>19 DEF Stop
<1>20. CASE OperatorEdits
    <2>1. CASE catalog' \cap Targets \subseteq catalog
        BY <1>20, <1>a, <2>1, FreshMono DEF OperatorEdits
    <2>2. CASE journal # NoFile /\ catalog' = journal.old
        <3>1. Fresh(catalog', accepted.revision)
            BY <1>a, <2>2, Fields, FreshMono DEF JournalInv
        <3>2. Fresh(catalog', journal.next.revision)
            BY <1>a, <2>2, FreshMono DEF JournalInv
        <3> QED BY <1>20, <2>2, <3>1, <3>2 DEF OperatorEdits
    <2>3. ASSUME NEW b \in Extras, catalog' = IF b \in catalog THEN catalog \ {b} ELSE catalog \cup {b}
          PROVE  catalog' \cap Targets \subseteq catalog
        BY <2>3, LibraryAssumption DEF LibraryAssumption, Archives
    <2> QED BY <1>20, <2>1, <2>2, <2>3 DEF OperatorEdits
<1>21. ASSUME NEW a \in Archives, ArchiveDamaged(a) PROVE FreshInv' BY <1>21 DEF ArchiveDamaged
<1>22. CASE UNCHANGED vars BY <1>22 DEF vars
<1> QED BY <1>1, <1>2, <1>3, <1>4, <1>5, <1>6, <1>7, <1>8, <1>9, <1>10, <1>11, <1>12, <1>13, <1>14,
          <1>15, <1>16, <1>17, <1>18, <1>19, <1>20, <1>21, <1>22
       DEF Next, Updater, Recover, Reconstruct, Activate

(* An undisturbed catalog. *)

LEMMA NextUndisturbed == GeneralInv /\ [Next]_vars => UndisturbedInv'
<1> SUFFICES ASSUME GeneralInv, [Next]_vars PROVE UndisturbedInv'
    BY DEF GeneralInv
<1> USE DEF GeneralInv, UndisturbedInv, CatalogKnown, files, locals, counts, Goto, Release, Except
<1>1. ASSUME NEW j \in Updates \cup {NoUpdate}, Start(j) PROVE UndisturbedInv' BY <1>1 DEF Start
<1>2. CASE RecoverNothing BY <1>2 DEF RecoverNothing, AfterRecovery
<1>3. CASE RecoverDecide BY <1>3 DEF RecoverDecide
<1>4. CASE Restore
    <2>1. catalog' = journal.old /\ journal # NoFile /\ accepted = journal.previous
        BY <1>4 DEF Restore, StepInv, JournalInv
    <2>2. accepted # NextState(journal.next)
        BY <2>1, Fields, NewStateDiffers DEF JournalInv, TypeOK
    <2> QED BY <1>4, <2>1, <2>2 DEF Restore
<1>5. CASE Clear BY <1>5 DEF Clear, AfterRecovery
<1>6. CASE Verify BY <1>6 DEF Verify
<1>7. CASE Stage
    <2>1. damages = 0 => store'[Base] = "intact"
        BY <1>7 DEF Stage, TypeOK, Archives
    <2> QED BY <1>7, <2>1 DEF Stage, StepInv, Working
<1>8. CASE Prepare BY <1>8 DEF Prepare, StepInv, Working
<1>9. CASE Check BY <1>9 DEF Check, StepInv, Working
<1>10. CASE WriteBackup BY <1>10 DEF WriteBackup, StepInv, Working
<1>11. CASE WriteJournal
    <2>1. /\ job \in Updates /\ accepted # NextState(job)
        BY <1>11, Fields, NewStateDiffers DEF WriteJournal, StepInv, Working, Chosen, TypeOK
    <2>2. journal'.old = old /\ journal'.next = job
        BY <1>11 DEF WriteJournal
    <2> QED BY <1>11, <2>1, <2>2 DEF WriteJournal
<1>12. CASE Precheck BY <1>12 DEF Precheck
<1>13. CASE Switch BY <1>13 DEF Switch, StepInv, TryBlock
<1>14. CASE Probe BY <1>14 DEF Probe
<1>15. CASE Postcheck BY <1>15 DEF Postcheck, StepInv, TryBlock
<1>16. CASE AcceptUpdate
    <2>1. journal # NoFile /\ journal.next = job
        BY <1>16 DEF AcceptUpdate, StepInv, TryBlock
    <2> QED BY <1>16, <2>1 DEF AcceptUpdate
<1>17. CASE Finish BY <1>17 DEF Finish
<1>18. CASE Fails BY <1>18 DEF Fails
<1>19. CASE Stop BY <1>19 DEF Stop
<1>20. CASE OperatorEdits
    <2>1. edits' # 0 BY <1>20 DEF OperatorEdits, TypeOK
    <2> QED BY <1>20, <2>1 DEF OperatorEdits
<1>21. ASSUME NEW a \in Archives, ArchiveDamaged(a) PROVE UndisturbedInv'
    <2>1. damages' # 0 BY <1>21 DEF ArchiveDamaged, TypeOK
    <2> QED BY <1>21, <2>1 DEF ArchiveDamaged
<1>22. CASE UNCHANGED vars BY <1>22 DEF vars
<1> QED BY <1>1, <1>2, <1>3, <1>4, <1>5, <1>6, <1>7, <1>8, <1>9, <1>10, <1>11, <1>12, <1>13, <1>14,
          <1>15, <1>16, <1>17, <1>18, <1>19, <1>20, <1>21, <1>22
       DEF Next, Updater, Recover, Reconstruct, Activate

-----------------------------------------------------------------------------
(* The invariant and what follows from it however the operator edits. *)

LEMMA InitGeneral == Init => GeneralInv
<1> SUFFICES ASSUME Init PROVE GeneralInv
    OBVIOUS
<1>1. TypeOK BY InitType
<1>2. StepInv /\ JournalInv
    BY DEF Init, StepInv, JournalInv, Working, Chosen, TryBlock
<1>3. FreshInv
    BY LibraryAssumption DEF LibraryAssumption, Init, FreshInv, Fresh
<1>4. UndisturbedInv
    BY DEF Init, UndisturbedInv, Archives
<1> QED BY <1>1, <1>2, <1>3, <1>4 DEF GeneralInv

LEMMA NextGeneral == GeneralInv /\ [Next]_vars => GeneralInv'
<1> SUFFICES ASSUME GeneralInv, [Next]_vars PROVE GeneralInv'
    OBVIOUS
<1> QED BY NextType, NextStep, NextJournal, NextFresh, NextUndisturbed DEF GeneralInv

\* GeneralInv is inductive.
THEOREM GeneralInvariance == Spec => []GeneralInv
BY InitGeneral, NextGeneral, PTL DEF Spec

\* The files and the updater's variables always have their types: recovery never
\* meets a journal without a catalog, a state or an update to go back to.
THEOREM LibraryTypeCorrect == Spec => []TypeOK
BY GeneralInvariance, PTL DEF GeneralInv

\* _recover can always decide: the backup it would restore is the one the journal
\* names, and without edits or damage it either finalizes or restores.
THEOREM RecoveryDecides == Spec => []RecoveryCanDecide
<1>1. GeneralInv => RecoveryCanDecide
    <2> SUFFICES ASSUME GeneralInv, journal # NoFile PROVE RecoveryCanDecide
        BY DEF RecoveryCanDecide
    <2>1. /\ backup = journal.old
          /\ accepted \in {journal.previous, NextState(journal.next)}
        BY DEF GeneralInv, JournalInv
    <2>2. ASSUME edits = 0, damages = 0 PROVE CatalogKnown /\ (CanFinalize \/ CanRestore)
        <3>1. CatalogKnown /\ store[Base] = "intact"
            BY <2>2 DEF GeneralInv, UndisturbedInv
        <3>2. CASE accepted = NextState(journal.next)
            BY <2>1, <2>2, <3>1, <3>2 DEF GeneralInv, UndisturbedInv, CanFinalize, StateIs
        <3>3. CASE accepted # NextState(journal.next)
            BY <2>1, <3>1, <3>3 DEF CanFinalize, CanRestore, StateIs
        <3> QED BY <3>1, <3>2, <3>3
    <2> QED BY <2>1, <2>2 DEF RecoveryCanDecide
<1> QED BY <1>1, GeneralInvariance, PTL

\* No journal, no trial: whatever stopped, failed or was refused, a catalog that
\* no recovery would undo lists accepted archives and older ones only.
THEOREM SwitchesAreWhole == Spec => []NothingHalfSwitched
<1>1. GeneralInv => NothingHalfSwitched
    BY DEF GeneralInv, FreshInv, Fresh, NothingHalfSwitched
<1> QED BY <1>1, GeneralInvariance, PTL

-----------------------------------------------------------------------------
(* Edits that do not fall between a check and its write. *)

LEMMA InitQuiet == Init => QuietInv
BY DEF Init, QuietInv

LEMMA NextQuiet ==
    ASSUME RacyEdits = FALSE
    PROVE  GeneralInv /\ QuietInv /\ [Next]_vars => QuietInv'
<1> SUFFICES ASSUME GeneralInv, QuietInv, [Next]_vars PROVE QuietInv'
    OBVIOUS
<1> USE DEF QuietInv, CatalogKnown, files, locals, counts, Goto, Release, Except
<1>1. ASSUME NEW j \in Updates \cup {NoUpdate}, Start(j) PROVE QuietInv' BY <1>1 DEF Start
<1>2. CASE RecoverNothing BY <1>2 DEF RecoverNothing, AfterRecovery
<1>3. CASE RecoverDecide BY <1>3 DEF RecoverDecide, CanRestore, CatalogKnown
<1>4. CASE Restore
    <2>1. catalog' = journal.old /\ journal # NoFile
        BY <1>4 DEF Restore, GeneralInv, StepInv, JournalInv
    <2> QED BY <1>4, <2>1 DEF Restore
<1>5. CASE Clear BY <1>5 DEF Clear, AfterRecovery
<1>6. CASE Verify BY <1>6 DEF Verify
<1>7. CASE Stage BY <1>7 DEF Stage, GeneralInv, StepInv, Working
<1>8. CASE Prepare BY <1>8 DEF Prepare, GeneralInv, StepInv, Working
<1>9. CASE Check BY <1>9 DEF Check, GeneralInv, StepInv, Working
<1>10. CASE WriteBackup BY <1>10 DEF WriteBackup, GeneralInv, StepInv, Working
<1>11. CASE WriteJournal
    <2>1. journal'.old = old /\ journal'.new = new /\ journal'.next = job
        BY <1>11 DEF WriteJournal
    <2> QED BY <1>11, <2>1 DEF WriteJournal
<1>12. CASE Precheck
    <2> QED BY <1>12 DEF Precheck, GeneralInv, StepInv, TryBlock
<1>13. CASE Switch
    <2>1. journal # NoFile /\ journal.old = old /\ journal.new = new
        BY <1>13 DEF Switch, GeneralInv, StepInv, TryBlock
    <2> QED BY <1>13, <2>1 DEF Switch
<1>14. CASE Probe BY <1>14 DEF Probe
<1>15. CASE Postcheck BY <1>15 DEF Postcheck
<1>16. CASE AcceptUpdate BY <1>16 DEF AcceptUpdate
<1>17. CASE Finish BY <1>17 DEF Finish
<1>18. CASE Fails BY <1>18 DEF Fails
<1>19. CASE Stop BY <1>19 DEF Stop
<1>20. CASE OperatorEdits
    <2>1. pc \notin Unseen BY <1>20 DEF OperatorEdits
    <2>2. CASE \E b \in Extras : catalog' = IF b \in catalog THEN catalog \ {b} ELSE catalog \cup {b}
        BY <1>20, <2>1, <2>2 DEF OperatorEdits, Unseen
    <2>3. CASE journal # NoFile /\ catalog' = journal.old
        BY <1>20, <2>1, <2>3 DEF OperatorEdits, Unseen, GeneralInv, StepInv, Working
    <2> QED BY <1>20, <2>2, <2>3 DEF OperatorEdits
<1>21. ASSUME NEW a \in Archives, ArchiveDamaged(a) PROVE QuietInv' BY <1>21 DEF ArchiveDamaged
<1>22. CASE UNCHANGED vars BY <1>22 DEF vars
<1> QED BY <1>1, <1>2, <1>3, <1>4, <1>5, <1>6, <1>7, <1>8, <1>9, <1>10, <1>11, <1>12, <1>13, <1>14,
          <1>15, <1>16, <1>17, <1>18, <1>19, <1>20, <1>21, <1>22
       DEF Next, Updater, Recover, Reconstruct, Activate

\* QuietInv holds in every state when edits do not race with the updater's writes.
THEOREM QuietInvariance == ASSUME RacyEdits = FALSE PROVE Spec => [](GeneralInv /\ QuietInv)
<1>1. GeneralInv /\ QuietInv /\ [Next]_vars => (GeneralInv /\ QuietInv)'
    BY NextGeneral, NextQuiet
<1> QED BY <1>1, InitGeneral, InitQuiet, PTL DEF Spec

\* activate_package and _recover keep every entry of the operator: the catalog
\* they write differs from the one they find in managed archives only.
THEOREM OperatorBooksAreKept == ASSUME RacyEdits = FALSE PROVE Spec => OperatorBooksKept
<1>1. GeneralInv /\ QuietInv /\ [Next]_vars => [edits' = edits => catalog' \cap Extras = catalog \cap Extras]_vars
    <2> SUFFICES ASSUME GeneralInv, QuietInv, Next, edits' = edits
                 PROVE  catalog' \cap Extras = catalog \cap Extras
        OBVIOUS
    <2>1. journal # NoFile => journal.new \cap Extras = journal.old \cap Extras
        BY Fields DEF GeneralInv, TypeOK, QuietInv
    <2>2. CASE Restore
        BY <2>1, <2>2 DEF Restore, GeneralInv, StepInv, JournalInv, QuietInv, CatalogKnown
    <2>3. CASE Switch
        BY <2>1, <2>3 DEF Switch, GeneralInv, StepInv, TryBlock, QuietInv
    <2>4. CASE OperatorEdits
        BY <2>4 DEF OperatorEdits, GeneralInv, TypeOK
    <2>5. CASE catalog' = catalog
        BY <2>5
    <2> QED
        BY <2>2, <2>3, <2>4, <2>5 DEF Next, Updater, Recover, Reconstruct, Activate, Start, RecoverNothing,
           RecoverDecide, Clear, Verify, Stage, Prepare, Check, WriteBackup, WriteJournal, Precheck, Probe,
           Postcheck, AcceptUpdate, Finish, Fails, Stop, ArchiveDamaged, files
<1> QED BY <1>1, QuietInvariance, PTL DEF Spec, OperatorBooksKept

-----------------------------------------------------------------------------
(* The updater implements the atomic switch. *)

LEMMA InitSwitch == Init => Atomic!SwitchInit
BY DEF Init, Atomic!SwitchInit, OnTrial, Bootstrap

\* A step that leaves what the abstract switch sees is a stutter.
LEMMA Stutter ==
    ASSUME UNCHANGED <<accepted, catalog, journal, edits>>
    PROVE  UNCHANGED Atomic!switchVars
BY DEF Atomic!switchVars, OnTrial

\* An update that was accepted, or was not yet switched to, is not on trial.
LEMMA TrialFacts ==
    ASSUME GeneralInv
    PROVE  /\ journal # NoFile => journal.next \in Updates /\ journal.next # NoUpdate
           /\ job \in Updates => job # NoUpdate
           /\ pc = "finish" => OnTrial = NoUpdate
<1>1. /\ journal # NoFile => journal.next \in Updates /\ journal.next # NoUpdate
      /\ job \in Updates => job # NoUpdate
    BY Fields, LibraryAssumption DEF LibraryAssumption, GeneralInv, TypeOK
<1>2. ASSUME pc = "finish" PROVE OnTrial = NoUpdate
    <2>1. journal # NoFile /\ journal.next = job /\ accepted = NextState(job)
        BY <1>2 DEF GeneralInv, StepInv, TryBlock
    <2>2. accepted # journal.previous
        BY <2>1, Fields, NewStateDiffers DEF GeneralInv, JournalInv, TypeOK
    <2> QED BY <2>2 DEF OnTrial
<1> QED BY <1>1, <1>2

LEMMA NextSwitch ==
    ASSUME RacyEdits = FALSE
    PROVE  GeneralInv /\ QuietInv /\ [Next]_vars => [Atomic!SwitchNext]_Atomic!switchVars
<1> SUFFICES ASSUME GeneralInv, QuietInv, [Next]_vars
             PROVE  [Atomic!SwitchNext]_Atomic!switchVars
    OBVIOUS
<1> USE DEF files, counts
<1>1. ASSUME NEW j \in Updates \cup {NoUpdate}, Start(j)
      PROVE  [Atomic!SwitchNext]_Atomic!switchVars
    <2>1. UNCHANGED <<accepted, catalog, journal, edits>> BY <1>1 DEF Start
    <2> QED BY <2>1, Stutter
<1>2. CASE RecoverNothing
    <2>1. UNCHANGED <<accepted, catalog, journal, edits>> BY <1>2 DEF RecoverNothing
    <2> QED BY <2>1, Stutter
<1>3. CASE RecoverDecide
    <2>1. UNCHANGED <<accepted, catalog, journal, edits>> BY <1>3 DEF RecoverDecide
    <2> QED BY <2>1, Stutter
<1>4. CASE Restore
    <2>1. /\ journal # NoFile /\ accepted = journal.previous /\ catalog' = journal.old
          /\ UNCHANGED <<accepted, journal, edits>>
        BY <1>4 DEF Restore, GeneralInv, StepInv, JournalInv
    <2>2. catalog \in {journal.old, journal.new} /\ journal.new = journal.old \cup {journal.next.target}
        BY <1>4, <2>1 DEF Restore, QuietInv, CatalogKnown
    <2>3. CASE catalog' = catalog
        BY <2>1, <2>3, Stutter
    <2>4. CASE catalog' # catalog
        <3>1. OnTrial = journal.next /\ OnTrial' = NoUpdate /\ catalog' = catalog \ {journal.next.target}
            BY <2>1, <2>2, <2>4 DEF OnTrial
        <3>2. Atomic!Undo
            BY <2>1, <3>1, TrialFacts DEF Atomic!Undo
        <3> QED BY <3>2 DEF Atomic!SwitchNext
    <2> QED BY <2>3, <2>4
<1>5. CASE Clear
    <2>1. journal' = NoFile /\ UNCHANGED <<accepted, catalog, edits>> BY <1>5 DEF Clear
    <2>2. OnTrial' = NoUpdate BY <2>1 DEF OnTrial
    <2>3. CASE OnTrial = NoUpdate BY <2>1, <2>2, <2>3 DEF Atomic!switchVars
    <2>4. CASE OnTrial # NoUpdate
        <3>1. Atomic!Undo BY <2>1, <2>2, <2>4 DEF Atomic!Undo
        <3> QED BY <3>1 DEF Atomic!SwitchNext
    <2> QED BY <2>3, <2>4
<1>6. CASE Verify
    <2>1. UNCHANGED <<accepted, catalog, journal, edits>> BY <1>6 DEF Verify
    <2> QED BY <2>1, Stutter
<1>7. CASE Stage
    <2>1. UNCHANGED <<accepted, catalog, journal, edits>> BY <1>7 DEF Stage
    <2> QED BY <2>1, Stutter
<1>8. CASE Prepare
    <2>1. UNCHANGED <<accepted, catalog, journal, edits>> BY <1>8 DEF Prepare
    <2> QED BY <2>1, Stutter
<1>9. CASE Check
    <2>1. UNCHANGED <<accepted, catalog, journal, edits>> BY <1>9 DEF Check
    <2> QED BY <2>1, Stutter
<1>10. CASE WriteBackup
    <2>1. UNCHANGED <<accepted, catalog, journal, edits>> BY <1>10 DEF WriteBackup
    <2> QED BY <2>1, Stutter
<1>11. CASE WriteJournal
    <2>1. /\ journal = NoFile /\ job \in Updates /\ job.revision > accepted.revision /\ job.base = accepted.target
          /\ UNCHANGED <<accepted, catalog, edits>>
        BY <1>11 DEF WriteJournal, GeneralInv, StepInv, Working, Chosen
    <2>2. journal' # NoFile /\ journal'.previous = accepted /\ journal'.next = job
        BY <1>11, <2>1, JournalBuilt DEF WriteJournal, GeneralInv, TypeOK
    <2>3. OnTrial = NoUpdate /\ OnTrial' = IF job.target \in catalog THEN job ELSE NoUpdate
        BY <2>1, <2>2 DEF OnTrial
    <2>4. CASE job.target \in catalog
        <3>1. Atomic!Try(job) BY <2>1, <2>3, <2>4 DEF Atomic!Try
        <3> QED BY <2>1, <3>1 DEF Atomic!SwitchNext
    <2>5. CASE job.target \notin catalog
        BY <2>1, <2>3, <2>5 DEF Atomic!switchVars
    <2> QED BY <2>4, <2>5
<1>12. CASE Precheck
    <2>1. UNCHANGED <<accepted, catalog, journal, edits>> BY <1>12 DEF Precheck
    <2> QED BY <2>1, Stutter
<1>13. CASE Switch
    <2>1. /\ journal # NoFile /\ journal.next = job /\ accepted = journal.previous /\ job \in Updates
          /\ catalog = journal.old /\ catalog' = catalog \cup {job.target}
          /\ UNCHANGED <<accepted, journal, edits>>
        BY <1>13 DEF Switch, GeneralInv, StepInv, TryBlock, QuietInv
    <2>2. OnTrial' = job /\ OnTrial = IF job.target \in catalog THEN job ELSE NoUpdate
        BY <2>1 DEF OnTrial
    <2>3. CASE job.target \in catalog
        BY <2>1, <2>3, Stutter
    <2>4. CASE job.target \notin catalog
        <3>1. job.revision > accepted.revision /\ job.base = accepted.target
            BY <2>1 DEF GeneralInv, JournalInv
        <3>2. Atomic!Try(job) BY <2>1, <2>2, <2>4, <3>1 DEF Atomic!Try
        <3> QED BY <2>1, <3>2 DEF Atomic!SwitchNext
    <2> QED BY <2>3, <2>4
<1>14. CASE Probe
    <2>1. UNCHANGED <<accepted, catalog, journal, edits>> BY <1>14 DEF Probe
    <2> QED BY <2>1, Stutter
<1>15. CASE Postcheck
    <2>1. UNCHANGED <<accepted, catalog, journal, edits>> BY <1>15 DEF Postcheck
    <2> QED BY <2>1, Stutter
<1>16. CASE AcceptUpdate
    <2>1. /\ journal # NoFile /\ journal.next = job /\ accepted = journal.previous /\ job \in Updates
          /\ job.target \in catalog /\ accepted' = NextState(job) /\ pc' = "finish"
          /\ UNCHANGED <<catalog, journal, edits>>
        BY <1>16 DEF AcceptUpdate, GeneralInv, StepInv, TryBlock, QuietInv, Goto
    <2>2. accepted' # journal.previous
        BY <2>1, Fields, NewStateDiffers DEF GeneralInv, JournalInv, TypeOK
    <2>3. OnTrial = job /\ OnTrial' = NoUpdate
        BY <2>1, <2>2 DEF OnTrial
    <2>4. Atomic!Accept
        BY <2>1, <2>3, TrialFacts DEF Atomic!Accept, NextState
    <2> QED BY <2>4 DEF Atomic!SwitchNext
<1>17. CASE Finish
    <2>1. journal' = NoFile /\ UNCHANGED <<accepted, catalog, edits>> BY <1>17 DEF Finish
    <2>2. OnTrial = NoUpdate /\ OnTrial' = NoUpdate BY <1>17, <2>1, TrialFacts DEF OnTrial, Finish
    <2> QED BY <2>1, <2>2 DEF Atomic!switchVars
<1>18. CASE Fails
    <2>1. UNCHANGED <<accepted, catalog, journal, edits>> BY <1>18 DEF Fails
    <2> QED BY <2>1, Stutter
<1>19. CASE Stop
    <2>1. UNCHANGED <<accepted, catalog, journal, edits>> BY <1>19 DEF Stop
    <2> QED BY <2>1, Stutter
<1>20. CASE OperatorEdits
    <2>1. edits' = edits + 1 /\ UNCHANGED <<accepted, journal>> BY <1>20 DEF OperatorEdits
    <2>2. catalog' \subseteq catalog \cup Extras
        BY <1>20 DEF OperatorEdits, QuietInv
    <2>3. journal # NoFile => journal.next.target \notin Extras
        BY Fields, TrialFacts
    <2>4. OnTrial' \in {OnTrial, NoUpdate}
        BY <2>1, <2>2, <2>3 DEF OnTrial
    <2>5. Atomic!Edit BY <2>1, <2>2, <2>4 DEF Atomic!Edit
    <2> QED BY <2>5 DEF Atomic!SwitchNext
<1>21. ASSUME NEW a \in Archives, ArchiveDamaged(a)
      PROVE  [Atomic!SwitchNext]_Atomic!switchVars
    <2>1. UNCHANGED <<accepted, catalog, journal, edits>> BY <1>21 DEF ArchiveDamaged
    <2> QED BY <2>1, Stutter
<1>22. CASE UNCHANGED vars BY <1>22, Stutter DEF vars
<1> QED BY <1>1, <1>2, <1>3, <1>4, <1>5, <1>6, <1>7, <1>8, <1>9, <1>10, <1>11, <1>12, <1>13, <1>14,
          <1>15, <1>16, <1>17, <1>18, <1>19, <1>20, <1>21, <1>22
       DEF Next, Updater, Recover, Reconstruct, Activate

\* Every step of activation and recovery is a step of the atomic switch or changes
\* nothing the operator relies on: updates are accepted one at a time, each as the
\* successor of the one before, or taken out again.
THEOREM UpdaterImplementsSwitch == ASSUME RacyEdits = FALSE PROVE Spec => ImplementsSwitch
BY InitSwitch, NextSwitch, QuietInvariance, PTL DEF Spec, ImplementsSwitch, Atomic!SwitchSpec
=============================================================================
