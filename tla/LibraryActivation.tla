-------------------------- MODULE LibraryActivation --------------------------
(***************************************************************************)
(* The operator-side activation of a library update                        *)
(* (tfp_core_v4/library_updates/activation.py): activate_package and       *)
(* recover_activation, one file operation per action, with an updater that *)
(* may stop between any two of them and an operator who edits the catalog  *)
(* meanwhile.  The lock admits one updater, so its program counter and     *)
(* local variables are single; an updater that does not get the lock       *)
(* changes nothing.                                                        *)
(*                                                                         *)
(* Abstracted: an archive is named by its digest, an update by its         *)
(* descriptor, a catalog is the set of books it lists; signatures, formats *)
(* and sizes are part of "the package verifies".  atomic_bytes replaces a  *)
(* file in one step; an error outside the try block has the effect of a    *)
(* stop, since it releases the lock and nothing else.                      *)
(***************************************************************************)
EXTENDS Naturals

CONSTANTS
    Updates,     \* verified descriptors: [revision, base, target]
    Base,        \* config.base_archive
    Extras,      \* books of the operator, not managed by the updater
    NoUpdate,    \* no descriptor: the bootstrap state, or a plain recovery
    NoFile,      \* a state file that does not exist
    RacyEdits,   \* the operator may also edit between a check and its write
    MaxEdits,    \* bound on operator edits of the catalog
    MaxDamages,  \* bound on archives damaged on disk
    MaxStops,    \* bound on stops of the updater
    MaxFailures  \* bound on exceptions and failed probes in the try block

Targets  == {u.target : u \in Updates}
Archives == Targets \cup {Base}
Books    == Archives \cup Extras
Catalogs == SUBSET Books
Bootstrap == [revision |-> 0, target |-> Base, descriptor |-> NoUpdate]
States   == {Bootstrap} \cup {[revision |-> u.revision, target |-> u.target, descriptor |-> u] : u \in Updates}
Journals == [old : Catalogs, new : Catalogs, previous : States, next : Updates]

ASSUME LibraryAssumption ==
    /\ \A u \in Updates : u = [revision |-> u.revision, base |-> u.base, target |-> u.target]
    /\ \A u \in Updates : u.revision \in Nat \ {0}
    /\ NoUpdate \notin Updates /\ NoFile \notin Journals /\ Base \notin Targets /\ Extras \cap Archives = {}
    /\ RacyEdits \in BOOLEAN
    /\ MaxEdits \in Nat /\ MaxDamages \in Nat /\ MaxStops \in Nat /\ MaxFailures \in Nat

VARIABLES
    accepted,    \* accepted.json, or the bootstrap state when it is missing
    catalog,     \* library_xml
    backup,      \* catalog.backup
    journal,     \* activation.json
    store,       \* the archive files
    pc, job, raising, old, new,  \* the updater holding the lock
    edits, damages, stops, failures

files  == <<accepted, catalog, backup, journal, store>>
locals == <<job, raising, old, new>>
counts == <<edits, damages, stops, failures>>
vars   == <<files, pc, locals, counts>>

NextStateOfBase(u) == [revision |-> u.revision, target |-> u.base, descriptor |-> u]  \* mutant
NextState(u) == [revision |-> u.revision, target |-> u.target, descriptor |-> u]
Steps == {"idle", "recover", "restore", "clear", "verify", "stage", "prepare", "check", "backup",
          "journal", "precheck", "switch", "probe", "postcheck", "accept", "finish"}

Init ==
    /\ accepted = Bootstrap /\ catalog = {Base} /\ backup = NoFile /\ journal = NoFile
    /\ store = [a \in Archives |-> IF a = Base THEN "intact" ELSE "absent"]
    /\ pc = "idle" /\ job = NoUpdate /\ raising = FALSE /\ old = {} /\ new = {}
    /\ edits = 0 /\ damages = 0 /\ stops = 0 /\ failures = 0

-----------------------------------------------------------------------------
(* activate_package (job is its package) and recover_activation (NoUpdate). *)

Start(j) ==
    /\ pc = "idle" /\ pc' = "recover"
    /\ job' = j /\ raising' = FALSE /\ old' = {} /\ new' = {}
    /\ UNCHANGED <<files, counts>>

Release == pc' = "idle" /\ job' = NoUpdate /\ raising' = FALSE /\ old' = {} /\ new' = {}
Goto(step) == pc' = step /\ UNCHANGED locals

(* _recover *)
AfterRecovery ==
    IF raising \/ job = NoUpdate THEN Release ELSE Goto("verify")

\* The bootstrap state is computed from the base archive each time.
StateIs(s) == accepted = s /\ (s = Bootstrap => store[Base] = "intact")
CatalogKnown == catalog \in {journal.old, journal.new}
CanFinalizeByCatalog ==  \* mutant: the accepted state is not looked at
    backup = journal.old /\ catalog = journal.new
CanFinalize == /\ backup = journal.old /\ CatalogKnown
               /\ StateIs(NextState(journal.next)) /\ catalog = journal.new
CanRestoreSwitched ==  \* mutant: a catalog that was not switched yet is refused
    backup = journal.old /\ catalog = journal.new /\ ~CanFinalize /\ StateIs(journal.previous)
CanRestore  == /\ backup = journal.old /\ CatalogKnown
               /\ ~CanFinalize /\ StateIs(journal.previous)

RecoverNothing ==
    /\ pc = "recover" /\ journal = NoFile
    /\ AfterRecovery
    /\ UNCHANGED <<files, counts>>

RecoverDecide ==
    /\ pc = "recover" /\ journal # NoFile
    /\ \/ CanFinalize /\ store[accepted.target] = "intact" /\ Goto("clear")
       \/ CanFinalize /\ store[accepted.target] # "intact" /\ Release
       \/ CanRestore /\ Goto("restore")
       \/ ~CanFinalize /\ ~CanRestore /\ Release
    /\ UNCHANGED <<files, counts>>

Restore ==
    /\ pc = "restore" /\ Goto("clear")
    /\ catalog' = backup
    /\ UNCHANGED <<accepted, backup, journal, store, counts>>

Clear ==
    /\ pc = "clear" /\ AfterRecovery
    /\ journal' = NoFile
    /\ UNCHANGED <<accepted, catalog, backup, store, counts>>

(* verify_update, and the checks against the accepted state *)
ApplicableToAny(u) ==  \* mutant: the base is not compared
    u.revision > accepted.revision /\ store[accepted.target] = "intact"
Applicable(u) ==
    /\ u.revision > accepted.revision
    /\ u.base = accepted.target /\ store[accepted.target] = "intact"

Verify ==
    /\ pc = "verify"
    /\ IF Applicable(job) THEN Goto("stage") ELSE Release
    /\ UNCHANGED <<files, counts>>

StageAbsent ==  \* mutant: an existing target is refused
    /\ pc = "stage"
    /\ \/ /\ store[job.target] = "absent"
          /\ store' = [store EXCEPT ![job.target] = "intact"]
          /\ old' = catalog
          /\ pc' = "prepare" /\ UNCHANGED <<job, raising, new>>
       \/ Release /\ UNCHANGED store
    /\ UNCHANGED <<accepted, catalog, backup, journal, counts>>

\* An existing target is used if it is intact, never replaced.
Stage ==
    /\ pc = "stage"
    /\ \/ /\ store[job.target] # "damaged"
          /\ store' = [store EXCEPT ![job.target] = "intact"]
          /\ old' = catalog
          /\ pc' = "prepare" /\ UNCHANGED <<job, raising, new>>
       \/ Release /\ UNCHANGED store
    /\ UNCHANGED <<accepted, catalog, backup, journal, counts>>

\* prepare_catalog reads the catalog again; kiwix-manage adds the target.
Prepare ==
    /\ pc = "prepare"
    /\ new' = catalog \cup {job.target}
    /\ pc' = "check" /\ UNCHANGED <<job, raising, old>>
    /\ UNCHANGED <<files, counts>>

CheckWithoutBackup ==  \* mutant: an old backup is left in place
    /\ pc = "check"
    /\ IF catalog = old THEN Goto("journal") ELSE Release
    /\ UNCHANGED <<files, counts>>

Check ==
    /\ pc = "check"
    /\ IF catalog = old THEN Goto("backup") ELSE Release
    /\ UNCHANGED <<files, counts>>

WriteBackup ==
    /\ pc = "backup" /\ Goto("journal")
    /\ backup' = old
    /\ UNCHANGED <<accepted, catalog, journal, store, counts>>

WriteJournal ==
    /\ pc = "journal" /\ Goto("precheck")
    /\ journal' = [old |-> old, new |-> new, previous |-> accepted, next |-> job]
    /\ UNCHANGED <<accepted, catalog, backup, store, counts>>

(* The try block: any exception leads to _recover and is raised again. *)
TryBlock == {"precheck", "switch", "probe", "postcheck", "accept", "finish"}
Except == pc' = "recover" /\ raising' = TRUE /\ UNCHANGED <<job, old, new>>

PrecheckNothing ==  \* mutant: no second look at the catalog
    /\ pc = "precheck" /\ Goto("switch")
    /\ UNCHANGED <<files, counts>>

Precheck ==
    /\ pc = "precheck"
    /\ IF catalog = journal.old THEN Goto("switch") ELSE Except
    /\ UNCHANGED <<files, counts>>

Switch ==
    /\ pc = "switch" /\ Goto("probe")
    /\ catalog' = new
    /\ UNCHANGED <<accepted, backup, journal, store, counts>>

Probe ==
    /\ pc = "probe" /\ job.target \in catalog
    /\ Goto("postcheck")
    /\ UNCHANGED <<files, counts>>

Postcheck ==
    /\ pc = "postcheck"
    /\ IF catalog = journal.new THEN Goto("accept") ELSE Except
    /\ UNCHANGED <<files, counts>>

AcceptUpdate ==
    /\ pc = "accept" /\ Goto("finish")
    /\ accepted' = NextState(job)
    /\ UNCHANGED <<catalog, backup, journal, store, counts>>

Finish ==
    /\ pc = "finish" /\ Release
    /\ journal' = NoFile
    /\ UNCHANGED <<accepted, catalog, backup, store, counts>>

\* A write raises, or the reader does not show the target before the deadline.
Fails ==
    /\ pc \in TryBlock /\ Except
    /\ \/ pc = "probe" /\ job.target \notin catalog /\ UNCHANGED counts
       \/ /\ failures < MaxFailures /\ failures' = failures + 1
          /\ UNCHANGED <<edits, damages, stops>>
    /\ UNCHANGED files

-----------------------------------------------------------------------------
(* The environment. *)

Stop ==
    /\ pc # "idle" /\ stops < MaxStops /\ stops' = stops + 1
    /\ Release
    /\ UNCHANGED <<files, edits, damages, failures>>

\* Between these steps and the check before them the updater cannot see an edit.
Unseen == {"check", "switch", "accept", "restore"}

OperatorEdits ==
    /\ edits < MaxEdits /\ edits' = edits + 1
    /\ RacyEdits \/ pc \notin Unseen
    /\ \/ \E b \in Extras : catalog' = IF b \in catalog THEN catalog \ {b} ELSE catalog \cup {b}
       \/ journal # NoFile /\ catalog' = journal.old /\ catalog' # catalog
    /\ UNCHANGED <<accepted, backup, journal, store, pc, locals, damages, stops, failures>>

ArchiveDamaged(a) ==
    /\ damages < MaxDamages /\ damages' = damages + 1
    /\ store[a] = "intact" /\ store' = [store EXCEPT ![a] = "damaged"]
    /\ UNCHANGED <<accepted, catalog, backup, journal, pc, locals, edits, stops, failures>>

-----------------------------------------------------------------------------
Recover == RecoverNothing \/ RecoverDecide \/ Restore \/ Clear
Reconstruct == Verify \/ Stage \/ Prepare \/ Check \/ WriteBackup \/ WriteJournal
Activate == Precheck \/ Switch \/ Probe \/ Postcheck \/ AcceptUpdate \/ Finish \/ Fails
Updater == Recover \/ Reconstruct \/ Activate

Next ==
    \/ \E j \in Updates \cup {NoUpdate} : Start(j)
    \/ Updater
    \/ Stop \/ OperatorEdits \/ \E a \in Archives : ArchiveDamaged(a)

Spec == Init /\ [][Next]_vars

\* A running updater goes on, staging succeeds again and again if it is tried
\* often enough, and the operator keeps trying the packages at hand.
FairSpec ==
    /\ Spec
    /\ WF_vars(Updater) /\ SF_vars(Stage /\ pc' = "prepare")
    /\ \A j \in Updates : SF_vars(Start(j))

-----------------------------------------------------------------------------
(* Properties. *)

TypeOK ==
    /\ accepted \in States /\ catalog \in Catalogs
    /\ backup \in Catalogs \cup {NoFile} /\ journal \in Journals \cup {NoFile}
    /\ store \in [Archives -> {"absent", "intact", "damaged"}]
    /\ pc \in Steps /\ job \in Updates \cup {NoUpdate} /\ raising \in BOOLEAN
    /\ old \in Catalogs /\ new \in Catalogs
    /\ edits \in Nat /\ damages \in Nat /\ stops \in Nat /\ failures \in Nat

\* As long as the journal exists, recovery has what it needs to decide: the
\* backup is the catalog the journal names, and the accepted state is the one
\* before or the one after the update.  So only a catalog the operator changed
\* or a damaged archive can make recovery refuse.
RecoveryCanDecide ==
    journal # NoFile =>
      /\ backup = journal.old
      /\ accepted \in {journal.previous, NextState(journal.next)}
      /\ edits = 0 /\ damages = 0 => CatalogKnown /\ (CanFinalize \/ CanRestore)

\* Without a journal the catalog lists no archive newer than the accepted one:
\* a failed, stopped or refused activation leaves nothing half-switched behind
\* that no recovery would undo.
NothingHalfSwitched ==
    journal = NoFile =>
      \A a \in catalog \cap Targets : \E u \in Updates : u.target = a /\ u.revision <= accepted.revision

\* The updater never changes the operator's own entries.
OperatorBooksKept == [][edits' = edits => catalog' \cap Extras = catalog \cap Extras]_vars

\* Recovery never overwrites an edit the operator made to the catalog: the name
\* of a test of the repository says so.
RecoveryKeepsEdits ==
    [][pc = "restore" /\ edits' = edits => catalog' \cap Extras = catalog \cap Extras]_vars

\* The updater implements the atomic switch.
OnTrial ==
    IF journal # NoFile /\ accepted = journal.previous /\ journal.next.target \in catalog
    THEN journal.next ELSE NoUpdate
Atomic == INSTANCE LibrarySwitch WITH trial <- OnTrial
ImplementsSwitch == Atomic!SwitchSpec

\* An interrupted activation is always undone or completed in the end, unless the
\* operator has put a catalog in place that does not go with the accepted state:
\* recovery refuses it, as often as it is called, until the operator takes that edit
\* back, and then goes on.
EditStands ==
    /\ journal # NoFile
    /\ catalog \notin IF accepted = journal.previous THEN {journal.old, journal.new} ELSE {journal.new}
InterruptionsResolve == journal # NoFile ~> journal = NoFile \/ EditStands

\* A package that can be applied is eventually accepted (or superseded), edits
\* before and during the attempts notwithstanding, if none stands in the way.
UpdatesGoThrough ==
    \A u \in Updates : (Applicable(u) /\ journal = NoFile) ~> (~Applicable(u) \/ EditStands)
=============================================================================
