---------------------------- MODULE BulletinStore ----------------------------
(***************************************************************************)
(* The bulletin store of v4 nodes (tfp_core_v4/node.py): store_bulletin,   *)
(* publish, fetch, pruning and opening, by several processes that share    *)
(* one database file.  An operation is one SQLite transaction (BEGIN       *)
(* IMMEDIATE), so it is one action; a process that stops, or whose commit  *)
(* raises, leaves the database as it was.                                  *)
(*                                                                         *)
(* Abstracted: an edition is a content together with a title; a recipe     *)
(* stands for the recipe, chunks and droplets of a content; requests are   *)
(* those whose signature verifies.  Which rows are the most recent for     *)
(* pruning is left open: received_at is read before the lock is taken.     *)
(* The initial database may hold bulletins of a version without            *)
(* watermarks.                                                             *)
(***************************************************************************)
EXTENDS Naturals, FiniteSets

CONSTANTS
    Procs, Ids, Publishers, Editions,
    MaxRevision,  \* bound on revisions
    MaxDamages    \* bound on recipes damaged on disk

ASSUME BulletinAssumption ==
    /\ MaxRevision \in Nat \ {0} /\ MaxDamages \in Nat
    /\ IsFiniteSet(Ids) /\ IsFiniteSet(Publishers) /\ IsFiniteSet(Editions)

Records == [bulletin : Ids, revision : 1..MaxRevision, publisher : Publishers, edition : Editions]

VARIABLES
    bulletins,    \* the display rows
    watermarks,   \* bulletin_watermarks
    recipes,      \* editions whose recipe, chunks and droplets are in the database
    running,      \* processes that have opened the database
    knownMarks,   \* _bulletin_watermarks of each process
    knownRows,    \* _bulletins of each process
    held,         \* recipes of each process, in memory
    damages

database == <<bulletins, watermarks, recipes, damages>>
memory   == <<knownMarks, knownRows, held>>
vars     == <<database, running, memory>>

Init ==
    /\ bulletins \in SUBSET Records
    /\ \A x, y \in bulletins : x.bulletin = y.bulletin =>
         x.publisher = y.publisher /\ (x.revision = y.revision => x = y)
    /\ watermarks = {} /\ recipes = {x.edition : x \in bulletins}
    /\ running = {} /\ damages = 0
    /\ knownMarks = [p \in Procs |-> {}] /\ knownRows = [p \in Procs |-> {}]
    /\ held = [p \in Procs |-> {}]

-----------------------------------------------------------------------------
SameKey(x, y) == x.bulletin = y.bulletin /\ x.publisher = y.publisher

UpsertBeside(marks, new) == marks \cup new  \* mutant: the old mark stays

\* INSERT ... ON CONFLICT(publisher_id, bulletin_id): the higher revision wins.
\* (At a tie store_bulletin takes the new content, but never gets to a tie.)
Upsert(marks, new) ==
    {m \in marks : ~ \E n \in new : SameKey(m, n) /\ n.revision > m.revision}
      \cup {n \in new : \A m \in marks : SameKey(m, n) => n.revision > m.revision}

\* The rows of the highest revision, by publisher and bulletin.
Newest(rows) == {x \in rows : \A y \in rows : SameKey(x, y) => y.revision <= x.revision}

OpenWithoutBackfill(p) ==  \* mutant
    /\ p \notin running /\ running' = running \cup {p}
    /\ knownMarks' = [knownMarks EXCEPT ![p] = watermarks]
    /\ UNCHANGED <<database, knownRows, held>>

(* TFPNode.__init__ and _init_db *)
Open(p) ==
    /\ p \notin running /\ running' = running \cup {p}
    /\ watermarks' = Upsert(watermarks, Newest(bulletins))
    /\ knownMarks' = [knownMarks EXCEPT ![p] = watermarks']
    /\ UNCHANGED <<bulletins, recipes, damages, knownRows, held>>

Stop(p) ==
    /\ p \in running /\ running' = running \ {p}
    /\ knownMarks' = [knownMarks EXCEPT ![p] = {}]
    /\ knownRows' = [knownRows EXCEPT ![p] = {}]
    /\ held' = [held EXCEPT ![p] = {}]
    /\ UNCHANGED database

-----------------------------------------------------------------------------
(* store_bulletin *)

Foreign(x) == \E m \in watermarks : m.bulletin = x.bulletin /\ m.publisher # x.publisher
Marks(x)   == {m \in watermarks : SameKey(m, x)}
Shown(x)   == {y \in bulletins : y.bulletin = x.bulletin /\ y.revision = x.revision}

\* check_revision admits it: the pins and revisions of the rows agree as well.
FitsRows(x) ==
    \A y \in bulletins : y.bulletin = x.bulletin =>
      y.publisher = x.publisher /\ y.revision < x.revision

NewEnoughOrEqual(x) == \A m \in Marks(x) : x.revision >= m.revision  \* mutant
NewEnough(x) == \A m \in Marks(x) : x.revision > m.revision

Hold(p, editions) == held' = [held EXCEPT ![p] = @ \cup editions]

AdmitWithoutContent(p, x) ==  \* mutant: content is kept in memory only
    /\ p \in running
    /\ ~Foreign(x) /\ NewEnough(x) /\ FitsRows(x)
    /\ bulletins' = bulletins \cup {x}
    /\ watermarks' = Upsert(watermarks, {x})
    /\ knownMarks' = [knownMarks EXCEPT ![p] = Upsert(@, {x})]
    /\ knownRows' = [knownRows EXCEPT ![p] = @ \cup {x}]
    /\ Hold(p, {x.edition})
    /\ UNCHANGED <<recipes, running, damages>>

Admit(p, x) ==
    /\ p \in running
    /\ ~Foreign(x) /\ NewEnough(x) /\ FitsRows(x)
    /\ bulletins' = bulletins \cup {x}
    /\ watermarks' = Upsert(watermarks, {x})
    /\ recipes' = recipes \cup {x.edition}
    /\ knownMarks' = [knownMarks EXCEPT ![p] = Upsert(@, {x})]
    /\ knownRows' = [knownRows EXCEPT ![p] = @ \cup {x}]
    /\ Hold(p, {x.edition})
    /\ UNCHANGED <<running, damages>>

\* A replay or a conflict with the watermark while the row is on display: the
\* stored bulletin is fetched for the comparison, and nothing else happens.
Compare(p, x) ==
    /\ p \in running
    /\ ~Foreign(x) /\ \E m \in Marks(x) : m.revision = x.revision
    /\ Shown(x) # {}
    /\ Hold(p, {y.edition : y \in Shown(x)} \cap recipes)
    /\ UNCHANGED <<database, running, knownMarks, knownRows>>

\* A replay of the current revision after its row was pruned shows it again.
\* Content is written only if this process neither holds nor finds it.
Readmit(p, x) ==
    /\ p \in running
    /\ ~Foreign(x) /\ x \in watermarks /\ Shown(x) = {}
    /\ bulletins' = bulletins \cup {x}
    /\ recipes' = IF x.edition \in held[p] THEN recipes ELSE recipes \cup {x.edition}
    /\ knownRows' = [knownRows EXCEPT ![p] = @ \cup {x}]
    /\ Hold(p, {x.edition})
    /\ UNCHANGED <<watermarks, running, knownMarks, damages>>

\* Its commit raises: the content is already in the memory of the process.
ReadmitFails(p, x) ==
    /\ p \in running
    /\ ~Foreign(x) /\ x \in watermarks /\ Shown(x) = {}
    /\ Hold(p, {x.edition})
    /\ UNCHANGED <<database, running, knownMarks, knownRows>>

-----------------------------------------------------------------------------
(* publish, fetch, prune_display_bulletins, and damage on disk. *)

\* publish: the recipe is in memory before the database has it, if it ever does.
Publish(p, e) ==
    /\ p \in running
    /\ Hold(p, {e}) /\ recipes' \in {recipes, recipes \cup {e}}
    /\ UNCHANGED <<bulletins, watermarks, damages, running, knownMarks, knownRows>>

Fetch(p, e) ==
    /\ p \in running /\ e \in recipes
    /\ Hold(p, {e})
    /\ UNCHANGED <<database, running, knownMarks, knownRows>>

\* The remembered rows whose key (bulletin, revision) is among those kept.
StillThere(rows, kept) ==
    {x \in rows : \E y \in kept : y.bulletin = x.bulletin /\ y.revision = x.revision}

PruneMarksToo(p) ==  \* mutant: watermarks go with their rows
    /\ p \in running
    /\ \E kept \in SUBSET bulletins :
         /\ bulletins' = kept
         /\ watermarks' = {m \in watermarks : \E y \in kept : SameKey(m, y)}
         /\ knownRows' = [knownRows EXCEPT ![p] = StillThere(@, kept)]
    /\ UNCHANGED <<recipes, damages, running, knownMarks, held>>

Prune(p) ==
    /\ p \in running
    /\ \E kept \in SUBSET bulletins :
         /\ bulletins' = kept
         /\ knownRows' = [knownRows EXCEPT ![p] = StillThere(@, kept)]
    /\ UNCHANGED <<watermarks, recipes, damages, running, knownMarks, held>>

\* A damaged recipe does not validate and is as good as none.
Damage(e) ==
    /\ damages < MaxDamages /\ damages' = damages + 1
    /\ e \in recipes /\ recipes' = recipes \ {e}
    /\ UNCHANGED <<bulletins, watermarks, running, memory>>

Next ==
    \/ \E p \in Procs :
         \/ Open(p) \/ Stop(p) \/ Prune(p)
         \/ \E x \in Records : Admit(p, x) \/ Compare(p, x) \/ Readmit(p, x) \/ ReadmitFails(p, x)
         \/ \E e \in Editions : Publish(p, e) \/ Fetch(p, e)
    \/ \E e \in Editions : Damage(e)

Spec == Init /\ [][Next]_vars

-----------------------------------------------------------------------------
(* Properties. *)

\* The tables have their types and keys.
TypeOK ==
    /\ bulletins \subseteq Records /\ watermarks \subseteq Records /\ recipes \subseteq Editions
    /\ \A x, y \in bulletins : x.bulletin = y.bulletin /\ x.revision = y.revision => x = y
    /\ \A m, n \in watermarks : SameKey(m, n) => m = n
    /\ running \subseteq Procs /\ damages \in Nat
    /\ knownMarks \in [Procs -> SUBSET Records] /\ knownRows \in [Procs -> SUBSET Records]
    /\ held \in [Procs -> SUBSET Editions]

\* As soon as a process serves, no row is ahead of its watermark, and a row at
\* the watermark is the record the watermark stands for: what pruning removes can
\* never be admitted again in another edition or by another publisher.
WatermarksCoverDisplay ==
    running # {} => \A y \in bulletins : \E m \in watermarks :
      SameKey(m, y) /\ y.revision <= m.revision /\ (y.revision = m.revision => y = m)

\* What a process remembers is never ahead of the database, whatever the other
\* processes stored or pruned: get_max_bulletin_revision, the maximum of both,
\* flags a bulletin as superseded exactly when the database does.
MemoryNeverAhead ==
    \A p \in running : \A y \in knownMarks[p] \cup knownRows[p] :
      \E m \in watermarks : SameKey(m, y) /\ y.revision <= m.revision

\* Whatever is on display can be fetched by any process, also after a restart.
DisplayedIsFetchable ==
    damages = 0 => \A y \in bulletins : y.edition \in recipes

\* The processes together implement one register.
Known == Upsert(watermarks, Newest(bulletins))
Register == INSTANCE RevisionRegister WITH current <- Known, display <- bulletins
ImplementsRegister == Register!RegisterSpec
=============================================================================
