------------------------- MODULE BulletinStoreProofs -------------------------
(***************************************************************************)
(* Proofs about BulletinStore for any processes, bulletins, publishers,    *)
(* editions and bound on revisions.                                        *)
(***************************************************************************)
EXTENDS BulletinStore, WellFoundedInduction, TLAPS

(* A bulletin has one publisher, one record per revision, and one watermark. *)
Pinned(rows) ==
    \A x, y \in rows : x.bulletin = y.bulletin =>
      x.publisher = y.publisher /\ (x.revision = y.revision => x = y)
OneEach(marks) == \A m, n \in marks : m.bulletin = n.bulletin => m = n

(* A mark stands for everything its bulletin has had so far. *)
Covers(m, y) == SameKey(m, y) /\ y.revision <= m.revision /\ (y.revision = m.revision => y = m)
Covered == \A y \in bulletins : \E m \in watermarks : Covers(m, y)

(* Before the first process opens it, a database of the old version has no marks. *)
CoverInv == Covered \/ (running = {} /\ watermarks = {})

Below(rows, marks) == \A y \in rows : \E m \in marks : SameKey(m, y) /\ y.revision <= m.revision

MemoryInv == \A p \in Procs : Below(knownMarks[p] \cup knownRows[p], watermarks)

(* Content outlives its row: it is there as long as its watermark is. *)
ContentInv == damages = 0 => \A y \in bulletins \cup watermarks : y.edition \in recipes

IInv == TypeOK /\ Pinned(bulletins) /\ OneEach(watermarks) /\ CoverInv /\ MemoryInv /\ ContentInv

-----------------------------------------------------------------------------
(* Upsert and Newest. *)

LEMMA RevisionsAreNaturals == \A x \in Records : x.revision \in Nat /\ x.revision <= MaxRevision
BY BulletinAssumption DEF Records

\* A row is below the newest of its key.
LEMMA NewestTops ==
    ASSUME NEW rows \in SUBSET Records, NEW y \in rows
    PROVE  \E n \in Newest(rows) : SameKey(n, y) /\ y.revision <= n.revision
<1> DEFINE Gap == {MaxRevision - x.revision : x \in {z \in rows : SameKey(z, y)}}
<1>1. Gap \subseteq Nat /\ Gap # {}
    BY RevisionsAreNaturals, BulletinAssumption DEF SameKey
<1>2. PICK g \in Gap : \A h \in Gap : ~ (<<h, g>> \in OpToRel(<, Nat))
    <2> HIDE DEF Gap
    <2> QED BY <1>1, NatLessThanWellFounded, WFMin, Zenon
<1>3. \A h \in Gap : ~ (h < g)
    <2> HIDE DEF Gap
    <2>1. \A a, b \in Nat : a < b => <<a, b>> \in OpToRel(<, Nat)
        BY Zenon DEF OpToRel
    <2> QED BY <1>1, <1>2, <2>1
<1>4. PICK n \in rows : SameKey(n, y) /\ g = MaxRevision - n.revision
    BY <1>2
<1>5. \A z \in rows : SameKey(z, y) => z.revision <= n.revision
    <2> SUFFICES ASSUME NEW z \in rows, SameKey(z, y) PROVE z.revision <= n.revision
        OBVIOUS
    <2>1. ~ (MaxRevision - z.revision < MaxRevision - n.revision)
        BY <1>3, <1>4
    <2> QED BY <2>1, RevisionsAreNaturals, BulletinAssumption
<1>6. n \in Newest(rows)
    BY <1>4, <1>5 DEF Newest, SameKey
<1> QED BY <1>4, <1>5, <1>6 DEF SameKey

LEMMA UpsertStays == ASSUME NEW marks, NEW new PROVE Upsert(marks, new) \subseteq marks \cup new
BY DEF Upsert

LEMMA UpsertIntoNothing == ASSUME NEW new PROVE Upsert({}, new) = new
BY DEF Upsert

\* What is below the marks changes nothing.
LEMMA UpsertOfOld ==
    ASSUME NEW marks \in SUBSET Records, NEW new \in SUBSET Records,
           OneEach(marks), Below(new, marks)
    PROVE  Upsert(marks, new) = marks
<1>1. \A n \in new : \A m \in marks : SameKey(m, n) => ~ (n.revision > m.revision)
    BY RevisionsAreNaturals DEF OneEach, Below, SameKey
<1>2. \A n \in new : \E m \in marks : SameKey(m, n)
    BY DEF Below
<1> QED BY <1>1, <1>2 DEF Upsert

\* A record newer than its mark takes its place.
LEMMA UpsertOfNew ==
    ASSUME NEW marks \in SUBSET Records, NEW x \in Records,
           \A m \in marks : m.bulletin = x.bulletin => m.publisher = x.publisher /\ m.revision < x.revision
    PROVE  Upsert(marks, {x}) = {m \in marks : m.bulletin # x.bulletin} \cup {x}
<1>1. \A m \in marks : SameKey(m, x) => x.revision > m.revision
    BY RevisionsAreNaturals DEF SameKey
<1>2. \A m \in marks : (SameKey(m, x) /\ x.revision > m.revision) <=> m.bulletin = x.bulletin
    BY RevisionsAreNaturals DEF SameKey
<1> QED BY <1>1, <1>2 DEF Upsert

-----------------------------------------------------------------------------
(* The steps that change the tables. *)

\* Once opened, every row is below its mark.
LEMMA OpenFacts ==
    ASSUME IInv, NEW p \in Procs, Open(p)
    PROVE  /\ watermarks' \subseteq watermarks \cup bulletins
           /\ Covered => watermarks' = watermarks
           /\ ~Covered => watermarks' = Newest(bulletins) /\ watermarks = {}
           /\ Covered' /\ OneEach(watermarks')
<1>1. bulletins \in SUBSET Records /\ watermarks \in SUBSET Records /\ bulletins' = bulletins
    BY DEF IInv, TypeOK, Open
<1>2. Newest(bulletins) \in SUBSET bulletins
    BY DEF Newest
<1>3. watermarks' = Upsert(watermarks, Newest(bulletins))
    BY DEF Open
<1>4. CASE Covered
    <2>1. Below(Newest(bulletins), watermarks)
        BY <1>2, <1>4 DEF Covered, Covers, Below
    <2>2. watermarks' = watermarks
        BY <1>1, <1>2, <1>3, <2>1, UpsertOfOld DEF IInv
    <2> QED BY <1>1, <1>4, <2>2 DEF Covered, IInv
<1>5. CASE ~Covered
    <2>1. watermarks = {}
        BY <1>5 DEF IInv, CoverInv
    <2>2. watermarks' = Newest(bulletins)
        BY <1>3, <2>1, UpsertIntoNothing
    <2>3. Covered'
        <3> SUFFICES ASSUME NEW y \in bulletins PROVE \E m \in Newest(bulletins) : Covers(m, y)
            BY <1>1, <2>2 DEF Covered
        <3>1. PICK n \in Newest(bulletins) : SameKey(n, y) /\ y.revision <= n.revision
            BY <1>1, NewestTops
        <3>2. y.revision = n.revision => y = n
            BY <1>2, <3>1 DEF IInv, Pinned, SameKey
        <3> QED BY <3>1, <3>2 DEF Covers
    <2>4. OneEach(watermarks')
        <3> SUFFICES ASSUME NEW m \in Newest(bulletins), NEW n \in Newest(bulletins),
                            m.bulletin = n.bulletin
                     PROVE  m = n
            BY <2>2 DEF OneEach
        <3>1. m.publisher = n.publisher /\ (m.revision = n.revision => m = n)
            BY <1>2 DEF IInv, Pinned
        <3>2. m.revision <= n.revision /\ n.revision <= m.revision
            BY <1>2, <3>1 DEF Newest, SameKey
        <3>3. m.revision \in Nat /\ n.revision \in Nat
            BY <1>1, <1>2, RevisionsAreNaturals
        <3> QED BY <3>1, <3>2, <3>3
    <2> QED BY <1>2, <1>5, <2>1, <2>2, <2>3, <2>4
<1> QED BY <1>4, <1>5

\* An admitted record replaces the mark of its bulletin, if there was one.
LEMMA AdmitFacts ==
    ASSUME IInv, NEW p \in Procs, NEW x \in Records, Admit(p, x)
    PROVE  /\ Covered
           /\ \A m \in watermarks : m.bulletin = x.bulletin =>
                m.publisher = x.publisher /\ m.revision < x.revision
           /\ watermarks' = {m \in watermarks : m.bulletin # x.bulletin} \cup {x}
           /\ bulletins' = bulletins \cup {x}
<1>1. Covered
    BY DEF IInv, CoverInv, Admit
<1>2. \A m \in watermarks : m.bulletin = x.bulletin => m.publisher = x.publisher /\ m.revision < x.revision
    <2>1. \A m \in watermarks : m \in Records
        BY DEF IInv, TypeOK
    <2> QED BY <2>1, RevisionsAreNaturals DEF Admit, Foreign, NewEnough, Marks, SameKey
<1>3. watermarks' = {m \in watermarks : m.bulletin # x.bulletin} \cup {x}
    <2>1. watermarks' = Upsert(watermarks, {x}) /\ watermarks \in SUBSET Records
        BY DEF Admit, IInv, TypeOK
    <2> QED BY <1>2, <2>1, UpsertOfNew
<1> QED BY <1>1, <1>2, <1>3 DEF Admit

-----------------------------------------------------------------------------
(* The invariant. *)

LEMMA InitInv == Init => IInv
<1> SUFFICES ASSUME Init PROVE IInv
    OBVIOUS
<1>1. TypeOK
    BY DEF Init, TypeOK, Records
<1> QED BY <1>1 DEF Init, IInv, Pinned, OneEach, CoverInv, MemoryInv, Below, ContentInv

\* Steps that only add to the recipes and to what the processes hold.
LEMMA QuietStep ==
    ASSUME IInv, UNCHANGED <<bulletins, watermarks, damages, running, knownMarks, knownRows>>,
           NEW p \in Procs, NEW editions \in SUBSET Editions, Hold(p, editions),
           recipes \subseteq recipes', recipes' \subseteq Editions
    PROVE  IInv'
<1>1. held' \in [Procs -> SUBSET Editions]
    BY DEF Hold, IInv, TypeOK
<1>2. TypeOK'
    BY <1>1 DEF IInv, TypeOK, SameKey
<1>3. Pinned(bulletins)' /\ OneEach(watermarks)'
    BY DEF IInv, Pinned, OneEach
<1>4. CoverInv' /\ MemoryInv'
    BY DEF IInv, CoverInv, Covered, Covers, SameKey, MemoryInv, Below
<1>5. ContentInv'
    BY DEF IInv, ContentInv
<1> QED BY <1>2, <1>3, <1>4, <1>5 DEF IInv

LEMMA OpenStep == ASSUME IInv, NEW p \in Procs, Open(p) PROVE IInv'
<1>1. /\ watermarks' \subseteq watermarks \cup bulletins
      /\ Covered' /\ OneEach(watermarks')
      /\ Covered => watermarks' = watermarks
      /\ ~Covered => watermarks = {}
    BY OpenFacts
<1>2. /\ knownMarks' = [knownMarks EXCEPT ![p] = watermarks'] /\ running' = running \cup {p}
      /\ UNCHANGED <<bulletins, recipes, damages, knownRows, held>>
    BY DEF Open
<1>3. watermarks' \subseteq Records
    BY <1>1 DEF IInv, TypeOK
<1>4. TypeOK'
    <2>1. \A m, n \in watermarks' : SameKey(m, n) => m = n
        BY <1>1 DEF OneEach, SameKey
    <2>2. knownMarks' \in [Procs -> SUBSET Records]
        BY <1>2, <1>3 DEF IInv, TypeOK
    <2> QED BY <1>2, <1>3, <2>1, <2>2 DEF IInv, TypeOK
<1>5. MemoryInv'
    <2> SUFFICES ASSUME NEW q \in Procs, NEW y \in knownMarks'[q] \cup knownRows'[q]
                 PROVE  \E m \in watermarks' : SameKey(m, y) /\ y.revision <= m.revision
        BY DEF MemoryInv, Below
    <2>1. CASE y \in watermarks'
        BY <1>3, <2>1, RevisionsAreNaturals DEF SameKey
    <2>2. CASE y \notin watermarks'
        <3>1. y \in knownMarks[q] \cup knownRows[q]
            BY <1>2, <2>2 DEF IInv, TypeOK
        <3>2. PICK m \in watermarks : SameKey(m, y) /\ y.revision <= m.revision
            BY <3>1 DEF IInv, MemoryInv, Below
        <3> QED BY <1>1, <3>2
    <2> QED BY <2>1, <2>2
<1>6. ContentInv'
    BY <1>1, <1>2 DEF IInv, ContentInv
<1>7. Pinned(bulletins)'
    BY <1>2 DEF IInv, Pinned
<1> QED BY <1>1, <1>4, <1>5, <1>6, <1>7 DEF IInv, CoverInv, OneEach

LEMMA StopStep == ASSUME IInv, NEW p \in Procs, Stop(p) PROVE IInv'
<1>1. /\ running' = running \ {p} /\ p \in running
      /\ UNCHANGED <<bulletins, watermarks, recipes, damages>>
    BY DEF Stop, database
<1>2. /\ knownMarks' \in [Procs -> SUBSET Records] /\ knownRows' \in [Procs -> SUBSET Records]
      /\ held' \in [Procs -> SUBSET Editions]
      /\ \A q \in Procs : /\ knownMarks'[q] \subseteq knownMarks[q] /\ knownRows'[q] \subseteq knownRows[q]
                          /\ held'[q] \subseteq held[q]
    BY DEF Stop, IInv, TypeOK
<1>3. TypeOK'
    BY <1>1, <1>2 DEF IInv, TypeOK, SameKey
<1>4. Covered'
    BY <1>1 DEF IInv, CoverInv, Covered, Covers, SameKey
<1>5. MemoryInv'
    BY <1>1, <1>2 DEF IInv, MemoryInv, Below, SameKey
<1>6. ContentInv'
    BY <1>1, <1>2 DEF IInv, ContentInv
<1>7. Pinned(bulletins)' /\ OneEach(watermarks)'
    BY <1>1 DEF IInv, Pinned, OneEach
<1> QED BY <1>3, <1>4, <1>5, <1>6, <1>7 DEF IInv, CoverInv

LEMMA AdmitStep == ASSUME IInv, NEW p \in Procs, NEW x \in Records, Admit(p, x) PROVE IInv'
<1>1. /\ Covered
      /\ \A m \in watermarks : m.bulletin = x.bulletin =>
           m.publisher = x.publisher /\ m.revision < x.revision
      /\ watermarks' = {m \in watermarks : m.bulletin # x.bulletin} \cup {x}
      /\ bulletins' = bulletins \cup {x}
    BY AdmitFacts
<1>2. /\ recipes' = recipes \cup {x.edition} /\ Hold(p, {x.edition})
      /\ knownMarks' = [knownMarks EXCEPT ![p] = Upsert(@, {x})]
      /\ knownRows' = [knownRows EXCEPT ![p] = @ \cup {x}]
      /\ UNCHANGED <<running, damages>> /\ p \in running /\ FitsRows(x)
    BY DEF Admit
<1>3. x.edition \in Editions /\ x.revision \in Nat
    BY RevisionsAreNaturals DEF Records
<1>4. Upsert(knownMarks[p], {x}) \subseteq knownMarks[p] \cup {x}
    BY UpsertStays
<1>5. /\ knownMarks' \in [Procs -> SUBSET Records] /\ knownRows' \in [Procs -> SUBSET Records]
      /\ \A q \in Procs : knownMarks'[q] \cup knownRows'[q] \subseteq knownMarks[q] \cup knownRows[q] \cup {x}
    BY <1>2, <1>4 DEF IInv, TypeOK
<1>6. held' \in [Procs -> SUBSET Editions]
    BY <1>2, <1>3 DEF Hold, IInv, TypeOK
<1>7. Pinned(bulletins')
    <2>1. \A y \in bulletins : y.bulletin = x.bulletin => y.publisher = x.publisher /\ y.revision # x.revision
        BY <1>2, RevisionsAreNaturals DEF FitsRows, IInv, TypeOK
    <2> QED BY <1>1, <2>1 DEF IInv, Pinned
<1>8. OneEach(watermarks')
    BY <1>1 DEF IInv, OneEach
<1>9. TypeOK'
    <2>1. \A y, z \in bulletins' : y.bulletin = z.bulletin /\ y.revision = z.revision => y = z
        BY <1>7 DEF Pinned
    <2>2. \A m, n \in watermarks' : SameKey(m, n) => m = n
        BY <1>8 DEF OneEach, SameKey
    <2>3. bulletins' \subseteq Records /\ watermarks' \subseteq Records /\ recipes' \subseteq Editions
        BY <1>1, <1>2, <1>3 DEF IInv, TypeOK
    <2> QED BY <1>2, <1>5, <1>6, <2>1, <2>2, <2>3 DEF IInv, TypeOK
<1>10. Covered'
    <2> SUFFICES ASSUME NEW y \in bulletins' PROVE \E m \in watermarks' : Covers(m, y)
        BY DEF Covered
    <2>1. CASE y = x
        BY <1>1, <1>3, <2>1 DEF Covers, SameKey
    <2>2. CASE y # x
        <3>1. PICK m \in watermarks : Covers(m, y)
            BY <1>1, <2>2 DEF Covered
        <3>2. CASE m.bulletin # x.bulletin
            BY <1>1, <3>1, <3>2
        <3>3. CASE m.bulletin = x.bulletin
            <4>1. m.publisher = x.publisher /\ m.revision < x.revision /\ m \in Records /\ y \in Records
                BY <1>1, <2>2, <3>3 DEF IInv, TypeOK
            <4>2. Covers(x, y)
                BY <3>1, <3>3, <4>1, <1>3, RevisionsAreNaturals DEF Covers, SameKey
            <4> QED BY <1>1, <4>2
        <3> QED BY <3>2, <3>3
    <2> QED BY <2>1, <2>2
<1>11. MemoryInv'
    <2> SUFFICES ASSUME NEW q \in Procs, NEW y \in knownMarks'[q] \cup knownRows'[q]
                 PROVE  \E m \in watermarks' : SameKey(m, y) /\ y.revision <= m.revision
        BY DEF MemoryInv, Below
    <2>1. CASE y = x
        BY <1>1, <1>3, <2>1 DEF SameKey
    <2>2. CASE y # x
        <3>1. y \in knownMarks[q] \cup knownRows[q]
            BY <1>5, <2>2
        <3>2. PICK m \in watermarks : SameKey(m, y) /\ y.revision <= m.revision
            BY <3>1 DEF IInv, MemoryInv, Below
        <3>3. CASE m.bulletin # x.bulletin
            BY <1>1, <3>2, <3>3
        <3>4. CASE m.bulletin = x.bulletin
            <4>1. m.publisher = x.publisher /\ m.revision < x.revision /\ m \in Records /\ y \in Records
                BY <1>1, <3>1, <3>4 DEF IInv, TypeOK
            <4>2. SameKey(x, y) /\ y.revision <= x.revision
                BY <3>2, <3>4, <4>1, <1>3, RevisionsAreNaturals DEF SameKey
            <4> QED BY <1>1, <4>2
        <3> QED BY <3>3, <3>4
    <2> QED BY <2>1, <2>2
<1>12. ContentInv'
    BY <1>1, <1>2 DEF IInv, ContentInv
<1> QED BY <1>7, <1>8, <1>9, <1>10, <1>11, <1>12 DEF IInv, CoverInv

LEMMA CompareStep == ASSUME IInv, NEW p \in Procs, NEW x \in Records, Compare(p, x) PROVE IInv'
<1> DEFINE editions == {y.edition : y \in Shown(x)} \cap recipes
<1>1. UNCHANGED <<bulletins, watermarks, recipes, damages, running, knownMarks, knownRows>> /\ Hold(p, editions)
    BY DEF Compare, database
<1>2. editions \subseteq Editions /\ recipes \subseteq Editions
    BY DEF IInv, TypeOK
<1> HIDE DEF editions
<1> QED BY <1>1, <1>2, QuietStep

LEMMA ReadmitFailsStep == ASSUME IInv, NEW p \in Procs, NEW x \in Records, ReadmitFails(p, x) PROVE IInv'
<1>1. UNCHANGED <<bulletins, watermarks, recipes, damages, running, knownMarks, knownRows>> /\ Hold(p, {x.edition})
    BY DEF ReadmitFails, database
<1>2. {x.edition} \subseteq Editions /\ recipes \subseteq Editions
    BY DEF Records, IInv, TypeOK
<1> QED BY <1>1, <1>2, QuietStep

LEMMA PublishStep ==
    ASSUME IInv, NEW p \in Procs, NEW e \in Editions, Publish(p, e) \/ Fetch(p, e) PROVE IInv'
<1>1. /\ UNCHANGED <<bulletins, watermarks, damages, running, knownMarks, knownRows>>
      /\ recipes' \in {recipes, recipes \cup {e}} /\ Hold(p, {e})
    BY DEF Publish, Fetch, database
<1>2. recipes \subseteq recipes' /\ recipes' \subseteq Editions
    BY <1>1 DEF IInv, TypeOK
<1> QED BY <1>1, <1>2, QuietStep

LEMMA ReadmitStep == ASSUME IInv, NEW p \in Procs, NEW x \in Records, Readmit(p, x) PROVE IInv'
<1>1. /\ p \in running /\ x \in watermarks /\ Shown(x) = {}
      /\ bulletins' = bulletins \cup {x} /\ knownRows' = [knownRows EXCEPT ![p] = @ \cup {x}]
      /\ recipes \subseteq recipes' /\ recipes' \subseteq recipes \cup {x.edition}
      /\ Hold(p, {x.edition}) /\ UNCHANGED <<watermarks, running, knownMarks, damages>>
    BY DEF Readmit
<1>2. x.edition \in Editions /\ x.revision \in Nat
    BY RevisionsAreNaturals DEF Records
<1>3. held' \in [Procs -> SUBSET Editions]
    BY <1>1, <1>2 DEF Hold, IInv, TypeOK
<1>4. /\ knownRows' \in [Procs -> SUBSET Records]
      /\ \A q \in Procs : knownRows'[q] \subseteq knownRows[q] \cup {x}
    BY <1>1 DEF IInv, TypeOK
<1>5. Covered
    BY <1>1 DEF IInv, CoverInv
<1>6. Pinned(bulletins')
    <2>1. \A y \in bulletins : y.bulletin = x.bulletin => y.publisher = x.publisher /\ y.revision # x.revision
        BY <1>1, <1>5 DEF Covered, Covers, SameKey, Shown, IInv, OneEach
    <2> QED BY <1>1, <2>1 DEF IInv, Pinned
<1>7. TypeOK'
    <2>1. \A y, z \in bulletins' : y.bulletin = z.bulletin /\ y.revision = z.revision => y = z
        BY <1>6 DEF Pinned
    <2>2. bulletins' \subseteq Records /\ recipes' \subseteq Editions
        BY <1>1, <1>2 DEF IInv, TypeOK
    <2> QED BY <1>1, <1>3, <1>4, <2>1, <2>2 DEF IInv, TypeOK, SameKey
<1>8. Covered'
    BY <1>1, <1>2, <1>5 DEF Covered, Covers, SameKey
<1>9. MemoryInv'
    BY <1>1, <1>2, <1>4 DEF IInv, MemoryInv, Below, SameKey
<1>10. ContentInv'
    BY <1>1 DEF IInv, ContentInv
<1>11. OneEach(watermarks)'
    BY <1>1 DEF IInv, OneEach
<1> QED BY <1>6, <1>7, <1>8, <1>9, <1>10, <1>11 DEF IInv, CoverInv

LEMMA PruneStep == ASSUME IInv, NEW p \in Procs, Prune(p) PROVE IInv'
<1>1. /\ p \in running /\ bulletins' \subseteq bulletins
      /\ knownRows' = [knownRows EXCEPT ![p] = StillThere(@, bulletins')]
      /\ UNCHANGED <<watermarks, recipes, damages, running, knownMarks, held>>
    BY DEF Prune
<1>2. /\ knownRows' \in [Procs -> SUBSET Records]
      /\ \A q \in Procs : knownRows'[q] \subseteq knownRows[q]
    BY <1>1 DEF StillThere, IInv, TypeOK
<1>3. TypeOK'
    BY <1>1, <1>2 DEF IInv, TypeOK, SameKey
<1>4. Pinned(bulletins)' /\ OneEach(watermarks)'
    BY <1>1 DEF IInv, Pinned, OneEach
<1>5. Covered'
    BY <1>1 DEF IInv, CoverInv, Covered, Covers, SameKey
<1>6. MemoryInv'
    BY <1>1, <1>2 DEF IInv, MemoryInv, Below, SameKey
<1>7. ContentInv'
    BY <1>1 DEF IInv, ContentInv
<1> QED BY <1>3, <1>4, <1>5, <1>6, <1>7 DEF IInv, CoverInv

LEMMA DamageStep == ASSUME IInv, NEW e \in Editions, Damage(e) PROVE IInv'
<1>1. /\ damages' = damages + 1 /\ recipes' \subseteq recipes
      /\ UNCHANGED <<bulletins, watermarks, running, knownMarks, knownRows, held>>
    BY DEF Damage, memory
<1>2. damages' \in Nat /\ damages' # 0
    BY <1>1 DEF IInv, TypeOK
<1>3. TypeOK'
    BY <1>1, <1>2 DEF IInv, TypeOK, SameKey
<1>4. Pinned(bulletins)' /\ OneEach(watermarks)' /\ CoverInv' /\ MemoryInv'
    BY <1>1 DEF IInv, Pinned, OneEach, CoverInv, Covered, Covers, SameKey, MemoryInv, Below
<1>5. ContentInv'
    BY <1>2 DEF ContentInv
<1> QED BY <1>3, <1>4, <1>5 DEF IInv

LEMMA NextInv == ASSUME IInv, [Next]_vars PROVE IInv'
<1>1. CASE UNCHANGED vars
    BY <1>1 DEF vars, database, memory, IInv, TypeOK, SameKey, Pinned, OneEach, CoverInv, Covered,
                Covers, MemoryInv, Below, ContentInv
<1>2. CASE Next
    BY <1>2, OpenStep, StopStep, PruneStep, AdmitStep, CompareStep, ReadmitStep, ReadmitFailsStep,
       PublishStep, DamageStep DEF Next
<1> QED BY <1>1, <1>2

\* The inductive invariant holds in every reachable state.
THEOREM StoreInvariance == Spec => []IInv
BY InitInv, NextInv, PTL DEF Spec

\* Tables and memory keep their types, and the tables their keys.
THEOREM StoreTypeCorrect == Spec => []TypeOK
<1>1. IInv => TypeOK BY DEF IInv
<1> QED BY StoreInvariance, <1>1, PTL

\* While any process serves, what pruning removed cannot come back in another
\* edition or from another publisher: each row is below the watermark of its
\* bulletin, and equal to it at its revision.
THEOREM DisplayIsCovered == Spec => []WatermarksCoverDisplay
<1>1. IInv => WatermarksCoverDisplay
    BY DEF IInv, CoverInv, Covered, Covers, WatermarksCoverDisplay
<1> QED BY StoreInvariance, <1>1, PTL

\* No process remembers a revision the shared database does not know.
THEOREM MemoryIsBehind == Spec => []MemoryNeverAhead
<1>1. IInv => MemoryNeverAhead
    BY DEF IInv, TypeOK, MemoryInv, Below, MemoryNeverAhead
<1> QED BY StoreInvariance, <1>1, PTL

\* Unless recipes are damaged on disk, the database has the content of every row.
THEOREM ContentIsThere == Spec => []DisplayedIsFetchable
<1>1. IInv => DisplayedIsFetchable
    BY DEF IInv, ContentInv, DisplayedIsFetchable
<1> QED BY StoreInvariance, <1>1, PTL

-----------------------------------------------------------------------------
(* Refinement. *)

LEMMA NothingNewer ==
    ASSUME NEW marks \in SUBSET Records, NEW rows \in SUBSET Records, OneEach(marks),
           \A y \in rows : \E m \in marks : Covers(m, y)
    PROVE  Upsert(marks, Newest(rows)) = marks
<1>1. Newest(rows) \in SUBSET rows
    BY DEF Newest
<1>2. Below(Newest(rows), marks)
    BY <1>1 DEF Covers, Below
<1> QED BY <1>1, <1>2, UpsertOfOld

LEMMA InitRegister == Init => Register!RegisterInit
<1> SUFFICES ASSUME Init PROVE Register!RegisterInit
    OBVIOUS
<1>1. Known = Newest(bulletins)
    BY UpsertIntoNothing DEF Known, Init
<1>2. Newest(bulletins) = {x \in bulletins : \A y \in bulletins : y.bulletin = x.bulletin => y.revision <= x.revision}
    BY DEF Init, Newest, SameKey
<1> QED BY <1>1, <1>2 DEF Init, Register!RegisterInit

LEMMA NextRegister ==
    ASSUME IInv, IInv', [Next]_vars
    PROVE  [Register!RegisterNext]_Register!registerVars
<1>1. Covered => Known = watermarks
    BY NothingNewer DEF Known, Covered, IInv, TypeOK
<1>2. Covered' => Known' = watermarks'
    BY NothingNewer DEF Known, Covered, IInv, TypeOK
<1>3. ASSUME bulletins' = bulletins, watermarks' = watermarks
      PROVE  [Register!RegisterNext]_Register!registerVars
    BY <1>3 DEF Register!registerVars, Known, Upsert, Newest, SameKey
<1>4. ASSUME NEW p \in Procs, Open(p) PROVE [Register!RegisterNext]_Register!registerVars
    <2>1. bulletins' = bulletins
        BY <1>4 DEF Open
    <2>2. CASE Covered
        <3>1. watermarks' = watermarks
            BY <1>4, <2>2, OpenFacts
        <3> QED BY <1>3, <2>1, <3>1
    <2>3. CASE ~Covered
        <3>1. watermarks = {} /\ watermarks' = Newest(bulletins) /\ Covered'
            BY <1>4, <2>3, OpenFacts
        <3>2. Known = Newest(bulletins)
            BY <3>1, UpsertIntoNothing DEF Known
        <3>3. Known' = Known
            BY <1>2, <3>1, <3>2
        <3> QED BY <2>1, <3>3 DEF Register!registerVars
    <2> QED BY <2>2, <2>3
<1>5. ASSUME NEW p \in Procs, NEW x \in Records, Admit(p, x)
      PROVE  [Register!RegisterNext]_Register!registerVars
    <2>1. /\ Covered
          /\ \A m \in watermarks : m.bulletin = x.bulletin =>
               m.publisher = x.publisher /\ m.revision < x.revision
          /\ watermarks' = {m \in watermarks : m.bulletin # x.bulletin} \cup {x}
          /\ bulletins' = bulletins \cup {x}
        BY <1>5, AdmitFacts
    <2>2. Covered'
        BY <1>5 DEF IInv, CoverInv, Admit
    <2>3. Known = watermarks /\ Known' = watermarks'
        BY <1>1, <1>2, <2>1, <2>2
    <2>4. Register!Publish(x)
        BY <2>1, <2>3 DEF Register!Publish
    <2> QED BY <2>4 DEF Register!RegisterNext
<1>6. ASSUME NEW p \in Procs, NEW x \in Records, Readmit(p, x)
      PROVE  [Register!RegisterNext]_Register!registerVars
    <2>1. /\ p \in running /\ running' = running /\ x \in watermarks
          /\ watermarks' = watermarks /\ bulletins' = bulletins \cup {x}
        BY <1>6 DEF Readmit
    <2>2. Covered /\ Covered'
        BY <2>1 DEF IInv, CoverInv
    <2>3. Register!Show(x)
        BY <1>1, <1>2, <2>1, <2>2 DEF Register!Show
    <2> QED BY <2>3 DEF Register!RegisterNext
<1>7. ASSUME NEW p \in Procs, Prune(p) PROVE [Register!RegisterNext]_Register!registerVars
    <2>1. /\ p \in running /\ running' = running
          /\ watermarks' = watermarks /\ bulletins' \subseteq bulletins
        BY <1>7 DEF Prune
    <2>2. Covered /\ Covered'
        BY <2>1 DEF IInv, CoverInv
    <2>3. Register!Hide
        BY <1>1, <1>2, <2>1, <2>2 DEF Register!Hide
    <2> QED BY <2>3 DEF Register!RegisterNext
<1>8. ASSUME NEW p \in Procs, NEW x \in Records, Compare(p, x) \/ ReadmitFails(p, x)
      PROVE  [Register!RegisterNext]_Register!registerVars
    BY <1>3, <1>8 DEF Compare, ReadmitFails, database
<1>9. ASSUME NEW p \in Procs, NEW e \in Editions, Publish(p, e) \/ Fetch(p, e)
      PROVE  [Register!RegisterNext]_Register!registerVars
    BY <1>3, <1>9 DEF Publish, Fetch, database
<1>10. ASSUME NEW p \in Procs, Stop(p) PROVE [Register!RegisterNext]_Register!registerVars
    BY <1>3, <1>10 DEF Stop, database
<1>11. ASSUME NEW e \in Editions, Damage(e) PROVE [Register!RegisterNext]_Register!registerVars
    BY <1>3, <1>11 DEF Damage
<1>12. CASE UNCHANGED vars
    BY <1>3, <1>12 DEF vars, database
<1>13. CASE Next
    BY <1>4, <1>5, <1>6, <1>7, <1>8, <1>9, <1>10, <1>11, <1>13 DEF Next
<1> QED BY <1>12, <1>13

\* Whatever the processes do, and whenever they stop, the display changes as one
\* register would: a bulletin keeps its first publisher, its record is replaced only
\* by a higher revision, and nothing but its current record is shown again.
THEOREM StoreImplementsRegister == Spec => ImplementsRegister
BY InitRegister, NextRegister, StoreInvariance, PTL DEF Spec, ImplementsRegister, Register!RegisterSpec
=============================================================================
