---------------------------- MODULE LibrarySwitch ----------------------------
(***************************************************************************)
(* What an operator may rely on when a library is updated: one update at a *)
(* time is put on trial in the reader's catalog, and it is then either     *)
(* accepted, as the successor of the archive accepted before, or taken out *)
(* again.  Nothing else the catalog lists is touched, except by the        *)
(* operator, who may withdraw entries and list books of their own.         *)
(***************************************************************************)
EXTENDS Naturals

CONSTANTS Updates, Base, Extras, NoUpdate

VARIABLES accepted, trial, catalog, edits

switchVars == <<accepted, trial, catalog, edits>>

SwitchInit ==
    /\ accepted = [revision |-> 0, target |-> Base, descriptor |-> NoUpdate]
    /\ trial = NoUpdate
    /\ catalog = {Base}
    /\ edits = 0

Try(u) ==
    /\ trial = NoUpdate
    /\ u.revision > accepted.revision /\ u.base = accepted.target
    /\ trial' = u /\ catalog' = catalog \cup {u.target}
    /\ UNCHANGED <<accepted, edits>>

Accept ==
    /\ trial # NoUpdate /\ trial.target \in catalog
    /\ accepted' = [revision |-> trial.revision, target |-> trial.target, descriptor |-> trial]
    /\ trial' = NoUpdate
    /\ UNCHANGED <<catalog, edits>>

Undo ==
    /\ trial # NoUpdate
    /\ catalog' \in {catalog, catalog \ {trial.target}}
    /\ trial' = NoUpdate
    /\ UNCHANGED <<accepted, edits>>

Edit ==
    /\ edits' = edits + 1
    /\ catalog' \subseteq catalog \cup Extras
    /\ trial' \in {trial, NoUpdate}
    /\ UNCHANGED accepted

SwitchNext == Accept \/ Undo \/ Edit \/ \E u \in Updates : Try(u)

SwitchSpec == SwitchInit /\ [][SwitchNext]_switchVars
=============================================================================
