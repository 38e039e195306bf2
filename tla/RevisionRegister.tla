--------------------------- MODULE RevisionRegister ---------------------------
(***************************************************************************)
(* What a reader may rely on: each bulletin has one current record, which  *)
(* only its first publisher replaces, with a higher revision.  What is on  *)
(* display came there while it was current, and may be hidden at any time. *)
(***************************************************************************)
EXTENDS Naturals

CONSTANTS Records

VARIABLES current, display

registerVars == <<current, display>>

RegisterInit ==
    /\ display \in SUBSET Records
    /\ \A x, y \in display : x.bulletin = y.bulletin =>
         x.publisher = y.publisher /\ (x.revision = y.revision => x = y)
    /\ current = {x \in display : \A y \in display : y.bulletin = x.bulletin => y.revision <= x.revision}

Publish(x) ==
    /\ \A c \in current : c.bulletin = x.bulletin =>
         c.publisher = x.publisher /\ c.revision < x.revision
    /\ current' = {c \in current : c.bulletin # x.bulletin} \cup {x}
    /\ display' = display \cup {x}

Show(x) == x \in current /\ display' = display \cup {x} /\ UNCHANGED current

Hide == display' \subseteq display /\ UNCHANGED current

RegisterNext == Hide \/ \E x \in Records : Publish(x) \/ Show(x)

RegisterSpec == RegisterInit /\ [][RegisterNext]_registerVars
=============================================================================
