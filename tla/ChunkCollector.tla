---------------------------- MODULE ChunkCollector ----------------------------
(***************************************************************************)
(* What a fountain receiver promises its callers: per session, a media     *)
(* manifest and the set of its chunks that have been rebuilt.  A chunk of  *)
(* a registered session, once rebuilt, is lost only with its whole session *)
(* or where an operation below says so.                                    *)
(***************************************************************************)
EXTENDS Naturals

CONSTANTS
    Session, Media, NoMedia,
    ChunkCount    \* of each media

VARIABLES
    registered,   \* the media of each session, or NoMedia
    have,         \* its rebuilt chunks
    starts        \* how often the receiver has been restarted

vars == <<registered, have, starts>>

Chunks(m) == 0..(ChunkCount[m] - 1)

CollectorInit ==
    /\ registered = [s \in Session |-> NoMedia]
    /\ have = [s \in Session |-> {}] /\ starts = 0

\* Whole sessions go: expired, least recently used, or reset.
Without(gone) ==
    /\ registered' = [s \in Session |-> IF s \in gone THEN NoMedia ELSE registered[s]]
    /\ have' = [s \in Session |-> IF s \in gone THEN {} ELSE have[s]]
    /\ UNCHANGED starts

Drop == \E gone \in SUBSET Session : Without(gone)

\* A manifest arrives: chunks rebuilt before it may turn out to be its own.
Register(s, m) ==
    \E gone \in SUBSET (Session \ {s}), early \in SUBSET Chunks(m) :
        /\ registered' = [t \in Session |-> CASE t = s -> m
                                              [] t \in gone -> NoMedia
                                              [] OTHER -> registered[t]]
        /\ have' = [t \in Session |->
                      CASE t = s -> IF registered[s] = m THEN have[s] ELSE early
                        [] t \in gone -> {}
                        [] OTHER -> have[t]]
        /\ UNCHANGED starts

\* One more chunk of a registered session is rebuilt and verified.
Collect(s, c) ==
    /\ registered[s] # NoMedia
    /\ c \in Chunks(registered[s]) \ have[s]
    /\ \E gone \in SUBSET (Session \ {s}) :
          /\ registered' = [t \in Session |-> IF t \in gone THEN NoMedia ELSE registered[t]]
          /\ have' = [t \in Session |-> CASE t = s -> have[s] \cup {c}
                                          [] t \in gone -> {}
                                          [] OTHER -> have[t]]
          /\ UNCHANGED starts

\* A caller asks whether a session has another media: one chunk goes.
Misjudge(s) ==
    /\ registered[s] # NoMedia
    /\ \E c \in have[s] : have' = [have EXCEPT ![s] = @ \ {c}]
    /\ UNCHANGED <<registered, starts>>

\* A restart: what it finds is chunks of the media it finds.
Restart ==
    /\ starts' = starts + 1
    /\ registered' \in [Session -> Media \cup {NoMedia}]
    /\ \A s \in Session :
         IF registered'[s] = NoMedia THEN have'[s] = {} ELSE have'[s] \subseteq Chunks(registered'[s])

CollectorNext ==
    \/ Drop
    \/ \E s \in Session, m \in Media : Register(s, m)
    \/ \E s \in Session : \E c \in UNION {Chunks(m) : m \in Media} : Collect(s, c)
    \/ \E s \in Session : Misjudge(s)
    \/ Restart

Collector == CollectorInit /\ [][CollectorNext]_vars
=============================================================================
